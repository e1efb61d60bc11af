------------------------------- MODULE Facets -------------------------------
(***************************************************************************)
(* The rows of trak's two core tables, facets and edges, and what each SQL *)
(* statement of src/store/sqlite.rs does to them.  There are no variables  *)
(* here: every operator maps table contents to table contents, so that the *)
(* modules that keep the tables (FacetStore, GatedStore, TenantGate, ...)  *)
(* share one definition of each statement.                                 *)
(*                                                                         *)
(* A facet row keeps what the properties tell apart: its parent, the       *)
(* tenant stored in meta.extra["tenant"], and the columns a user may edit  *)
(* (title, body, status, priority, ...) as a function from Columns.        *)
(***************************************************************************)
EXTENDS Integers, FiniteSets

CONSTANTS
  Ids,      \* the uuids that may ever be minted
  Tenants,  \* tenant names
  Columns,  \* the user-editable columns of a facet
  Values,   \* what such a column may hold
  Kinds,    \* edge kinds: depends_on, blocks, relates_to, duplicates
  None      \* Rust's Option::None: no parent, no tenant, anonymous caller

ASSUME NoneAssumption == None \notin Ids /\ None \notin Tenants

Parents == Ids \cup {None}
Callers == Tenants \cup {None}   \* a gate's caller: its tenant, or anonymous

Contents == [Columns -> Values]
Rows == [parent : Parents, tenant : Callers, cols : Contents]
ASSUME NoRowAssumption == None \notin Rows

Edges == [from : Ids, to : Ids, kind : Kinds]

(***************************************************************************)
(* The facets table is a function whose domain is the set of live ids.     *)
(***************************************************************************)
IsTable(fs) == DOMAIN fs \subseteq Ids /\ fs \in [DOMAIN fs -> Rows]

(***************************************************************************)
(* Foreign keys: facets.parent_id and both ends of an edge.                *)
(***************************************************************************)
ParentExists(fs, parent) == parent = None \/ parent \in DOMAIN fs
EndsExist(fs, e) == e.from \in DOMAIN fs /\ e.to \in DOMAIN fs

ParentsExist(fs) == \A i \in DOMAIN fs : ParentExists(fs, fs[i].parent)
EdgeEndsExist(fs, es) == \A e \in es : EndsExist(fs, e)
RefIntegrity(fs, es) == ParentsExist(fs) /\ EdgeEndsExist(fs, es)

(***************************************************************************)
(* INSERT INTO facets.  The caller has checked the foreign key.            *)
(***************************************************************************)
InsertRow(fs, id, row) ==
  [i \in DOMAIN fs \cup {id} |-> IF i = id THEN row ELSE fs[i]]

(***************************************************************************)
(* UPDATE facets SET title, body, status, owner, meta_json, updated_at:    *)
(* every editable column and the tenant kept in meta_json are overwritten, *)
(* parent_id is not among the assigned columns.                            *)
(***************************************************************************)
UpdateRowWithParent(fs, id, row) == [fs EXCEPT ![id] = row]

UpdateRow(fs, id, row) ==
  [fs EXCEPT ![id].cols = row.cols, ![id].tenant = row.tenant]

(***************************************************************************)
(* UPDATE facets SET parent_id.                                            *)
(***************************************************************************)
SetParent(fs, id, parent) == [fs EXCEPT ![id].parent = parent]

(***************************************************************************)
(* DELETE FROM facets, with the two foreign-key actions of the schema:     *)
(* children of the deleted row become roots (ON DELETE SET NULL) and its   *)
(* edges go with it (ON DELETE CASCADE).                                   *)
(***************************************************************************)
Orphaned(row, id) == IF row.parent = id THEN [row EXCEPT !.parent = None] ELSE row

DeleteRowKeepingChildren(fs, id) == [i \in DOMAIN fs \ {id} |-> fs[i]]

DeleteRowLiftingChildren(fs, id) ==
  [i \in DOMAIN fs \ {id} |->
     IF fs[i].parent = id THEN [fs[i] EXCEPT !.parent = fs[id].parent] ELSE fs[i]]

DeleteRow(fs, id) == [i \in DOMAIN fs \ {id} |-> Orphaned(fs[i], id)]

EdgesAfterDelete(es, id) == {e \in es : e.from # id /\ e.to # id}

(***************************************************************************)
(* The predicates of the tenant gate, for a caller t and a row.            *)
(***************************************************************************)
CanSee(t, row) == row.tenant = None \/ row.tenant = t

CanWrite(t, row) == t # None /\ CanSee(t, row)

(***************************************************************************)
(* The tree: who sits above whom.  Generation(fs, S, n) holds the rows     *)
(* reached from S in exactly n steps down.                                 *)
(***************************************************************************)
Children(fs, S) == {i \in DOMAIN fs : fs[i].parent \in S}

Roots(fs) == Children(fs, {None})

Generation(fs, S, n) ==
  LET gen[k \in 0 .. n] == IF k = 0 THEN S ELSE Children(fs, gen[k - 1])
  IN  gen[n]

Below(fs, S) ==
  UNION {Generation(fs, S, n) : n \in 0 .. Cardinality(DOMAIN fs)}

IsForest(fs) == \A i \in DOMAIN fs : i \notin Below(fs, Children(fs, {i}))
=============================================================================
