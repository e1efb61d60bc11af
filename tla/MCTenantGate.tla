---------------------------- MODULE MCTenantGate ----------------------------
(***************************************************************************)
(* Instances of TenantGate for TLC.  Each run issues the requests of a few *)
(* kinds only, with every caller and every target, and starts from every   *)
(* database that ingestion can build on the given ids.                     *)
(***************************************************************************)
EXTENDS TenantGate

Blank == [c \in Columns |-> Keep]

Simple(ops) ==
  [op : ops, caller : Callers, id : Ids, other : {None}, kind : {None},
   set : {Blank}, tenant : {Keep}]

(***************************************************************************)
(* Updates that give one column, and put nothing, a null or a tenant's     *)
(* name under meta_extra["tenant"].                                        *)
(***************************************************************************)
Updates ==
  [op : {"update"}, caller : Callers, id : Ids, other : {None}, kind : {None},
   set : {[Blank EXCEPT ![c] = v] : c \in Columns, v \in Values},
   tenant : Callers \cup {Keep}]

Moves ==
  [op : {"move"}, caller : Callers, id : Ids, other : Parents, kind : {None},
   set : {Blank}, tenant : {Keep}]

Links ==
  [op : {"link", "unlink"}, caller : Callers, id : Ids, other : Ids, kind : Kinds,
   set : {Blank}, tenant : {Keep}]

Creates ==
  [op : {"create"}, caller : Callers, id : {CHOOSE i \in Ids : TRUE}, other : Parents,
   kind : {None}, set : Contents, tenant : {Keep}]

EditRequests == Updates \cup Moves \cup Simple({"delete"})

GraphRequests == Links \cup Creates \cup Simple({"delete"})

FirstContents == CHOOSE cols \in Contents : TRUE

StoredRows == [parent : Parents, tenant : Callers, cols : {FirstContents}]

PublicRows == [parent : Parents, tenant : {None}, cols : {FirstContents}]

Symmetry == Permutations(Procs) \cup Permutations(Tenants)

\* Edits name every id alike; Creates chooses one, so its run cannot swap them.
EditSymmetry == Symmetry \cup Permutations(Ids)
=============================================================================
