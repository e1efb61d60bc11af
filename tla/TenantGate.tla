----------------------------- MODULE TenantGate -----------------------------
(***************************************************************************)
(* The write requests of FacetHub (src/hubs/facet.rs) through TenantGate   *)
(* (src/tenant_gate.rs), as concurrent tasks over one store.               *)
(*                                                                         *)
(* A request runs from await to await.  Every await is one statement of    *)
(* the store, atomic in itself, and between two of them any other task may *)
(* run: the row a task read may have been changed, moved or deleted by the *)
(* time it writes.  One action below is one statement together with the    *)
(* code up to the next one.                                                *)
(*                                                                         *)
(* A task p is at                                                          *)
(*   "fetch"      FacetHub::update fetches the row it will patch,          *)
(*   "read"       the gate reads the facet the request names,              *)
(*   "readOther"  the gate reads the second facet: new parent, edge target,*)
(*   "write"      the statement that changes the tables,                   *)
(*   "idle"       no request, or the last one answered with reply[p].      *)
(***************************************************************************)
EXTENDS GatedStore, TLC

CONSTANTS
  Procs,        \* tasks that serve requests
  Keep,         \* a field an update leaves out
  Requests,     \* the requests callers may issue
  MaxRequests   \* bound: how many requests TLC lets callers issue

Ops == {"create", "update", "delete", "move", "link", "unlink"}

(***************************************************************************)
(* id is the facet named (from_id for an edge), other the new parent or    *)
(* to_id, set the fields given (None or absent in the call: Keep), and     *)
(* tenant what the caller put under meta_extra["tenant"]: nothing (Keep),  *)
(* a null (None) or a name.                                                *)
(***************************************************************************)
Request ==
  [op : Ops, caller : Callers, id : Ids, other : Parents, kind : Kinds \cup {None},
   set : [Columns -> Values \cup {Keep}], tenant : Callers \cup {Keep}]

WellFormed(r) ==
  /\ r.op \in {"link", "unlink"} => r.other # None /\ r.kind # None
  /\ r.op = "create" => \A c \in Columns : r.set[c] # Keep

ASSUME RequestAssumption ==
  /\ Requests \subseteq Request
  /\ \A r \in Requests : WellFormed(r)

ASSUME KeepAssumption == Keep \notin Values /\ Keep \notin Callers

ASSUME BoundAssumption == MaxRequests \in Nat

VARIABLES
  pc,      \* where each task is
  req,     \* its request
  row,     \* the row it holds: the copy to write, or the row it read
  reply,   \* its last answer
  begun    \* how many requests were issued

vars == <<facets, edges, minted, pc, req, row, reply, begun>>

Replies == {"none", "ok", "not_found", "forbidden", "unauthenticated", "failed"}

TypeOK ==
  /\ TablesOK
  /\ pc \in [Procs -> {"idle", "fetch", "read", "readOther", "write"}]
  /\ req \in [Procs -> Requests \cup {None}]
  /\ row \in [Procs -> Rows \cup {None}]
  /\ reply \in [Procs -> Replies]
  /\ begun \in Nat
  /\ \A p \in Procs : pc[p] # "idle" => req[p] \in Requests

Init ==
  /\ StoreInit
  /\ pc = [p \in Procs |-> "idle"]
  /\ req = [p \in Procs |-> None]
  /\ row = [p \in Procs |-> None]
  /\ reply = [p \in Procs |-> "none"]
  /\ begun = 0

EdgeOf(r) == [from |-> r.id, to |-> r.other, kind |-> r.kind]

(***************************************************************************)
(* Step and Answer: the task goes on holding a row, or is done.            *)
(***************************************************************************)
Step(p, place, held) ==
  /\ pc' = [pc EXCEPT ![p] = place]
  /\ row' = [row EXCEPT ![p] = held]
  /\ UNCHANGED <<req, reply, begun>>

Answer(p, answer) ==
  /\ pc' = [pc EXCEPT ![p] = "idle"]
  /\ row' = [row EXCEPT ![p] = None]
  /\ reply' = [reply EXCEPT ![p] = answer]
  /\ UNCHANGED <<req, begun>>

(***************************************************************************)
(* A call arrives.  TenantGate::from_auth resolves the caller; creating,   *)
(* moving and (un)linking answer an anonymous caller before any statement. *)
(***************************************************************************)
FirstPlace(op) ==
  CASE op = "create" -> "write"
    [] op = "update" -> "fetch"
    [] OTHER         -> "read"

Begin(p, r) ==
  /\ pc[p] = "idle"
  /\ begun < MaxRequests
  /\ begun' = begun + 1
  /\ req' = [req EXCEPT ![p] = r]
  /\ IF r.caller = None /\ r.op \notin {"update", "delete"}
       THEN /\ reply' = [reply EXCEPT ![p] = "unauthenticated"]
            /\ UNCHANGED pc
       ELSE /\ pc' = [pc EXCEPT ![p] = FirstPlace(r.op)]
            /\ reply' = [reply EXCEPT ![p] = "none"]
  /\ UNCHANGED <<facets, edges, minted, row>>

(***************************************************************************)
(* FacetUpdate::apply on the fetched row: only the fields given change,    *)
(* and the tenant follows meta_extra until the gate restores it.           *)
(***************************************************************************)
PatchedWholesale(r, f) == [f EXCEPT !.cols = r.set]

Patched(r, f) ==
  [f EXCEPT !.cols = [c \in Columns |-> IF r.set[c] = Keep THEN f.cols[c] ELSE r.set[c]],
            !.tenant = IF r.tenant = Keep THEN f.tenant ELSE r.tenant]

Fetch(p) ==
  /\ pc[p] = "fetch"
  /\ IF req[p].id \in Live
       THEN Step(p, "read", Patched(req[p], facets[req[p].id]))
       ELSE Answer(p, "not_found")
  /\ UNCHANGED tables

(***************************************************************************)
(* TenantGate::update and TenantGate::delete read the facet again, check   *)
(* it, and write in their next statement.  The update takes its tenant     *)
(* from this second read.                                                  *)
(***************************************************************************)
KeepForgedTenant(held, existing) == held

RestoreTenant(held, existing) == [held EXCEPT !.tenant = existing.tenant]

ReadForUpdate(p) ==
  /\ pc[p] = "read" /\ req[p].op = "update"
  /\ IF req[p].id \notin Live THEN Answer(p, "not_found")
     ELSE IF ~CanWrite(req[p].caller, facets[req[p].id]) THEN Answer(p, "forbidden")
     ELSE Step(p, "write", RestoreTenant(row[p], facets[req[p].id]))
  /\ UNCHANGED tables

ReadForDelete(p) ==
  /\ pc[p] = "read" /\ req[p].op = "delete"
  /\ IF req[p].id \notin Live THEN Answer(p, "not_found")
     ELSE IF ~CanWrite(req[p].caller, facets[req[p].id]) THEN Answer(p, "forbidden")
     ELSE Step(p, "write", None)
  /\ UNCHANGED tables

(***************************************************************************)
(* TenantGate::move_to: the source, then the new parent unless the facet   *)
(* becomes a root.  The row held is the source, for its old parent.        *)
(***************************************************************************)
ReadMoved(p) ==
  /\ pc[p] = "read" /\ req[p].op = "move"
  /\ IF req[p].id \notin Live THEN Answer(p, "not_found")
     ELSE IF ~CanWrite(req[p].caller, facets[req[p].id]) THEN Answer(p, "forbidden")
     ELSE Step(p, IF req[p].other = None THEN "write" ELSE "readOther",
                  facets[req[p].id])
  /\ UNCHANGED tables

ReadParentUnchecked(p) ==
  /\ pc[p] = "readOther" /\ req[p].op = "move"
  /\ IF req[p].other \notin Live THEN Answer(p, "not_found")
     ELSE Step(p, "write", row[p])
  /\ UNCHANGED tables

ReadParent(p) ==
  /\ pc[p] = "readOther" /\ req[p].op = "move"
  /\ IF req[p].other \notin Live THEN Answer(p, "not_found")
     ELSE IF ~CanWrite(req[p].caller, facets[req[p].other]) THEN Answer(p, "forbidden")
     ELSE Step(p, "write", row[p])
  /\ UNCHANGED tables

(***************************************************************************)
(* TenantGate::add_edge and remove_edge read both ends and then check both.*)
(* A missing end is a store error here, not the gate's NotFound.           *)
(***************************************************************************)
IsEdgeRequest(p) == req[p].op \in {"link", "unlink"}

ReadFrom(p) ==
  /\ pc[p] = "read" /\ IsEdgeRequest(p)
  /\ IF req[p].id \in Live
       THEN Step(p, "readOther", facets[req[p].id])
       ELSE Answer(p, "failed")
  /\ UNCHANGED tables

MayJoinFrom(t, from, to) == CanWrite(t, from)

MayJoin(t, from, to) == CanWrite(t, from) /\ CanWrite(t, to)

ReadTo(p) ==
  /\ pc[p] = "readOther" /\ IsEdgeRequest(p)
  /\ IF req[p].other \notin Live THEN Answer(p, "failed")
     ELSE IF ~MayJoin(req[p].caller, row[p], facets[req[p].other]) THEN Answer(p, "forbidden")
     ELSE Step(p, "write", None)
  /\ UNCHANGED tables

(***************************************************************************)
(* The writing statements.  Each may find that its row, or the row a       *)
(* foreign key needs, is gone by now: the store error becomes "failed".    *)
(*                                                                         *)
(* NewFacet::into_facet puts the caller's tenant next to whatever stands   *)
(* under meta_extra; TenantGate::create then overwrites it.                *)
(***************************************************************************)
NewRow(r) == [parent |-> r.other, tenant |-> r.caller, cols |-> r.set]

WriteCreate(p) ==
  /\ pc[p] = "write" /\ req[p].op = "create"
  /\ \/ /\ \E id \in Ids : CreateFacet(id, NewRow(req[p]))
        /\ Answer(p, "ok")
     \/ /\ ~ParentExists(facets, req[p].other)
        /\ Answer(p, "failed")
        /\ UNCHANGED tables

UpsertWrite(p) ==
  /\ pc[p] = "write" /\ req[p].op = "update"
  /\ facets' = InsertRow(facets, req[p].id, row[p])
  /\ Answer(p, "ok")
  /\ UNCHANGED <<edges, minted>>

WriteUpdate(p) ==
  /\ pc[p] = "write" /\ req[p].op = "update"
  /\ \/ UpdateFacet(req[p].id, row[p]) /\ Answer(p, "ok")
     \/ req[p].id \notin Live /\ Answer(p, "failed") /\ UNCHANGED tables

DeleteUnlessGone(p) ==
  /\ pc[p] = "write" /\ req[p].op = "delete"
  /\ \/ DeleteFacet(req[p].id)
     \/ req[p].id \notin Live /\ UNCHANGED tables
  /\ Answer(p, "ok")

WriteDelete(p) ==
  /\ pc[p] = "write" /\ req[p].op = "delete"
  /\ \/ DeleteFacet(req[p].id) /\ Answer(p, "ok")
     \/ req[p].id \notin Live /\ Answer(p, "failed") /\ UNCHANGED tables

WriteMove(p) ==
  /\ pc[p] = "write" /\ req[p].op = "move"
  /\ \/ MoveFacet(req[p].id, req[p].other) /\ Answer(p, "ok")
     \/ /\ req[p].id \notin Live \/ ~ParentExists(facets, req[p].other)
        /\ Answer(p, "failed")
        /\ UNCHANGED tables

WriteLink(p) ==
  /\ pc[p] = "write" /\ req[p].op = "link"
  /\ \/ AddEdge(EdgeOf(req[p])) /\ Answer(p, "ok")
     \/ ~EndsExist(facets, EdgeOf(req[p])) /\ Answer(p, "failed") /\ UNCHANGED tables

WriteUnlink(p) ==
  /\ pc[p] = "write" /\ req[p].op = "unlink"
  /\ RemoveEdge(EdgeOf(req[p]))
  /\ Answer(p, "ok")

(***************************************************************************)
(* A plan import or a flush inserts a row below the gate.                  *)
(***************************************************************************)
IngestBelow(id, new) ==
  /\ Ingest(id, new)
  /\ UNCHANGED <<pc, req, row, reply, begun>>

Read(p) ==
  \/ Fetch(p)
  \/ ReadForUpdate(p)
  \/ ReadForDelete(p)
  \/ ReadMoved(p)
  \/ ReadParent(p)
  \/ ReadFrom(p)
  \/ ReadTo(p)

Write(p) ==
  \/ WriteCreate(p)
  \/ WriteUpdate(p)
  \/ WriteDelete(p)
  \/ WriteMove(p)
  \/ WriteLink(p)
  \/ WriteUnlink(p)

Next ==
  \/ \E p \in Procs : (\E r \in Requests : Begin(p, r)) \/ Read(p) \/ Write(p)
  \/ \E id \in Ids, new \in Ingested : IngestBelow(id, new)

Spec == Init /\ [][Next]_vars

-----------------------------------------------------------------------------
(***************************************************************************)
(* The rows task p has checked and found writable by its caller.           *)
(***************************************************************************)
Cleared(p) ==
  CASE pc[p] = "write" /\ req[p].op \in {"update", "delete"}  -> {req[p].id}
    [] pc[p] = "readOther" /\ req[p].op = "move"              -> {req[p].id}
    [] pc[p] = "write" /\ req[p].op \in {"move", "link", "unlink"} ->
         {req[p].id, req[p].other} \ {None}
    [] OTHER -> {}

(***************************************************************************)
(* A check made in one statement is still good in the next: whatever other *)
(* tasks did in between, the row is gone for ever or is still writable by  *)
(* the caller.  The gate never checks again at the write, so this is what  *)
(* its read-then-write pattern rests on.                                   *)
(***************************************************************************)
Writable(t, i) == i \in minted /\ (i \in Live => CanWrite(t, facets[i]))

ClearanceHolds ==
  \A p \in Procs : \A i \in Cleared(p) : Writable(req[p].caller, i)

(***************************************************************************)
(* A row held past the gate's own read still bears the tenant its facet    *)
(* has, however old the copy is: the update about to be written restores   *)
(* the right tenant, the link about to be checked judges the right one.    *)
(***************************************************************************)
TenantCurrent(p) == req[p].id \in Live => row[p].tenant = facets[req[p].id].tenant

HeldTenantsCurrent ==
  \A p \in Procs :
    pc[p] \in {"readOther", "write"} /\ row[p] # None => TenantCurrent(p)

(***************************************************************************)
(* Concurrent requests behave like atomic ones that were authorised at the *)
(* moment they took effect.                                                *)
(***************************************************************************)
AtomicWrites == GatedSpec

(***************************************************************************)
(* A facet goes to a new place only when a move says so, and only a delete *)
(* of its parent makes it a root otherwise.  An update that read the facet *)
(* before the move and writes after it leaves the move standing.           *)
(***************************************************************************)
Places(p, i) ==
  \/ req[p].op = "move" /\ req[p].id = i /\ facets'[i].parent = req[p].other
  \/ req[p].op = "delete" /\ req[p].id = facets[i].parent /\ facets'[i].parent = None

MovesStick ==
  [][\A i \in Live \cap DOMAIN facets' :
       facets'[i].parent # facets[i].parent =>
         \E p \in Procs : pc[p] = "write" /\ pc'[p] = "idle" /\ Places(p, i)]_vars

(***************************************************************************)
(* An acknowledged delete is final: an update or a move that had read the  *)
(* facet before does not bring it back.                                    *)
(***************************************************************************)
Acknowledged(p, op) == pc[p] = "idle" /\ reply[p] = "ok" /\ req[p].op = op

DeletesAreFinal == \A p \in Procs : Acknowledged(p, "delete") => req[p].id \notin Live

(***************************************************************************)
(* Of several deletes of one facet exactly the one that removed it says so.*)
(***************************************************************************)
DeletedOnce ==
  \A p, q \in Procs :
    p # q /\ Acknowledged(p, "delete") /\ Acknowledged(q, "delete") => req[p].id # req[q].id

-----------------------------------------------------------------------------
(***************************************************************************)
(* Statements of the documentation that the runs named in the README show  *)
(* the code to break.                                                      *)
(*                                                                         *)
(* "None means leave the existing value unchanged" (FacetUpdate): an       *)
(* update that succeeds changes the fields it was given and no other.      *)
(***************************************************************************)
OmittedFieldsUnchanged ==
  [][\A p \in Procs :
       pc[p] = "write" /\ req[p].op = "update" /\ pc'[p] = "idle" /\ reply'[p] = "ok" =>
         LET i == req[p].id
         IN  \A c \in Columns : req[p].set[c] = Keep => facets'[i].cols[c] = facets[i].cols[c]]_vars

(***************************************************************************)
(* "every facet can contain child facets, forming an arbitrarily deep      *)
(* tree" (Facet): following parents from a facet never comes back to it.   *)
(***************************************************************************)
FacetsFormTrees == IsForest(facets)
=============================================================================
