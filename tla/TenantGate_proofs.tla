-------------------------- MODULE TenantGate_proofs --------------------------
(***************************************************************************)
(* Concurrent gate requests are atomic authorised writes: TenantGate       *)
(* implements GatedStore, for every number of tasks, facets and tenants    *)
(* and every set of requests.                                              *)
(*                                                                         *)
(* The argument turns on one fact: a uuid that was ever minted is never    *)
(* live again after its row is gone, and while the row lives its tenant    *)
(* does not change (MintedPersist).  What a task checked in an earlier     *)
(* statement therefore holds at its write (ClearanceHolds), and the copy   *)
(* an update writes back carries the right tenant (HeldTenantsCurrent).    *)
(* These are mutually dependent: the tenants persist because every update  *)
(* restores them, so they are proved together, in GateInv.                 *)
(***************************************************************************)
EXTENDS TenantGate, Store_proofs

(***************************************************************************)
(* What a task holds at each place.                                        *)
(***************************************************************************)
HeldRow(p) ==
  /\ pc[p] \in {"idle", "fetch"} => row[p] = None
  /\ pc[p] = "write" /\ req[p].op = "create" => row[p] = None /\ req[p].caller \in Tenants
  /\ pc[p] \in {"read", "write"} /\ req[p].op = "update" => row[p] \in Rows
  /\ pc[p] = "readOther" => row[p] \in Rows
  /\ pc[p] \in {"readOther", "write"} /\ row[p] # None =>
       req[p].id \in minted /\ TenantCurrent(p)

Clear(p) == \A i \in Cleared(p) : Writable(req[p].caller, i)

TaskInv(p) == HeldRow(p) /\ Clear(p)

GateInv == TypeOK /\ Integrity /\ \A p \in Procs : TaskInv(p)

LEMMA RequestTyped ==
  ASSUME NEW r \in Requests
  PROVE  /\ r.op \in Ops
         /\ r.caller \in Callers
         /\ r.id \in Ids
         /\ r.other \in Parents
         /\ r.set \in [Columns -> Values \cup {Keep}]
         /\ r.tenant \in Callers \cup {Keep}
         /\ r.op \in {"link", "unlink"} => r.other \in Ids /\ EdgeOf(r) \in Edges
         /\ r.op = "create" => r.set \in Contents
<1>1. r \in Request /\ WellFormed(r)
  BY RequestAssumption
<1>2. /\ r.op \in Ops /\ r.caller \in Callers /\ r.id \in Ids /\ r.other \in Parents
      /\ r.kind \in Kinds \cup {None}
      /\ r.set \in [Columns -> Values \cup {Keep}] /\ r.tenant \in Callers \cup {Keep}
  BY <1>1 DEF Request
<1>3. r.op \in {"link", "unlink"} => r.other \in Ids /\ r.kind \in Kinds
  BY <1>1, <1>2 DEF WellFormed, Parents
<1>4. r.op \in {"link", "unlink"} => EdgeOf(r) \in Edges
  BY <1>2, <1>3 DEF EdgeOf, Edges
<1>5. r.op = "create" => r.set \in Contents
  BY <1>1, <1>2 DEF WellFormed, Contents
<1> QED
  BY <1>2, <1>3, <1>4, <1>5

LEMMA PatchedTyped ==
  ASSUME NEW r \in Requests, NEW f \in Rows
  PROVE  Patched(r, f) \in Rows
<1>1. /\ r.set \in [Columns -> Values \cup {Keep}]
      /\ r.tenant \in Callers \cup {Keep}
  BY RequestTyped
<1>2. [c \in Columns |-> IF r.set[c] = Keep THEN f.cols[c] ELSE r.set[c]] \in Contents
  BY <1>1 DEF Rows, Contents
<1>3. (IF r.tenant = Keep THEN f.tenant ELSE r.tenant) \in Callers
  BY <1>1 DEF Rows
<1> QED
  BY <1>2, <1>3 DEF Patched, Rows

-----------------------------------------------------------------------------
(***************************************************************************)
(* Each writing step is a gated write of the task's caller, or changes no  *)
(* table.                                                                  *)
(***************************************************************************)
LEMMA CreateRefines ==
  ASSUME GateInv, NEW p \in Procs, WriteCreate(p)
  PROVE  [GatedNext]_tables
<1>1. /\ req[p] \in Requests /\ req[p].op = "create" /\ req[p].caller \in Tenants
  BY DEF WriteCreate, GateInv, TypeOK, TaskInv, HeldRow
<1>2. NewRow(req[p]) \in Rows /\ NewRow(req[p]).tenant = req[p].caller
  BY <1>1, RequestTyped DEF NewRow, Rows, Callers
<1>3. CASE \E id \in Ids : CreateFacet(id, NewRow(req[p]))
  BY <1>1, <1>2, <1>3 DEF GatedNext, GatedCreate
<1> QED
  BY <1>3 DEF WriteCreate

LEMMA UpdateRefines ==
  ASSUME GateInv, NEW p \in Procs, WriteUpdate(p)
  PROVE  [GatedNext]_tables
<1> DEFINE i == req[p].id
           new == [facets[i] EXCEPT !.cols = row[p].cols]
<1>1. /\ req[p] \in Requests /\ req[p].op = "update" /\ pc[p] = "write"
      /\ row[p] \in Rows /\ TenantCurrent(p)
  BY NoRowAssumption DEF WriteUpdate, GateInv, TypeOK, TaskInv, HeldRow
<1>2. i \in Ids /\ req[p].caller \in Callers
  BY <1>1, RequestTyped
<1>3. Writable(req[p].caller, i)
  BY <1>1 DEF GateInv, TaskInv, Clear, Cleared
<1>4. CASE UpdateFacet(i, row[p])
  <2>1. i \in Live /\ row[p].tenant = facets[i].tenant /\ facets[i] \in Rows
    BY <1>1, <1>4 DEF UpdateFacet, TenantCurrent, GateInv, TypeOK, TablesOK, IsTable, Live
  <2>2. new.cols = row[p].cols /\ new.tenant = row[p].tenant /\ row[p].cols \in Contents
    BY <1>1, <2>1 DEF Rows
  <2>3. UpdateFacet(i, new)
    BY <1>4, <2>2 DEF UpdateFacet, UpdateRow
  <2>4. CanWrite(req[p].caller, facets[i]) /\ req[p].caller \in Tenants
    BY <1>2, <1>3, <2>1 DEF Writable, CanWrite, Callers
  <2>5. GatedUpdate(req[p].caller, i, row[p].cols)
    BY <2>1, <2>3, <2>4 DEF GatedUpdate
  <2> QED
    BY <1>2, <2>2, <2>4, <2>5 DEF GatedNext
<1> QED
  BY <1>4 DEF WriteUpdate

LEMMA DeleteRefines ==
  ASSUME GateInv, NEW p \in Procs, WriteDelete(p)
  PROVE  [GatedNext]_tables
<1> DEFINE i == req[p].id
<1>1. req[p] \in Requests /\ Writable(req[p].caller, i)
  BY DEF WriteDelete, GateInv, TypeOK, TaskInv, Clear, Cleared
<1>2. i \in Ids /\ req[p].caller \in Callers
  BY <1>1, RequestTyped
<1>3. CASE DeleteFacet(i)
  <2>1. i \in Live /\ CanWrite(req[p].caller, facets[i])
    BY <1>1, <1>3 DEF DeleteFacet, Writable
  <2>2. req[p].caller \in Tenants
    BY <1>2, <2>1 DEF CanWrite, Callers
  <2> QED
    BY <1>2, <1>3, <2>1, <2>2 DEF GatedNext, GatedDelete
<1> QED
  BY <1>3 DEF WriteDelete

LEMMA MoveRefines ==
  ASSUME GateInv, NEW p \in Procs, WriteMove(p)
  PROVE  [GatedNext]_tables
<1> DEFINE i == req[p].id
           parent == req[p].other
<1>1. /\ req[p] \in Requests
      /\ \A j \in {i, parent} \ {None} : Writable(req[p].caller, j)
  BY DEF WriteMove, GateInv, TypeOK, TaskInv, Clear, Cleared
<1>2. i \in Ids /\ parent \in Parents /\ req[p].caller \in Callers /\ i # None
  BY <1>1, RequestTyped, NoneAssumption
<1>3. CASE MoveFacet(i, parent)
  <2>1. i \in Live /\ CanWrite(req[p].caller, facets[i])
    BY <1>1, <1>2, <1>3 DEF MoveFacet, Writable
  <2>2. parent # None => parent \in Live /\ CanWrite(req[p].caller, facets[parent])
    BY <1>1, <1>3 DEF MoveFacet, ParentExists, Writable, Live
  <2>3. req[p].caller \in Tenants
    BY <1>2, <2>1 DEF CanWrite, Callers
  <2> QED
    BY <1>2, <1>3, <2>1, <2>2, <2>3 DEF GatedNext, GatedMove
<1> QED
  BY <1>3 DEF WriteMove

LEMMA ClearedEnds ==
  ASSUME GateInv, NEW p \in Procs, pc[p] = "write", IsEdgeRequest(p),
         EndsExist(facets, EdgeOf(req[p]))
  PROVE  /\ EdgeOf(req[p]) \in Edges
         /\ req[p].caller \in Tenants
         /\ MayJoinEnds(req[p].caller, EdgeOf(req[p]))
<1>1. /\ req[p] \in Requests
      /\ \A j \in {req[p].id, req[p].other} \ {None} : Writable(req[p].caller, j)
  BY DEF IsEdgeRequest, GateInv, TypeOK, TaskInv, Clear, Cleared
<1>2. /\ EdgeOf(req[p]) \in Edges /\ req[p].caller \in Callers
      /\ req[p].id \in Ids /\ req[p].other \in Ids
  BY <1>1, RequestTyped DEF IsEdgeRequest
<1>3. req[p].id \in Live /\ req[p].other \in Live
  BY DEF EndsExist, EdgeOf, Live
<1>4. CanWrite(req[p].caller, facets[req[p].id]) /\ CanWrite(req[p].caller, facets[req[p].other])
  BY <1>1, <1>2, <1>3, NoneAssumption DEF Writable
<1>5. req[p].caller \in Tenants
  BY <1>2, <1>4 DEF CanWrite, Callers
<1> QED
  BY <1>2, <1>4, <1>5 DEF MayJoinEnds, EdgeOf

LEMMA LinkRefines ==
  ASSUME GateInv, NEW p \in Procs, WriteLink(p)
  PROVE  [GatedNext]_tables
<1>1. CASE AddEdge(EdgeOf(req[p]))
  <2>1. MayJoinEnds(req[p].caller, EdgeOf(req[p]))
        /\ EdgeOf(req[p]) \in Edges /\ req[p].caller \in Tenants
    BY <1>1, ClearedEnds DEF WriteLink, IsEdgeRequest, AddEdge
  <2> QED
    BY <1>1, <2>1 DEF GatedNext, GatedLink
<1> QED
  BY <1>1 DEF WriteLink

(***************************************************************************)
(* Unlinking does not look whether the ends are still there.  When one is  *)
(* gone the edge went with it, and removing it changes nothing.            *)
(***************************************************************************)
LEMMA UnlinkRefines ==
  ASSUME GateInv, NEW p \in Procs, WriteUnlink(p)
  PROVE  [GatedNext]_tables
<1>1. CASE EndsExist(facets, EdgeOf(req[p]))
  <2>1. MayJoinEnds(req[p].caller, EdgeOf(req[p]))
        /\ EdgeOf(req[p]) \in Edges /\ req[p].caller \in Tenants
    BY <1>1, ClearedEnds DEF WriteUnlink, IsEdgeRequest
  <2> QED
    BY <2>1 DEF WriteUnlink, GatedNext, GatedUnlink
<1>2. CASE ~EndsExist(facets, EdgeOf(req[p]))
  <2>1. EdgeOf(req[p]) \notin edges
    BY <1>2 DEF GateInv, Integrity, RefIntegrity, EdgeEndsExist
  <2> QED
    BY <2>1 DEF WriteUnlink, RemoveEdge, tables
<1> QED
  BY <1>1, <1>2

LEMMA StepRefines ==
  ASSUME GateInv, [Next]_vars
  PROVE  [GatedNext]_tables
<1>1. CASE \E p \in Procs : \E r \in Requests : Begin(p, r)
  BY <1>1 DEF Begin, tables
<1>2. CASE \E p \in Procs : Read(p)
  BY <1>2 DEF Read, Fetch, ReadForUpdate, ReadForDelete, ReadMoved, ReadParent, ReadFrom, ReadTo
<1>3. CASE \E p \in Procs : Write(p)
  BY <1>3, CreateRefines, UpdateRefines, DeleteRefines, MoveRefines, LinkRefines, UnlinkRefines
     DEF Write
<1>4. CASE \E id \in Ids, new \in Ingested : IngestBelow(id, new)
  BY <1>4 DEF IngestBelow, GatedNext
<1>5. CASE UNCHANGED vars
  BY <1>5 DEF vars, tables
<1> QED
  BY <1>1, <1>2, <1>3, <1>4, <1>5 DEF Next

-----------------------------------------------------------------------------
(***************************************************************************)
(* What a task knows survives any step in which it does not move.          *)
(***************************************************************************)
LEMMA OtherTask ==
  ASSUME GateInv, [GatedNext]_tables, NEW q \in Procs,
         pc'[q] = pc[q], req'[q] = req[q], row'[q] = row[q]
  PROVE  TaskInv(q)'
<1>1. TablesOK /\ HeldRow(q) /\ Clear(q)
  BY DEF GateInv, TypeOK, TaskInv
<1>2. \A i \in minted : Persist(i)
  BY <1>1, MintedPersist
<1>3. HeldRow(q)'
  BY <1>1, <1>2 DEF HeldRow, TenantCurrent, Persist
<1>4. Cleared(q)' = Cleared(q)
  BY DEF Cleared
<1>5. ASSUME NEW i \in Cleared(q) PROVE Writable(req[q].caller, i)'
  BY <1>1, <1>2, <1>5 DEF Clear, Writable, Persist, CanWrite, CanSee
<1>6. Clear(q)'
  BY <1>4, <1>5 DEF Clear
<1> QED
  BY <1>3, <1>6 DEF TaskInv

(***************************************************************************)
(* A task that has answered knows nothing, so nothing can be wrong.        *)
(***************************************************************************)
LEMMA AnsweredTask ==
  ASSUME GateInv, NEW p \in Procs, NEW answer \in Replies, Answer(p, answer)
  PROVE  TaskInv(p)'
<1>1. pc'[p] = "idle" /\ row'[p] = None
  BY DEF Answer, GateInv, TypeOK
<1>2. HeldRow(p)'
  BY <1>1 DEF HeldRow
<1>3. Clear(p)'
  BY <1>1 DEF Clear, Cleared
<1> QED
  BY <1>2, <1>3 DEF TaskInv

LEMMA BeginTask ==
  ASSUME GateInv, NEW p \in Procs, NEW r \in Requests, Begin(p, r)
  PROVE  TaskInv(p)'
<1>1. /\ row'[p] = None /\ req'[p] = r /\ minted' = minted
      /\ \/ pc'[p] = "idle"
         \/ pc'[p] = FirstPlace(r.op) /\ ~(r.caller = None /\ r.op \notin {"update", "delete"})
  BY DEF Begin, GateInv, TypeOK, TaskInv, HeldRow
<1>2. r.op \in Ops /\ r.caller \in Callers
  BY RequestTyped
<1>3. CASE r.op = "create"
  <2>1. pc'[p] = "idle" \/ (pc'[p] = "write" /\ r.caller \in Tenants)
    BY <1>1, <1>2, <1>3 DEF FirstPlace, Callers
  <2> QED
    BY <1>1, <1>3, <2>1 DEF TaskInv, HeldRow, Clear, Cleared
<1>4. CASE r.op = "update"
  <2>1. pc'[p] \in {"idle", "fetch"}
    BY <1>1, <1>4 DEF FirstPlace
  <2> QED
    BY <1>1, <2>1 DEF TaskInv, HeldRow, Clear, Cleared
<1>5. CASE r.op \notin {"create", "update"}
  <2>1. pc'[p] \in {"idle", "read"}
    BY <1>1, <1>5 DEF FirstPlace
  <2> QED
    BY <1>1, <1>5, <2>1 DEF TaskInv, HeldRow, Clear, Cleared
<1> QED
  BY <1>3, <1>4, <1>5

(***************************************************************************)
(* A reading step that goes on: what it has just read is current.          *)
(***************************************************************************)
LEMMA ReadTask ==
  ASSUME GateInv, NEW p \in Procs, Read(p)
  PROVE  TaskInv(p)'
<1> DEFINE r == req[p]
<1>1. pc[p] # "idle" /\ r \in Requests
  BY DEF Read, Fetch, ReadForUpdate, ReadForDelete, ReadMoved, ReadParent, ReadFrom, ReadTo,
         GateInv, TypeOK
<1>2. /\ r.op \in Ops /\ r.caller \in Callers /\ r.id \in Ids /\ r.other \in Parents
      /\ r.op \in {"link", "unlink"} => r.other \in Ids
      /\ r.id # None
  BY <1>1, RequestTyped, NoneAssumption
<1>3. /\ \A i \in Live : facets[i] \in Rows /\ i \in minted
      /\ HeldRow(p) /\ Clear(p)
  BY DEF GateInv, TypeOK, TablesOK, IsTable, Live, TaskInv
<1>4. ASSUME NEW answer \in Replies, Answer(p, answer) PROVE TaskInv(p)'
  BY <1>4, AnsweredTask
<1>5. ASSUME NEW place, NEW held, Step(p, place, held)
      PROVE  pc'[p] = place /\ row'[p] = held /\ req'[p] = r
  BY <1>5 DEF Step, GateInv, TypeOK
<1>6. UNCHANGED tables
  BY DEF Read, Fetch, ReadForUpdate, ReadForDelete, ReadMoved, ReadParent, ReadFrom, ReadTo
<1>7. CASE Fetch(p)
  <2>1. CASE r.id \in Live /\ Step(p, "read", Patched(r, facets[r.id]))
    <3>1. pc'[p] = "read" /\ row'[p] \in Rows /\ req'[p] = r
      BY <1>1, <1>3, <1>5, <2>1, PatchedTyped
    <3>2. HeldRow(p)' /\ Clear(p)'
      BY <3>1 DEF HeldRow, Clear, Cleared
    <3> QED
      BY <3>2 DEF TaskInv
  <2> QED
    BY <1>4, <1>7, <2>1 DEF Fetch, Replies
<1>8. CASE ReadForUpdate(p)
  <2>1. CASE /\ r.id \in Live
             /\ CanWrite(r.caller, facets[r.id])
             /\ Step(p, "write", RestoreTenant(row[p], facets[r.id]))
    <3>1. row[p] \in Rows /\ r.op = "update"
      BY <1>3, <1>8 DEF ReadForUpdate, HeldRow
    <3>2. /\ RestoreTenant(row[p], facets[r.id]) \in Rows
          /\ RestoreTenant(row[p], facets[r.id]).tenant = facets[r.id].tenant
      BY <1>3, <2>1, <3>1 DEF RestoreTenant, Rows
    <3>3. /\ pc'[p] = "write" /\ req'[p] = r /\ row'[p] \in Rows
          /\ row'[p].tenant = facets[r.id].tenant
      BY <1>5, <2>1, <3>2
    <3>4. HeldRow(p)'
      BY <1>3, <1>6, <2>1, <3>1, <3>3 DEF HeldRow, TenantCurrent, tables, Live
    <3>5. Clear(p)'
      BY <1>3, <1>6, <2>1, <3>1, <3>3 DEF Clear, Cleared, Writable, tables, Live
    <3> QED
      BY <3>4, <3>5 DEF TaskInv
  <2> QED
    BY <1>4, <1>8, <2>1 DEF ReadForUpdate, Replies
<1>9. CASE ReadForDelete(p)
  <2>1. CASE /\ r.id \in Live
             /\ CanWrite(r.caller, facets[r.id])
             /\ Step(p, "write", None)
    <3>1. pc'[p] = "write" /\ req'[p] = r /\ row'[p] = None /\ r.op = "delete"
      BY <1>5, <1>9, <2>1 DEF ReadForDelete
    <3>2. HeldRow(p)'
      BY <3>1 DEF HeldRow
    <3>3. Clear(p)'
      BY <1>3, <1>6, <2>1, <3>1 DEF Clear, Cleared, Writable, tables, Live
    <3> QED
      BY <3>2, <3>3 DEF TaskInv
  <2> QED
    BY <1>4, <1>9, <2>1 DEF ReadForDelete, Replies
<1>10. CASE ReadMoved(p)
  <2> DEFINE place == IF r.other = None THEN "write" ELSE "readOther"
  <2>1. CASE /\ r.id \in Live
             /\ CanWrite(r.caller, facets[r.id])
             /\ Step(p, place, facets[r.id])
    <3>1. /\ pc'[p] = place /\ req'[p] = r /\ row'[p] = facets[r.id] /\ r.op = "move"
      BY <1>5, <1>10, <2>1 DEF ReadMoved
    <3>2. HeldRow(p)'
      BY <1>3, <1>6, <2>1, <3>1 DEF HeldRow, TenantCurrent, tables, Live
    <3>3. Cleared(p)' = {r.id}
      BY <1>2, <3>1 DEF Cleared
    <3>4. Clear(p)'
      BY <1>3, <1>6, <2>1, <3>1, <3>3 DEF Clear, Writable, tables, Live
    <3> QED
      BY <3>2, <3>4 DEF TaskInv
  <2> QED
    BY <1>4, <1>10, <2>1 DEF ReadMoved, Replies
<1>11. CASE ReadParent(p)
  <2>1. CASE /\ r.other \in Live
             /\ CanWrite(r.caller, facets[r.other])
             /\ Step(p, "write", row[p])
    <3>1. pc'[p] = "write" /\ req'[p] = r /\ row'[p] = row[p]
          /\ pc[p] = "readOther" /\ r.op = "move"
      BY <1>5, <1>11, <2>1 DEF ReadParent
    <3>2. HeldRow(p)'
      BY <1>3, <1>6, <3>1 DEF HeldRow, TenantCurrent, tables, Live
    <3>3. Cleared(p)' = {r.id, r.other} \ {None} /\ Cleared(p) = {r.id}
      BY <3>1 DEF Cleared
    <3>4. Clear(p)'
      BY <1>3, <1>6, <2>1, <3>1, <3>3 DEF Clear, Writable, tables, Live
    <3> QED
      BY <3>2, <3>4 DEF TaskInv
  <2> QED
    BY <1>4, <1>11, <2>1 DEF ReadParent, Replies
<1>12. CASE ReadFrom(p)
  <2>1. CASE r.id \in Live /\ Step(p, "readOther", facets[r.id])
    <3>1. pc'[p] = "readOther" /\ req'[p] = r /\ row'[p] = facets[r.id]
          /\ r.op \in {"link", "unlink"}
      BY <1>5, <1>12, <2>1 DEF ReadFrom, IsEdgeRequest
    <3>2. HeldRow(p)'
      BY <1>3, <1>6, <2>1, <3>1 DEF HeldRow, TenantCurrent, tables, Live
    <3>3. Clear(p)'
      BY <3>1 DEF Clear, Cleared
    <3> QED
      BY <3>2, <3>3 DEF TaskInv
  <2> QED
    BY <1>4, <1>12, <2>1 DEF ReadFrom, Replies
<1>13. CASE ReadTo(p)
  <2>1. CASE /\ r.other \in Live
             /\ MayJoin(r.caller, row[p], facets[r.other])
             /\ Step(p, "write", None)
    <3>1. pc'[p] = "write" /\ req'[p] = r /\ row'[p] = None
          /\ pc[p] = "readOther" /\ r.op \in {"link", "unlink"}
      BY <1>5, <1>13, <2>1 DEF ReadTo, IsEdgeRequest
    <3>2. HeldRow(p)'
      BY <3>1 DEF HeldRow
    <3>3. r.id \in minted /\ TenantCurrent(p)
      BY <1>3, <3>1, NoRowAssumption DEF HeldRow
    <3>4. Writable(r.caller, r.id) /\ Writable(r.caller, r.other)
      BY <1>3, <2>1, <3>3 DEF TenantCurrent, MayJoin, Writable, CanWrite, CanSee
    <3>5. Cleared(p)' \subseteq {r.id, r.other}
      BY <3>1 DEF Cleared
    <3>6. Clear(p)'
      BY <1>6, <3>1, <3>4, <3>5 DEF Clear, Writable, tables, Live
    <3> QED
      BY <3>2, <3>6 DEF TaskInv
  <2> QED
    BY <1>4, <1>13, <2>1 DEF ReadTo, Replies
<1> QED
  BY <1>7, <1>8, <1>9, <1>10, <1>11, <1>12, <1>13 DEF Read

(***************************************************************************)
(* A writing step answers.                                                 *)
(***************************************************************************)
LEMMA WriteAnswers ==
  ASSUME NEW p \in Procs, Write(p)
  PROVE  \E answer \in Replies : Answer(p, answer)
BY DEF Write, WriteCreate, WriteUpdate, WriteDelete, WriteMove, WriteLink, WriteUnlink, Replies

LEMMA GateInit == Init => GateInv
<1> SUFFICES ASSUME Init PROVE GateInv
  OBVIOUS
<1>1. TablesOK /\ Integrity
  BY StoreInitInv DEF Init, StoreInv
<1>2. TypeOK
  BY <1>1 DEF Init, TypeOK, Replies
<1>3. ASSUME NEW p \in Procs PROVE TaskInv(p)
  BY DEF Init, TaskInv, HeldRow, Clear, Cleared
<1> QED
  BY <1>1, <1>2, <1>3 DEF GateInv

(***************************************************************************)
(* A reading step answers, or goes on with a row it fetched or kept.       *)
(***************************************************************************)
LEMMA ReadGoesOn ==
  ASSUME GateInv, NEW p \in Procs, Read(p)
  PROVE  \/ \E answer \in Replies : Answer(p, answer)
         \/ \E place \in {"read", "readOther", "write"}, held \in Rows \cup {None} :
              Step(p, place, held)
<1>1. /\ row[p] \in Rows \cup {None}
      /\ \A i \in Live : facets[i] \in Rows
      /\ pc[p] # "idle" => req[p] \in Requests
  BY DEF GateInv, TypeOK, TablesOK, IsTable, Live
<1>2. CASE Fetch(p)
  BY <1>1, <1>2, PatchedTyped DEF Fetch, Replies
<1>3. CASE ReadForUpdate(p)
  <2>1. row[p] \in Rows
    BY <1>3 DEF ReadForUpdate, GateInv, TaskInv, HeldRow
  <2>2. \A i \in Live : RestoreTenant(row[p], facets[i]) \in Rows
    BY <1>1, <2>1 DEF RestoreTenant, Rows
  <2> QED
    BY <1>3, <2>2 DEF ReadForUpdate, Replies
<1>4. CASE ReadForDelete(p) \/ ReadFrom(p) \/ ReadTo(p)
  BY <1>1, <1>4 DEF ReadForDelete, ReadFrom, ReadTo, Replies
<1>5. CASE ReadMoved(p)
  BY <1>1, <1>5 DEF ReadMoved, Replies
<1>6. CASE ReadParent(p)
  BY <1>1, <1>6 DEF ReadParent, Replies
<1> QED
  BY <1>2, <1>3, <1>4, <1>5, <1>6 DEF Read

LEMMA TypesKept ==
  ASSUME GateInv, [Next]_vars
  PROVE  TypeOK' /\ Integrity'
<1>1. [StoreNext]_tables
  BY StepRefines, GatedStepIsStatement DEF GateInv, TypeOK
<1>2. TablesOK' /\ Integrity'
  BY <1>1, StoreNextInv DEF GateInv, TypeOK, StoreInv
<1> USE <1>2 DEF GateInv, TypeOK
<1>3. ASSUME NEW p \in Procs, NEW r \in Requests, Begin(p, r) PROVE TypeOK'
  BY <1>3 DEF Begin, FirstPlace, Replies
<1>4. ASSUME NEW p \in Procs, NEW answer \in Replies, Answer(p, answer) PROVE TypeOK'
  BY <1>4 DEF Answer
<1>5. ASSUME NEW p \in Procs, NEW place \in {"read", "readOther", "write"},
             NEW held \in Rows \cup {None}, Step(p, place, held), pc[p] # "idle"
      PROVE  TypeOK'
  BY <1>5 DEF Step
<1>6. ASSUME NEW p \in Procs, Read(p) PROVE pc[p] # "idle"
  BY <1>6 DEF Read, Fetch, ReadForUpdate, ReadForDelete, ReadMoved, ReadParent, ReadFrom, ReadTo
<1>7. ASSUME NEW p \in Procs, Read(p) PROVE TypeOK'
  BY <1>4, <1>5, <1>6, <1>7, ReadGoesOn
<1>8. ASSUME NEW p \in Procs, Write(p) PROVE TypeOK'
  BY <1>4, <1>8, WriteAnswers
<1>9. CASE \E id \in Ids, new \in Ingested : IngestBelow(id, new)
  BY <1>9 DEF IngestBelow
<1>10. CASE UNCHANGED vars
  BY <1>10 DEF vars
<1> QED
  BY <1>3, <1>7, <1>8, <1>9, <1>10 DEF Next

(***************************************************************************)
(* A step of task p leaves the other tasks where they are.                 *)
(***************************************************************************)
LEMMA OthersWait ==
  ASSUME GateInv, NEW p \in Procs, NEW q \in Procs \ {p},
         (\E r \in Requests : Begin(p, r)) \/ Read(p) \/ Write(p)
  PROVE  pc'[q] = pc[q] /\ req'[q] = req[q] /\ row'[q] = row[q]
<1> USE DEF GateInv, TypeOK
<1>1. CASE \E r \in Requests : Begin(p, r)
  BY <1>1 DEF Begin
<1>2. CASE \E answer \in Replies : Answer(p, answer)
  BY <1>2 DEF Answer
<1>3. CASE \E place \in {"read", "readOther", "write"}, held \in Rows \cup {None} :
             Step(p, place, held)
  BY <1>3 DEF Step
<1> QED
  BY <1>1, <1>2, <1>3, ReadGoesOn, WriteAnswers

LEMMA GateStep == GateInv /\ [Next]_vars => GateInv'
<1> SUFFICES ASSUME GateInv, [Next]_vars PROVE GateInv'
  OBVIOUS
<1>1. TypeOK' /\ Integrity'
  BY TypesKept
<1>2. [GatedNext]_tables
  BY StepRefines
<1>3. ASSUME NEW q \in Procs PROVE TaskInv(q)'
  <2>1. CASE pc'[q] = pc[q] /\ req'[q] = req[q] /\ row'[q] = row[q]
    BY <1>2, <2>1, OtherTask
  <2>2. CASE \E p \in Procs : (\E r \in Requests : Begin(p, r)) \/ Read(p) \/ Write(p)
    <3> PICK p \in Procs : (\E r \in Requests : Begin(p, r)) \/ Read(p) \/ Write(p)
      BY <2>2
    <3>1. CASE p # q
      BY <2>1, <3>1, OthersWait
    <3>2. CASE p = q
      BY <3>2, BeginTask, ReadTask, WriteAnswers, AnsweredTask
    <3> QED
      BY <3>1, <3>2
  <2>3. CASE UNCHANGED <<pc, req, row>>
    BY <2>1, <2>3
  <2> QED
    BY <2>2, <2>3 DEF Next, IngestBelow, vars
<1> QED
  BY <1>1, <1>3 DEF GateInv

LEMMA GateInvariance == Spec => []GateInv
BY GateInit, GateStep, PTL DEF Spec

-----------------------------------------------------------------------------
(***************************************************************************)
(* Tables, tasks and answers keep their types.                             *)
(***************************************************************************)
THEOREM TypeCorrect == Spec => []TypeOK
<1>1. GateInv => TypeOK
  BY DEF GateInv
<1> QED
  BY <1>1, GateInvariance, PTL

(***************************************************************************)
(* What a request checked in one statement still holds when a later one    *)
(* writes: the row is gone for ever or the caller may write it.            *)
(***************************************************************************)
THEOREM ClearancesHold == Spec => []ClearanceHolds
<1>1. GateInv => ClearanceHolds
  BY DEF GateInv, ClearanceHolds, TaskInv, Clear
<1> QED
  BY <1>1, GateInvariance, PTL

(***************************************************************************)
(* A held copy of a row bears the tenant its facet has now.                *)
(***************************************************************************)
THEOREM HeldTenantsAreCurrent == Spec => []HeldTenantsCurrent
<1>1. GateInv => HeldTenantsCurrent
  BY DEF GateInv, HeldTenantsCurrent, TaskInv, HeldRow
<1> QED
  BY <1>1, GateInvariance, PTL

(***************************************************************************)
(* The concurrent gate implements the atomic one: every interleaving of    *)
(* its requests is a sequence of writes that were authorised at the very   *)
(* moment they took effect.                                                *)
(***************************************************************************)
THEOREM GateIsAtomic == Spec => AtomicWrites
<1>1. GateInv /\ [Next]_vars => [GatedNext]_tables
  BY StepRefines
<1>2. Init => StoreInit
  BY DEF Init
<1> QED
  BY <1>1, <1>2, GateInvariance, PTL DEF Spec, AtomicWrites, GatedSpec

(***************************************************************************)
(* Hence no request changes the tenant of a stored facet.                  *)
(***************************************************************************)
THEOREM GateKeepsTenants == Spec => TenantFrozen
BY GateIsAtomic, GatedTenantFrozen DEF AtomicWrites

(***************************************************************************)
(* Nor does any interleaving of requests leave a parent or an end of an    *)
(* edge dangling.                                                          *)
(***************************************************************************)
THEOREM GateKeepsForeignKeys == Spec => []Integrity
<1>1. GateInv => Integrity
  BY DEF GateInv
<1> QED
  BY <1>1, GateInvariance, PTL

-----------------------------------------------------------------------------
(***************************************************************************)
(* Acknowledged deletes.  The facet was minted, so it stays gone.          *)
(***************************************************************************)
GoneForEver(p) == Acknowledged(p, "delete") => req[p].id \in minted \ Live

LEMMA AcknowledgedByWrite ==
  ASSUME GateInv, [Next]_vars, NEW p \in Procs, Acknowledged(p, "delete")'
  PROVE  \/ pc'[p] = pc[p] /\ req'[p] = req[p] /\ reply'[p] = reply[p]
         \/ /\ WriteDelete(p) /\ DeleteFacet(req[p].id) /\ req'[p] = req[p]
            /\ \A q \in Procs \ {p} : pc'[q] = pc[q]
<1> USE DEF GateInv, TypeOK, Acknowledged
<1>1. CASE \E q \in Procs, r \in Requests : Begin(q, r)
  BY <1>1 DEF Begin
<1>2. ASSUME NEW q \in Procs, NEW answer \in Replies, Answer(q, answer), q # p \/ answer # "ok"
      PROVE  pc'[p] = pc[p] /\ req'[p] = req[p] /\ reply'[p] = reply[p]
  BY <1>2 DEF Answer
<1>3. ASSUME NEW q \in Procs, NEW place \in {"read", "readOther", "write"}, NEW held,
             Step(q, place, held)
      PROVE  pc'[p] = pc[p] /\ req'[p] = req[p] /\ reply'[p] = reply[p]
  BY <1>3 DEF Step
<1>4. CASE \E q \in Procs : Read(q)
  <2> PICK q \in Procs : Read(q)
    BY <1>4
  <2>1. \/ \E answer \in Replies \ {"ok"} : Answer(q, answer)
        \/ \E place \in {"read", "readOther", "write"} : \E held : Step(q, place, held)
    BY DEF Read, Fetch, ReadForUpdate, ReadForDelete, ReadMoved, ReadParent, ReadFrom, ReadTo,
           Replies
  <2> QED
    BY <1>2, <1>3, <2>1
<1>5. CASE \E q \in Procs : Write(q)
  <2> PICK q \in Procs : Write(q)
    BY <1>5
  <2>1. CASE q # p
    BY <1>2, <2>1, WriteAnswers
  <2>2. CASE q = p /\ ~WriteDelete(p)
    <3>1. req[p].op # "delete" /\ req'[p] = req[p]
      BY <2>2, WriteAnswers
         DEF Write, WriteCreate, WriteUpdate, WriteMove, WriteLink, WriteUnlink, Answer
    <3> QED
      BY <3>1
  <2>3. CASE q = p /\ WriteDelete(p) /\ ~DeleteFacet(req[p].id)
    BY <1>2, <2>3 DEF WriteDelete, Replies
  <2>4. CASE q = p /\ WriteDelete(p) /\ DeleteFacet(req[p].id)
    BY <2>4 DEF WriteDelete, Answer
  <2> QED
    BY <2>1, <2>2, <2>3, <2>4
<1>6. CASE \E id \in Ids, new \in Ingested : IngestBelow(id, new)
  BY <1>6 DEF IngestBelow
<1>7. CASE UNCHANGED vars
  BY <1>7 DEF vars
<1> QED
  BY <1>1, <1>4, <1>5, <1>6, <1>7 DEF Next

DeletedInv ==
  /\ GateInv
  /\ \A p \in Procs : GoneForEver(p)
  /\ DeletedOnce

LEMMA DeletedStep == DeletedInv /\ [Next]_vars => DeletedInv'
<1> SUFFICES ASSUME DeletedInv, [Next]_vars PROVE DeletedInv'
  OBVIOUS
<1>1. GateInv /\ GateInv' /\ TablesOK
  BY GateStep DEF DeletedInv, GateInv, TypeOK
<1>2. \A i \in minted : Persist(i)
  BY <1>1, StepRefines, MintedPersist
<1>3. ASSUME NEW p \in Procs PROVE GoneForEver(p)'
  <2> SUFFICES ASSUME Acknowledged(p, "delete")' PROVE (req[p].id \in minted \ Live)'
    BY DEF GoneForEver
  <2>1. CASE pc'[p] = pc[p] /\ req'[p] = req[p] /\ reply'[p] = reply[p]
    BY <1>2, <2>1 DEF DeletedInv, GoneForEver, Acknowledged, Persist
  <2>2. CASE WriteDelete(p) /\ DeleteFacet(req[p].id) /\ req'[p] = req[p]
    BY <1>1, <2>2 DEF DeleteFacet, DeleteRow, TablesOK, Live
  <2> QED
    BY <1>1, <2>1, <2>2, AcknowledgedByWrite
<1>4. ASSUME NEW p \in Procs, NEW q \in Procs, p # q,
             Acknowledged(p, "delete")', Acknowledged(q, "delete")'
      PROVE  req'[p].id # req'[q].id
  <2> DEFINE Same(x) == pc'[x] = pc[x] /\ req'[x] = req[x] /\ reply'[x] = reply[x]
             Deletes(x) == /\ WriteDelete(x) /\ DeleteFacet(req[x].id) /\ req'[x] = req[x]
                           /\ \A y \in Procs \ {x} : pc'[y] = pc[y]
  <2>1. (Same(p) \/ Deletes(p)) /\ (Same(q) \/ Deletes(q))
    BY <1>1, <1>4, AcknowledgedByWrite
  <2>2. CASE Same(p) /\ Same(q)
    BY <1>4, <2>2 DEF DeletedInv, DeletedOnce, Acknowledged
  <2>3. CASE Same(p) /\ Deletes(q)
    <3>1. req[p].id \notin Live /\ req[q].id \in Live
      BY <1>4, <2>3 DEF DeletedInv, GoneForEver, Acknowledged, DeleteFacet
    <3> QED
      BY <2>3, <3>1
  <2>4. CASE Deletes(p) /\ Same(q)
    <3>1. req[q].id \notin Live /\ req[p].id \in Live
      BY <1>4, <2>4 DEF DeletedInv, GoneForEver, Acknowledged, DeleteFacet
    <3> QED
      BY <2>4, <3>1
  <2>5. CASE Deletes(p) /\ Deletes(q)
    BY <1>4, <2>5 DEF WriteDelete, Acknowledged
  <2> QED
    BY <2>1, <2>2, <2>3, <2>4, <2>5
<1> QED
  BY <1>1, <1>3, <1>4 DEF DeletedInv, DeletedOnce

LEMMA DeletedInvariance == Spec => []DeletedInv
<1>1. Init => DeletedInv
  BY GateInit DEF Init, DeletedInv, GoneForEver, DeletedOnce, Acknowledged
<1> QED
  BY <1>1, DeletedStep, PTL DEF Spec

(***************************************************************************)
(* A facet whose delete was acknowledged never comes back: no request that *)
(* had read it earlier, and no create, brings its id back to life.         *)
(***************************************************************************)
THEOREM DeletesFinal == Spec => []DeletesAreFinal
<1>1. DeletedInv => DeletesAreFinal
  BY DEF DeletedInv, GoneForEver, DeletesAreFinal
<1> QED
  BY <1>1, DeletedInvariance, PTL

(***************************************************************************)
(* Only one of several deletes of a facet is told that it removed it.      *)
(***************************************************************************)
THEOREM DeletesOnce == Spec => []DeletedOnce
<1>1. DeletedInv => DeletedOnce
  BY DEF DeletedInv
<1> QED
  BY <1>1, DeletedInvariance, PTL

-----------------------------------------------------------------------------
(***************************************************************************)
(* The writes that could disturb a place: an update assigns no parent, a   *)
(* move only its own facet's, a delete only its children's.                *)
(***************************************************************************)
LEMMA WritesKeepPlaces ==
  ASSUME GateInv, NEW p \in Procs, Write(p),
         NEW i \in Live \cap DOMAIN facets', facets'[i].parent # facets[i].parent
  PROVE  Places(p, i)
<1>1. IsTable(facets) /\ Live = DOMAIN facets
  BY DEF GateInv, TypeOK, TablesOK, Live
<1>2. CASE WriteUpdate(p)
  <2>1. row[p] \in Rows /\ req[p].id \in Ids
    BY <1>2, RequestTyped DEF WriteUpdate, GateInv, TypeOK, TaskInv, HeldRow
  <2>2. facets' = UpdateRow(facets, req[p].id, row[p]) /\ req[p].id \in DOMAIN facets
    BY <1>1, <1>2 DEF WriteUpdate, UpdateFacet, tables
  <2>3. \A j \in DOMAIN facets :
          UpdateRow(facets, req[p].id, row[p])[j].parent = facets[j].parent
    BY <1>1, <2>1, <2>2, UpdateKeepsTable
  <2> QED
    BY <1>1, <2>2, <2>3
<1>3. CASE WriteMove(p)
  <2>1. req[p].op = "move" /\ req[p].other \in Parents
    BY <1>3, RequestTyped DEF WriteMove, GateInv, TypeOK
  <2>2. facets' = SetParent(facets, req[p].id, req[p].other) /\ req[p].id \in DOMAIN facets
    BY <1>1, <1>3 DEF WriteMove, MoveFacet, tables
  <2>3. /\ \A j \in DOMAIN facets \ {req[p].id} :
             SetParent(facets, req[p].id, req[p].other)[j] = facets[j]
        /\ SetParent(facets, req[p].id, req[p].other)[req[p].id].parent = req[p].other
    BY <1>1, <2>1, <2>2, SetParentKeepsTable
  <2> QED
    BY <1>1, <2>1, <2>2, <2>3 DEF Places
<1>4. CASE WriteDelete(p)
  <2>1. /\ req[p].op = "delete" /\ req[p].id \in DOMAIN facets
        /\ facets' = DeleteRow(facets, req[p].id)
    BY <1>1, <1>4 DEF WriteDelete, DeleteFacet, tables
  <2>2. PICK id \in DOMAIN facets : id = req[p].id
    BY <2>1
  <2>3. DOMAIN DeleteRow(facets, id) = DOMAIN facets \ {id}
    BY <1>1, DeleteKeepsTable
  <2>4. \A j \in DOMAIN facets \ {id} :
          /\ DeleteRow(facets, id)[j].tenant = facets[j].tenant
          /\ facets[j].parent = id => DeleteRow(facets, id)[j].parent = None
          /\ facets[j].parent # id => DeleteRow(facets, id)[j].parent = facets[j].parent
    BY <1>1, DeleteKeepsTable
  <2> QED
    BY <1>1, <2>1, <2>2, <2>3, <2>4 DEF Places
<1>5. CASE WriteCreate(p)
  BY <1>1, <1>5 DEF WriteCreate, CreateFacet, InsertRow, tables, GateInv, TypeOK, TablesOK
<1>6. CASE WriteLink(p) \/ WriteUnlink(p)
  BY <1>6 DEF WriteLink, WriteUnlink, AddEdge, RemoveEdge, tables
<1> QED
  BY <1>2, <1>3, <1>4, <1>5, <1>6 DEF Write

(***************************************************************************)
(* A place changes only in the write of a move that says so, or of a       *)
(* delete of the parent: an update that read the facet before a move and   *)
(* writes after it leaves the move standing (update_facet and move_facet   *)
(* of store/sqlite.rs under the gate's tasks).                             *)
(***************************************************************************)
THEOREM MovesAreKept == Spec => MovesStick
<1> DEFINE Kept ==
      \A i \in Live \cap DOMAIN facets' :
        facets'[i].parent # facets[i].parent =>
          \E p \in Procs : pc[p] = "write" /\ pc'[p] = "idle" /\ Places(p, i)
<1>1. ASSUME GateInv, [Next]_vars PROVE [Kept]_vars
  <2> SUFFICES ASSUME NEW i \in Live \cap DOMAIN facets', Next,
                      facets'[i].parent # facets[i].parent
               PROVE  \E p \in Procs : pc[p] = "write" /\ pc'[p] = "idle" /\ Places(p, i)
    BY <1>1
  <2>1. ASSUME NEW p \in Procs, Write(p)
        PROVE  pc[p] = "write" /\ pc'[p] = "idle" /\ Places(p, i)
    <3>1. pc[p] = "write"
      BY <2>1 DEF Write, WriteCreate, WriteUpdate, WriteDelete, WriteMove, WriteLink, WriteUnlink
    <3>2. pc'[p] = "idle"
      BY <1>1, <2>1, WriteAnswers DEF Answer, GateInv, TypeOK
    <3> QED
      BY <1>1, <2>1, <3>1, <3>2, WritesKeepPlaces
  <2>2. ASSUME NEW id \in Ids, NEW new \in Ingested, IngestBelow(id, new) PROVE FALSE
    BY <1>1, <2>2 DEF IngestBelow, Ingest, CreateFacet, InsertRow, GateInv, TypeOK, TablesOK, Live
  <2>3. ASSUME NEW p \in Procs, Read(p) \/ \E r \in Requests : Begin(p, r) PROVE FALSE
    BY <2>3 DEF Read, Fetch, ReadForUpdate, ReadForDelete, ReadMoved, ReadParent, ReadFrom,
                ReadTo, Begin, tables
  <2> QED
    BY <2>1, <2>2, <2>3 DEF Next
<1>2. GateInv /\ [Next]_vars => [Kept]_vars
  BY <1>1
<1> QED
  BY <1>2, GateInvariance, PTL DEF Spec, MovesStick
=============================================================================
