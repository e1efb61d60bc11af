---------------------------- MODULE Store_proofs ----------------------------
(***************************************************************************)
(* Theorems about the store, bare, gated and indexed, for every set of ids *)
(* and every sequence of statements: the tables keep their shape, their    *)
(* foreign keys hold, and facets change places only as PlaceIsStable says; *)
(* an atomic gated write is a statement of the store and changes nobody's  *)
(* tenant; the full-text index never loses a term of a live facet.         *)
(*                                                                         *)
(* First, what the statements of module Facets keep.  These lemmas are     *)
(* about arbitrary tables, for every module built on them to cite.         *)
(***************************************************************************)
EXTENDS GatedStore, SearchIndex, TLAPS, FiniteSetTheorems

(***************************************************************************)
(* INSERT INTO facets keeps the table a table, and its parents live when   *)
(* the new row's parent is (create_facet under the foreign key).           *)
(***************************************************************************)
LEMMA InsertKeepsTable ==
  ASSUME NEW fs, IsTable(fs), NEW id \in Ids, NEW row \in Rows
  PROVE  /\ IsTable(InsertRow(fs, id, row))
         /\ DOMAIN InsertRow(fs, id, row) = DOMAIN fs \cup {id}
BY DEF IsTable, InsertRow

LEMMA InsertKeepsParents ==
  ASSUME NEW fs, ParentsExist(fs), NEW id \in Ids, NEW row \in Rows,
         ParentExists(fs, row.parent)
  PROVE  ParentsExist(InsertRow(fs, id, row))
BY DEF ParentsExist, ParentExists, InsertRow

(***************************************************************************)
(* UPDATE facets: neither the set of rows nor any parent changes           *)
(* (update_facet does not assign parent_id).                               *)
(***************************************************************************)
LEMMA UpdateKeepsTable ==
  ASSUME NEW fs, IsTable(fs), NEW id \in DOMAIN fs, NEW row \in Rows
  PROVE  /\ IsTable(UpdateRow(fs, id, row))
         /\ DOMAIN UpdateRow(fs, id, row) = DOMAIN fs
         /\ \A i \in DOMAIN fs : UpdateRow(fs, id, row)[i].parent = fs[i].parent
         /\ \A i \in DOMAIN fs \ {id} : UpdateRow(fs, id, row)[i] = fs[i]
         /\ UpdateRow(fs, id, row)[id].tenant = row.tenant
<1>1. fs \in [DOMAIN fs -> Rows] /\ DOMAIN fs \subseteq Ids
  BY DEF IsTable
<1>2. UpdateRow(fs, id, row) \in [DOMAIN fs -> Rows]
  BY <1>1 DEF UpdateRow, Rows
<1>3. \A i \in DOMAIN fs : UpdateRow(fs, id, row)[i].parent = fs[i].parent
  BY <1>1 DEF UpdateRow, Rows
<1>4. \A i \in DOMAIN fs \ {id} : UpdateRow(fs, id, row)[i] = fs[i]
  BY <1>1 DEF UpdateRow, Rows
<1>5. UpdateRow(fs, id, row)[id].tenant = row.tenant
  BY <1>1 DEF UpdateRow, Rows
<1> QED
  BY <1>1, <1>2, <1>3, <1>4, <1>5 DEF IsTable

(***************************************************************************)
(* UPDATE facets SET parent_id: only the moved row's parent changes.       *)
(***************************************************************************)
LEMMA SetParentKeepsTable ==
  ASSUME NEW fs, IsTable(fs), NEW id \in DOMAIN fs, NEW parent \in Parents
  PROVE  /\ IsTable(SetParent(fs, id, parent))
         /\ DOMAIN SetParent(fs, id, parent) = DOMAIN fs
         /\ \A i \in DOMAIN fs \ {id} : SetParent(fs, id, parent)[i] = fs[i]
         /\ SetParent(fs, id, parent)[id].parent = parent
         /\ SetParent(fs, id, parent)[id].tenant = fs[id].tenant
BY DEF IsTable, SetParent, Rows

(***************************************************************************)
(* DELETE FROM facets: the row goes, its children become roots, and every  *)
(* other row stays as it was.                                              *)
(***************************************************************************)
LEMMA DeleteKeepsTable ==
  ASSUME NEW fs, IsTable(fs), NEW id \in DOMAIN fs
  PROVE  /\ IsTable(DeleteRow(fs, id))
         /\ DOMAIN DeleteRow(fs, id) = DOMAIN fs \ {id}
         /\ \A i \in DOMAIN fs \ {id} :
              /\ DeleteRow(fs, id)[i].tenant = fs[i].tenant
              /\ fs[i].parent = id => DeleteRow(fs, id)[i].parent = None
              /\ fs[i].parent # id => DeleteRow(fs, id)[i].parent = fs[i].parent
<1>1. \A i \in DOMAIN fs \ {id} :
        /\ Orphaned(fs[i], id) \in Rows
        /\ Orphaned(fs[i], id).tenant = fs[i].tenant
        /\ fs[i].parent = id => Orphaned(fs[i], id).parent = None
        /\ fs[i].parent # id => Orphaned(fs[i], id).parent = fs[i].parent
  BY DEF IsTable, Orphaned, Rows, Parents
<1>2. DeleteRow(fs, id) = [i \in DOMAIN fs \ {id} |-> Orphaned(fs[i], id)]
  BY DEF DeleteRow
<1> QED
  BY <1>1, <1>2 DEF IsTable

(***************************************************************************)
(* Any numbers have a first.                                               *)
(***************************************************************************)
LEMMA FirstExists ==
  ASSUME NEW T \in SUBSET Nat, T # {}
  PROVE  \E m \in T : \A k \in T : m <= k
<1> DEFINE initial == {0 .. k : k \in T}
<1>1. initial # {} /\ initial \subseteq FiniteSubsetsOf(Nat)
  <2>1. \A k \in T : 0 .. k \subseteq Nat /\ IsFiniteSet(0 .. k)
    BY FS_Interval
  <2> QED
    BY <2>1 DEF FiniteSubsetsOf
<1>2. PICK I \in initial : \A J \in initial : <<J, I>> \notin StrictSubsetOrdering(Nat)
  <2> HIDE DEF initial
  <2> QED
    BY <1>1, WFMin, FS_StrictSubsetOrderingWellFounded
<1>3. PICK m \in T : I = 0 .. m
  OBVIOUS
<1>4. ASSUME NEW k \in T, k < m PROVE FALSE
  <2>1. 0 .. k \in initial /\ 0 .. k \subseteq 0 .. m /\ m \notin 0 .. k /\ m \in 0 .. m
    BY <1>4
  <2>2. <<0 .. k, I>> \notin StrictSubsetOrdering(Nat)
    BY <1>2, <2>1
  <2>3. 0 .. k \in SUBSET Nat /\ 0 .. m \in SUBSET Nat /\ 0 .. k # 0 .. m
    BY <2>1
  <2> QED
    BY <1>3, <2>1, <2>2, <2>3 DEF StrictSubsetOrdering
<1> QED
  BY <1>4

(***************************************************************************)
(* Below nothing there is nothing: the first generation that is not empty  *)
(* would have empty ones before it.                                        *)
(***************************************************************************)
LEMMA NothingBelowNothing ==
  ASSUME NEW fs
  PROVE  Below(fs, {}) = {}
<1>1. Children(fs, {}) = {}
  BY DEF Children
<1> SUFFICES ASSUME NEW n \in 0 .. Cardinality(DOMAIN fs)
             PROVE  Generation(fs, {}, n) = {}
  BY DEF Below
<1> DEFINE Follows(g) == g = [k \in 0 .. n |-> IF k = 0 THEN {} ELSE Children(fs, g[k - 1])]
           gen == CHOOSE g : Follows(g)
<1>2. Generation(fs, {}, n) = gen[n]
  BY DEF Generation
<1> HIDE DEF gen
<1>3. Follows(gen)
  <2>1. Follows([k \in 0 .. n |-> {}])
    BY <1>1
  <2> QED
    BY <2>1 DEF gen
<1>4. ASSUME gen[n] # {} PROVE FALSE
  <2> DEFINE T == {k \in Nat : k \in 0 .. n /\ gen[k] # {}}
  <2>1. T \in SUBSET Nat /\ T # {}
    BY <1>4
  <2>2. PICK m \in T : \A k \in T : m <= k
    <3> HIDE DEF T
    <3> QED
      BY <2>1, FirstExists
  <2>3. m \in Nat /\ m \in 0 .. n /\ gen[m] # {}
    BY <2>2
  <2>4. m # 0
    BY <1>3, <2>3
  <2>5. m - 1 \in 0 .. n /\ m - 1 \in Nat /\ m - 1 < m
    BY <2>3, <2>4
  <2>6. \A k \in 0 .. n : gen[k] = IF k = 0 THEN {} ELSE Children(fs, gen[k - 1])
    BY <1>3
  <2>7. gen[m] = Children(fs, gen[m - 1])
    BY <2>3, <2>4, <2>6
  <2>8. gen[m - 1] = {}
    <3>1. m - 1 \notin T
      <4> HIDE DEF T
      <4> QED
        BY <2>2, <2>3, <2>5
    <3> QED
      BY <2>5, <3>1
  <2> QED
    BY <1>1, <2>3, <2>7, <2>8
<1> QED
  BY <1>2, <1>4

-----------------------------------------------------------------------------
(***************************************************************************)
(* The shape of the tables and their foreign keys are inductive together.  *)
(***************************************************************************)
StoreInv == TablesOK /\ Integrity

LEMMA StoreInitInv == StoreInit => StoreInv
<1> SUFFICES ASSUME StoreInit PROVE StoreInv
  OBVIOUS
<1>1. DOMAIN facets = {} /\ facets \in [{} -> Rows]
  BY DEF StoreInit
<1>2. IsTable(facets) /\ Live = {}
  BY <1>1 DEF IsTable, Live
<1> QED
  BY <1>1, <1>2 DEF StoreInit, StoreInv, TablesOK, Integrity, RefIntegrity, ParentsExist, EdgeEndsExist

(***************************************************************************)
(* One lemma per statement.                                                *)
(***************************************************************************)
LEMMA CreateInv ==
  ASSUME StoreInv, NEW id \in Ids, NEW row \in Rows, CreateFacet(id, row)
  PROVE  StoreInv'
<1> USE DEF StoreInv, TablesOK, Integrity, RefIntegrity, CreateFacet
<1>1. IsTable(facets') /\ DOMAIN facets' = Live \cup {id}
  BY InsertKeepsTable DEF Live
<1>2. ParentsExist(facets')
  BY InsertKeepsParents
<1>3. EdgeEndsExist(facets', edges')
  BY <1>1 DEF EdgeEndsExist, EndsExist, Live
<1> QED
  BY <1>1, <1>2, <1>3 DEF Live

LEMMA UpdateInv ==
  ASSUME StoreInv, NEW id \in Ids, NEW row \in Rows, UpdateFacet(id, row)
  PROVE  StoreInv'
<1> USE DEF StoreInv, TablesOK, Integrity, RefIntegrity, UpdateFacet, Live
<1>1. /\ IsTable(facets') /\ DOMAIN facets' = DOMAIN facets
      /\ \A i \in DOMAIN facets : facets'[i].parent = facets[i].parent
  BY UpdateKeepsTable
<1>2. ParentsExist(facets') /\ EdgeEndsExist(facets', edges')
  BY <1>1 DEF ParentsExist, ParentExists, EdgeEndsExist, EndsExist
<1> QED
  BY <1>1, <1>2

LEMMA MoveInv ==
  ASSUME StoreInv, NEW id \in Ids, NEW parent \in Parents, MoveFacet(id, parent)
  PROVE  StoreInv'
<1> USE DEF StoreInv, TablesOK, Integrity, RefIntegrity, MoveFacet, Live
<1>1. /\ IsTable(facets') /\ DOMAIN facets' = DOMAIN facets
      /\ \A i \in DOMAIN facets \ {id} : facets'[i] = facets[i]
      /\ facets'[id].parent = parent
  BY SetParentKeepsTable
<1>2. ParentsExist(facets') /\ EdgeEndsExist(facets', edges')
  BY <1>1 DEF ParentsExist, ParentExists, EdgeEndsExist, EndsExist
<1> QED
  BY <1>1, <1>2

LEMMA DeleteInv ==
  ASSUME StoreInv, NEW id \in Ids, DeleteFacet(id)
  PROVE  StoreInv'
<1> USE DEF StoreInv, TablesOK, Integrity, RefIntegrity, Live
<1>0. IsTable(facets) /\ id \in DOMAIN facets /\ facets' = DeleteRow(facets, id)
  BY DEF DeleteFacet
<1>1. /\ IsTable(facets')
      /\ DOMAIN facets' = DOMAIN facets \ {id}
      /\ \A i \in DOMAIN facets \ {id} :
           /\ facets'[i].tenant = facets[i].tenant
           /\ facets[i].parent = id => facets'[i].parent = None
           /\ facets[i].parent # id => facets'[i].parent = facets[i].parent
  <2> DEFINE gone == DeleteRow(facets, id)
  <2>1. IsTable(gone)
    BY <1>0, DeleteKeepsTable
  <2>2. DOMAIN gone = DOMAIN facets \ {id}
    BY <1>0, DeleteKeepsTable
  <2>3. \A i \in DOMAIN facets \ {id} :
           /\ gone[i].tenant = facets[i].tenant
           /\ facets[i].parent = id => gone[i].parent = None
           /\ facets[i].parent # id => gone[i].parent = facets[i].parent
    BY <1>0, DeleteKeepsTable
  <2> QED
    BY <1>0, <2>1, <2>2, <2>3
<1>2. ParentsExist(facets')
  BY <1>1 DEF ParentsExist, ParentExists
<1>3. EdgeEndsExist(facets', edges') /\ edges' \subseteq Edges
  BY <1>1 DEF EdgeEndsExist, EndsExist, EdgesAfterDelete, DeleteFacet
<1> QED
  BY <1>1, <1>2, <1>3 DEF DeleteFacet

LEMMA EdgeInv ==
  ASSUME StoreInv, NEW e \in Edges, AddEdge(e) \/ RemoveEdge(e)
  PROVE  StoreInv'
BY DEF StoreInv, TablesOK, Integrity, RefIntegrity, AddEdge, RemoveEdge, Live, EdgeEndsExist

LEMMA StoreNextInv == StoreInv /\ [StoreNext]_tables => StoreInv'
<1> SUFFICES ASSUME StoreInv, [StoreNext]_tables PROVE StoreInv'
  OBVIOUS
<1>1. CASE StoreNext
  BY <1>1, CreateInv, UpdateInv, MoveInv, DeleteInv, EdgeInv DEF StoreNext
<1>2. CASE UNCHANGED tables
  BY <1>2 DEF tables, StoreInv, TablesOK, Integrity, Live
<1> QED
  BY <1>1, <1>2

LEMMA StoreInvariance == StoreSpec => []StoreInv
<1> QED
  BY StoreInitInv, StoreNextInv, PTL DEF StoreSpec

(***************************************************************************)
(* The two tables keep their shape, and only minted ids are ever live.     *)
(***************************************************************************)
THEOREM TablesTypeCorrect == StoreSpec => []TablesOK
<1>1. StoreInv => TablesOK
  BY DEF StoreInv
<1> QED
  BY <1>1, StoreInvariance, PTL

(***************************************************************************)
(* No parent and no end of an edge ever dangles: the foreign keys, and the *)
(* two ON DELETE actions, hold through every sequence of statements.       *)
(***************************************************************************)
THEOREM ForeignKeysHold == StoreSpec => []Integrity
<1>1. StoreInv => Integrity
  BY DEF StoreInv
<1> QED
  BY <1>1, StoreInvariance, PTL

LEMMA StatementKeepsPlaces ==
  StoreInv /\ [StoreNext]_tables => [ReparentingIsMoveOrLostParent]_tables
<1> SUFFICES ASSUME StoreInv, StoreNext PROVE ReparentingIsMoveOrLostParent
  OBVIOUS
<1> USE DEF StoreInv, TablesOK, Live
<1>1. CASE \E id \in Ids, row \in Rows : CreateFacet(id, row)
  <2> PICK id \in Ids, row \in Rows : CreateFacet(id, row)
    BY <1>1
  <2>1. \A i \in Live : facets'[i] = facets[i]
    BY DEF CreateFacet, InsertRow
  <2> QED
    BY <2>1 DEF Reparented, ReparentingIsMoveOrLostParent
<1>2. CASE \E id \in Ids, row \in Rows : UpdateFacet(id, row)
  <2> PICK id \in Ids, row \in Rows : UpdateFacet(id, row)
    BY <1>2
  <2>1. \A i \in Live : facets'[i].parent = facets[i].parent
    <3>1. IsTable(facets) /\ id \in DOMAIN facets /\ facets' = UpdateRow(facets, id, row)
      BY DEF UpdateFacet
    <3>2. \A i \in DOMAIN facets : UpdateRow(facets, id, row)[i].parent = facets[i].parent
      BY <3>1, UpdateKeepsTable
    <3> QED
      BY <3>1, <3>2
  <2> QED
    BY <2>1 DEF Reparented, ReparentingIsMoveOrLostParent
<1>3. CASE \E id \in Ids, parent \in Parents : MoveFacet(id, parent)
  <2> PICK id \in Ids, parent \in Parents : MoveFacet(id, parent)
    BY <1>3
  <2>1. id \in Live /\ DOMAIN facets' = Live /\ Reparented \subseteq {id}
    BY SetParentKeepsTable DEF MoveFacet, Reparented
  <2> QED
    BY <2>1 DEF ReparentingIsMoveOrLostParent
<1>4. CASE \E id \in Ids : DeleteFacet(id)
  <2> PICK id \in Ids : DeleteFacet(id)
    BY <1>4
  <2>1. /\ id \in Live \ DOMAIN facets'
        /\ DOMAIN facets' = Live \ {id}
        /\ \A i \in Live \ {id} :
             /\ facets[i].parent = id => facets'[i].parent = None
             /\ facets[i].parent # id => facets'[i].parent = facets[i].parent
    <3>1. IsTable(facets) /\ id \in DOMAIN facets /\ facets' = DeleteRow(facets, id)
      BY DEF DeleteFacet
    <3>2. /\ DOMAIN DeleteRow(facets, id) = DOMAIN facets \ {id}
          /\ \A i \in DOMAIN facets \ {id} :
               /\ facets[i].parent = id => DeleteRow(facets, id)[i].parent = None
               /\ facets[i].parent # id =>
                    DeleteRow(facets, id)[i].parent = facets[i].parent
      BY <3>1, DeleteKeepsTable
    <3> QED
      BY <3>1, <3>2
  <2>2. Reparented = Children(facets, {id}) \ {id}
    BY <2>1, NoneAssumption DEF Reparented, Children
  <2>3. \A i \in Reparented : facets'[i].parent = None
    BY <2>1 DEF Reparented
  <2> QED
    BY <2>1, <2>2, <2>3 DEF ReparentingIsMoveOrLostParent
<1>5. CASE \E e \in Edges : AddEdge(e) \/ RemoveEdge(e)
  BY <1>5 DEF AddEdge, RemoveEdge, Reparented, ReparentingIsMoveOrLostParent
<1> QED
  BY <1>1, <1>2, <1>3, <1>4, <1>5 DEF StoreNext

(***************************************************************************)
(* A facet changes its place only by a move of its own, or with all its    *)
(* siblings because their parent was deleted.                              *)
(***************************************************************************)
THEOREM PlacesAreStable == StoreSpec => PlaceIsStable
BY StatementKeepsPlaces, StoreInvariance, PTL DEF StoreSpec, PlaceIsStable

-----------------------------------------------------------------------------
(***************************************************************************)
(* An update through the gate stores a row with the tenant it found.       *)
(***************************************************************************)
LEMMA UpdatedRow ==
  ASSUME TablesOK, NEW id \in Live, NEW cols \in Contents
  PROVE  LET new == [facets[id] EXCEPT !.cols = cols]
         IN  new \in Rows /\ new.tenant = facets[id].tenant
BY DEF TablesOK, IsTable, Live, Rows

LEMMA GatedStepIsStatement ==
  ASSUME TablesOK, [GatedNext]_tables
  PROVE  [StoreNext]_tables
<1>1. CASE \E id \in Ids, row \in Ingested : Ingest(id, row)
  BY <1>1, IngestedAssumption DEF Ingest, StoreNext
<1>2. CASE \E t \in Tenants, id \in Ids, row \in Rows : GatedCreate(t, id, row)
  BY <1>2 DEF GatedCreate, StoreNext
<1>3. CASE \E t \in Tenants, id \in Ids, cols \in Contents : GatedUpdate(t, id, cols)
  BY <1>3, UpdatedRow DEF GatedUpdate, StoreNext
<1>4. CASE \E t \in Tenants, id \in Ids : GatedDelete(t, id)
  BY <1>4 DEF GatedDelete, StoreNext
<1>5. CASE \E t \in Tenants, id \in Ids, parent \in Parents : GatedMove(t, id, parent)
  BY <1>5 DEF GatedMove, StoreNext
<1>6. CASE \E t \in Tenants, e \in Edges : GatedLink(t, e) \/ GatedUnlink(t, e)
  BY <1>6 DEF GatedLink, GatedUnlink, StoreNext
<1>7. CASE UNCHANGED tables
  BY <1>7
<1> QED
  BY <1>1, <1>2, <1>3, <1>4, <1>5, <1>6, <1>7 DEF GatedNext

(***************************************************************************)
(* The gated store implements the bare store.                              *)
(***************************************************************************)
THEOREM GatedImplementsStore == GatedSpec => StoreSpec
<1>1. StoreInv /\ [GatedNext]_tables => [StoreNext]_tables /\ StoreInv'
  BY GatedStepIsStatement, StoreNextInv DEF StoreInv
<1> QED
  BY <1>1, StoreInitInv, PTL DEF GatedSpec, StoreSpec

(***************************************************************************)
(* A gated write leaves the tenant of every surviving row alone.           *)
(***************************************************************************)
LEMMA GatedStepKeepsTenants ==
  ASSUME TablesOK, GatedNext
  PROVE  TenantsKept
<1> USE DEF TenantsKept, Live
<1>0. IsTable(facets)
  BY DEF TablesOK
<1>1. CASE \E id \in Ids, row \in Rows : CreateFacet(id, row)
  BY <1>1 DEF CreateFacet, InsertRow, TablesOK
<1>2. CASE \E t \in Tenants, id \in Ids, cols \in Contents : GatedUpdate(t, id, cols)
  <2> PICK t \in Tenants, id \in Ids, cols \in Contents : GatedUpdate(t, id, cols)
    BY <1>2
  <2> DEFINE new == [facets[id] EXCEPT !.cols = cols]
  <2>1. id \in DOMAIN facets /\ facets' = UpdateRow(facets, id, new)
    BY DEF GatedUpdate, UpdateFacet
  <2>2. new \in Rows /\ new.tenant = facets[id].tenant
    BY <2>1, UpdatedRow
  <2> HIDE DEF new
  <2> QED
    BY <1>0, <2>1, <2>2, UpdateKeepsTable
<1>3. CASE \E id \in Ids : DeleteFacet(id)
  <2> PICK id \in Ids : DeleteFacet(id)
    BY <1>3
  <2>1. id \in DOMAIN facets /\ facets' = DeleteRow(facets, id)
    BY DEF DeleteFacet
  <2>2. /\ DOMAIN DeleteRow(facets, id) = DOMAIN facets \ {id}
        /\ \A i \in DOMAIN facets \ {id} : DeleteRow(facets, id)[i].tenant = facets[i].tenant
    BY <1>0, <2>1, DeleteKeepsTable
  <2> QED
    BY <2>1, <2>2
<1>4. CASE \E id \in Ids, parent \in Parents : MoveFacet(id, parent)
  BY <1>0, <1>4, SetParentKeepsTable DEF MoveFacet
<1>5. CASE UNCHANGED facets
  BY <1>5
<1> QED
  BY <1>1, <1>2, <1>3, <1>4, <1>5, IngestedAssumption
     DEF GatedNext, Ingest, GatedCreate, GatedDelete, GatedMove, GatedLink, GatedUnlink,
         AddEdge, RemoveEdge

(***************************************************************************)
(* A minted uuid stays minted; it is live only if it was, with the tenant  *)
(* it had.                                                                 *)
(***************************************************************************)
Persist(i) ==
  /\ i \in minted'
  /\ i \in Live' => i \in Live /\ facets'[i].tenant = facets[i].tenant

LEMMA MintedPersist ==
  ASSUME TablesOK, [GatedNext]_tables, NEW i \in minted
  PROVE  Persist(i)
<1>1. [StoreNext]_tables
  BY GatedStepIsStatement
<1>2. i \in minted' /\ (i \in Live' => i \in Live)
  <2>1. CASE \E id \in Ids, new \in Rows : CreateFacet(id, new)
    BY <2>1 DEF CreateFacet, InsertRow, Live
  <2>2. CASE \E id \in Ids, new \in Rows : UpdateFacet(id, new)
    BY <2>2 DEF UpdateFacet, UpdateRow, Live
  <2>3. CASE \E id \in Ids, parent \in Parents : MoveFacet(id, parent)
    BY <2>3 DEF MoveFacet, SetParent, Live
  <2>4. CASE \E id \in Ids : DeleteFacet(id)
    BY <2>4 DEF DeleteFacet, DeleteRow, Live
  <2>5. CASE \E e \in Edges : AddEdge(e) \/ RemoveEdge(e)
    BY <2>5 DEF AddEdge, RemoveEdge, Live
  <2>6. CASE UNCHANGED tables
    BY <2>6 DEF tables, Live
  <2> QED
    BY <1>1, <2>1, <2>2, <2>3, <2>4, <2>5, <2>6 DEF StoreNext
<1>3. [TenantsKept]_tables
  BY GatedStepKeepsTenants
<1> QED
  BY <1>2, <1>3 DEF Persist, TenantsKept, tables, Live

(***************************************************************************)
(* The tenant of a stored facet never changes.                             *)
(***************************************************************************)
THEOREM GatedTenantFrozen == GatedSpec => TenantFrozen
<1>1. StoreInv /\ [GatedNext]_tables => [TenantsKept]_tables
  BY GatedStepKeepsTenants DEF StoreInv
<1> QED
  BY <1>1, GatedImplementsStore, StoreInvariance, PTL DEF GatedSpec, TenantFrozen

-----------------------------------------------------------------------------
(***************************************************************************)
(* The full-text index: a term of a live facet is never lost from it, and  *)
(* it is exact for as long as rows were only inserted; for any facets, any *)
(* terms and any sequence of statements.                                   *)
(*                                                                         *)
(* Documents are only ever added, at least one by every statement, and a   *)
(* row's number is that of a document.  So there are as many documents as  *)
(* rows only if every statement was an insertion, and then each insertion  *)
(* numbered its row and its document alike.                                *)
(***************************************************************************)
(***************************************************************************)
(* Row numbers do not run ahead of the documents.                          *)
(***************************************************************************)
NumbersInUse == \A i \in Live : rowid[i] <= Len(docs)

(***************************************************************************)
(* With no document to spare, every document is that of the row with its   *)
(* number.                                                                 *)
(***************************************************************************)
NumberedAlike ==
  /\ Cardinality(Live) <= Len(docs)
  /\ Len(docs) = Cardinality(Live) =>
       \A d \in DOMAIN docs : \E i \in Live : rowid[i] = d /\ docs[d] = TermOf(facets[i])

IndexInv ==
  /\ IndexTypeOK /\ IsFiniteSet(Live)
  /\ NumbersInUse /\ LiveTermsAreIndexed /\ NumberedAlike

-----------------------------------------------------------------------------
(***************************************************************************)
(* In a finite set of differently numbered things, some thing has k - 1    *)
(* others below it, for every k: ranks are different, and there are as     *)
(* many as things.                                                         *)
(***************************************************************************)
LEMMA EveryRankIsTaken ==
  ASSUME NEW S, IsFiniteSet(S), NEW f \in [S -> Nat], IsInjective(f), NEW k \in 1 .. Cardinality(S)
  PROVE  \E i \in S : Cardinality({j \in S : f[j] < f[i]}) = k - 1
<1> DEFINE Lower(i) == {j \in S : f[j] < f[i]}
           n == Cardinality(S)
           rank == [i \in S |-> Cardinality(Lower(i))]
<1>1. n \in Nat
  BY FS_CardinalityType
<1>2. ASSUME NEW i \in S
      PROVE  /\ IsFiniteSet(Lower(i)) /\ Cardinality(Lower(i)) \in 0 .. n - 1
  <2>1. Lower(i) \subseteq S /\ i \notin Lower(i)
    OBVIOUS
  <2> HIDE DEF Lower
  <2>2. /\ IsFiniteSet(Lower(i)) /\ Cardinality(Lower(i)) <= n
        /\ n = Cardinality(Lower(i)) => S = Lower(i)
    BY <2>1, FS_Subset
  <2>3. Cardinality(Lower(i)) \in Nat
    BY <2>2, FS_CardinalityType
  <2> HIDE DEF n
  <2> QED
    BY <1>1, <2>1, <2>2, <2>3
<1>3. ASSUME NEW i \in S, NEW j \in S, f[i] < f[j]
      PROVE  Cardinality(Lower(i)) # Cardinality(Lower(j))
  <2>1. Lower(i) \subseteq Lower(j) /\ i \in Lower(j) /\ i \notin Lower(i)
    BY <1>3
  <2>2. IsFiniteSet(Lower(j))
    BY <1>2
  <2> HIDE DEF Lower
  <2>3. Cardinality(Lower(j)) = Cardinality(Lower(i)) => Lower(j) = Lower(i)
    BY <2>1, <2>2, FS_Subset
  <2> QED
    BY <2>1, <2>3
<1> HIDE DEF Lower, n
<1>4. rank \in Injection(S, 0 .. n - 1)
  <2>1. rank \in [S -> 0 .. n - 1]
    BY <1>2
  <2>2. ASSUME NEW i \in S, NEW j \in S, rank[i] = rank[j] PROVE i = j
    <3>1. f[i] \in Nat /\ f[j] \in Nat /\ (f[i] = f[j] => i = j)
      BY DEF IsInjective
    <3>2. ~(f[i] < f[j]) /\ ~(f[j] < f[i])
      BY <1>3, <2>2
    <3> QED
      BY <3>1, <3>2
  <2> QED
    BY <2>1, <2>2 DEF Injection, IsInjective
<1>5. IsFiniteSet(0 .. n - 1) /\ Cardinality(0 .. n - 1) = n
  BY <1>1, FS_Interval
<1> HIDE DEF rank
<1>6. rank \in Surjection(S, 0 .. n - 1)
  BY <1>4, <1>5, FS_Injection DEF n
<1>7. k - 1 \in 0 .. n - 1
  BY <1>1 DEF n
<1>8. PICK i \in S : rank[i] = k - 1
  BY <1>6, <1>7 DEF Surjection, Range
<1> QED
  BY <1>8 DEF rank, Lower

(***************************************************************************)
(* What has all others below it is the highest.                            *)
(***************************************************************************)
LEMMA HighestExists ==
  ASSUME NEW S, IsFiniteSet(S), S # {}, NEW f \in [S -> Nat], IsInjective(f)
  PROVE  \E top \in S : \A i \in S : f[i] <= f[top]
<1>1. Cardinality(S) \in Nat /\ Cardinality(S) # 0
  BY FS_CardinalityType, FS_EmptySet
<1>2. PICK k \in 1 .. Cardinality(S) : k = Cardinality(S)
  BY <1>1
<1>3. PICK top \in S : Cardinality({j \in S : f[j] < f[top]}) = k - 1
  BY EveryRankIsTaken
<1> DEFINE lower == {j \in S : f[j] < f[top]}
<1>4. ASSUME NEW i \in S, f[i] > f[top] PROVE FALSE
  <2>1. lower \in SUBSET (S \ {top}) /\ i \notin lower /\ i \in S \ {top}
    BY <1>4
  <2>2. IsFiniteSet(S \ {top}) /\ Cardinality(S \ {top}) = Cardinality(S) - 1
    BY FS_RemoveElement
  <2> HIDE DEF lower
  <2>3. Cardinality(S \ {top}) # Cardinality(lower)
    BY <2>1, <2>2, FS_Subset
  <2> QED
    BY <1>2, <1>3, <2>2, <2>3 DEF lower
<1> QED
  BY <1>4

(***************************************************************************)
(* The number of a new row is above every other, by one above one of them  *)
(* or as the first.                                                        *)
(***************************************************************************)
LEMMA NextRowidIsNew ==
  ASSUME IndexInv
  PROVE  /\ NextRowid \in Nat \ {0} /\ NextRowid <= Len(docs) + 1
         /\ \A i \in Live : rowid[i] < NextRowid
<1> DEFINE S == {0} \cup Range(rowid)
<1>1. /\ rowid \in [Live -> Nat \ {0}] /\ Len(docs) \in Nat /\ \A i \in Live : rowid[i] <= Len(docs)
      /\ IsInjective(rowid) /\ IsFiniteSet(Live)
  BY DEF IndexInv, IndexTypeOK, NumbersInUse
<1>2. S \subseteq Nat /\ (\A n \in S : n <= Len(docs)) /\ \A i \in Live : rowid[i] \in S
  BY <1>1 DEF Range
<1>3. \E n \in S : \A m \in S : n >= m
  <2>1. CASE Live = {}
    BY <1>1, <2>1 DEF Range
  <2>2. CASE Live # {}
    <3>1. PICK top \in Live : \A i \in Live : rowid[i] <= rowid[top]
      BY <1>1, <2>2, HighestExists
    <3>2. rowid[top] \in S /\ \A m \in S : rowid[top] >= m
      BY <1>1, <3>1 DEF Range
    <3> QED
      BY <3>2
  <2> QED
    BY <2>1, <2>2
<1>4. NextRowid = 1 + Max(S)
  BY DEF NextRowid
<1> HIDE DEF S
<1>5. Max(S) \in S /\ \A m \in S : Max(S) >= m
  BY <1>3 DEF Max
<1>6. Max(S) \in Nat /\ Max(S) <= Len(docs)
  BY <1>2, <1>5
<1>7. \A i \in Live : rowid[i] \in Nat /\ Max(S) >= rowid[i]
  BY <1>1, <1>2, <1>5
<1> QED
  BY <1>1, <1>4, <1>6, <1>7

(***************************************************************************)
(* The terms of rows, and of the rows a deletion touches, are terms.       *)
(***************************************************************************)
LEMMA TermsTyped ==
  ASSUME NEW row \in Rows
  PROVE  TermOf(row) \in Values
BY TextAssumption DEF TermOf, Rows, Contents

LEMMA ReindexedTyped ==
  ASSUME IndexInv, NEW S \in SUBSET Live
  PROVE  Reindexed(S) \in Seq(Values)
<1>1. IsFiniteSet(S)
  BY FS_Subset DEF IndexInv
<1>2. Cardinality(S) \in Nat
  BY <1>1, FS_CardinalityType
<1> DEFINE f == [i \in S |-> rowid[i]]
           nth(k) == CHOOSE i \in S : Cardinality({j \in S : rowid[j] < rowid[i]}) = k - 1
<1>3. f \in [S -> Nat] /\ IsInjective(f)
  BY DEF IndexInv, IndexTypeOK, IsInjective
<1>4. ASSUME NEW k \in 1 .. Cardinality(S)
      PROVE  nth(k) \in S
  <2>1. PICK i \in S : Cardinality({j \in S : f[j] < f[i]}) = k - 1
    <3> HIDE DEF f
    <3> QED
      BY <1>1, <1>3, EveryRankIsTaken
  <2>2. {j \in S : f[j] < f[i]} = {j \in S : rowid[j] < rowid[i]}
    OBVIOUS
  <2> QED
    BY <2>1, <2>2
<1> HIDE DEF nth
<1>5. ASSUME NEW k \in 1 .. Cardinality(S)
      PROVE  TermOf(facets[nth(k)]) \in Values
  <2>1. facets[nth(k)] \in Rows
    BY <1>4 DEF IndexInv, IndexTypeOK, TablesOK, IsTable, Live
  <2> QED
    BY <2>1, TermsTyped
<1>6. Reindexed(S) = [k \in 1 .. Cardinality(S) |-> TermOf(facets[nth(k)])]
  BY DEF Reindexed, nth
<1> QED
  BY <1>2, <1>5, <1>6

-----------------------------------------------------------------------------
(***************************************************************************)
(* Documents stay, under their numbers.                                    *)
(***************************************************************************)
DocsKept ==
  /\ docs' \in Seq(Values) /\ Len(docs) < Len(docs')
  /\ \A d \in DOMAIN docs : d \in DOMAIN docs' /\ docs'[d] = docs[d]

LEMMA AppendKeeps ==
  ASSUME IndexInv, NEW term \in Values, docs' = Append(docs, term)
  PROVE  /\ DocsKept /\ Len(docs') = Len(docs) + 1
         /\ DOMAIN docs' = DOMAIN docs \cup {Len(docs) + 1} /\ docs'[Len(docs) + 1] = term
<1>1. docs \in Seq(Values) /\ Len(docs) \in Nat /\ DOMAIN docs = 1 .. Len(docs)
  BY DEF IndexInv, IndexTypeOK
<1> QED
  BY <1>1 DEF DocsKept

(***************************************************************************)
(* What a statement other than an insertion has to keep.                   *)
(***************************************************************************)
LEMMA RowsGoOn ==
  ASSUME IndexInv, TablesOK', DocsKept, DOMAIN facets' \subseteq Live,
         rowid' = [i \in DOMAIN facets' |-> rowid[i]],
         \A i \in DOMAIN facets' :
           \/ TermOf(facets'[i]) = TermOf(facets[i])
           \/ \E d \in DOMAIN docs' : docs'[d] = TermOf(facets'[i])
  PROVE  IndexInv'
<1>1. /\ rowid \in [Live -> Nat \ {0}] /\ IsInjective(rowid) /\ IsFiniteSet(Live)
      /\ NumbersInUse /\ LiveTermsAreIndexed /\ NumberedAlike
      /\ Len(docs) \in Nat /\ Len(docs') \in Nat
  BY DEF IndexInv, IndexTypeOK, DocsKept
<1>2. /\ IsFiniteSet(Live') /\ Cardinality(Live') <= Cardinality(Live)
      /\ Cardinality(Live) \in Nat /\ Cardinality(Live') \in Nat
  <2>1. Live' \in SUBSET Live
    BY DEF Live
  <2>2. IsFiniteSet(Live') /\ Cardinality(Live') <= Cardinality(Live)
    BY <1>1, <2>1, FS_Subset
  <2> QED
    BY <1>1, <2>2, FS_CardinalityType
<1>3. IndexTypeOK'
  BY <1>1 DEF IndexTypeOK, DocsKept, IsInjective, Live
<1>4. NumbersInUse'
  BY <1>1 DEF NumbersInUse, DocsKept, Live
<1>5. LiveTermsAreIndexed'
  BY <1>1 DEF LiveTermsAreIndexed, Matches, DocsKept, Live
<1>6. NumberedAlike'
  BY <1>1, <1>2 DEF NumberedAlike, DocsKept
<1> QED
  BY <1>2, <1>3, <1>4, <1>5, <1>6 DEF IndexInv

LEMMA IndexedCreateInv ==
  ASSUME IndexInv, NEW id \in Ids, NEW row \in Rows, IndexedCreate(id, row), TablesOK'
  PROVE  IndexInv'
<1> DEFINE new == Len(docs) + 1
<1>1. /\ TablesOK /\ rowid \in [Live -> Nat \ {0}] /\ IsInjective(rowid) /\ IsFiniteSet(Live)
      /\ docs \in Seq(Values) /\ Len(docs) \in Nat /\ DOMAIN docs = 1 .. Len(docs)
      /\ NumbersInUse /\ LiveTermsAreIndexed /\ NumberedAlike
  BY DEF IndexInv, IndexTypeOK
<1>2. /\ id \notin Live /\ Live' = Live \cup {id}
      /\ facets'[id] = row /\ \A i \in Live : facets'[i] = facets[i]
  BY <1>1 DEF IndexedCreate, CreateFacet, InsertRow, TablesOK, Live
<1>3. /\ DocsKept /\ Len(docs') = new
      /\ DOMAIN docs' = DOMAIN docs \cup {new} /\ docs'[new] = TermOf(row)
  BY AppendKeeps, TermsTyped DEF IndexedCreate, AfterInsert
<1>4. /\ NextRowid \in Nat \ {0} /\ NextRowid <= new
      /\ \A i \in Live : rowid[i] < NextRowid
  BY NextRowidIsNew
<1>5. rowid' = [i \in Live \cup {id} |-> IF i = id THEN NextRowid ELSE rowid[i]]
  BY DEF IndexedCreate
<1>6. /\ IsFiniteSet(Live') /\ Cardinality(Live') = Cardinality(Live) + 1
      /\ Cardinality(Live) \in Nat
  BY <1>1, <1>2, FS_AddElement, FS_CardinalityType
<1>7. IndexTypeOK'
  BY <1>1, <1>2, <1>3, <1>4, <1>5 DEF IndexTypeOK, IsInjective, DocsKept
<1>8. NumbersInUse'
  BY <1>1, <1>2, <1>3, <1>4, <1>5 DEF NumbersInUse
<1>9. LiveTermsAreIndexed'
  BY <1>1, <1>2, <1>3 DEF LiveTermsAreIndexed, Matches, DocsKept
<1>10. NumberedAlike'
  <2>1. Cardinality(Live') <= Len(docs')
    BY <1>1, <1>3, <1>6 DEF NumberedAlike
  <2>2. ASSUME Len(docs') = Cardinality(Live'), NEW d \in DOMAIN docs'
        PROVE  \E i \in Live' : rowid'[i] = d /\ docs'[d] = TermOf(facets'[i])
    <3>1. \A e \in DOMAIN docs : \E i \in Live : rowid[i] = e /\ docs[e] = TermOf(facets[i])
      BY <1>1, <1>3, <1>6, <2>2 DEF NumberedAlike
    <3>2. CASE d \in DOMAIN docs
      <4>1. PICK i \in Live : rowid[i] = d /\ docs[d] = TermOf(facets[i])
        BY <3>1, <3>2
      <4>2. rowid'[i] = d /\ docs'[d] = TermOf(facets'[i])
        BY <1>2, <1>3, <1>5, <3>2, <4>1 DEF DocsKept
      <4> QED
        BY <1>2, <4>2
    <3>3. CASE d = new
      <4>1. NextRowid = new
        <5>1. CASE Len(docs) = 0
          BY <1>1, <1>4, <5>1
        <5>2. CASE Len(docs) # 0
          <6>1. PICK i \in Live : rowid[i] = Len(docs)
            BY <1>1, <3>1, <5>2
          <6> QED
            BY <1>1, <1>4, <6>1
        <5> QED
          BY <5>1, <5>2
      <4> QED
        BY <1>2, <1>3, <1>5, <3>3, <4>1
    <3> QED
      BY <1>3, <3>2, <3>3
  <2> QED
    BY <2>1, <2>2 DEF NumberedAlike
<1> QED
  BY <1>6, <1>7, <1>8, <1>9, <1>10 DEF IndexInv

LEMMA IndexedUpdateInv ==
  ASSUME IndexInv, NEW id \in Ids, NEW row \in Rows, IndexedUpdate(id, row), TablesOK'
  PROVE  IndexInv'
<1>1. /\ IsTable(facets) /\ id \in Live /\ facets' = UpdateRow(facets, id, row) /\ rowid' = rowid
      /\ rowid \in [Live -> Nat \ {0}]
  BY DEF IndexInv, IndexTypeOK, TablesOK, IndexedUpdate, UpdateFacet
<1>2. DOMAIN facets' = Live /\ \A i \in Live \ {id} : facets'[i] = facets[i]
  BY <1>1 DEF UpdateRow, Live
<1>3. TermOf(facets'[id]) = TermOf(row)
  <2>1. facets[id] \in Rows
    BY <1>1 DEF IsTable, Live
  <2>2. facets'[id].cols = row.cols
    BY <1>1, <2>1 DEF UpdateRow, Live, Rows
  <2> QED
    BY <2>2 DEF TermOf
<1>4. DocsKept /\ \E d \in DOMAIN docs' : docs'[d] = TermOf(row)
  BY AppendKeeps, TermsTyped DEF IndexedUpdate, AfterUpdate
<1>5. rowid' = [i \in DOMAIN facets' |-> rowid[i]]
  BY <1>1, <1>2
<1> QED
  BY <1>2, <1>3, <1>4, <1>5, RowsGoOn

LEMMA IndexedMoveInv ==
  ASSUME IndexInv, NEW id \in Ids, NEW parent \in Parents, IndexedMove(id, parent), TablesOK'
  PROVE  IndexInv'
<1>1. /\ IsTable(facets) /\ id \in Live /\ facets' = SetParent(facets, id, parent) /\ rowid' = rowid
      /\ rowid \in [Live -> Nat \ {0}]
  BY DEF IndexInv, IndexTypeOK, TablesOK, IndexedMove, MoveFacet
<1>2. \A i \in Live : facets[i] \in Rows
  BY <1>1 DEF IsTable, Live
<1>3. DOMAIN facets' = Live /\ \A i \in Live : facets'[i].cols = facets[i].cols
  BY <1>1, <1>2 DEF SetParent, Live, Rows
<1>4. DocsKept
  BY <1>1, <1>2, AppendKeeps, TermsTyped DEF IndexedMove, AfterUpdate
<1>5. \A i \in DOMAIN facets' : TermOf(facets'[i]) = TermOf(facets[i])
  BY <1>3 DEF TermOf
<1>6. rowid' = [i \in DOMAIN facets' |-> rowid[i]]
  BY <1>1, <1>3
<1> QED
  BY <1>3, <1>4, <1>5, <1>6, RowsGoOn

(***************************************************************************)
(* A deletion takes a row away and no document (the command of facets_ad   *)
(* removes none): from then on there is a document too many.               *)
(***************************************************************************)
LEMMA DeletionKeepsDocs ==
  ASSUME IndexInv, NEW id \in Ids, IndexedDelete(id)
  PROVE  /\ docs' \in Seq(Values) /\ Len(docs) <= Len(docs')
         /\ \A d \in DOMAIN docs : d \in DOMAIN docs' /\ docs'[d] = docs[d]
<1> DEFINE S == Children(facets, {id}) \ {id}
<1>1. S \in SUBSET Live
  BY DEF Children, Live
<1>2. docs' = docs \o Reindexed(S)
  BY DEF IndexedDelete
<1> HIDE DEF S
<1>3. docs \in Seq(Values) /\ Reindexed(S) \in Seq(Values)
  BY <1>1, ReindexedTyped DEF IndexInv, IndexTypeOK
<1> QED
  BY <1>2, <1>3

LEMMA IndexedDeleteInv ==
  ASSUME IndexInv, NEW id \in Ids, IndexedDelete(id), TablesOK'
  PROVE  IndexInv'
<1>1. /\ rowid \in [Live -> Nat \ {0}] /\ IsInjective(rowid) /\ IsFiniteSet(Live)
      /\ NumbersInUse /\ LiveTermsAreIndexed /\ NumberedAlike /\ docs \in Seq(Values)
      /\ IsTable(facets) /\ id \in Live /\ facets' = DeleteRow(facets, id)
      /\ rowid' = [i \in Live \ {id} |-> rowid[i]]
  BY DEF IndexInv, IndexTypeOK, TablesOK, IndexedDelete, DeleteFacet
<1>2. /\ docs' \in Seq(Values) /\ Len(docs) <= Len(docs') /\ Len(docs) \in Nat /\ Len(docs') \in Nat
      /\ \A d \in DOMAIN docs : d \in DOMAIN docs' /\ docs'[d] = docs[d]
  BY <1>1, DeletionKeepsDocs
<1>3. /\ Live' = Live \ {id}
      /\ \A i \in Live' : facets'[i].cols = facets[i].cols
  <2>1. \A i \in Live : facets[i] \in Rows
    BY <1>1 DEF IsTable, Live
  <2>2. \A i \in Live : Orphaned(facets[i], id).cols = facets[i].cols
    BY <2>1 DEF Orphaned, Rows
  <2> QED
    BY <1>1, <2>2 DEF DeleteRow, Live
<1>4. /\ IsFiniteSet(Live') /\ Cardinality(Live') = Cardinality(Live) - 1
      /\ Cardinality(Live) \in Nat
  BY <1>1, <1>3, FS_RemoveElement, FS_CardinalityType
<1>5. IndexTypeOK'
  BY <1>1, <1>2, <1>3 DEF IndexTypeOK, IsInjective
<1>6. NumbersInUse'
  BY <1>1, <1>2, <1>3 DEF NumbersInUse
<1>7. LiveTermsAreIndexed'
  BY <1>1, <1>2, <1>3 DEF LiveTermsAreIndexed, Matches, TermOf
<1>8. NumberedAlike'
  BY <1>1, <1>2, <1>4 DEF NumberedAlike
<1> QED
  BY <1>4, <1>5, <1>6, <1>7, <1>8 DEF IndexInv

-----------------------------------------------------------------------------
(***************************************************************************)
(* Each indexed statement is a statement of the store.                     *)
(***************************************************************************)
LEMMA IndexedStepIsStatement ==
  ASSUME [IndexNext]_indexVars
  PROVE  [StoreNext]_tables
BY DEF IndexNext, indexVars, tables, IndexedCreate, IndexedUpdate, IndexedMove, IndexedDelete, StoreNext

LEMMA IndexInitInv == IndexInit => IndexInv
<1> SUFFICES ASSUME IndexInit PROVE IndexInv
  OBVIOUS
<1>1. TablesOK /\ Live = {} /\ rowid \in [Live -> Nat \ {0}] /\ docs = <<>>
  BY StoreInitInv DEF IndexInit, StoreInit, StoreInv, Live
<1>2. IsFiniteSet(Live) /\ Cardinality(Live) = 0
  BY <1>1, FS_EmptySet
<1>3. IndexTypeOK
  BY <1>1 DEF IndexTypeOK, IsInjective
<1> QED
  BY <1>1, <1>2, <1>3 DEF IndexInv, NumbersInUse, LiveTermsAreIndexed, NumberedAlike

LEMMA IndexNextInv == IndexInv /\ Integrity /\ [IndexNext]_indexVars => IndexInv' /\ Integrity'
<1> SUFFICES ASSUME IndexInv, Integrity, [IndexNext]_indexVars PROVE IndexInv' /\ Integrity'
  OBVIOUS
<1>1. TablesOK' /\ Integrity'
  <2>1. StoreInv /\ [StoreNext]_tables
    BY IndexedStepIsStatement DEF StoreInv, IndexInv, IndexTypeOK
  <2> QED
    BY <2>1, StoreNextInv DEF StoreInv
<1>2. CASE UNCHANGED indexVars
  BY <1>1, <1>2 DEF indexVars, IndexInv, IndexTypeOK, TablesOK, Live, NumbersInUse, LiveTermsAreIndexed,
              NumberedAlike, Matches
<1>3. CASE IndexNext
  BY <1>1, <1>3, IndexedCreateInv, IndexedUpdateInv, IndexedMoveInv, IndexedDeleteInv DEF IndexNext
<1> QED
  BY <1>1, <1>2, <1>3

LEMMA IndexInvariance == IndexSpec => []IndexInv
<1>1. IndexInit => Integrity
  BY StoreInitInv DEF IndexInit, StoreInv
<1> QED
  BY <1>1, IndexInitInv, IndexNextInv, PTL DEF IndexSpec

(***************************************************************************)
(* The store with its index implements the store without: the triggers     *)
(* change no table of facets or edges (store/sqlite.rs).                   *)
(***************************************************************************)
THEOREM IndexImplementsStore == IndexSpec => StoreSpec
<1>1. IndexInit => StoreInit
  BY DEF IndexInit
<1>2. [IndexNext]_indexVars => [StoreNext]_tables
  BY IndexedStepIsStatement
<1> QED
  BY <1>1, <1>2, PTL DEF IndexSpec, StoreSpec

(***************************************************************************)
(* So facets change places under the index as they do without it.          *)
(***************************************************************************)
THEOREM IndexedPlacesAreStable == IndexSpec => PlaceIsStable
BY IndexImplementsStore, PlacesAreStable

(***************************************************************************)
(* Rows keep different numbers, documents hold terms.                      *)
(***************************************************************************)
THEOREM IndexTypeCorrect == IndexSpec => []IndexTypeOK
<1>1. IndexInv => IndexTypeOK
  BY DEF IndexInv
<1> QED
  BY <1>1, IndexInvariance, PTL

(***************************************************************************)
(* The term of a live facet is in the index after every sequence of        *)
(* statements (the triggers facets_ai and facets_au).                      *)
(***************************************************************************)
THEOREM TermsStayIndexed == IndexSpec => []LiveTermsAreIndexed
<1>1. IndexInv => LiveTermsAreIndexed
  BY DEF IndexInv
<1> QED
  BY <1>1, IndexInvariance, PTL

(***************************************************************************)
(* Search is exact whenever there are as many documents as rows, which is  *)
(* as long as rows were only inserted (SqliteStore::search).               *)
(***************************************************************************)
THEOREM ExactWhileInserting == IndexSpec => []InsertsOnlyIsExact
<1>1. ASSUME IndexInv, Len(docs) = Cardinality(Live) PROVE SearchExact
  <2>1. /\ rowid \in [Live -> Nat \ {0}] /\ IsInjective(rowid) /\ NumbersInUse
        /\ docs \in Seq(Values) /\ DOMAIN docs = 1 .. Len(docs) /\ Len(docs) \in Nat
        /\ \A d \in DOMAIN docs : \E i \in Live : rowid[i] = d /\ docs[d] = TermOf(facets[i])
    BY <1>1 DEF IndexInv, IndexTypeOK, NumberedAlike
  <2>2. \A i \in Live : rowid[i] \in DOMAIN docs /\ docs[rowid[i]] = TermOf(facets[i])
    BY <2>1 DEF NumbersInUse, IsInjective
  <2>3. ASSUME NEW term \in Values
        PROVE  ~SearchFails(term) /\ Search(term) = Holding(term)
    BY <2>1, <2>2 DEF SearchFails, Search, Holding, Matches
  <2> QED
    BY <2>3 DEF SearchExact
<1>2. IndexInv => InsertsOnlyIsExact
  BY <1>1 DEF InsertsOnlyIsExact
<1> QED
  BY <1>2, IndexInvariance, PTL
=============================================================================
