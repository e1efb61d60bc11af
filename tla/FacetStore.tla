----------------------------- MODULE FacetStore -----------------------------
(***************************************************************************)
(* The facets and edges tables of SqliteStore (src/store/sqlite.rs), as    *)
(* any caller may drive them: one atomic action per statement.  SQLite     *)
(* runs each statement in a transaction of its own and sqlx switches       *)
(* foreign keys on, so a statement that breaks a key fails and leaves the  *)
(* tables alone: such a call is a stuttering step here.                    *)
(*                                                                         *)
(* minted is the set of uuids handed out so far.  A fresh facet takes one  *)
(* from outside it, which is what Uuid::new_v4 gives.                      *)
(***************************************************************************)
EXTENDS Facets

VARIABLES facets, edges, minted

tables == <<facets, edges, minted>>

Live == DOMAIN facets

TablesOK ==
  /\ IsTable(facets)
  /\ edges \subseteq Edges
  /\ minted \subseteq Ids
  /\ Live \subseteq minted

StoreInit ==
  /\ facets = [i \in {} |-> None]
  /\ edges = {}
  /\ minted = {}

(***************************************************************************)
(* INSERT INTO facets: the parent, when given, must be a live row.         *)
(***************************************************************************)
CreateFacet(id, row) ==
  /\ id \in Ids \ minted
  /\ ParentExists(facets, row.parent)
  /\ facets' = InsertRow(facets, id, row)
  /\ minted' = minted \cup {id}
  /\ UNCHANGED edges

(***************************************************************************)
(* UPDATE facets: no row, no effect (rows_affected = 0 is NotFound).       *)
(***************************************************************************)
UpdateFacet(id, row) ==
  /\ id \in Live
  /\ facets' = UpdateRow(facets, id, row)
  /\ UNCHANGED <<edges, minted>>

MoveFacet(id, parent) ==
  /\ id \in Live
  /\ ParentExists(facets, parent)
  /\ facets' = SetParent(facets, id, parent)
  /\ UNCHANGED <<edges, minted>>

DeleteFacet(id) ==
  /\ id \in Live
  /\ facets' = DeleteRow(facets, id)
  /\ edges' = EdgesAfterDelete(edges, id)
  /\ UNCHANGED minted

(***************************************************************************)
(* INSERT OR REPLACE INTO edges: both ends must be live.  RemoveEdge does  *)
(* not mind an absent edge.                                                *)
(***************************************************************************)
AddEdge(e) ==
  /\ EndsExist(facets, e)
  /\ edges' = edges \cup {e}
  /\ UNCHANGED <<facets, minted>>

RemoveEdge(e) ==
  /\ edges' = edges \ {e}
  /\ UNCHANGED <<facets, minted>>

StoreNext ==
  \/ \E id \in Ids, row \in Rows : CreateFacet(id, row) \/ UpdateFacet(id, row)
  \/ \E id \in Ids, parent \in Parents : MoveFacet(id, parent)
  \/ \E id \in Ids : DeleteFacet(id)
  \/ \E e \in Edges : AddEdge(e) \/ RemoveEdge(e)

StoreSpec == StoreInit /\ [][StoreNext]_tables

(***************************************************************************)
(* Referential integrity: every parent and every end of an edge is a live  *)
(* row, whatever statements ran in whatever order.  It is what the reads   *)
(* of the tree and the edge queries rely on.                               *)
(***************************************************************************)
Integrity == RefIntegrity(facets, edges)

(***************************************************************************)
(* A facet changes its place in the tree in two ways only: by itself, in a *)
(* move that touches no other row, or together with all its siblings, to   *)
(* the root, because the parent row went away.                             *)
(***************************************************************************)
Reparented == {i \in Live \cap DOMAIN facets' : facets'[i].parent # facets[i].parent}

ReparentingIsMoveOrLostParent ==
  \/ Reparented = {}
  \/ \E i \in Live : Reparented = {i} /\ Live = DOMAIN facets'
  \/ \E p \in Live \ DOMAIN facets' :
       /\ Reparented = Children(facets, {p}) \ {p}
       /\ \A i \in Reparented : facets'[i].parent = None

PlaceIsStable == [][ReparentingIsMoveOrLostParent]_tables
=============================================================================
