----------------------------- MODULE GatedStore -----------------------------
(***************************************************************************)
(* What the tenant gate promises: every write takes effect in one step,    *)
(* and at that very step the caller may write every row it names.  The     *)
(* gate itself (TenantGate) checks in one statement and writes in another; *)
(* that its requests nevertheless behave like these atomic ones is the     *)
(* refinement checked and proved there.                                    *)
(*                                                                         *)
(* Two freedoms are deliberate.  An update may store any contents: which   *)
(* columns it may touch is not promised, since the gate writes the whole   *)
(* row from an earlier copy.  And rows may also arrive from below the      *)
(* gate, by a plan import or a flush, with or without a tenant.            *)
(***************************************************************************)
EXTENDS FacetStore

CONSTANT Ingested   \* the rows that may arrive from below the gate

ASSUME IngestedAssumption == Ingested \subseteq Rows

GatedCreate(t, id, row) ==
  /\ row.tenant = t
  /\ CreateFacet(id, row)

Ingest(id, row) == CreateFacet(id, row)

GatedUpdate(t, id, cols) ==
  /\ id \in Live
  /\ CanWrite(t, facets[id])
  /\ UpdateFacet(id, [facets[id] EXCEPT !.cols = cols])

GatedDelete(t, id) ==
  /\ id \in Live
  /\ CanWrite(t, facets[id])
  /\ DeleteFacet(id)

GatedMove(t, id, parent) ==
  /\ id \in Live
  /\ CanWrite(t, facets[id])
  /\ parent # None => parent \in Live /\ CanWrite(t, facets[parent])
  /\ MoveFacet(id, parent)

MayJoinEnds(t, e) ==
  /\ EndsExist(facets, e)
  /\ CanWrite(t, facets[e.from])
  /\ CanWrite(t, facets[e.to])

GatedLink(t, e) == MayJoinEnds(t, e) /\ AddEdge(e)

GatedUnlink(t, e) == MayJoinEnds(t, e) /\ RemoveEdge(e)

GatedNext ==
  \/ \E id \in Ids, row \in Ingested : Ingest(id, row)
  \/ \E t \in Tenants :
       \/ \E id \in Ids, row \in Rows : GatedCreate(t, id, row)
       \/ \E id \in Ids, cols \in Contents : GatedUpdate(t, id, cols)
       \/ \E id \in Ids : GatedDelete(t, id)
       \/ \E id \in Ids, parent \in Parents : GatedMove(t, id, parent)
       \/ \E e \in Edges : GatedLink(t, e) \/ GatedUnlink(t, e)

GatedSpec == StoreInit /\ [][GatedNext]_tables

(***************************************************************************)
(* A stored facet keeps its tenant for as long as it lives: no request,    *)
(* whatever it puts under meta_extra["tenant"] and whatever it races with, *)
(* changes it (the gate's update "preserves the existing meta.tenant       *)
(* verbatim").                                                             *)
(***************************************************************************)
TenantsKept ==
  \A i \in Live \cap DOMAIN facets' : facets'[i].tenant = facets[i].tenant

TenantFrozen == [][TenantsKept]_tables
=============================================================================
