---------------------------- MODULE MCFacetReads ----------------------------
(***************************************************************************)
(* FacetReads for TLC.  An anonymous caller, who does not see the facets   *)
(* of the one tenant, reads; the tenant writes.  list, tree and grep start *)
(* on every forest, links and blocked on every graph of a few edges among  *)
(* roots.                                                                  *)
(***************************************************************************)
EXTENDS FacetReads

CONSTANTS Focus, Other   \* the facet requests name, and another one

Open == CHOOSE v \in Values : v # Done

Row(parent, tenant) == [parent |-> parent, tenant |-> tenant, cols |-> [c \in Columns |-> Open]]

Stores(parents) ==
  {fs \in UNION {[S \cup {Focus} -> {Row(parent, tenant) : parent \in parents, tenant \in Callers}] :
                   S \in SUBSET Ids} :
     ParentsExist(fs) /\ IsForest(fs)}

StartEdges ==
  {e \in Edges : e.from # e.to /\ (e.from = Focus \/ (e.from = Other /\ e.to = Focus))}

TreeQueries ==
  [op : {"list", "tree"}, caller : {None}, at : {Focus}] \cup [op : {"grep"}, caller : {None}]

GraphQueries ==
  [op : {"blocked"}, caller : {None}, at : {None}]
    \cup [op : {"links"}, caller : {None}, at : {Focus}, direction : {"both"}, kinds : {Kinds}]

ReadScenarios ==
  [query : TreeQueries, facets : Stores(Parents), edges : {{}}]
    \cup {sc \in [query : GraphQueries, facets : Stores({None}), edges : SUBSET StartEdges] :
            EdgeEndsExist(sc.facets, sc.edges)}

NoRows == {}
=============================================================================
