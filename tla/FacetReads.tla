----------------------------- MODULE FacetReads -----------------------------
(***************************************************************************)
(* The read requests of FacetHub through TenantGate (src/tenant_gate.rs):  *)
(* list, tree, grep, links and blocked.  Each reads the store in several   *)
(* statements, with no transaction around them, while other requests write.*)
(* One action is one statement with the code up to the next.  The writes   *)
(* are those of GatedStore, which TenantGate implements.                   *)
(*                                                                         *)
(* A read changes nothing, so one request is enough: it starts on any of a *)
(* set of databases.  It is at                                             *)
(*   "probe"  the gate reads the facet the request names,                  *)
(*   "first"  the statement that finds what there is to look at,           *)
(*   "each"   one statement per item of todo,                              *)
(*   "done"   answered,                                                    *)
(*   "stuck"  in a recursive query that never ends: get_subtree joins with *)
(*            UNION ALL and goes round a cycle of parents for ever.        *)
(*                                                                         *)
(* The answer is a set of facts: an edge says that it was found, a fact of *)
(* kind None that facet "to" was found at or below "from".  Filters on     *)
(* tags, priority and text and the count of children sent with a summary   *)
(* are left out.                                                           *)
(***************************************************************************)
EXTENDS GatedStore

CONSTANTS
  DependsOn,   \* the kind of edge that blocks
  Status,      \* the column that says how far a facet is
  Done,        \* its value when the facet is finished
  Scenarios,   \* requests, each with the tables it starts on
  MaxWrites    \* bound: how many writes TLC lets happen meanwhile

(***************************************************************************)
(* at is the facet named, or None where the request may leave it out.      *)
(***************************************************************************)
Query ==
  [op : {"list", "blocked"}, caller : Callers, at : Parents]
    \cup [op : {"tree"}, caller : Callers, at : Ids]
    \cup [op : {"grep"}, caller : Callers]
    \cup [op : {"links"}, caller : Callers, at : Ids,
          direction : {"outgoing", "incoming", "both"}, kinds : SUBSET Kinds]

ASSUME ScenarioAssumption ==
  \A sc \in Scenarios :
    /\ sc.query \in Query
    /\ IsTable(sc.facets) /\ sc.edges \subseteq Edges
    /\ RefIntegrity(sc.facets, sc.edges)

ASSUME ReadBoundAssumption == MaxWrites \in Nat

VARIABLES
  stage, query,  \* where the reader is, and its request
  todo,          \* items to look at: <<"walk", r>>, <<"deps", i>>, <<"far", e>>, <<"target", e>>
  answer,        \* the facts found so far
  writes,        \* how many writes happened since the start
  lasting,       \* history: facts that held at every moment of the request
  seen           \* history: facts that held at some moment of the request

readVars == <<facets, edges, minted, stage, query, todo, answer, writes, lasting, seen>>

-----------------------------------------------------------------------------
(***************************************************************************)
(* What the statements of the store return.                                *)
(***************************************************************************)
Subtree(r) == ({r} \cap Live) \cup Below(facets, Children(facets, {r}))

Endless(r) == r \in Live \cap Below(facets, Children(facets, {r}))

EdgesAt(i, direction, kinds) ==
  {e \in edges : /\ e.kind \in kinds
                 /\ \/ direction # "incoming" /\ e.from = i
                    \/ direction # "outgoing" /\ e.to = i}

Sees(i) == i \in Live /\ CanSee(query.caller, facets[i])

Visible(S) == {i \in S : Sees(i)}

(***************************************************************************)
(* The facts a request asks for, and those it may report, as of now.  Not  *)
(* the same: grep may meet a root that was moved since, and blocked reads  *)
(* the status of a facet after the edge that leads to it.                  *)
(***************************************************************************)
Found(r, S) == [from : {r}, to : S, kind : {None}]

Under(S) == UNION {Found(r, Visible(Subtree(r))) : r \in Visible(S)}

Joining(es) == {e \in es : Sees(e.from) /\ Sees(e.to)}

Asked ==
  CASE query.op = "list"    -> Found(query.at, Visible(Children(facets, {query.at})))
    [] query.op = "tree"    -> Under({query.at})
    [] query.op = "grep"    -> Under(Roots(facets))
    [] query.op = "links"   -> Joining(EdgesAt(query.at, query.direction, query.kinds))
    [] query.op = "blocked" ->
         {e \in Joining(edges) : /\ e.kind = DependsOn
                                 /\ e.from \in Children(facets, {query.at})
                                 /\ facets[e.to].cols[Status] # Done}

Reportable ==
  CASE query.op \in {"list", "tree", "links"} -> Asked
    [] query.op = "grep"    -> Under(Live)
    [] query.op = "blocked" -> Joining(edges)

-----------------------------------------------------------------------------
(***************************************************************************)
(* Any read step leaves the tables alone, and so the facts as they are.    *)
(***************************************************************************)
Go(place, items, facts) ==
  /\ stage' = IF place = "each" /\ items = {} THEN "done" ELSE place
  /\ todo' = items
  /\ answer' = answer \cup facts
  /\ UNCHANGED <<tables, query, writes, lasting, seen>>

Init ==
  /\ \E sc \in Scenarios :
       /\ facets = sc.facets /\ edges = sc.edges /\ minted = DOMAIN sc.facets
       /\ query = sc.query
  /\ stage = IF query.op \in {"tree", "links"} THEN "probe" ELSE "first"
  /\ todo = {} /\ answer = {}
  /\ writes = 0
  /\ lasting = Asked /\ seen = Reportable

(***************************************************************************)
(* TenantGate::get: missing and invisible are alike.  For tree the answer  *)
(* is then empty, for links it is not_found.                               *)
(***************************************************************************)
Probe ==
  /\ stage = "probe"
  /\ Go(IF Sees(query.at) THEN "first" ELSE "done", {}, {})

ListChildren ==
  /\ stage = "first" /\ query.op \in {"list", "blocked"}
  /\ LET found == Visible(Children(facets, {query.at}))
     IN  IF query.op = "list"
           THEN Go("done", {}, Found(query.at, found))
           ELSE Go("each", {"deps"} \X found, {})

(***************************************************************************)
(* get_subtree, every node of it filtered.                                 *)
(***************************************************************************)
WalkVisiblePart(r, place, rest) ==
  IF Endless(r) THEN Go("stuck", {}, {})
  ELSE Go(place, rest, Found(r, Subtree(r)))

Walk(r, place, rest) ==
  IF Endless(r) THEN Go("stuck", {}, {})
  ELSE Go(place, rest, Found(r, Visible(Subtree(r))))

ReadTree ==
  /\ stage = "first" /\ query.op = "tree"
  /\ Walk(query.at, "done", {})

(***************************************************************************)
(* collect_all_visible: the roots, then the subtree of each visible one.   *)
(***************************************************************************)
ListRoots ==
  /\ stage = "first" /\ query.op = "grep"
  /\ LET found == Visible(Roots(facets))
     IN  Go("each", {"walk"} \X found, UNION {Found(r, {r}) : r \in found})

WalkRoot(item) ==
  /\ item[1] = "walk"
  /\ Walk(item[2], "each", todo \ {item})

(***************************************************************************)
(* TenantGate::edges: the edges, then the far end of each.                 *)
(***************************************************************************)
ReadEdges ==
  /\ stage = "first" /\ query.op = "links"
  /\ Go("each", {"far"} \X EdgesAt(query.at, query.direction, query.kinds), {})

Far(e) == IF e.from = query.at THEN e.to ELSE e.from

ReadFar(item) ==
  /\ item[1] = "far"
  /\ Go("each", todo \ {item}, {e \in {item[2]} : Sees(Far(e))})

(***************************************************************************)
(* TenantGate::blocked_in: the dependencies of each child, then the target *)
(* of each; the targets of one child come before the next child.           *)
(***************************************************************************)
ReadDeps(item) ==
  /\ item[1] = "deps"
  /\ \A other \in todo : other[1] = "deps"
  /\ Go("each", (todo \ {item}) \cup ({"target"} \X EdgesAt(item[2], "outgoing", {DependsOn})), {})

Blocks(i) == Sees(i) /\ facets[i].cols[Status] # Done

BreakAtGoneTarget(item) ==
  /\ item[1] = "target"
  /\ Go("each", IF item[2].to \in Live THEN todo \ {item} ELSE {},
                {e \in {item[2]} : Blocks(e.to)})

AwaitTarget(item) ==
  /\ item[1] = "target"
  /\ item[2].to \in Live
  /\ Go("each", todo \ {item}, {e \in {item[2]} : Blocks(e.to)})

ReadTarget(item) ==
  /\ item[1] = "target"
  /\ Go("each", todo \ {item}, {e \in {item[2]} : Blocks(e.to)})

Serve ==
  \/ Probe
  \/ ListChildren
  \/ ReadTree
  \/ ListRoots
  \/ ReadEdges
  \/ /\ stage = "each"
     /\ \E item \in todo :
          WalkRoot(item) \/ ReadFar(item) \/ ReadDeps(item) \/ ReadTarget(item)

(***************************************************************************)
(* Meanwhile the others write.  A write to rows or columns the request     *)
(* does not read changes nothing for it, and TLC need not try it.          *)
(***************************************************************************)
ReadPart ==
  CASE query.op \in {"list", "tree", "grep"} -> [i \in Live |-> <<facets[i].parent, facets[i].tenant>>]
    [] query.op = "links"                    -> <<edges, [i \in Live |-> facets[i].tenant]>>
    [] query.op = "blocked"                  -> <<edges, facets>>

WriteMeanwhile ==
  /\ writes < MaxWrites
  /\ stage \notin {"done", "stuck"}
  /\ UNCHANGED <<stage, query, todo, answer>>
  /\ GatedNext
  /\ ReadPart' # ReadPart
  /\ writes' = writes + 1
  /\ lasting' = lasting \cap Asked' /\ seen' = seen \cup Reportable'

Next == Serve \/ WriteMeanwhile

Spec == Init /\ [][Next]_readVars

(***************************************************************************)
(* A runtime polls the handler whenever its statement is done.             *)
(***************************************************************************)
FairSpec == Spec /\ WF_readVars(Serve)

-----------------------------------------------------------------------------
TypeOK ==
  /\ TablesOK
  /\ stage \in {"probe", "first", "each", "done", "stuck"}
  /\ query \in Query
  /\ todo \subseteq ({"walk", "deps"} \X Ids) \cup ({"far", "target"} \X Edges)
  /\ answer \subseteq [from : Parents, to : Ids, kind : Kinds \cup {None}]
  /\ writes \in 0 .. MaxWrites

(***************************************************************************)
(* What held all along is in the answer: a facet that stayed visible below *)
(* the same visible root, an edge that stayed with both its ends, a        *)
(* blocker that stayed unfinished.  Writes between the statements of a     *)
(* read can hide only what they themselves touch.                          *)
(***************************************************************************)
NothingStableIsMissed == stage = "done" => lasting \subseteq answer

(***************************************************************************)
(* Nothing is reported that the caller could not have seen, whole, at one  *)
(* moment of the request.  The far end of an edge is read after the edge:  *)
(* that it tells whether the edge was visible rests on edges going with    *)
(* their ends, on ids never coming back and on tenants never changing.     *)
(***************************************************************************)
NothingUnseenIsReported == answer \subseteq seen

(***************************************************************************)
(* While the facets form trees every read is answered.                     *)
(***************************************************************************)
ReadsAreAnswered == []IsForest(facets) => <>(stage = "done")
=============================================================================
