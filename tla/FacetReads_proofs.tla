------------------------- MODULE FacetReads_proofs -------------------------
(***************************************************************************)
(* What a read of several statements may miss and may report, whatever     *)
(* gated writes come between them: for any callers, requests and tables to *)
(* start on.                                                               *)
(*                                                                         *)
(* The answer holds nothing unseen because what the reader judges later    *)
(* cannot become visible in between: an id is minted once, a tenant stays, *)
(* and a row that went has nothing below it and no edges.  It misses       *)
(* nothing lasting because each lasting fact is in the answer or has an    *)
(* item left to look at.                                                   *)
(***************************************************************************)
EXTENDS FacetReads, Store_proofs

-----------------------------------------------------------------------------
(***************************************************************************)
(* The inductive invariant.  Ours(i): facet i was minted and, if it still  *)
(* lives, the caller sees it.  It stays true through every write, since    *)
(* ids are not minted twice and tenants do not change.                     *)
(***************************************************************************)
Ours(i) == i \in minted /\ (i \in Live => CanSee(query.caller, facets[i]))

Places ==
  /\ stage = "probe" => query.op \in {"tree", "links"}
  /\ stage = "first" /\ query.op \in {"tree", "links"} => Ours(query.at)
  /\ stage = "each" => query.op \in {"grep", "links", "blocked"}
  /\ todo # {} => stage = "each"

(***************************************************************************)
(* What the reader knows of an item when it comes to it.                   *)
(***************************************************************************)
OwnRow(op, i) == query.op = op /\ Ours(i)

WasSeen(op, e, i) == query.op = op /\ i \in minted /\ (Sees(i) => e \in seen)

ItemOK(item) ==
  /\ item[1] = "walk" => OwnRow("grep", item[2])
  /\ item[1] = "deps" => OwnRow("blocked", item[2])
  /\ item[1] = "far" => WasSeen("links", item[2], Far(item[2]))
  /\ item[1] = "target" => WasSeen("blocked", item[2], item[2].to)

ItemsOK == \A item \in todo : ItemOK(item)

(***************************************************************************)
(* The item that will still find a lasting fact.                           *)
(***************************************************************************)
WillFind(items, f) ==
  \/ query.op = "grep" /\ <<"walk", f.from>> \in items
  \/ query.op = "links" /\ <<"far", f>> \in items
  \/ query.op = "blocked" /\ (<<"deps", f.from>> \in items \/ <<"target", f>> \in items)

NothingForgotten == stage = "each" => \A f \in lasting : f \in answer \/ WillFind(todo, f)

HistoryOK == Reportable \subseteq seen /\ lasting \subseteq Asked

ReadsInv ==
  /\ TypeOK /\ Integrity /\ Places /\ ItemsOK /\ HistoryOK
  /\ NothingUnseenIsReported /\ NothingForgotten /\ NothingStableIsMissed

-----------------------------------------------------------------------------
(***************************************************************************)
(* What a request asks for and may report, request by request.             *)
(***************************************************************************)
LEMMA AskedIs ==
  /\ query.op = "list" => Asked = Found(query.at, Visible(Children(facets, {query.at})))
  /\ query.op = "tree" => Asked = Under({query.at})
  /\ query.op = "grep" => Asked = Under(Roots(facets))
  /\ query.op = "links" => Asked = Joining(EdgesAt(query.at, query.direction, query.kinds))
  /\ query.op = "blocked" =>
       Asked = {e \in Joining(edges) : /\ e.kind = DependsOn
                                       /\ e.from \in Children(facets, {query.at})
                                       /\ facets[e.to].cols[Status] # Done}
BY DEF Asked

LEMMA ReportableIs ==
  /\ query.op \in {"list", "tree", "links"} => Reportable = Asked
  /\ query.op = "grep" => Reportable = Under(Live)
  /\ query.op = "blocked" => Reportable = Joining(edges)
BY DEF Reportable

LEMMA QueryTyped ==
  ASSUME query \in Query
  PROVE  /\ query.op \in {"list", "tree", "grep", "links", "blocked"}
         /\ query.op \in {"list", "blocked"} => query.at \in Parents
         /\ query.op \in {"tree", "links"} => query.at \in Ids
BY DEF Query

(***************************************************************************)
(* A row that went has no subtree; one the caller may see has the subtree  *)
(* the fact is defined by.                                                 *)
(***************************************************************************)
LEMMA GoneHasNoSubtree ==
  ASSUME TablesOK, Integrity, NEW r \in minted, r \notin Live
  PROVE  Subtree(r) = {}
<1>1. Children(facets, {r}) = {}
  BY NoneAssumption DEF Children, Integrity, RefIntegrity, ParentsExist, ParentExists, Live, TablesOK
<1> QED
  BY <1>1, NothingBelowNothing DEF Subtree

LEMMA UnderIs ==
  ASSUME NEW S, NEW f
  PROVE  f \in Under(S) <=>
           \E r \in S : Sees(r) /\ f \in Found(r, Visible(Subtree(r)))
BY DEF Under, Visible

LEMMA OurSubtree ==
  ASSUME TablesOK, Integrity, NEW r, Ours(r), NEW S, r \in S \/ S = Live
  PROVE  Found(r, Visible(Subtree(r))) \subseteq Under(S)
<1>1. CASE r \in Live
  BY <1>1, UnderIs DEF Ours, Sees
<1>2. CASE r \notin Live
  BY <1>2, GoneHasNoSubtree DEF Ours, Found, Visible
<1> QED
  BY <1>1, <1>2

LEMMA FoundTyped ==
  ASSUME TablesOK, NEW r \in Parents, NEW S
  PROVE  Found(r, Visible(S)) \subseteq [from : Parents, to : Ids, kind : Kinds \cup {None}]
BY DEF Found, Visible, Sees, TablesOK

-----------------------------------------------------------------------------
(***************************************************************************)
(* A write of the others.                                                  *)
(***************************************************************************)
LEMMA OursStays ==
  ASSUME TablesOK, GatedNext, UNCHANGED query, NEW i, Ours(i)
  PROVE  Ours(i)'
<1>1. Persist(i)
  BY MintedPersist DEF Ours
<1> QED
  BY <1>1 DEF Persist, Ours, CanSee

LEMMA UnseenStays ==
  ASSUME TablesOK, GatedNext, UNCHANGED query, NEW i \in minted, Sees(i)'
  PROVE  Sees(i)
<1>1. Persist(i)
  BY MintedPersist
<1> QED
  BY <1>1 DEF Persist, Sees, CanSee

LEMMA WriteInv ==
  ASSUME ReadsInv, WriteMeanwhile
  PROVE  ReadsInv'
<1> USE DEF ReadsInv, WriteMeanwhile
<1>1. TablesOK /\ TablesOK' /\ Integrity'
  <2>1. TablesOK /\ [StoreNext]_tables
    BY GatedStepIsStatement DEF TypeOK
  <2> QED
    BY <2>1, StoreNextInv DEF StoreInv
<1>2. TypeOK'
  BY <1>1, ReadBoundAssumption DEF TypeOK
<1>3. Places'
  BY <1>1, OursStays DEF Places
<1>4. ItemsOK'
  <2> SUFFICES ASSUME NEW item \in todo PROVE ItemOK(item)'
    BY DEF ItemsOK
  <2>1. ItemOK(item)
    BY DEF ItemsOK
  <2>2. \A op, i : OwnRow(op, i) => OwnRow(op, i)'
    BY <1>1, OursStays DEF OwnRow
  <2>3. \A op, e, i : WasSeen(op, e, i) => WasSeen(op, e, i)'
    <3> SUFFICES ASSUME NEW op, NEW e, NEW i, WasSeen(op, e, i)
                 PROVE  WasSeen(op, e, i)'
      OBVIOUS
    <3>1. Persist(i)
      BY <1>1, MintedPersist DEF WasSeen
    <3>2. Sees(i)' => Sees(i)
      BY <1>1, UnseenStays DEF WasSeen
    <3> QED
      BY <3>1, <3>2 DEF WasSeen, Persist
  <2>4. Far(item[2])' = Far(item[2])
    BY DEF Far
  <2> QED
    BY <2>1, <2>2, <2>3, <2>4 DEF ItemOK
<1>5. HistoryOK'
  BY DEF HistoryOK
<1>6. NothingUnseenIsReported'
  BY DEF NothingUnseenIsReported
<1>7. NothingForgotten'
  BY DEF NothingForgotten, WillFind
<1>8. NothingStableIsMissed'
  BY DEF NothingStableIsMissed
<1> QED
  BY <1>1, <1>2, <1>3, <1>4, <1>5, <1>6, <1>7, <1>8

-----------------------------------------------------------------------------
(***************************************************************************)
(* A statement of the reader.  It reports what was seen, leaves items the  *)
(* reader may look at, and forgets no lasting fact.                        *)
(***************************************************************************)
Items == ({"walk", "deps"} \X Ids) \cup ({"far", "target"} \X Edges)

Facts == [from : Parents, to : Ids, kind : Kinds \cup {None}]

SoundPlace(place, items) ==
  /\ place \in {"first", "each", "done", "stuck"}
  /\ place = "first" /\ query.op \in {"tree", "links"} => Ours(query.at)
  /\ place = "each" => query.op \in {"grep", "links", "blocked"}
  /\ items # {} => place = "each"

SoundItems(items) == items \subseteq Items /\ \A item \in items : ItemOK(item)

SoundFacts(facts) == facts \subseteq Facts /\ facts \subseteq seen

Covered(place, items, facts) ==
  place \in {"each", "done"} =>
    \A f \in lasting : f \in answer \cup facts \/ WillFind(items, f)

LEMMA ReadStep ==
  ASSUME ReadsInv, NEW place, NEW items, NEW facts, Go(place, items, facts),
         SoundPlace(place, items), SoundItems(items), SoundFacts(facts),
         Covered(place, items, facts)
  PROVE  ReadsInv'
<1> USE DEF ReadsInv, Go
<1>0. UNCHANGED <<facets, edges, minted, query, writes, lasting, seen>>
  BY DEF tables
<1>1. TypeOK' /\ Integrity'
  BY <1>0 DEF TypeOK, TablesOK, Live, Integrity, SoundPlace, SoundItems, Items, SoundFacts, Facts
<1>2. Places'
  BY <1>0 DEF Places, SoundPlace, Ours, Live
<1>3. ItemsOK'
  <2>1. \A item : ItemOK(item) => ItemOK(item)'
    BY <1>0 DEF ItemOK, OwnRow, WasSeen, Far, Ours, Sees, Live
  <2> QED
    BY <2>1 DEF ItemsOK, SoundItems
<1>4. HistoryOK'
  <2>1. Asked' = Asked
    BY <1>0 DEF Asked, Found, Visible, Sees, Live, Under, Subtree, Joining, EdgesAt
  <2>2. Reportable' = Reportable
    BY <1>0, <2>1 DEF Reportable, Found, Visible, Sees, Live, Under, Subtree, Joining
  <2> QED
    BY <1>0, <2>1, <2>2 DEF HistoryOK
<1>5. NothingUnseenIsReported'
  BY <1>0 DEF NothingUnseenIsReported, SoundFacts
<1>6. \A f : ~ WillFind({}, f)
  BY DEF WillFind
<1>7. NothingForgotten'
  BY <1>0 DEF NothingForgotten, Covered, WillFind
<1>8. NothingStableIsMissed'
  BY <1>0, <1>6 DEF NothingStableIsMissed, Covered, SoundPlace
<1> QED
  BY <1>1, <1>2, <1>3, <1>4, <1>5, <1>7, <1>8

LEMMA ProbeInv ==
  ASSUME ReadsInv, Probe
  PROVE  ReadsInv'
<1> USE DEF ReadsInv, Probe
<1> DEFINE place == IF Sees(query.at) THEN "first" ELSE "done"
<1>1. query.op \in {"tree", "links"}
  BY DEF Places
<1>2. SoundPlace(place, {})
  BY <1>1 DEF SoundPlace, Ours, Sees, TypeOK, TablesOK
<1>3. SoundItems({}) /\ SoundFacts({})
  BY DEF SoundItems, SoundFacts
<1>4. Covered(place, {}, {})
  <2> SUFFICES ASSUME ~ Sees(query.at) PROVE lasting = {}
    BY DEF Covered
  <2>1. CASE query.op = "tree"
    <3>1. Under({query.at}) = {}
      BY UnderIs
    <3> QED
      BY <2>1, <3>1, AskedIs DEF HistoryOK
  <2>2. CASE query.op = "links"
    BY <2>2, AskedIs DEF HistoryOK, Joining, EdgesAt
  <2> QED
    BY <1>1, <2>1, <2>2
<1>5. Go(place, {}, {})
  OBVIOUS
<1> HIDE DEF place
<1> QED
  BY <1>2, <1>3, <1>4, <1>5, ReadStep

LEMMA ListChildrenInv ==
  ASSUME ReadsInv, ListChildren
  PROVE  ReadsInv'
<1> USE DEF ReadsInv, ListChildren
<1> DEFINE found == Visible(Children(facets, {query.at}))
<1>0. TablesOK /\ query \in Query
  BY DEF TypeOK
<1>1. CASE query.op = "list"
  <2>1. Go("done", {}, Found(query.at, found))
    BY <1>1
  <2>2. Asked = Found(query.at, found) /\ Reportable = Asked
    BY <1>1, AskedIs, ReportableIs
  <2>3. SoundPlace("done", {}) /\ SoundItems({})
    BY DEF SoundPlace, SoundItems
  <2>4. SoundFacts(Found(query.at, found))
    <3>1. Found(query.at, found) \subseteq Facts
      BY <1>0, <1>1, QueryTyped, FoundTyped DEF Facts
    <3> QED
      BY <2>2, <3>1 DEF SoundFacts, HistoryOK
  <2>5. Covered("done", {}, Found(query.at, found))
    BY <2>2 DEF Covered, HistoryOK
  <2> QED
    BY <2>1, <2>3, <2>4, <2>5, ReadStep
<1>2. CASE query.op = "blocked"
  <2> DEFINE items == {"deps"} \X found
  <2>1. Go("each", items, {})
    BY <1>2
  <2>2. SoundPlace("each", items) /\ SoundFacts({})
    BY <1>2 DEF SoundPlace, SoundFacts
  <2>3. SoundItems(items)
    <3>1. \A i \in found : i \in Ids /\ Ours(i)
      BY <1>0 DEF Visible, Sees, Ours, TablesOK
    <3> QED
      BY <1>2, <3>1 DEF SoundItems, Items, ItemOK, OwnRow
  <2>4. Covered("each", items, {})
    BY <1>2, AskedIs DEF Covered, HistoryOK, WillFind, Joining, Visible
  <2> QED
    BY <2>1, <2>2, <2>3, <2>4, ReadStep
<1> QED
  BY <1>1, <1>2

(***************************************************************************)
(* Walking a row the reader may look at.                                   *)
(***************************************************************************)
LEMMA WalkStep ==
  ASSUME ReadsInv, NEW r, Ours(r), NEW S, r \in S \/ S = Live, Under(S) \subseteq seen,
         NEW place, NEW rest, Walk(r, place, rest),
         SoundPlace(place, rest), SoundItems(rest),
         Covered(place, rest, Found(r, Visible(Subtree(r))))
  PROVE  ReadsInv'
<1>1. CASE Endless(r)
  <2>1. SoundPlace("stuck", {}) /\ SoundItems({}) /\ SoundFacts({}) /\ Covered("stuck", {}, {})
    BY DEF SoundPlace, SoundItems, SoundFacts, Covered
  <2> QED
    BY <1>1, <2>1, ReadStep DEF Walk
<1>2. CASE ~ Endless(r)
  <2>1. TablesOK /\ Integrity /\ r \in Parents
    BY DEF ReadsInv, TypeOK, TablesOK, Ours, Parents
  <2>2. SoundFacts(Found(r, Visible(Subtree(r))))
    BY <2>1, OurSubtree, FoundTyped DEF SoundFacts, Facts
  <2> QED
    BY <1>2, <2>2, ReadStep DEF Walk
<1> QED
  BY <1>1, <1>2

LEMMA ReadTreeInv ==
  ASSUME ReadsInv, ReadTree
  PROVE  ReadsInv'
<1> USE DEF ReadsInv, ReadTree
<1>1. Ours(query.at)
  BY DEF Places
<1>2. Asked = Under({query.at}) /\ Reportable = Asked
  BY AskedIs, ReportableIs
<1>3. Under({query.at}) \subseteq seen
  BY <1>2 DEF HistoryOK
<1>4. Walk(query.at, "done", {})
  OBVIOUS
<1>5. SoundPlace("done", {}) /\ SoundItems({})
  BY DEF SoundPlace, SoundItems
<1>6. Covered("done", {}, Found(query.at, Visible(Subtree(query.at))))
  <2>1. Under({query.at}) \subseteq Found(query.at, Visible(Subtree(query.at)))
    BY UnderIs
  <2> QED
    BY <1>2, <2>1 DEF Covered, HistoryOK
<1> QED
  BY <1>1, <1>3, <1>4, <1>5, <1>6, WalkStep

LEMMA ListRootsInv ==
  ASSUME ReadsInv, ListRoots
  PROVE  ReadsInv'
<1> USE DEF ReadsInv, ListRoots
<1> DEFINE found == Visible(Roots(facets))
           items == {"walk"} \X found
           facts == UNION {Found(r, {r}) : r \in found}
<1>0. TablesOK
  BY DEF TypeOK
<1>1. Go("each", items, facts)
  OBVIOUS
<1>2. SoundPlace("each", items)
  BY DEF SoundPlace
<1>3. \A r \in found : r \in Ids /\ r \in Live /\ Sees(r) /\ Ours(r)
  BY <1>0 DEF Visible, Sees, Ours, TablesOK
<1>4. SoundItems(items)
  BY <1>3 DEF SoundItems, Items, ItemOK, OwnRow
<1>5. SoundFacts(facts)
  <2>1. Reportable = Under(Live)
    BY ReportableIs
  <2>2. ASSUME NEW r \in found PROVE Found(r, {r}) \subseteq Facts /\ Found(r, {r}) \subseteq Under(Live)
    <3>1. r \in Visible(Subtree(r))
      BY <1>3, <2>2 DEF Visible, Subtree
    <3>2. Found(r, {r}) \subseteq Found(r, Visible(Subtree(r)))
      BY <3>1 DEF Found
    <3>3. r \in Live /\ Sees(r)
      BY <1>3, <2>2
    <3>4. Found(r, {r}) \subseteq Under(Live)
      BY <3>2, <3>3, UnderIs
    <3> QED
      BY <1>3, <2>2, <3>4 DEF Found, Facts, Parents
  <2> QED
    BY <2>1, <2>2 DEF SoundFacts, HistoryOK
<1>6. Covered("each", items, facts)
  <2>1. Asked = Under(Roots(facets))
    BY AskedIs
  <2>2. ASSUME NEW f \in Asked PROVE f.from \in found
    BY <2>1, <2>2, UnderIs DEF Found, Visible
  <2> QED
    BY <2>2 DEF Covered, HistoryOK, WillFind
<1> HIDE DEF found, items, facts
<1> QED
  BY <1>1, <1>2, <1>4, <1>5, <1>6, ReadStep

(***************************************************************************)
(* What is common to the steps that look at one item.                      *)
(***************************************************************************)
LEMMA NextItem ==
  ASSUME ReadsInv, stage = "each", NEW item \in todo
  PROVE  /\ ItemOK(item) /\ item \in Items
         /\ SoundPlace("each", todo \ {item}) /\ SoundItems(todo \ {item})
         /\ \A f \in lasting : f \in answer \/ WillFind(todo, f)
BY DEF ReadsInv, TypeOK, Places, ItemsOK, NothingForgotten, SoundPlace, SoundItems, Items

LEMMA WalkRootInv ==
  ASSUME ReadsInv, stage = "each", NEW item \in todo, WalkRoot(item)
  PROVE  ReadsInv'
<1> DEFINE r == item[2]
           facts == Found(r, Visible(Subtree(r)))
<1>1. item[1] = "walk" /\ Walk(r, "each", todo \ {item})
  BY DEF WalkRoot
<1>2. query.op = "grep" /\ Ours(r)
  BY <1>1, NextItem DEF ItemOK, OwnRow
<1>3. Under(Live) \subseteq seen
  BY <1>2, ReportableIs DEF ReadsInv, HistoryOK
<1>4. Covered("each", todo \ {item}, facts)
  <2> SUFFICES ASSUME NEW f \in lasting, f \notin answer
               PROVE  f \in facts \/ <<"walk", f.from>> \in todo \ {item}
    BY <1>2 DEF Covered, WillFind
  <2>1. <<"walk", f.from>> \in todo
    BY <1>2, NextItem DEF WillFind
  <2>2. ASSUME <<"walk", f.from>> = item PROVE f \in facts
    <3>1. f.from = r
      BY <2>2
    <3>2. f \in Under(Roots(facets))
      BY <1>2, AskedIs DEF ReadsInv, HistoryOK
    <3>3. PICK s \in Roots(facets) : f \in Found(s, Visible(Subtree(s)))
      BY <3>2, UnderIs
    <3>4. s = r
      BY <3>1, <3>3 DEF Found
    <3> QED
      BY <3>3, <3>4
  <2> QED
    BY <2>1, <2>2
<1>5. SoundPlace("each", todo \ {item}) /\ SoundItems(todo \ {item})
  BY NextItem
<1> HIDE DEF r
<1> QED
  BY <1>1, <1>2, <1>3, <1>4, <1>5, WalkStep

LEMMA ReadEdgesInv ==
  ASSUME ReadsInv, ReadEdges
  PROVE  ReadsInv'
<1> USE DEF ReadsInv, ReadEdges
<1> DEFINE found == EdgesAt(query.at, query.direction, query.kinds)
           items == {"far"} \X found
<1>0. TablesOK /\ Integrity
  BY DEF TypeOK
<1>1. Go("each", items, {})
  OBVIOUS
<1>2. SoundPlace("each", items) /\ SoundFacts({})
  BY DEF SoundPlace, SoundFacts
<1>3. Asked = Joining(found) /\ Reportable = Asked
  BY AskedIs, ReportableIs
<1>4. ASSUME NEW e \in found
      PROVE  e \in Edges /\ Far(e) \in minted /\ (Sees(Far(e)) => e \in seen)
  <2>1. e \in edges /\ (e.from = query.at \/ e.to = query.at)
    BY <1>4 DEF EdgesAt
  <2>2. e \in Edges /\ e.from \in Live /\ e.to \in Live
    BY <1>0, <2>1 DEF TablesOK, Integrity, RefIntegrity, EdgeEndsExist, EndsExist, Live
  <2>3. Sees(query.at)
    BY <2>1, <2>2 DEF Places, Ours, Sees
  <2>4. Sees(Far(e)) => Sees(e.from) /\ Sees(e.to)
    BY <2>1, <2>3 DEF Far
  <2> QED
    BY <1>0, <1>3, <1>4, <2>2, <2>4 DEF Far, TablesOK, HistoryOK, Joining
<1>5. SoundItems(items)
  BY <1>4 DEF SoundItems, Items, ItemOK, WasSeen
<1>6. Covered("each", items, {})
  BY <1>3 DEF Covered, HistoryOK, Joining, WillFind
<1> HIDE DEF found, items
<1> QED
  BY <1>1, <1>2, <1>5, <1>6, ReadStep

LEMMA ReadFarInv ==
  ASSUME ReadsInv, stage = "each", NEW item \in todo, ReadFar(item)
  PROVE  ReadsInv'
<1> DEFINE facts == {e \in {item[2]} : Sees(Far(e))}
<1>1. item[1] = "far" /\ Go("each", todo \ {item}, facts)
  BY DEF ReadFar
<1>2. query.op = "links" /\ item[2] \in Edges /\ (Sees(Far(item[2])) => item[2] \in seen)
  BY <1>1, NextItem DEF ItemOK, WasSeen, Items
<1>3. SoundFacts(facts)
  BY <1>2 DEF SoundFacts, Facts, Edges, Parents
<1>4. Covered("each", todo \ {item}, facts)
  <2> SUFFICES ASSUME NEW f \in lasting, f \notin answer
               PROVE  f \in facts \/ <<"far", f>> \in todo \ {item}
    BY <1>2 DEF Covered, WillFind
  <2>1. <<"far", f>> \in todo
    BY <1>2, NextItem DEF WillFind
  <2>2. Sees(f.from) /\ Sees(f.to)
    BY <1>2, AskedIs DEF ReadsInv, HistoryOK, Joining
  <2>3. Sees(Far(f))
    BY <2>2 DEF Far
  <2> QED
    BY <2>1, <2>3
<1>5. SoundPlace("each", todo \ {item}) /\ SoundItems(todo \ {item})
  BY NextItem
<1> HIDE DEF facts
<1> QED
  BY <1>1, <1>3, <1>4, <1>5, ReadStep

LEMMA ReadDepsInv ==
  ASSUME ReadsInv, stage = "each", NEW item \in todo, ReadDeps(item)
  PROVE  ReadsInv'
<1> DEFINE i == item[2]
           found == EdgesAt(i, "outgoing", {DependsOn})
           items == (todo \ {item}) \cup ({"target"} \X found)
<1>0. TablesOK /\ Integrity
  BY DEF ReadsInv, TypeOK
<1>1. item[1] = "deps" /\ Go("each", items, {})
  BY DEF ReadDeps
<1>2. query.op = "blocked" /\ Ours(i)
  BY <1>1, NextItem DEF ItemOK, OwnRow
<1>3. SoundPlace("each", items) /\ SoundFacts({})
  BY <1>2 DEF SoundPlace, SoundFacts
<1>4. ASSUME NEW e \in found
      PROVE  e \in Edges /\ e.to \in minted /\ (Sees(e.to) => e \in seen)
  <2>1. e \in edges /\ e.from = i
    BY <1>4 DEF EdgesAt
  <2>2. e \in Edges /\ e.from \in Live /\ e.to \in Live
    BY <1>0, <2>1 DEF TablesOK, Integrity, RefIntegrity, EdgeEndsExist, EndsExist, Live
  <2>3. Sees(e.from)
    BY <1>2, <2>1, <2>2 DEF Ours, Sees
  <2>4. Joining(edges) \subseteq seen
    BY <1>2, ReportableIs DEF ReadsInv, HistoryOK
  <2> QED
    BY <1>0, <2>1, <2>2, <2>3, <2>4 DEF TablesOK, Joining
<1>5. SoundItems(items)
  <2>1. SoundItems(todo \ {item})
    BY NextItem
  <2>2. SoundItems({"target"} \X found)
    BY <1>2, <1>4 DEF SoundItems, Items, ItemOK, WasSeen
  <2> QED
    BY <2>1, <2>2 DEF SoundItems
<1>6. Covered("each", items, {})
  <2> SUFFICES ASSUME NEW f \in lasting, f \notin answer
               PROVE  <<"deps", f.from>> \in items \/ <<"target", f>> \in items
    BY <1>2 DEF Covered, WillFind
  <2>1. <<"deps", f.from>> \in todo \/ <<"target", f>> \in todo
    BY <1>2, NextItem DEF WillFind
  <2>2. f \in edges /\ f.kind = DependsOn
    BY <1>2, AskedIs DEF ReadsInv, HistoryOK, Joining
  <2>3. <<"deps", f.from>> = item => f \in found
    BY <2>2 DEF EdgesAt
  <2>4. <<"target", f>> # item
    BY <1>1
  <2> QED
    BY <2>1, <2>3, <2>4
<1> HIDE DEF items
<1> QED
  BY <1>1, <1>3, <1>5, <1>6, ReadStep

LEMMA ReadTargetInv ==
  ASSUME ReadsInv, stage = "each", NEW item \in todo, ReadTarget(item)
  PROVE  ReadsInv'
<1> DEFINE facts == {e \in {item[2]} : Blocks(e.to)}
<1>1. item[1] = "target" /\ Go("each", todo \ {item}, facts)
  BY DEF ReadTarget
<1>2. query.op = "blocked" /\ item[2] \in Edges /\ (Sees(item[2].to) => item[2] \in seen)
  BY <1>1, NextItem DEF ItemOK, WasSeen, Items
<1>3. SoundFacts(facts)
  BY <1>2 DEF SoundFacts, Facts, Edges, Parents, Blocks
<1>4. Covered("each", todo \ {item}, facts)
  <2> SUFFICES ASSUME NEW f \in lasting, f \notin answer
               PROVE  \/ f \in facts
                      \/ <<"deps", f.from>> \in todo \ {item}
                      \/ <<"target", f>> \in todo \ {item}
    BY <1>2 DEF Covered, WillFind
  <2>1. <<"deps", f.from>> \in todo \/ <<"target", f>> \in todo
    BY <1>2, NextItem DEF WillFind
  <2>2. Blocks(f.to)
    BY <1>2, AskedIs DEF ReadsInv, HistoryOK, Joining, Blocks
  <2>3. <<"deps", f.from>> # item
    BY <1>1
  <2> QED
    BY <2>1, <2>2, <2>3
<1>5. SoundPlace("each", todo \ {item}) /\ SoundItems(todo \ {item})
  BY NextItem
<1> HIDE DEF facts
<1> QED
  BY <1>1, <1>3, <1>4, <1>5, ReadStep

-----------------------------------------------------------------------------
LEMMA ReadsInitInv == Init => ReadsInv
<1> SUFFICES ASSUME Init PROVE ReadsInv
  OBVIOUS
<1>1. PICK sc \in Scenarios :
        facets = sc.facets /\ edges = sc.edges /\ minted = DOMAIN sc.facets /\ query = sc.query
  BY DEF Init
<1>2. TablesOK /\ Integrity /\ query \in Query
  BY <1>1, ScenarioAssumption DEF TablesOK, Live, IsTable, Integrity
<1>3. TypeOK
  BY <1>2, ReadBoundAssumption DEF TypeOK, Init
<1>4. Places
  BY <1>2, QueryTyped DEF Places, Init
<1>5. ItemsOK /\ HistoryOK /\ NothingUnseenIsReported /\ NothingForgotten /\ NothingStableIsMissed
  BY DEF Init, ItemsOK, HistoryOK, NothingUnseenIsReported, NothingForgotten, NothingStableIsMissed
<1> QED
  BY <1>2, <1>3, <1>4, <1>5 DEF ReadsInv

LEMMA ReadsNextInv == ReadsInv /\ [Next]_readVars => ReadsInv'
<1> SUFFICES ASSUME ReadsInv, [Next]_readVars PROVE ReadsInv'
  OBVIOUS
<1>1. CASE Probe \/ ListChildren \/ ReadTree \/ ListRoots \/ ReadEdges
  BY <1>1, ProbeInv, ListChildrenInv, ReadTreeInv, ListRootsInv, ReadEdgesInv
<1>2. CASE stage = "each" /\ \E item \in todo :
             WalkRoot(item) \/ ReadFar(item) \/ ReadDeps(item) \/ ReadTarget(item)
  BY <1>2, WalkRootInv, ReadFarInv, ReadDepsInv, ReadTargetInv
<1>3. CASE WriteMeanwhile
  BY <1>3, WriteInv
<1>4. CASE UNCHANGED readVars
  <2>1. UNCHANGED <<facets, edges, minted, stage, query, todo, answer, writes, lasting, seen>>
    BY <1>4 DEF readVars
  <2>2. TypeOK' /\ Integrity' /\ Places'
    BY <2>1 DEF ReadsInv, TypeOK, TablesOK, Live, Integrity, Places, Ours
  <2>3. ItemsOK'
    BY <2>1 DEF ReadsInv, ItemsOK, ItemOK, OwnRow, WasSeen, Far, Ours, Sees, Live
  <2>4. Asked' = Asked
    BY <2>1 DEF Asked, Found, Visible, Sees, Live, Under, Subtree, Joining, EdgesAt
  <2>5. Reportable' = Reportable
    BY <2>1, <2>4 DEF Reportable, Found, Visible, Sees, Live, Under, Subtree, Joining
  <2>6. HistoryOK'
    BY <2>1, <2>4, <2>5 DEF ReadsInv, HistoryOK
  <2>7. NothingUnseenIsReported' /\ NothingForgotten' /\ NothingStableIsMissed'
    BY <2>1 DEF ReadsInv, NothingUnseenIsReported, NothingForgotten, NothingStableIsMissed, WillFind
  <2> QED
    BY <2>2, <2>3, <2>6, <2>7 DEF ReadsInv
<1> QED
  BY <1>1, <1>2, <1>3, <1>4 DEF Next, Serve

LEMMA ReadsInvariance == Spec => []ReadsInv
<1> QED
  BY ReadsInitInv, ReadsNextInv, PTL DEF Spec

(***************************************************************************)
(* The reader's items and answer keep their types, whatever is written     *)
(* between the statements of the request.                                  *)
(***************************************************************************)
THEOREM ReadsTypeCorrect == Spec => []TypeOK
<1>1. ReadsInv => TypeOK
  BY DEF ReadsInv
<1> QED
  BY <1>1, ReadsInvariance, PTL

(***************************************************************************)
(* Everything a read reports was visible to the caller, whole, at one      *)
(* moment of the request: the checks of the gate that come a statement     *)
(* after what they judge are not too late.                                 *)
(***************************************************************************)
THEOREM OnlySeenIsReported == Spec => []NothingUnseenIsReported
<1>1. ReadsInv => NothingUnseenIsReported
  BY DEF ReadsInv
<1> QED
  BY <1>1, ReadsInvariance, PTL

(***************************************************************************)
(* A finished read has everything that held throughout the request.        *)
(***************************************************************************)
THEOREM LastingFactsAreFound == Spec => []NothingStableIsMissed
<1>1. ReadsInv => NothingStableIsMissed
  BY DEF ReadsInv
<1> QED
  BY <1>1, ReadsInvariance, PTL
=============================================================================
