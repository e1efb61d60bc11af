------------------------- MODULE ImportPlans_proofs -------------------------
(***************************************************************************)
(* What an import leaves in the store, for any workspace, any failures and *)
(* any moment at which it is broken off: nothing out of its place, and in  *)
(* the end the plan less what was refused, counted rightly; and whatever   *)
(* others write meanwhile, no edge that no file declares.                  *)
(*                                                                         *)
(* The argument follows what is due.  A node of the plan is due until its  *)
(* statement, and made once: what hangs from a due node is due too, so     *)
(* that a refused statement cuts off only what is still to come.           *)
(***************************************************************************)
EXTENDS ImportPlans, Store_proofs, SequenceTheorems

(***************************************************************************)
(* Nodes and the nodes above them.                                         *)
(***************************************************************************)
LEMMA FirstOnes ==
  ASSUME NEW s
  PROVE  /\ SubSeq(s, 1, 1) = <<s[1]>>
         /\ SubSeq(s, 1, 2) = <<s[1], s[2]>>
         /\ SubSeq(s, 1, 3) = <<s[1], s[2], s[3]>>
<1> DEFINE S == {s[1], s[2], s[3]}
           q(n) == SubSeq(s, 1, n)
<1>1. ASSUME NEW n \in 1 .. 3
      PROVE  q(n) \in Seq(S) /\ Len(q(n)) = n /\ \A k \in 1 .. n : q(n)[k] = s[k]
  <2>1. \A k \in 1 .. n : s[k] \in S
    OBVIOUS
  <2> HIDE DEF S
  <2> QED
    BY <2>1, SubSeqProperties
<1>2. <<s[1]>> \in Seq(S) /\ <<s[1], s[2]>> \in Seq(S) /\ <<s[1], s[2], s[3]>> \in Seq(S)
  OBVIOUS
<1> HIDE DEF S, q
<1>3. q(1) = <<s[1]>>
  BY <1>1, <1>2, SeqEqual
<1>4. q(2) = <<s[1], s[2]>>
  BY <1>1, <1>2, SeqEqual
<1>5. q(3) = <<s[1], s[2], s[3]>>
  BY <1>1, <1>2, SeqEqual
<1> QED
  BY <1>3, <1>4, <1>5 DEF q

Above(node) == SubSeq(node, 1, Len(node) - 1)

OnPath(n, node) == \E k \in 1 .. Len(node) : SubSeq(node, 1, k) = n

LEMMA Paths ==
  ASSUME NEW r, NEW e, NEW i
  PROVE  /\ \A n : OnPath(n, <<r>>) <=> n = <<r>>
         /\ \A n : OnPath(n, <<r, e>>) <=> n \in {<<r>>, <<r, e>>}
         /\ \A n : OnPath(n, <<r, e, i>>) <=> n \in {<<r>>, <<r, e>>, <<r, e, i>>}
         /\ Above(<<r, e>>) = <<r>> /\ Above(<<r, e, i>>) = <<r, e>>
         /\ Len(<<r>>) = 1 /\ Len(<<r, e>>) = 2 /\ Len(<<r, e, i>>) = 3
<1> DEFINE q == <<r>>
           s == <<r, e>>
           t == <<r, e, i>>
<1>1. /\ q[1] = r /\ s[1] = r /\ s[2] = e /\ t[1] = r /\ t[2] = e /\ t[3] = i
      /\ Len(q) = 1 /\ Len(s) = 2 /\ Len(t) = 3
  OBVIOUS
<1>2. 1 .. 1 = {1} /\ 1 .. 2 = {1, 2} /\ 1 .. 3 = {1, 2, 3}
  OBVIOUS
<1>3. SubSeq(q, 1, 1) = <<q[1]>>
  BY FirstOnes
<1>4. SubSeq(s, 1, 1) = <<s[1]>> /\ SubSeq(s, 1, 2) = <<s[1], s[2]>>
  BY FirstOnes
<1>5. /\ SubSeq(t, 1, 1) = <<t[1]>> /\ SubSeq(t, 1, 2) = <<t[1], t[2]>>
      /\ SubSeq(t, 1, 3) = <<t[1], t[2], t[3]>>
  BY FirstOnes
<1> HIDE DEF q, s, t
<1>6. \A n : OnPath(n, q) <=> n = <<r>>
  BY <1>1, <1>2, <1>3 DEF OnPath
<1>7. \A n : OnPath(n, s) <=> n \in {<<r>>, <<r, e>>}
  BY <1>1, <1>2, <1>4 DEF OnPath
<1>8. \A n : OnPath(n, t) <=> n \in {<<r>>, <<r, e>>, <<r, e, i>>}
  BY <1>1, <1>2, <1>5 DEF OnPath
<1>9. Above(s) = <<r>> /\ Above(t) = <<r, e>>
  BY <1>1, <1>4, <1>5 DEF Above
<1> QED
  BY <1>1, <1>6, <1>7, <1>8, <1>9 DEF q, s, t

-----------------------------------------------------------------------------
(***************************************************************************)
(* The plan: its tickets and their nodes.                                  *)
(***************************************************************************)
LEMMA TicketsTyped ==
  ASSUME plan \in Seq(PlanFile)
  PROVE  /\ Tickets \subseteq Nat /\ 0 \notin Tickets /\ IsFiniteSet(Tickets)
         /\ \A i \in Tickets : /\ plan[i].repo \in Repos /\ plan[i].name \in Names
                               /\ EpicOf(plan[i]) \in Epics
                               /\ plan[i].blockedBy \subseteq Names
                               /\ plan[i].unlocks \subseteq Names
<1>1. Tickets \subseteq 1 .. Len(plan) /\ Len(plan) \in Nat
  BY DEF Tickets
<1>2. IsFiniteSet(1 .. Len(plan))
  BY <1>1, FS_Interval
<1>3. IsFiniteSet(Tickets)
  BY <1>1, <1>2, FS_Subset
<1>4. \A i \in 1 .. Len(plan) : plan[i] \in PlanFile
  OBVIOUS
<1>5. \A file \in PlanFile : EpicOf(file) \in Epics
  BY DEF PlanFile, EpicOf
<1> QED
  BY <1>1, <1>3, <1>4, <1>5 DEF PlanFile

LEMMA FirstIsIn ==
  ASSUME NEW S, S \subseteq Nat, S # {}
  PROVE  FirstOf(S) \in S
BY FirstExists DEF FirstOf

LEMMA OverviewIs ==
  ASSUME plan \in Seq(PlanFile), NEW r, NEW e
  PROVE  OverviewOf(r, e) = 0 \/ OverviewOf(r, e) \in TicketsOf(r, e)
<1> DEFINE all == {i \in TicketsOf(r, e) : plan[i].overview}
<1>1. all \subseteq Nat /\ all \subseteq TicketsOf(r, e)
  BY TicketsTyped DEF TicketsOf
<1>2. all # {} => FirstOf(all) \in all
  <2> HIDE DEF all
  <2> QED
    BY <1>1, FirstIsIn
<1> QED
  BY <1>1, <1>2 DEF OverviewOf

TicketNode(i) == <<plan[i].repo, EpicOf(plan[i]), i>>

IsOverview(i) == i = OverviewOf(plan[i].repo, EpicOf(plan[i]))

LEMMA NodeForms ==
  ASSUME NEW i
  PROVE  /\ IsOverview(i) => NodeOf(i) = <<plan[i].repo, EpicOf(plan[i])>>
         /\ ~ IsOverview(i) => NodeOf(i) = TicketNode(i)
         /\ EpicNode(i) = <<plan[i].repo, EpicOf(plan[i])>>
BY DEF NodeOf, EpicNode, TicketNode, IsOverview

LEMMA NodeOfOnce ==
  ASSUME NEW i \in Tickets, NEW j \in Tickets, NodeOf(i) = NodeOf(j)
  PROVE  i = j
<1>1. CASE IsOverview(i) /\ IsOverview(j)
  BY <1>1, NodeForms DEF IsOverview
<1>2. CASE ~ IsOverview(i) /\ ~ IsOverview(j)
  BY <1>2, NodeForms DEF TicketNode
<1>3. CASE ~ (IsOverview(i) <=> IsOverview(j))
  BY <1>3, NodeForms DEF TicketNode
<1> QED
  BY <1>1, <1>2, <1>3

(***************************************************************************)
(* The three kinds of nodes.                                               *)
(***************************************************************************)
TicketNodes == Nodes \ (RepoNodes \cup EpicNodes)

LEMMA KindsOfNodes ==
  /\ \A n \in RepoNodes : \E i \in Tickets : n = <<plan[i].repo>>
  /\ \A n \in EpicNodes : \E i \in Tickets : n = <<plan[i].repo, EpicOf(plan[i])>>
  /\ \A n \in TicketNodes : \E i \in Tickets : n = TicketNode(i) /\ n = NodeOf(i)
  /\ \A i \in Tickets : /\ <<plan[i].repo>> \in RepoNodes
                        /\ <<plan[i].repo, EpicOf(plan[i])>> \in EpicNodes
                        /\ ~ IsOverview(i) => TicketNode(i) \in TicketNodes
  /\ RepoNodes \cup EpicNodes \cup TicketNodes = Nodes
  /\ RepoNodes \cap EpicNodes = {} /\ RepoNodes \cap TicketNodes = {}
  /\ EpicNodes \cap TicketNodes = {}
<1>1. \A n \in RepoNodes : \E i \in Tickets : n = <<plan[i].repo>>
  BY DEF RepoNodes
<1>2. \A n \in EpicNodes : \E i \in Tickets : n = <<plan[i].repo, EpicOf(plan[i])>>
  BY DEF EpicNodes, EpicNode
<1>3. \A n \in TicketNodes : \E i \in Tickets : n = TicketNode(i) /\ n = NodeOf(i)
  BY NodeForms DEF TicketNodes, Nodes, EpicNodes
<1>4. \A i \in Tickets : TicketNode(i) \notin RepoNodes \cup EpicNodes
  BY <1>1, <1>2 DEF TicketNode
<1>5. \A i \in Tickets : /\ <<plan[i].repo>> \in RepoNodes
                         /\ <<plan[i].repo, EpicOf(plan[i])>> \in EpicNodes
                         /\ ~ IsOverview(i) => TicketNode(i) \in TicketNodes
  BY <1>4, NodeForms DEF RepoNodes, EpicNodes, EpicNode, TicketNodes, Nodes
<1>6. RepoNodes \cup EpicNodes \cup TicketNodes = Nodes
  BY DEF TicketNodes, Nodes
<1>7. RepoNodes \cap EpicNodes = {}
  BY <1>1, <1>2
<1>8. RepoNodes \cap TicketNodes = {} /\ EpicNodes \cap TicketNodes = {}
  BY DEF TicketNodes
<1> QED
  BY <1>1, <1>2, <1>3, <1>5, <1>6, <1>7, <1>8

LEMMA ImageFinite ==
  ASSUME NEW S, IsFiniteSet(S), NEW f, f \in [S -> {f[x] : x \in S}]
  PROVE  IsFiniteSet({f[x] : x \in S})
<1> DEFINE T == {f[x] : x \in S}
<1>1. f \in Surjection(S, T)
  BY DEF Surjection
<1> HIDE DEF T
<1>2. IsFiniteSet(T)
  BY <1>1, FS_Surjection
<1> QED
  BY <1>2 DEF T

LEMMA NodesFinite ==
  ASSUME plan \in Seq(PlanFile)
  PROVE  IsFiniteSet(Nodes)
<1> DEFINE f == [i \in Tickets |-> <<plan[i].repo>>]
           g == [i \in Tickets |-> EpicNode(i)]
           h == [i \in Tickets |-> NodeOf(i)]
<1>1. IsFiniteSet(Tickets)
  BY TicketsTyped
<1>2. /\ f \in [Tickets -> {f[x] : x \in Tickets}] /\ RepoNodes = {f[x] : x \in Tickets}
      /\ g \in [Tickets -> {g[x] : x \in Tickets}] /\ EpicNodes = {g[x] : x \in Tickets}
      /\ {NodeOf(i) : i \in Tickets} = {h[x] : x \in Tickets}
  BY DEF RepoNodes, EpicNodes
<1>0. h \in [Tickets -> {h[x] : x \in Tickets}]
  OBVIOUS
<1> HIDE DEF f, g, h
<1>3. IsFiniteSet(RepoNodes)
  BY <1>1, <1>2, ImageFinite
<1>4. IsFiniteSet(EpicNodes)
  BY <1>1, <1>2, ImageFinite
<1>5. IsFiniteSet({h[x] : x \in Tickets})
  BY <1>0, <1>1, ImageFinite
<1>6. Nodes = (RepoNodes \cup EpicNodes) \cup {h[x] : x \in Tickets}
  BY <1>2 DEF Nodes
<1> QED
  BY <1>3, <1>4, <1>5, <1>6, FS_Union

-----------------------------------------------------------------------------
(***************************************************************************)
(* What one create_facet of the import does, stored or not.                *)
(***************************************************************************)
Made(node) == \E id \in DOMAIN origin : origin[id] = node

Reports == [{"repos", "epics", "tickets", "edges"} -> Nat]

LostSets == [nodes : SUBSET Nodes, wires : SUBSET [ticket : Tickets, edge : Edges]]

Noted(node) ==
  /\ Fresh \in Ids \ minted
  /\ minted' = minted \cup {Fresh}
  /\ DOMAIN origin' = DOMAIN origin \cup {Fresh}
  /\ origin'[Fresh] = node
  /\ \A id \in DOMAIN origin : id # Fresh /\ origin'[id] = origin[id]

Stores(parent, part) ==
  /\ ParentExists(facets, parent)
  /\ Live' = Live \cup {Fresh}
  /\ facets'[Fresh].parent = parent
  /\ \A id \in Live : facets'[id] = facets[id]
  /\ lost' = lost
  /\ report'[part] = report[part] + 1
  /\ \A other \in {"repos", "epics", "tickets", "edges"} \ {part} : report'[other] = report[other]

StoresNot(parent, node) ==
  /\ UNCHANGED <<facets, report>>
  /\ \/ lost' = lost /\ ~ParentExists(facets, parent)
     \/ lost'.nodes = lost.nodes \cup {node}
  /\ lost'.wires = lost.wires

LEMMA InsertStep ==
  ASSUME TypeOK, NEW parent \in Parents, NEW node \in Nodes,
         NEW part \in {"repos", "epics", "tickets"}, Insert(parent, node, part)
  PROVE  /\ Noted(node)
         /\ Stores(parent, part) \/ StoresNot(parent, node)
         /\ edges' = edges /\ TablesOK'
         /\ report' \in Reports /\ report'["edges"] = report["edges"]
         /\ lost' \in LostSets /\ lost'.wires = lost.wires
         /\ lost.nodes \subseteq lost'.nodes /\ lost'.nodes \subseteq lost.nodes \cup {node}
<1>0. /\ TablesOK /\ tenant \in Callers /\ DOMAIN origin \subseteq minted
      /\ report \in Reports /\ lost \in LostSets
  BY DEF TypeOK, Reports, LostSets
<1>1. Fresh \in Ids /\ Fresh \notin minted
  BY DEF Insert, Fresh
<1>2. DOMAIN origin' = DOMAIN origin \cup {Fresh} /\ origin'[Fresh] = node
      /\ \A id \in DOMAIN origin : id # Fresh /\ origin'[id] = origin[id]
  BY <1>0, <1>1 DEF Insert
<1>3. CASE CreateFacet(Fresh, Imported(parent)) /\ Counted(part) /\ UNCHANGED lost
  <2>1. Imported(parent) \in Rows /\ Imported(parent).parent = parent
    BY <1>0, ImportAssumption DEF Imported, Rows
  <2>2. /\ ParentExists(facets, parent)
        /\ facets' = InsertRow(facets, Fresh, Imported(parent))
        /\ minted' = minted \cup {Fresh} /\ edges' = edges
    BY <1>3, <2>1 DEF CreateFacet
  <2>3. IsTable(facets') /\ Live' = Live \cup {Fresh}
    BY <1>0, <1>1, <2>1, <2>2, InsertKeepsTable DEF TablesOK, Live
  <2>4. TablesOK'
    BY <1>0, <1>1, <2>2, <2>3 DEF TablesOK
  <2>5. facets'[Fresh] = Imported(parent) /\ \A id \in Live : facets'[id] = facets[id]
    BY <1>0, <1>1, <2>2 DEF InsertRow, TablesOK, Live
  <2>6. /\ report' \in Reports /\ report'[part] = report[part] + 1
        /\ \A other \in {"repos", "epics", "tickets", "edges"} \ {part} : report'[other] = report[other]
    BY <1>0, <1>3 DEF Counted, Reports
  <2>7. Stores(parent, part)
    BY <1>3, <2>1, <2>2, <2>3, <2>5, <2>6 DEF Stores
  <2> QED
    BY <1>0, <1>1, <1>2, <1>3, <2>2, <2>4, <2>6, <2>7 DEF Noted
<1>4. CASE /\ MayFail("nodes", node, ~ParentExists(facets, parent))
           /\ minted' = minted \cup {Fresh}
           /\ UNCHANGED <<facets, edges, report>>
  <2>1. TablesOK'
    BY <1>0, <1>1, <1>4 DEF TablesOK, Live
  <2>2. CASE ~ParentExists(facets, parent) /\ UNCHANGED lost
    <3>1. StoresNot(parent, node)
      BY <1>4, <2>2 DEF StoresNot
    <3> QED
      BY <1>0, <1>1, <1>2, <1>4, <2>1, <2>2, <3>1 DEF Noted
  <2>3. CASE lost' = [lost EXCEPT !["nodes"] = @ \cup {node}]
    <3>1. lost'.nodes = lost.nodes \cup {node} /\ lost'.wires = lost.wires /\ lost' \in LostSets
      BY <1>0, <2>3 DEF LostSets
    <3>2. StoresNot(parent, node)
      BY <1>4, <3>1 DEF StoresNot
    <3> QED
      BY <1>0, <1>1, <1>2, <1>4, <2>1, <3>1, <3>2 DEF Noted
  <2> QED
    BY <1>4, <2>2, <2>3 DEF MayFail
<1> QED
  BY <1>3, <1>4 DEF Insert

-----------------------------------------------------------------------------
(***************************************************************************)
(* The invariant.  What is due: what is left of the loops over             *)
(* repositories, epics and tickets.                                        *)
(***************************************************************************)
RepoNames == {plan[i].repo : i \in Tickets}

EpicDue(r, e) == r \in repos \/ (r = at.repo /\ e \in epics)

TicketDue(r, e, i) == EpicDue(r, e) \/ (r = at.repo /\ e = at.epic /\ i \in batch)

Wiring == stage \in {"edge", "done"}

StageOK ==
  /\ stage = "repo" => epics = {} /\ batch = {} /\ repos # {}
  /\ stage = "epic" => batch = {} /\ epics # {}
  /\ stage = "ticket" => batch # {}
  /\ Wiring => repos = {} /\ epics = {} /\ batch = {}
  /\ stage \in {"repo", "epic", "ticket"} => wires = {} /\ lost.wires = {}
  /\ stage = "done" => wires = {}

(***************************************************************************)
(* Where the import is: the uuids at hand are those of that place.         *)
(***************************************************************************)
PlaceOK ==
  /\ repos \subseteq RepoNames
  /\ stage \in {"epic", "ticket"} =>
       /\ at.repo \in RepoNames \ repos
       /\ epics \subseteq EpicsOf(at.repo)
       /\ at.repoId \in DOMAIN origin /\ origin[at.repoId] = <<at.repo>>
  /\ stage = "ticket" =>
       /\ at.epic \in EpicsOf(at.repo) \ epics
       /\ batch \subseteq TicketsOf(at.repo, at.epic)
       /\ at.epicId \in DOMAIN origin /\ origin[at.epicId] = <<at.repo, at.epic>>

DueIsNotMade ==
  /\ \A r \in repos : ~Made(<<r>>)
  /\ \A r, e : EpicDue(r, e) => ~Made(<<r, e>>)
  /\ \A r, e, i : TicketDue(r, e, i) => ~Made(<<r, e, i>>)

MadeOnce == \A x, y \in DOMAIN origin : origin[x] = origin[y] => x = y

LostWereMade == \A node \in lost.nodes : Made(node)

AllDueOrMade ==
  \A i \in Tickets :
    /\ plan[i].repo \in repos \/ Made(<<plan[i].repo>>)
    /\ EpicDue(plan[i].repo, EpicOf(plan[i])) \/ Made(EpicNode(i))
    /\ \/ TicketDue(plan[i].repo, EpicOf(plan[i]), i)
       \/ Made(NodeOf(i)) /\ plan[i].name \in DOMAIN uuidOf

(***************************************************************************)
(* A uuid is registered under the name of a ticket it was minted for.      *)
(***************************************************************************)
Registered ==
  \A n \in DOMAIN uuidOf : \E j \in Tickets :
    plan[j].name = n /\ uuidOf[n] \in DOMAIN origin /\ origin[uuidOf[n]] = NodeOf(j)

WiresOK ==
  Wiring => /\ wires \subseteq WiresOf(uuidOf) /\ lost.wires \subseteq WiresOf(uuidOf)
            /\ wires \cap lost.wires = {}

PlanInv ==
  /\ StageOK /\ PlaceOK /\ DueIsNotMade /\ MadeOnce /\ LostWereMade
  /\ AllDueOrMade /\ Registered /\ WiresOK

(***************************************************************************)
(* While nobody else writes: a facet is stored unless it was cut off, it   *)
(* stands below the one above it, and the report counts it.                *)
(***************************************************************************)
CutOff(refused, node) == \E m \in refused : OnPath(m, node)

Placed ==
  /\ Live \subseteq DOMAIN origin
  /\ \A id \in DOMAIN origin : id \in Live <=> ~CutOff(lost.nodes, origin[id])
  /\ \A id \in Live :
       IF Len(origin[id]) = 1 THEN facets[id].parent = None
       ELSE /\ facets[id].parent \in Live
            /\ origin[facets[id].parent] = Above(origin[id])

Counts ==
  /\ report["repos"] = Cardinality(StoredNodes(RepoNodes))
  /\ report["epics"] = Cardinality(StoredNodes(EpicNodes))
  /\ report["tickets"] = Cardinality(StoredNodes(TicketNodes))

EdgesOK ==
  /\ stage \in {"repo", "epic", "ticket"} => edges = {} /\ report["edges"] = 0
  /\ Wiring =>
       /\ \A x \in edges : \E w \in WiresOf(uuidOf) \ wires : w.edge = x
       /\ OneNameEach =>
            /\ IsFiniteSet(edges) /\ report["edges"] = Cardinality(edges)
            /\ \A w \in WiresOf(uuidOf) \ wires :
                 w.edge \in edges <=> EndsExist(facets, w.edge) /\ w \notin lost.wires

Undisturbed == writes = 0 => Placed /\ Counts /\ EdgesOK

ImportInv == TypeOK /\ PlanInv /\ Undisturbed

(***************************************************************************)
(* What the plan says does not change with time.                           *)
(***************************************************************************)
LEMMA PlanStays ==
  ASSUME UNCHANGED plan
  PROVE  /\ Tickets' = Tickets /\ Nodes' = Nodes /\ RepoNames' = RepoNames
         /\ RepoNodes' = RepoNodes /\ EpicNodes' = EpicNodes /\ TicketNodes' = TicketNodes
         /\ \A i : /\ EpicNode(i)' = EpicNode(i) /\ NodeOf(i)' = NodeOf(i)
                   /\ IsOverview(i)' = IsOverview(i)
         /\ \A r : EpicsOf(r)' = EpicsOf(r)
         /\ \A r, e : TicketsOf(r, e)' = TicketsOf(r, e)
         /\ OneNameEach' = OneNameEach
<1>1. Tickets' = Tickets /\ \A i : EpicNode(i)' = EpicNode(i)
  BY DEF Tickets, EpicNode
<1>2. /\ \A r : EpicsOf(r)' = EpicsOf(r)
      /\ \A r, e : TicketsOf(r, e)' = TicketsOf(r, e)
      /\ OneNameEach' = OneNameEach /\ RepoNames' = RepoNames
      /\ RepoNodes' = RepoNodes /\ EpicNodes' = EpicNodes
  BY <1>1 DEF EpicsOf, TicketsOf, OneNameEach, RepoNames, RepoNodes, EpicNodes
<1>3. \A r, e : OverviewOf(r, e)' = OverviewOf(r, e)
  BY <1>2 DEF OverviewOf
<1>4. \A i : NodeOf(i)' = NodeOf(i) /\ IsOverview(i)' = IsOverview(i)
  BY <1>1, <1>3 DEF NodeOf, IsOverview
<1>5. Nodes' = Nodes
  BY <1>1, <1>2, <1>4 DEF Nodes
<1>6. TicketNodes' = TicketNodes
  BY <1>2, <1>5 DEF TicketNodes
<1> QED
  BY <1>1, <1>2, <1>4, <1>5, <1>6

-----------------------------------------------------------------------------
(***************************************************************************)
(* A node of the plan is itself on its path, the rest of which is the path *)
(* of the node above.                                                      *)
(***************************************************************************)
LEMMA NodePaths ==
  ASSUME NEW node \in Nodes
  PROVE  /\ node \in RepoNodes => Len(node) = 1 /\ \A m : OnPath(m, node) <=> m = node
         /\ node \notin RepoNodes =>
              /\ Len(node) # 1
              /\ \A m : OnPath(m, node) <=> m = node \/ OnPath(m, Above(node))
<1>1. CASE node \in RepoNodes
  <2> PICK i \in Tickets : node = <<plan[i].repo>>
    BY <1>1, KindsOfNodes
  <2> DEFINE r == plan[i].repo
  <2>1. Len(<<r>>) = 1 /\ \A m : OnPath(m, <<r>>) <=> m = <<r>>
    <3> HIDE DEF r
    <3> QED
      BY Paths
  <2> QED
    BY <1>1, <2>1
<1>2. CASE node \in EpicNodes
  <2> PICK i \in Tickets : node = <<plan[i].repo, EpicOf(plan[i])>>
    BY <1>2, KindsOfNodes
  <2> DEFINE r == plan[i].repo
             e == EpicOf(plan[i])
  <2>1. /\ Len(<<r, e>>) = 2
        /\ \A m : OnPath(m, <<r, e>>) <=> m = <<r, e>> \/ OnPath(m, Above(<<r, e>>))
    <3> HIDE DEF r, e
    <3> QED
      BY Paths
  <2> QED
    BY <1>2, <2>1, KindsOfNodes
<1>3. CASE node \in TicketNodes
  <2> PICK i \in Tickets : node = TicketNode(i)
    BY <1>3, KindsOfNodes
  <2> DEFINE r == plan[i].repo
             e == EpicOf(plan[i])
  <2>1. /\ Len(<<r, e, i>>) = 3
        /\ \A m : OnPath(m, <<r, e, i>>) <=> m = <<r, e, i>> \/ OnPath(m, Above(<<r, e, i>>))
    <3> HIDE DEF r, e
    <3>1. Len(<<r, e, i>>) = 3 /\ Above(<<r, e, i>>) = <<r, e>>
      BY Paths
    <3>2. \A m : OnPath(m, <<r, e, i>>) <=> m \in {<<r>>, <<r, e>>, <<r, e, i>>}
      BY Paths
    <3>3. \A m : OnPath(m, <<r, e>>) <=> m \in {<<r>>, <<r, e>>}
      BY Paths
    <3> QED
      BY <3>1, <3>2, <3>3
  <2> QED
    BY <1>3, <2>1, KindsOfNodes DEF TicketNode
<1> QED
  BY <1>1, <1>2, <1>3, KindsOfNodes

LEMMA CutIs ==
  ASSUME NEW node
  PROVE  Cut(node) <=> CutOff(lost.nodes, node)
BY DEF Cut, CutOff, OnPath

LEMMA MadeGrows ==
  ASSUME NEW node, Noted(node)
  PROVE  /\ \A n : Made(n)' <=> Made(n) \/ n = node
         /\ MadeOnce /\ ~ Made(node) => MadeOnce'
BY DEF Noted, Made, MadeOnce

(***************************************************************************)
(* Where a node goes when its turn comes: below the one above it, with     *)
(* nothing at or below it yet.                                             *)
(***************************************************************************)
HasPlace(node, parent) ==
  /\ \A id \in DOMAIN origin : ~ OnPath(node, origin[id])
  /\ node \in RepoNodes => parent = None
  /\ node \notin RepoNodes => parent \in DOMAIN origin /\ origin[parent] = Above(node)

LEMMA InsertKeepsPlaces ==
  ASSUME TypeOK, LostWereMade, Placed, NEW parent, NEW node \in Nodes,
         NEW part, HasPlace(node, parent), Noted(node),
         Stores(parent, part) \/ StoresNot(parent, node),
         lost.nodes \subseteq lost'.nodes, lost'.nodes \subseteq lost.nodes \cup {node}
  PROVE  Placed'
<1>0. TablesOK /\ DOMAIN origin \subseteq minted /\ Live \subseteq Ids
  BY DEF TypeOK, TablesOK
<1>1. Fresh \notin DOMAIN origin /\ Fresh \notin Live
  BY <1>0 DEF Noted, TablesOK
<1>2. OnPath(node, node)
  BY NodePaths
<1>3. node \notin lost.nodes
  BY <1>2 DEF LostWereMade, Made, HasPlace
<1>4. \A id \in DOMAIN origin : CutOff(lost'.nodes, origin[id]) <=> CutOff(lost.nodes, origin[id])
  BY DEF HasPlace, CutOff
<1>5. origin'[Fresh] = node /\ \A id \in DOMAIN origin : origin'[id] = origin[id]
  BY DEF Noted
<1>6. CutOff(lost'.nodes, node) <=> Fresh \notin Live'
  <2>1. CASE Stores(parent, part)
    <3>1. ASSUME NEW m \in lost.nodes, OnPath(m, node) PROVE FALSE
      <4>1. m # node
        BY <1>3
      <4>2. node \notin RepoNodes /\ OnPath(m, Above(node))
        BY <3>1, <4>1, NodePaths
      <4>3. parent \in DOMAIN origin /\ CutOff(lost.nodes, origin[parent])
        BY <4>2 DEF HasPlace, CutOff
      <4>4. parent \in Live
        BY <1>0, <2>1, <4>3, NoneAssumption DEF Stores, ParentExists, Live, TablesOK
      <4> QED
        BY <4>3, <4>4 DEF Placed
    <3> QED
      BY <2>1, <3>1 DEF Stores, CutOff
  <2>2. CASE StoresNot(parent, node)
    <3>1. Fresh \notin Live'
      BY <1>1, <2>2 DEF StoresNot, Live
    <3>2. CASE node \in lost'.nodes
      BY <1>2, <3>1, <3>2 DEF CutOff
    <3>3. CASE lost' = lost /\ ~ParentExists(facets, parent)
      <4>1. node \notin RepoNodes /\ parent \in DOMAIN origin /\ origin[parent] = Above(node)
        BY <3>3 DEF HasPlace, ParentExists
      <4>2. CutOff(lost.nodes, Above(node))
        BY <3>3, <4>1 DEF Placed, ParentExists, Live
      <4>3. CutOff(lost.nodes, node)
        BY <4>1, <4>2, NodePaths DEF CutOff
      <4> QED
        BY <3>1, <3>3, <4>3
    <3> QED
      BY <2>2, <3>2, <3>3 DEF StoresNot
  <2> QED
    BY <2>1, <2>2
<1>7. /\ Live' \subseteq Live \cup {Fresh}
      /\ \A id \in Live : id \in Live' /\ facets'[id] = facets[id]
  BY DEF Stores, StoresNot, Live
<1>8. /\ Live' \subseteq DOMAIN origin'
      /\ \A id \in DOMAIN origin' : id \in Live' <=> ~CutOff(lost'.nodes, origin'[id])
  BY <1>1, <1>4, <1>5, <1>6, <1>7 DEF Placed, Noted
<1>9. ASSUME NEW id \in Live'
      PROVE  IF Len(origin'[id]) = 1 THEN facets'[id].parent = None
             ELSE facets'[id].parent \in Live' /\ origin'[facets'[id].parent] = Above(origin'[id])
  <2>1. CASE id \in Live
    <3>1. id \in DOMAIN origin /\ origin'[id] = origin[id] /\ facets'[id] = facets[id]
      BY <1>5, <1>7, <2>1 DEF Placed
    <3>2. CASE Len(origin[id]) = 1
      BY <2>1, <3>1, <3>2 DEF Placed
    <3>3. CASE Len(origin[id]) # 1
      <4>1. facets[id].parent \in Live /\ origin[facets[id].parent] = Above(origin[id])
        BY <2>1, <3>3 DEF Placed
      <4>2. facets[id].parent \in Live' /\ facets[id].parent \in DOMAIN origin
        BY <1>7, <4>1 DEF Placed
      <4> QED
        BY <1>5, <3>1, <3>3, <4>1, <4>2
    <3> QED
      BY <3>2, <3>3
  <2>2. CASE id = Fresh
    <3>1. Stores(parent, part) /\ facets'[id].parent = parent /\ origin'[id] = node
      BY <1>1, <1>5, <1>9, <2>2 DEF Stores, StoresNot, Live
    <3>2. CASE node \in RepoNodes
      BY <3>1, <3>2, NodePaths DEF HasPlace
    <3>3. CASE node \notin RepoNodes
      <4>1. parent \in DOMAIN origin /\ origin[parent] = Above(node) /\ Len(node) # 1
        BY <3>3, NodePaths DEF HasPlace
      <4>2. parent \in Live
        BY <1>0, <3>1, <4>1, NoneAssumption DEF Stores, ParentExists, Live, TablesOK
      <4> QED
        BY <1>5, <1>7, <3>1, <4>1, <4>2
    <3> QED
      BY <3>2, <3>3
  <2> QED
    BY <1>7, <1>9, <2>1, <2>2
<1> QED
  BY <1>8, <1>9 DEF Placed

(***************************************************************************)
(* The rows that are there grow by the one stored, if it was stored.       *)
(***************************************************************************)
LEMMA StoredGrow ==
  ASSUME TypeOK, Live \subseteq DOMAIN origin, NEW node, Noted(node), ~ Made(node),
         NEW parent, NEW part,
         Stores(parent, part) \/ StoresNot(parent, node),
         NEW S, IsFiniteSet(S), NEW T, \A n : n \in T <=> n \in S /\ Stored(n)' # {}
  PROVE  /\ Stores(parent, part) /\ node \in S => Cardinality(T) = Cardinality(StoredNodes(S)) + 1
         /\ StoresNot(parent, node) \/ node \notin S => Cardinality(T) = Cardinality(StoredNodes(S))
<1>1. Fresh \notin DOMAIN origin /\ Fresh \notin Live
  BY DEF TypeOK, TablesOK, Noted
<1>2. \A n : Stored(n) # {} <=> \E id \in Live : origin[id] = n
  BY DEF Stored
<1>3. ASSUME Stores(parent, part)
      PROVE  \A n : Stored(n)' # {} <=> (Stored(n) # {} \/ n = node)
  BY <1>1, <1>3 DEF Stores, Stored, Noted
<1>4. ASSUME StoresNot(parent, node)
      PROVE  \A n : Stored(n)' # {} <=> Stored(n) # {}
  BY <1>1, <1>4 DEF StoresNot, Stored, Noted, Live
<1>5. node \notin StoredNodes(S)
  BY <1>2 DEF StoredNodes, Made
<1>6. IsFiniteSet(StoredNodes(S))
  BY FS_Subset DEF StoredNodes
<1>7. CASE Stores(parent, part) /\ node \in S
  <2>1. T = StoredNodes(S) \cup {node}
    BY <1>3, <1>7 DEF StoredNodes
  <2>2. Cardinality(T) = Cardinality(StoredNodes(S)) + 1
    BY <1>5, <1>6, <2>1, FS_AddElement
  <2>3. ~ (StoresNot(parent, node) \/ node \notin S)
    BY <1>1, <1>7 DEF Stores, StoresNot, Live
  <2> QED
    BY <2>2, <2>3
<1>8. CASE StoresNot(parent, node) \/ node \notin S
  <2>1. T = StoredNodes(S)
    BY <1>3, <1>4, <1>8 DEF StoredNodes
  <2>2. ~ (Stores(parent, part) /\ node \in S)
    BY <1>1, <1>8 DEF Stores, StoresNot, Live
  <2> QED
    BY <2>1, <2>2
<1> QED
  BY <1>7, <1>8

PartOf(node) ==
  IF node \in RepoNodes THEN "repos" ELSE IF node \in EpicNodes THEN "epics" ELSE "tickets"

LEMMA InsertKeepsCounts ==
  ASSUME TypeOK, Live \subseteq DOMAIN origin, Counts, UNCHANGED plan,
         NEW node \in Nodes, Noted(node), ~ Made(node), NEW parent,
         Stores(parent, PartOf(node)) \/ StoresNot(parent, node)
  PROVE  Counts'
<1> DEFINE part == PartOf(node)
           now(S) == {n \in S : Stored(n)' # {}}
<1>1. IsFiniteSet(Nodes)
  BY NodesFinite DEF TypeOK
<1>2. /\ RepoNodes \subseteq Nodes /\ EpicNodes \subseteq Nodes /\ TicketNodes \subseteq Nodes
      /\ RepoNodes \cap EpicNodes = {} /\ RepoNodes \cap TicketNodes = {}
      /\ EpicNodes \cap TicketNodes = {} /\ RepoNodes \cup EpicNodes \cup TicketNodes = Nodes
  BY KindsOfNodes
<1>3. /\ StoredNodes(RepoNodes)' = now(RepoNodes)
      /\ StoredNodes(EpicNodes)' = now(EpicNodes)
      /\ StoredNodes(TicketNodes)' = now(TicketNodes)
  <2>1. /\ StoredNodes(RepoNodes)' = {n \in RepoNodes' : Stored(n)' # {}}
        /\ StoredNodes(EpicNodes)' = {n \in EpicNodes' : Stored(n)' # {}}
        /\ StoredNodes(TicketNodes)' = {n \in TicketNodes' : Stored(n)' # {}}
    BY DEF StoredNodes
  <2> QED
    BY <2>1, PlanStays
<1>4. ASSUME NEW S, S \subseteq Nodes
      PROVE  /\ Stores(parent, part) /\ node \in S =>
                  Cardinality(now(S)) = Cardinality(StoredNodes(S)) + 1
             /\ StoresNot(parent, node) \/ node \notin S =>
                  Cardinality(now(S)) = Cardinality(StoredNodes(S))
  <2>1. IsFiniteSet(S)
    BY <1>1, <1>4, FS_Subset
  <2> DEFINE T == now(S)
  <2>2. \A n : n \in T <=> n \in S /\ Stored(n)' # {}
    OBVIOUS
  <2>3. Stores(parent, part) \/ StoresNot(parent, node)
    OBVIOUS
  <2> HIDE DEF part, T
  <2>4. /\ Stores(parent, part) /\ node \in S => Cardinality(T) = Cardinality(StoredNodes(S)) + 1
        /\ StoresNot(parent, node) \/ node \notin S => Cardinality(T) = Cardinality(StoredNodes(S))
    BY <2>1, <2>2, <2>3, StoredGrow
  <2> QED
    BY <2>4 DEF T
<1>5. /\ part = "repos" <=> node \in RepoNodes
      /\ part = "epics" <=> node \in EpicNodes
      /\ part = "tickets" <=> node \in TicketNodes
  BY <1>2 DEF PartOf
<1> HIDE DEF now, part
<1>6. ASSUME StoresNot(parent, node) PROVE Counts'
  BY <1>2, <1>3, <1>4, <1>6 DEF StoresNot, Counts
<1>7. ASSUME Stores(parent, part) PROVE Counts'
  <2>1. /\ report'["repos"] = report["repos"] + (IF node \in RepoNodes THEN 1 ELSE 0)
        /\ report'["epics"] = report["epics"] + (IF node \in EpicNodes THEN 1 ELSE 0)
        /\ report'["tickets"] = report["tickets"] + (IF node \in TicketNodes THEN 1 ELSE 0)
    BY <1>5, <1>7 DEF Stores, TypeOK
  <2>2. Cardinality(now(RepoNodes)) = report'["repos"]
    BY <1>2, <1>4, <1>7, <2>1 DEF Counts, TypeOK
  <2>3. Cardinality(now(EpicNodes)) = report'["epics"]
    BY <1>2, <1>4, <1>7, <2>1 DEF Counts, TypeOK
  <2>4. Cardinality(now(TicketNodes)) = report'["tickets"]
    BY <1>2, <1>4, <1>7, <2>1 DEF Counts, TypeOK
  <2> QED
    BY <1>3, <2>2, <2>3, <2>4 DEF Counts
<1> QED
  BY <1>6, <1>7 DEF part

-----------------------------------------------------------------------------
(***************************************************************************)
(* Nothing is made yet at or below a node that is due.                     *)
(***************************************************************************)
LEMMA DueHasRoom ==
  ASSUME TypeOK, DueIsNotMade, NEW id \in DOMAIN origin
  PROVE  /\ \A r \in repos : ~ OnPath(<<r>>, origin[id])
         /\ \A r, e : EpicDue(r, e) => ~ OnPath(<<r, e>>, origin[id])
         /\ \A r, e, i : TicketDue(r, e, i) => ~ OnPath(<<r, e, i>>, origin[id])
<1> DEFINE node == origin[id]
<1>0. node \in Nodes /\ Made(node)
  BY DEF TypeOK, Made
<1> HIDE DEF node
<1>1. CASE node \in RepoNodes
  <2>1. \A m : OnPath(m, node) <=> m = node
    BY <1>0, <1>1, NodePaths
  <2>2. PICK j \in Tickets : node = <<plan[j].repo>>
    BY <1>1, KindsOfNodes
  <2> QED
    BY <1>0, <2>1, <2>2 DEF DueIsNotMade, node
<1>2. CASE node \in EpicNodes
  <2>1. PICK j \in Tickets : node = <<plan[j].repo, EpicOf(plan[j])>>
    BY <1>2, KindsOfNodes
  <2>2. \A m : OnPath(m, node) <=> m \in {<<plan[j].repo>>, node}
    BY <2>1, Paths
  <2>3. plan[j].repo \notin repos
    BY <1>0, <2>1 DEF DueIsNotMade, EpicDue
  <2> QED
    BY <1>0, <2>1, <2>2, <2>3 DEF DueIsNotMade, node
<1>3. CASE node \in TicketNodes
  <2>1. PICK j \in Tickets : node = TicketNode(j)
    BY <1>3, KindsOfNodes
  <2> DEFINE r == plan[j].repo
             e == EpicOf(plan[j])
  <2>2. node = <<r, e, j>>
    BY <2>1 DEF TicketNode
  <2> HIDE DEF r, e
  <2>3. \A m : OnPath(m, node) <=> m \in {<<r>>, <<r, e>>, <<r, e, j>>}
    BY <2>2, Paths
  <2>4. ~ TicketDue(r, e, j)
    BY <1>0, <2>2 DEF DueIsNotMade
  <2>5. r \notin repos /\ ~ EpicDue(r, e)
    BY <2>4 DEF TicketDue, EpicDue
  <2> QED
    BY <2>3, <2>4, <2>5 DEF node
<1> QED
  BY <1>0, <1>1, <1>2, <1>3, KindsOfNodes

(***************************************************************************)
(* The part of the invariant that an insertion by itself decides.          *)
(***************************************************************************)
Settled(node) ==
  /\ edges' = edges
  /\ TablesOK' /\ report' \in Reports /\ lost' \in LostSets
  /\ report'["edges"] = report["edges"] /\ lost'.wires = lost.wires
  /\ DOMAIN origin' \subseteq minted' /\ \A id \in DOMAIN origin' : origin'[id] \in Nodes
  /\ \A id \in DOMAIN origin : id \in DOMAIN origin' /\ origin'[id] = origin[id]
  /\ \A n : Made(n)' <=> Made(n) \/ n = node
  /\ MadeOnce' /\ LostWereMade'
  /\ writes' = 0 => Placed' /\ Counts'

LEMMA InsertKeeps ==
  ASSUME ImportInv, UNCHANGED <<plan, writes>>,
         NEW node \in Nodes, NEW parent \in Parents, HasPlace(node, parent),
         Insert(parent, node, PartOf(node))
  PROVE  Noted(node) /\ Settled(node)
<1> DEFINE part == PartOf(node)
<1>1. part \in {"repos", "epics", "tickets"}
  BY DEF PartOf
<1> HIDE DEF part
<1>2. Insert(parent, node, part)
  BY DEF part
<1>3. /\ Noted(node)
      /\ Stores(parent, part) \/ StoresNot(parent, node)
      /\ edges' = edges /\ TablesOK'
      /\ report' \in Reports /\ report'["edges"] = report["edges"]
      /\ lost' \in LostSets /\ lost'.wires = lost.wires
      /\ lost.nodes \subseteq lost'.nodes /\ lost'.nodes \subseteq lost.nodes \cup {node}
  BY <1>1, <1>2, InsertStep DEF ImportInv
<1>4. ~ Made(node)
  BY NodePaths DEF HasPlace, Made
<1>5. (\A n : Made(n)' <=> Made(n) \/ n = node) /\ MadeOnce'
  BY <1>3, <1>4, MadeGrows DEF ImportInv, PlanInv
<1>6. LostWereMade'
  BY <1>3, <1>5 DEF LostWereMade, ImportInv, PlanInv
<1>7. DOMAIN origin' \subseteq minted' /\ \A id \in DOMAIN origin' : origin'[id] \in Nodes
  BY <1>3 DEF Noted, ImportInv, TypeOK
<1>8. ASSUME writes' = 0 PROVE Placed' /\ Counts'
  <2>1. Placed /\ Counts /\ TypeOK /\ LostWereMade /\ Live \subseteq DOMAIN origin
    BY <1>8 DEF ImportInv, PlanInv, Undisturbed, Placed
  <2>2. Placed'
    BY <1>3, <2>1, InsertKeepsPlaces
  <2>3. Counts'
    BY <1>3, <1>4, <2>1, InsertKeepsCounts DEF part
  <2> QED
    BY <2>2, <2>3
<1> QED
  BY <1>3, <1>5, <1>6, <1>7, <1>8 DEF Noted, Settled

(***************************************************************************)
(* What is due is never made again, and what was due is still due or made. *)
(***************************************************************************)
LEMMA DueStaysUnmade ==
  ASSUME DueIsNotMade, NEW node, \A n : Made(n)' <=> Made(n) \/ n = node,
         \A r \in repos' : r \in repos /\ <<r>> # node,
         \A r, e : EpicDue(r, e)' => EpicDue(r, e) /\ <<r, e>> # node,
         \A r, e, i : TicketDue(r, e, i)' => TicketDue(r, e, i) /\ <<r, e, i>> # node
  PROVE  DueIsNotMade'
<1>1. \A r \in repos' : ~ Made(<<r>>)'
  BY DEF DueIsNotMade
<1>2. \A r, e : EpicDue(r, e)' => ~ Made(<<r, e>>)'
  BY DEF DueIsNotMade
<1>3. \A r, e, i : TicketDue(r, e, i)' => ~ Made(<<r, e, i>>)'
  BY DEF DueIsNotMade
<1> QED
  BY <1>1, <1>2, <1>3 DEF DueIsNotMade

LEMMA StillDueOrMade ==
  ASSUME AllDueOrMade, UNCHANGED plan, \A n : Made(n) => Made(n)',
         DOMAIN uuidOf \subseteq DOMAIN uuidOf',
         \A r \in repos : r \in repos' \/ Made(<<r>>)',
         \A r : \A e \in EpicsOf(r) : EpicDue(r, e) => EpicDue(r, e)' \/ Made(<<r, e>>)',
         \A r, e : \A i \in TicketsOf(r, e) :
           TicketDue(r, e, i) =>
             TicketDue(r, e, i)' \/ (Made(NodeOf(i))' /\ plan[i].name \in DOMAIN uuidOf')
  PROVE  AllDueOrMade'
<1>1. Tickets' = Tickets /\ \A i : EpicNode(i)' = EpicNode(i) /\ NodeOf(i)' = NodeOf(i)
  BY PlanStays
<1>2. ASSUME NEW i \in Tickets
      PROVE  /\ plan[i].repo \in repos' \/ Made(<<plan[i].repo>>)'
             /\ EpicDue(plan[i].repo, EpicOf(plan[i]))' \/ Made(EpicNode(i))'
             /\ \/ TicketDue(plan[i].repo, EpicOf(plan[i]), i)'
                \/ Made(NodeOf(i))' /\ plan[i].name \in DOMAIN uuidOf'
  <2>0. PICK r, e : r = plan[i].repo /\ e = EpicOf(plan[i])
    OBVIOUS
  <2>1. EpicNode(i) = <<r, e>> /\ e \in EpicsOf(r) /\ i \in TicketsOf(r, e)
    BY <2>0 DEF EpicNode, EpicsOf, TicketsOf
  <2>2. PICK n, m : n = NodeOf(i) /\ m = EpicNode(i)
    OBVIOUS
  <2>3. /\ r \in repos \/ Made(<<r>>)
        /\ EpicDue(r, e) \/ Made(m)
        /\ TicketDue(r, e, i) \/ (Made(n) /\ plan[i].name \in DOMAIN uuidOf)
    BY <2>0, <2>2 DEF AllDueOrMade
  <2>4. r \in repos' \/ Made(<<r>>)'
    BY <2>3
  <2>5. EpicDue(r, e)' \/ Made(m)'
    BY <2>1, <2>2, <2>3
  <2>6. TicketDue(r, e, i)' \/ (Made(n)' /\ plan[i].name \in DOMAIN uuidOf')
    <3>1. Made(NodeOf(i))' => Made(n)'
      BY <1>1, <2>2 DEF Made
    <3> QED
      BY <2>1, <2>2, <2>3, <3>1
  <2>7. plan'[i].repo = r /\ EpicOf(plan'[i]) = e /\ EpicNode(i)' = m /\ NodeOf(i)' = n
    BY <1>1, <2>0, <2>2
  <2> QED
    BY <2>0, <2>1, <2>2, <2>4, <2>5, <2>6, <2>7 DEF Made
<1> QED
  BY <1>1, <1>2 DEF AllDueOrMade

-----------------------------------------------------------------------------
(***************************************************************************)
(* One lemma per action.                                                   *)
(***************************************************************************)
LEMMA CreateRepoInv ==
  ASSUME ImportInv, NEW r \in repos, CreateRepo(r), UNCHANGED <<plan, tenant, writes>>
  PROVE  ImportInv'
<1> DEFINE node == <<r>>
<1>0. stage = "repo" /\ TypeOK /\ PlanInv
  BY DEF CreateRepo, ImportInv
<1>1. epics = {} /\ batch = {} /\ wires = {} /\ lost.wires = {} /\ r \in RepoNames
  BY <1>0 DEF PlanInv, StageOK, PlaceOK
<1>2. PICK t \in Tickets : plan[t].repo = r
  BY <1>1 DEF RepoNames
<1>3. node \in RepoNodes /\ node \in Nodes /\ PartOf(node) = "repos"
  BY <1>2, KindsOfNodes DEF PartOf
<1>4. HasPlace(node, None)
  BY <1>0, <1>3, DueHasRoom DEF HasPlace, PlanInv
<1>5. Insert(None, node, PartOf(node)) /\ None \in Parents
  BY <1>3 DEF CreateRepo, Parents
<1> HIDE DEF node
<1>6. /\ Noted(node) /\ edges' = edges
      /\ TablesOK' /\ report' \in Reports /\ lost' \in LostSets
      /\ report'["edges"] = report["edges"] /\ lost'.wires = lost.wires
      /\ DOMAIN origin' \subseteq minted' /\ \A id \in DOMAIN origin' : origin'[id] \in Nodes
      /\ \A n : Made(n)' <=> Made(n) \/ n = node
      /\ MadeOnce' /\ LostWereMade'
      /\ writes' = 0 => Placed' /\ Counts'
  BY <1>3, <1>4, <1>5, InsertKeeps DEF Settled
<1>7. /\ at' = [repo |-> r, repoId |-> Fresh, epic |-> None, epicId |-> None]
      /\ repos' = repos \ {r} /\ epics' = EpicsOf(r) /\ stage' = "epic"
      /\ UNCHANGED <<batch, uuidOf, wires, plan, tenant, writes>>
  BY DEF CreateRepo
<1>8. /\ Tickets' = Tickets /\ Nodes' = Nodes /\ RepoNames' = RepoNames
      /\ \A i : EpicNode(i)' = EpicNode(i) /\ NodeOf(i)' = NodeOf(i)
      /\ \A s : EpicsOf(s)' = EpicsOf(s)
  BY <1>7, PlanStays
<1>9. EpicsOf(r) # {} /\ EpicsOf(r) \subseteq Epics
  BY <1>0, <1>2, TicketsTyped DEF EpicsOf, TypeOK
<1>10. Fresh \in Ids /\ Fresh \in DOMAIN origin' /\ origin'[Fresh] = node
  BY <1>6 DEF Noted
<1>11. TypeOK'
  <2>1. at' \in [repo : Repos \cup {None}, repoId : Parents, epic : Epics \cup {None}, epicId : Parents]
    BY <1>0, <1>2, <1>7, <1>10, TicketsTyped DEF Parents, TypeOK
  <2>2. \A n \in DOMAIN uuidOf' : uuidOf'[n] \in DOMAIN origin'
    BY <1>0, <1>6, <1>7 DEF TypeOK, Noted
  <2> QED
    BY <1>0, <1>1, <1>6, <1>7, <1>8, <1>9, <2>1, <2>2 DEF TypeOK, Reports, LostSets
<1>12. StageOK'
  BY <1>1, <1>6, <1>7, <1>9 DEF StageOK, Wiring
<1>13. PlaceOK'
  BY <1>0, <1>1, <1>7, <1>8, <1>10 DEF PlaceOK, PlanInv, node
<1>14. \A s, e : EpicDue(s, e)' => EpicDue(s, e)
  BY <1>7 DEF EpicDue
<1>15. \A s, e, i : TicketDue(s, e, i)' => TicketDue(s, e, i)
  BY <1>1, <1>7, <1>14 DEF TicketDue
<1>16. DueIsNotMade'
  <2>1. \A s \in repos' : s \in repos /\ <<s>> # node
    BY <1>7 DEF node
  <2>2. \A s, e, i : <<s, e>> # node /\ <<s, e, i>> # node
    BY DEF node
  <2> QED
    BY <1>0, <1>6, <1>14, <1>15, <2>1, <2>2, DueStaysUnmade DEF PlanInv
<1>17. AllDueOrMade'
  <2>1. \A s \in repos : s \in repos' \/ Made(<<s>>)'
    BY <1>6, <1>7 DEF node
  <2>2. \A s : \A e \in EpicsOf(s) : EpicDue(s, e) => EpicDue(s, e)'
    BY <1>1, <1>7 DEF EpicDue
  <2>3. \A s, e : \A i \in TicketsOf(s, e) : TicketDue(s, e, i) => TicketDue(s, e, i)'
    <3>1. \A s, e : \A i \in TicketsOf(s, e) : e \in EpicsOf(s)
      BY DEF TicketsOf, EpicsOf, EpicNode
    <3> QED
      BY <1>1, <2>2, <3>1 DEF TicketDue
  <2> QED
    BY <1>0, <1>6, <1>7, <2>1, <2>2, <2>3, StillDueOrMade DEF PlanInv
<1>18. Registered'
  BY <1>0, <1>6, <1>7, <1>8 DEF Registered, PlanInv, Noted
<1>19. WiresOK'
  BY <1>7 DEF WiresOK, Wiring
<1>20. Undisturbed'
  BY <1>0, <1>6, <1>7 DEF Undisturbed, EdgesOK, Wiring, ImportInv
<1> QED
  BY <1>6, <1>11, <1>12, <1>13, <1>16, <1>17, <1>18, <1>19, <1>20 DEF ImportInv, PlanInv

LEMMA CreateEpicInv ==
  ASSUME ImportInv, NEW e \in epics, CreateEpic(e), UNCHANGED <<plan, tenant, writes>>
  PROVE  ImportInv'
<1>0. stage = "epic" /\ TypeOK /\ PlanInv
  BY DEF CreateEpic, EnterEpic, ImportInv
<1>a. PICK r, parent : r = at.repo /\ parent = at.repoId
  OBVIOUS
<1> DEFINE node == <<r, e>>
<1>1. /\ batch = {} /\ wires = {} /\ lost.wires = {} /\ r \in RepoNames \ repos
      /\ epics \subseteq EpicsOf(r) /\ parent \in DOMAIN origin /\ origin[parent] = <<r>>
  BY <1>0, <1>a DEF PlanInv, StageOK, PlaceOK
<1>2. PICK t \in Tickets : plan[t].repo = r /\ EpicOf(plan[t]) = e
  BY <1>1 DEF EpicsOf
<1>3. node \in EpicNodes /\ node \notin RepoNodes /\ node \in Nodes /\ PartOf(node) = "epics"
  BY <1>2, KindsOfNodes DEF PartOf
<1>4. HasPlace(node, parent)
  <2>1. EpicDue(r, e)
    BY <1>a DEF EpicDue
  <2>2. \A id \in DOMAIN origin : ~ OnPath(<<r, e>>, origin[id])
    BY <1>0, <2>1, DueHasRoom DEF PlanInv
  <2>3. Above(<<r, e>>) = <<r>>
    BY Paths
  <2> QED
    BY <1>1, <1>3, <2>2, <2>3 DEF HasPlace
<1>5. Insert(parent, node, PartOf(node)) /\ parent \in Parents
  BY <1>0, <1>3, <1>a DEF CreateEpic, EnterEpic, TypeOK
<1> HIDE DEF node
<1>6. /\ Noted(node) /\ edges' = edges
      /\ TablesOK' /\ report' \in Reports /\ lost' \in LostSets
      /\ report'["edges"] = report["edges"] /\ lost'.wires = lost.wires
      /\ DOMAIN origin' \subseteq minted' /\ \A id \in DOMAIN origin' : origin'[id] \in Nodes
      /\ \A n : Made(n)' <=> Made(n) \/ n = node
      /\ MadeOnce' /\ LostWereMade'
      /\ writes' = 0 => Placed' /\ Counts'
  BY <1>3, <1>4, <1>5, InsertKeeps DEF Settled
<1>7. /\ at' = [repo |-> r, repoId |-> parent, epic |-> e, epicId |-> Fresh]
      /\ epics' = epics \ {e} /\ batch' = TicketsOf(r, e) /\ stage' = "ticket"
      /\ UNCHANGED <<repos, uuidOf, wires, plan, tenant, writes>>
  BY <1>0, <1>a DEF CreateEpic, EnterEpic, TypeOK
<1>8. /\ Tickets' = Tickets /\ Nodes' = Nodes /\ RepoNames' = RepoNames
      /\ \A i : EpicNode(i)' = EpicNode(i) /\ NodeOf(i)' = NodeOf(i)
      /\ \A s : EpicsOf(s)' = EpicsOf(s)
      /\ \A s, x : TicketsOf(s, x)' = TicketsOf(s, x)
  BY <1>7, PlanStays
<1>9. t \in TicketsOf(r, e) /\ TicketsOf(r, e) \subseteq Tickets
  BY <1>2 DEF TicketsOf, EpicNode
<1>10. Fresh \in Ids /\ Fresh \in DOMAIN origin' /\ origin'[Fresh] = node
  BY <1>6 DEF Noted
<1>11. TypeOK'
  <2>1. at' \in [repo : Repos \cup {None}, repoId : Parents, epic : Epics \cup {None}, epicId : Parents]
    BY <1>0, <1>2, <1>5, <1>7, <1>10, TicketsTyped DEF Parents, TypeOK
  <2>2. \A n \in DOMAIN uuidOf' : uuidOf'[n] \in DOMAIN origin'
    BY <1>0, <1>6, <1>7 DEF TypeOK, Noted
  <2> QED
    BY <1>0, <1>6, <1>7, <1>8, <1>9, <2>1, <2>2 DEF TypeOK, Reports, LostSets
<1>12. StageOK'
  BY <1>1, <1>6, <1>7, <1>9 DEF StageOK, Wiring
<1>13. PlaceOK'
  <2>1. parent \in DOMAIN origin' /\ origin'[parent] = <<r>>
    BY <1>1, <1>6 DEF Noted
  <2>2. repos \subseteq RepoNames
    BY <1>0 DEF PlanInv, PlaceOK
  <2>3. e \in EpicsOf(r) \ epics' /\ epics' \subseteq EpicsOf(r)
    BY <1>1, <1>7
  <2> QED
    BY <1>1, <1>7, <1>8, <1>10, <2>1, <2>2, <2>3 DEF PlaceOK, node
<1>14. \A s, x : EpicDue(s, x)' => EpicDue(s, x) /\ <<s, x>> # node
  BY <1>1, <1>7, <1>a DEF EpicDue, node
<1>15. \A s, x, i : TicketDue(s, x, i)' => TicketDue(s, x, i)
  BY <1>7, <1>14, <1>a DEF TicketDue, EpicDue
<1>16. DueIsNotMade'
  <2>1. \A s \in repos' : s \in repos /\ <<s>> # node
    BY <1>7 DEF node
  <2>2. \A s, x, i : <<s, x, i>> # node
    BY DEF node
  <2> QED
    BY <1>0, <1>6, <1>14, <1>15, <2>1, <2>2, DueStaysUnmade DEF PlanInv
<1>17. AllDueOrMade'
  <2>1. \A s \in repos : s \in repos'
    BY <1>7
  <2>2. \A s, x : EpicDue(s, x) => EpicDue(s, x)' \/ (s = r /\ x = e)
    BY <1>7, <1>a DEF EpicDue
  <2>3. \A s : \A x \in EpicsOf(s) : EpicDue(s, x) => EpicDue(s, x)' \/ Made(<<s, x>>)'
    BY <1>6, <2>2 DEF node
  <2>4. \A s, x : \A i \in TicketsOf(s, x) : TicketDue(s, x, i) => TicketDue(s, x, i)'
    <3>1. \A i \in TicketsOf(r, e) : TicketDue(r, e, i)'
      BY <1>7 DEF TicketDue
    <3> QED
      BY <1>1, <2>2, <3>1 DEF TicketDue
  <2> QED
    BY <1>0, <1>6, <1>7, <2>1, <2>3, <2>4, StillDueOrMade DEF PlanInv
<1>18. Registered'
  BY <1>0, <1>6, <1>7, <1>8 DEF Registered, PlanInv, Noted
<1>19. WiresOK'
  BY <1>7 DEF WiresOK, Wiring
<1>20. Undisturbed'
  BY <1>0, <1>6, <1>7 DEF Undisturbed, EdgesOK, Wiring, ImportInv
<1> QED
  BY <1>6, <1>11, <1>12, <1>13, <1>16, <1>17, <1>18, <1>19, <1>20 DEF ImportInv, PlanInv

(***************************************************************************)
(* The wires: one for every reference to a registered name.                *)
(***************************************************************************)
NamedBy(i, kind) == IF kind = DependsOn THEN plan[i].blockedBy ELSE plan[i].unlocks

IsWire(w, known, i, n, kind) ==
  /\ n \in NamedBy(i, kind)
  /\ w = [ticket |-> i, edge |-> Edge(known[plan[i].name], known[n], kind)]

LEMMA WireForms ==
  ASSUME NEW known, NEW w
  PROVE  w \in WiresOf(known) <=>
           \E i \in Tickets, n \in DOMAIN known, kind \in {DependsOn, Blocks} : IsWire(w, known, i, n, kind)
<1>1. w \in WiresOf(known) <=>
        \E i \in Tickets : \/ w \in Wire(i, plan[i].blockedBy, DependsOn, known)
                          \/ w \in Wire(i, plan[i].unlocks, Blocks, known)
  BY DEF WiresOf
<1>2. \A i : w \in Wire(i, plan[i].blockedBy, DependsOn, known) <=>
                \E n \in DOMAIN known : IsWire(w, known, i, n, DependsOn)
  BY DEF Wire, IsWire, NamedBy
<1>3. \A i : w \in Wire(i, plan[i].unlocks, Blocks, known) <=>
                \E n \in DOMAIN known : IsWire(w, known, i, n, Blocks)
  BY ImportAssumption DEF Wire, IsWire, NamedBy
<1> QED
  BY <1>1, <1>2, <1>3

LEMMA WiresTyped ==
  ASSUME plan \in Seq(PlanFile), NEW known, \A n \in DOMAIN known : known[n] \in Ids,
         \A i \in Tickets : plan[i].name \in DOMAIN known
  PROVE  WiresOf(known) \subseteq [ticket : Tickets, edge : Edges]
<1> SUFFICES ASSUME NEW w \in WiresOf(known) PROVE w \in [ticket : Tickets, edge : Edges]
  OBVIOUS
<1>1. PICK i \in Tickets, n \in DOMAIN known, kind \in {DependsOn, Blocks} : IsWire(w, known, i, n, kind)
  BY WireForms
<1>2. known[plan[i].name] \in Ids /\ known[n] \in Ids /\ kind \in Kinds
  BY <1>1, ImportAssumption DEF IsWire
<1> QED
  BY <1>1, <1>2 DEF IsWire, Edge, Edges

LEMMA WiresStay ==
  ASSUME UNCHANGED plan
  PROVE  WiresOf(uuidOf)' = WiresOf(uuidOf')
<1>1. Tickets' = Tickets
  BY PlanStays
<1> QED
  BY <1>1 DEF WiresOf, Wire

(***************************************************************************)
(* When nothing is left to create, every ticket is registered.             *)
(***************************************************************************)
LEMMA AllRegistered ==
  ASSUME AllDueOrMade, repos = {}, epics = {}, batch = {}, NEW i \in Tickets
  PROVE  plan[i].name \in DOMAIN uuidOf
BY DEF AllDueOrMade, TicketDue, EpicDue

(***************************************************************************)
(* A ticket is settled in a facet of its own or in that of its epic, and   *)
(* registered; the loops go on to what is left, in the end to the edges.   *)
(***************************************************************************)
GoesOn(last) ==
  /\ wires' = IF last THEN WiresOf(uuidOf') ELSE {}
  /\ stage' = IF last THEN IF wires' = {} THEN "done" ELSE "edge"
              ELSE IF batch' # {} THEN "ticket"
              ELSE IF epics # {} THEN "epic"
              ELSE "repo"

LEMMA TicketSettled ==
  ASSUME ImportInv, stage = "ticket", UNCHANGED <<plan, tenant, writes, repos, epics, at>>,
         NEW i \in batch, NEW id, Register(plan[i].name, id),
         id \in DOMAIN origin', origin'[id] = NodeOf(i), Settled(NodeOf(i)),
         batch' = batch \ {i}, GoesOn(batch' = {} /\ epics = {} /\ repos = {})
  PROVE  ImportInv'
<1>0. TypeOK /\ PlanInv /\ DOMAIN origin' \subseteq Ids
  BY DEF ImportInv, Settled, TablesOK
<1>a. PICK r, e : r = at.repo /\ e = at.epic
  OBVIOUS
<1>b. PICK node : node = NodeOf(i)
  OBVIOUS
<1>c. PICK last \in BOOLEAN : last <=> (batch' = {} /\ epics = {} /\ repos = {})
  OBVIOUS
<1>1. /\ wires = {} /\ lost.wires = {} /\ r \in RepoNames \ repos
      /\ epics \subseteq EpicsOf(r) /\ e \notin epics
      /\ batch \subseteq TicketsOf(r, e)
  BY <1>0, <1>a DEF PlanInv, StageOK, PlaceOK
<1>2. i \in Tickets /\ plan[i].repo = r /\ EpicOf(plan[i]) = e
  BY <1>1 DEF TicketsOf, EpicNode
<1>3. node \in {<<r, e>>, <<r, e, i>>}
  BY <1>2, <1>b, NodeForms DEF TicketNode
<1>4. /\ edges' = edges
      /\ TablesOK' /\ report' \in Reports /\ lost' \in LostSets
      /\ report'["edges"] = report["edges"] /\ lost'.wires = lost.wires
      /\ DOMAIN origin' \subseteq minted' /\ \A x \in DOMAIN origin' : origin'[x] \in Nodes
      /\ \A x \in DOMAIN origin : x \in DOMAIN origin' /\ origin'[x] = origin[x]
      /\ \A n : Made(n)' <=> Made(n) \/ n = node
      /\ MadeOnce' /\ LostWereMade'
      /\ writes' = 0 => Placed' /\ Counts'
  BY <1>b DEF Settled
<1>5. /\ Tickets' = Tickets /\ Nodes' = Nodes /\ RepoNames' = RepoNames
      /\ \A j : EpicNode(j)' = EpicNode(j) /\ NodeOf(j)' = NodeOf(j)
      /\ \A s : EpicsOf(s)' = EpicsOf(s)
      /\ \A s, x : TicketsOf(s, x)' = TicketsOf(s, x)
      /\ WiresOf(uuidOf)' = WiresOf(uuidOf')
  BY PlanStays, WiresStay
<1>6. /\ DOMAIN uuidOf' = DOMAIN uuidOf \cup {plan[i].name} /\ uuidOf'[plan[i].name] = id
      /\ \A n \in DOMAIN uuidOf : n # plan[i].name => uuidOf'[n] = uuidOf[n]
  BY DEF Register
<1>7. \A s, x : EpicDue(s, x)' <=> EpicDue(s, x)
  BY DEF EpicDue
<1>8. \A s, x, j : TicketDue(s, x, j)' <=>
                     TicketDue(s, x, j) /\ (s = r /\ x = e => j # i)
  BY <1>1, <1>7, <1>a DEF TicketDue, EpicDue
<1>9. ~ EpicDue(r, e)
  BY <1>1, <1>a DEF EpicDue
<1>10. DueIsNotMade'
  <2>1. \A s \in repos' : s \in repos /\ <<s>> # node
    BY <1>3
  <2>2. \A s, x : EpicDue(s, x)' => EpicDue(s, x) /\ <<s, x>> # node
    BY <1>3, <1>7, <1>9
  <2>3. \A s, x, j : TicketDue(s, x, j)' => TicketDue(s, x, j) /\ <<s, x, j>> # node
    BY <1>3, <1>8
  <2> QED
    BY <1>0, <1>4, <2>1, <2>2, <2>3, DueStaysUnmade DEF PlanInv
<1>11. AllDueOrMade'
  <2>1. Made(NodeOf(i))'
    BY <1>4, <1>5, <1>b DEF Made
  <2>2. \A s, x : \A j \in TicketsOf(s, x) :
          TicketDue(s, x, j) =>
            TicketDue(s, x, j)' \/ (Made(NodeOf(j))' /\ plan[j].name \in DOMAIN uuidOf')
    BY <1>6, <1>8, <2>1
  <2> QED
    BY <1>0, <1>4, <1>6, <1>7, <2>2, StillDueOrMade DEF PlanInv
<1>12. Registered'
  <2>1. \A n \in DOMAIN uuidOf : \E j \in Tickets :
          plan[j].name = n /\ uuidOf[n] \in DOMAIN origin /\ origin[uuidOf[n]] = NodeOf(j)
    BY <1>0 DEF PlanInv, Registered
  <2>2. ASSUME NEW n \in DOMAIN uuidOf'
        PROVE  \E j \in Tickets : /\ plan[j].name = n /\ uuidOf'[n] \in DOMAIN origin'
                                  /\ origin'[uuidOf'[n]] = NodeOf(j)
    <3>1. CASE n = plan[i].name
      BY <1>2, <1>6, <3>1
    <3>2. CASE n # plan[i].name
      BY <1>4, <1>6, <2>1, <2>2, <3>2
    <3> QED
      BY <3>1, <3>2
  <2> QED
    BY <1>5, <2>2 DEF Registered
<1>13. ASSUME last PROVE \A j \in Tickets : plan[j].name \in DOMAIN uuidOf'
  <2>1. \A j \in Tickets' : plan'[j].name \in DOMAIN uuidOf'
    BY <1>11, <1>13, <1>c DEF AllDueOrMade, TicketDue, EpicDue
  <2> QED
    BY <1>5, <2>1
<1>14. \A n \in DOMAIN uuidOf' : uuidOf'[n] \in DOMAIN origin' /\ uuidOf'[n] \in Ids
  BY <1>0, <1>5, <1>12 DEF Registered
<1>15. wires' \subseteq [ticket : Tickets, edge : Edges]
  <2>1. CASE last
    <3>1. \A known : (\A n \in DOMAIN known : known[n] \in Ids)
                       /\ (\A j \in Tickets : plan[j].name \in DOMAIN known)
                     => WiresOf(known) \subseteq [ticket : Tickets, edge : Edges]
      BY <1>0, WiresTyped DEF TypeOK
    <3> QED
      BY <1>13, <1>14, <1>c, <2>1, <3>1 DEF GoesOn
  <2>2. CASE ~ last
    BY <1>c, <2>2 DEF GoesOn
  <2> QED
    BY <2>1, <2>2
<1>16. /\ last => stage' \in {"edge", "done"} /\ wires' = WiresOf(uuidOf')
                  /\ (stage' = "done" => wires' = {})
       /\ ~ last => stage' \in {"ticket", "epic", "repo"} /\ wires' = {}
       /\ stage' = "ticket" => batch' # {}
       /\ stage' = "epic" => batch' = {} /\ epics # {}
       /\ stage' = "repo" => batch' = {} /\ epics = {} /\ repos # {}
  BY <1>c DEF GoesOn
<1>17. TypeOK'
  <2>1. DOMAIN uuidOf' \subseteq Names
    BY <1>0, <1>2, <1>6, TicketsTyped DEF TypeOK
  <2>2. batch' \subseteq Tickets /\ stage' \in {"repo", "epic", "ticket", "edge", "done", "gone"}
    BY <1>0, <1>16, <1>c DEF TypeOK
  <2>3. /\ plan' \in Seq(PlanFile) /\ tenant' \in Callers
        /\ repos' \subseteq Repos /\ epics' \subseteq Epics
        /\ at' \in [repo : Repos \cup {None}, repoId : Parents,
                    epic : Epics \cup {None}, epicId : Parents]
        /\ writes' \in 0 .. MaxWrites
    BY <1>0 DEF TypeOK
  <2> QED
    BY <1>4, <1>5, <1>14, <1>15, <2>1, <2>2, <2>3 DEF TypeOK, Reports, LostSets
<1>18. StageOK'
  BY <1>1, <1>4, <1>16, <1>c DEF StageOK, Wiring
<1>19. PlaceOK'
  <2>1. repos \subseteq RepoNames
    BY <1>0 DEF PlanInv, PlaceOK
  <2>2. /\ at.repoId \in DOMAIN origin' /\ origin'[at.repoId] = <<r>>
        /\ at.epicId \in DOMAIN origin' /\ origin'[at.epicId] = <<r, e>> /\ e \in EpicsOf(r)
    BY <1>0, <1>4, <1>a DEF PlanInv, PlaceOK
  <2> QED
    BY <1>1, <1>5, <1>a, <2>1, <2>2 DEF PlaceOK
<1>20. WiresOK'
  BY <1>1, <1>4, <1>5, <1>16 DEF WiresOK, Wiring
<1>21. ASSUME writes' = 0 PROVE EdgesOK'
  <2>1. edges' = {} /\ report'["edges"] = 0
    BY <1>4, <1>21 DEF ImportInv, Undisturbed, EdgesOK
  <2>2. IsFiniteSet(edges') /\ Cardinality(edges') = 0
    BY <2>1, FS_EmptySet
  <2>3. Wiring' => wires' = WiresOf(uuidOf)'
    BY <1>5, <1>16 DEF Wiring
  <2> QED
    BY <2>1, <2>2, <2>3 DEF EdgesOK
<1>22. Undisturbed'
  BY <1>4, <1>21 DEF Undisturbed
<1> QED
  BY <1>4, <1>10, <1>11, <1>12, <1>17, <1>18, <1>19, <1>20, <1>22 DEF ImportInv, PlanInv

LEMMA CreateTicketInv ==
  ASSUME ImportInv, CreateTicket, UNCHANGED <<plan, tenant, writes>>
  PROVE  ImportInv'
<1> DEFINE i == FirstOf(batch)
<1>0. stage = "ticket" /\ TypeOK /\ PlanInv
  BY DEF CreateTicket, ImportInv
<1>a. PICK r, e : r = at.repo /\ e = at.epic
  OBVIOUS
<1>1. /\ batch # {} /\ batch \subseteq TicketsOf(r, e) /\ at.epicId \in DOMAIN origin
      /\ origin[at.epicId] = <<r, e>> /\ at.epicId \in Parents
  BY <1>0, <1>a DEF PlanInv, StageOK, PlaceOK, TypeOK
<1>2. i \in batch
  <2>1. batch \subseteq Nat
    BY <1>0, TicketsTyped DEF TypeOK
  <2> QED
    BY <1>1, <2>1, FirstIsIn
<1>3. i \in Tickets /\ plan[i].repo = r /\ EpicOf(plan[i]) = e
  BY <1>1, <1>2 DEF TicketsOf, EpicNode
<1>4. /\ UNCHANGED <<repos, epics, at>>
      /\ batch' = batch \ {i} /\ GoesOn(batch' = {} /\ epics = {} /\ repos = {})
  BY DEF CreateTicket, GoesOn
<1>5. CASE /\ i = OverviewOf(r, e) /\ Register(plan[i].name, at.epicId)
           /\ UNCHANGED <<tables, report, origin, lost>>
  <2>1. NodeOf(i) = <<r, e>>
    BY <1>3, <1>5, NodeForms DEF IsOverview
  <2>2. \A n : Made(n)' <=> Made(n)
    BY <1>5 DEF Made
  <2>3. Made(NodeOf(i))
    BY <1>1, <2>1 DEF Made
  <2>4. \A n : Made(n)' <=> Made(n) \/ n = NodeOf(i)
    BY <2>2, <2>3
  <2>5. TablesOK' /\ edges' = edges /\ DOMAIN origin' \subseteq minted'
    BY <1>0, <1>5 DEF TypeOK, tables, TablesOK, Live
  <2>6. report' \in Reports /\ lost' \in LostSets /\ \A id \in DOMAIN origin' : origin'[id] \in Nodes
    BY <1>0, <1>5 DEF TypeOK, Reports, LostSets
  <2>7. MadeOnce' /\ LostWereMade'
    BY <1>0, <1>5 DEF MadeOnce, LostWereMade, PlanInv, Made
  <2>8. writes' = 0 => Placed' /\ Counts'
    <3>1. Placed => Placed'
      BY <1>5 DEF Placed, tables, Live, CutOff, OnPath, Above
    <3>2. \A n : Stored(n)' = Stored(n)
      BY <1>5 DEF Stored, tables, Live
    <3>3. Counts => Counts'
      BY <1>5, <3>2, PlanStays DEF Counts, StoredNodes
    <3> QED
      BY <3>1, <3>3 DEF ImportInv, Undisturbed
  <2>9. Settled(NodeOf(i))
    BY <1>5, <2>4, <2>5, <2>6, <2>7, <2>8 DEF Settled
  <2>10. at.epicId \in DOMAIN origin' /\ origin'[at.epicId] = NodeOf(i)
    BY <1>1, <1>5, <2>1
  <2> HIDE DEF i
  <2> QED
    BY <1>0, <1>2, <1>4, <1>5, <2>9, <2>10, TicketSettled
<1>6. CASE /\ i # OverviewOf(r, e) /\ Register(plan[i].name, Fresh)
           /\ Insert(at.epicId, <<r, e, i>>, "tickets")
  <2> DEFINE node == <<r, e, i>>
  <2>1. NodeOf(i) = node /\ node \in TicketNodes /\ node \in Nodes
    BY <1>3, <1>6, NodeForms, KindsOfNodes DEF IsOverview, TicketNode
  <2>2. node \notin RepoNodes /\ PartOf(node) = "tickets"
    BY <2>1, KindsOfNodes DEF PartOf
  <2>3. HasPlace(node, at.epicId)
    <3> HIDE DEF i
    <3>1. TicketDue(r, e, i)
      BY <1>2, <1>a DEF TicketDue
    <3>2. \A id \in DOMAIN origin : ~ OnPath(<<r, e, i>>, origin[id])
      BY <1>0, <3>1, DueHasRoom DEF PlanInv
    <3>3. Above(<<r, e, i>>) = <<r, e>>
      BY Paths
    <3> QED
      BY <1>1, <2>2, <3>2, <3>3 DEF HasPlace
  <2>4. Insert(at.epicId, node, PartOf(node))
    BY <1>6, <2>2
  <2> HIDE DEF node
  <2>5. Noted(node) /\ Settled(node)
    BY <1>1, <2>1, <2>3, <2>4, InsertKeeps
  <2>6. Fresh \in DOMAIN origin' /\ origin'[Fresh] = NodeOf(i)
    BY <2>1, <2>5 DEF Noted
  <2> HIDE DEF i
  <2> QED
    BY <1>0, <1>2, <1>4, <1>6, <2>1, <2>5, <2>6, TicketSettled
<1> QED
  BY <1>5, <1>6, <1>a DEF CreateTicket

(***************************************************************************)
(* Two wires never ask for the same edge when no two tickets share an id.  *)
(***************************************************************************)
LEMMA OwnUuid ==
  ASSUME Registered, OneNameEach, NEW i \in Tickets, plan[i].name \in DOMAIN uuidOf
  PROVE  /\ uuidOf[plan[i].name] \in DOMAIN origin
         /\ origin[uuidOf[plan[i].name]] = NodeOf(i)
BY DEF Registered, OneNameEach

LEMMA EdgesOfWires ==
  ASSUME Registered, OneNameEach, \A i \in Tickets : plan[i].name \in DOMAIN uuidOf,
         NEW w \in WiresOf(uuidOf), NEW v \in WiresOf(uuidOf), w.edge = v.edge
  PROVE  w = v
<1>1. PICK i \in Tickets, n \in DOMAIN uuidOf, kind \in {DependsOn, Blocks} :
        IsWire(w, uuidOf, i, n, kind)
  BY WireForms
<1>2. PICK j \in Tickets, m \in DOMAIN uuidOf, other \in {DependsOn, Blocks} :
        IsWire(v, uuidOf, j, m, other)
  BY WireForms
<1>3. uuidOf[plan[i].name] = uuidOf[plan[j].name]
  BY <1>1, <1>2 DEF IsWire, Edge
<1>4. NodeOf(i) = NodeOf(j)
  BY <1>3, OwnUuid
<1>5. i = j
  BY <1>4, NodeOfOnce
<1> QED
  BY <1>1, <1>2, <1>5 DEF IsWire

LEMMA AddWireInv ==
  ASSUME ImportInv, NEW w \in wires, AddWire(w), UNCHANGED <<plan, tenant, writes>>
  PROVE  ImportInv'
<1>0. stage = "edge" /\ TypeOK /\ PlanInv /\ Wiring
  BY DEF AddWire, ImportInv, Wiring
<1>1. /\ UNCHANGED <<repos, epics, batch, at, uuidOf, origin, plan, tenant, writes>>
      /\ wires' = wires \ {w} /\ stage' \in {"edge", "done"} /\ (stage' = "done" => wires' = {})
  BY DEF AddWire
<1>2. /\ repos = {} /\ epics = {} /\ batch = {}
      /\ wires \subseteq WiresOf(uuidOf) /\ lost.wires \subseteq WiresOf(uuidOf)
      /\ wires \cap lost.wires = {}
  BY <1>0 DEF PlanInv, StageOK, WiresOK, Wiring
<1>3. \A i \in Tickets : plan[i].name \in DOMAIN uuidOf
  BY <1>0, <1>2, AllRegistered DEF PlanInv
<1>4. /\ Tickets' = Tickets /\ Nodes' = Nodes /\ RepoNames' = RepoNames
      /\ RepoNodes' = RepoNodes /\ EpicNodes' = EpicNodes /\ TicketNodes' = TicketNodes
      /\ \A i : EpicNode(i)' = EpicNode(i) /\ NodeOf(i)' = NodeOf(i)
      /\ WiresOf(uuidOf)' = WiresOf(uuidOf) /\ OneNameEach' = OneNameEach
  BY <1>1, PlanStays, WiresStay
<1>5. w \in [ticket : Tickets, edge : Edges] /\ w.edge \in Edges
  BY <1>0 DEF TypeOK
<1>6. /\ facets' = facets /\ minted' = minted /\ report' \in Reports /\ lost' \in LostSets
      /\ lost'.nodes = lost.nodes
      /\ \A part \in {"repos", "epics", "tickets"} : report'[part] = report[part]
      /\ \/ /\ EndsExist(facets, w.edge) /\ edges' = edges \cup {w.edge} /\ lost' = lost
            /\ report'["edges"] = report["edges"] + 1
         \/ /\ edges' = edges /\ report' = report
            /\ \/ lost'.wires = lost.wires /\ ~ EndsExist(facets, w.edge)
               \/ lost'.wires = lost.wires \cup {w}
  <2>0. report \in Reports /\ lost \in LostSets
    BY <1>0 DEF TypeOK, Reports, LostSets
  <2>1. CASE Added(w)
    BY <2>0, <2>1 DEF Added, AddEdge, Counted, Reports
  <2>2. CASE Refused(w)
    <3>1. facets' = facets /\ minted' = minted /\ edges' = edges /\ report' = report
      BY <2>2 DEF Refused, tables
    <3>2. CASE ~ EndsExist(facets, w.edge) /\ UNCHANGED lost
      BY <2>0, <3>1, <3>2
    <3>3. CASE lost' = [lost EXCEPT !["wires"] = @ \cup {w}]
      <4>1. /\ lost'.nodes = lost.nodes /\ lost'.wires = lost.wires \cup {w}
            /\ lost' \in LostSets
        BY <1>5, <2>0, <3>3 DEF LostSets
      <4> QED
        BY <2>0, <3>1, <4>1
    <3> QED
      BY <2>2, <3>2, <3>3 DEF Refused, MayFail
  <2> QED
    BY <2>1, <2>2 DEF AddWire
<1>7. edges' \subseteq edges \cup {w.edge} /\ lost'.wires \subseteq lost.wires \cup {w}
  BY <1>6
<1>8. TypeOK'
  <2>1. TablesOK'
    BY <1>0, <1>5, <1>6, <1>7 DEF TypeOK, TablesOK, Live
  <2>2. wires' \subseteq [ticket : Tickets, edge : Edges]
    BY <1>0, <1>1 DEF TypeOK
  <2> QED
    BY <1>0, <1>1, <1>4, <1>6, <2>1, <2>2 DEF TypeOK, Reports, LostSets
<1>9. StageOK' /\ PlaceOK'
  <2>1. repos \subseteq RepoNames
    BY <1>2
  <2> QED
    BY <1>1, <1>2, <1>4, <2>1 DEF StageOK, PlaceOK, Wiring
<1>10. \A n : Made(n)' <=> Made(n)
  BY <1>1 DEF Made
<1>11. MadeOnce' /\ LostWereMade' /\ Registered'
  BY <1>0, <1>1, <1>4, <1>6, <1>10 DEF PlanInv, MadeOnce, LostWereMade, Registered
<1>12. DueIsNotMade'
  BY <1>1, <1>2 DEF DueIsNotMade, TicketDue, EpicDue
<1>13. AllDueOrMade'
  <2>1. \A r : \A e \in EpicsOf(r) : ~ EpicDue(r, e)
    BY <1>2 DEF EpicDue
  <2>2. \A r, e : \A i \in TicketsOf(r, e) : ~ TicketDue(r, e, i)
    BY <1>2 DEF TicketDue, EpicDue
  <2> QED
    BY <1>0, <1>1, <1>2, <1>10, <2>1, <2>2, StillDueOrMade DEF PlanInv
<1>14. WiresOK'
  <2>1. /\ wires' \subseteq WiresOf(uuidOf) /\ lost'.wires \subseteq WiresOf(uuidOf)
        /\ wires' \cap lost'.wires = {}
    BY <1>1, <1>2, <1>7
  <2> QED
    BY <1>4, <2>1 DEF WiresOK
<1>15. ASSUME writes' = 0 PROVE Placed' /\ Counts' /\ EdgesOK'
  <2>0. Placed /\ Counts /\ EdgesOK
    BY <1>1, <1>15 DEF ImportInv, Undisturbed
  <2>1. Placed'
    BY <1>1, <1>6, <2>0 DEF Placed, Live, CutOff, OnPath, Above
  <2>2. Counts'
    <3>1. \A n : Stored(n)' = Stored(n)
      BY <1>1, <1>6 DEF Stored, Live
    <3> QED
      BY <1>4, <1>6, <2>0, <3>1 DEF Counts, StoredNodes
  <2>3. \A x \in edges' : \E v \in WiresOf(uuidOf) \ wires' : v.edge = x
    <3>1. \A x \in edges : \E v \in WiresOf(uuidOf) \ wires : v.edge = x
      BY <1>0, <2>0 DEF EdgesOK
    <3> QED
      BY <1>1, <1>2, <1>7, <3>1
  <2>4. ASSUME OneNameEach
        PROVE  /\ IsFiniteSet(edges') /\ report'["edges"] = Cardinality(edges')
               /\ \A v \in WiresOf(uuidOf) \ wires' :
                    v.edge \in edges' <=> EndsExist(facets', v.edge) /\ v \notin lost'.wires
    <3>1. /\ IsFiniteSet(edges) /\ report["edges"] = Cardinality(edges)
          /\ \A v \in WiresOf(uuidOf) \ wires :
               v.edge \in edges <=> EndsExist(facets, v.edge) /\ v \notin lost.wires
      BY <1>0, <2>0, <2>4 DEF EdgesOK
    <3>2. \A u, v \in WiresOf(uuidOf) : u.edge = v.edge => u = v
      BY <1>0, <1>3, <2>4, EdgesOfWires DEF PlanInv
    <3>3. w.edge \notin edges /\ w \notin lost.wires
      <4>1. \A x \in edges : \E v \in WiresOf(uuidOf) \ wires : v.edge = x
        BY <1>0, <2>0 DEF EdgesOK
      <4> QED
        BY <1>2, <3>2, <4>1
    <3>4. IsFiniteSet(edges') /\ report'["edges"] = Cardinality(edges')
      <4>1. CASE edges' = edges \cup {w.edge} /\ report'["edges"] = report["edges"] + 1
        BY <3>1, <3>3, <4>1, FS_AddElement
      <4>2. CASE edges' = edges /\ report' = report
        BY <3>1, <4>2
      <4> QED
        BY <1>6, <4>1, <4>2
    <3>5. ASSUME NEW v \in WiresOf(uuidOf) \ wires'
          PROVE  v.edge \in edges' <=> EndsExist(facets', v.edge) /\ v \notin lost'.wires
      <4>1. CASE v = w
        BY <1>6, <3>3, <4>1
      <4>2. CASE v # w
        <5>1. v \in WiresOf(uuidOf) \ wires /\ v.edge # w.edge
          BY <1>1, <1>2, <3>2, <4>2
        <5>2. (v.edge \in edges' <=> v.edge \in edges) /\ (v \in lost'.wires <=> v \in lost.wires)
          BY <1>6, <4>2, <5>1
        <5> QED
          BY <1>6, <3>1, <5>1, <5>2
      <4> QED
        BY <4>1, <4>2
    <3> QED
      BY <3>4, <3>5
  <2>5. stage' \notin {"repo", "epic", "ticket"}
    BY <1>1
  <2>6. EdgesOK'
    BY <1>4, <2>3, <2>4, <2>5 DEF EdgesOK
  <2> QED
    BY <2>1, <2>2, <2>6
<1>16. Undisturbed'
  BY <1>15 DEF Undisturbed
<1> QED
  BY <1>8, <1>9, <1>11, <1>12, <1>13, <1>14, <1>16 DEF ImportInv, PlanInv

(***************************************************************************)
(* Breaking the import off, or anybody's write, leaves the plan's part of  *)
(* the invariant alone.                                                    *)
(***************************************************************************)
LEMMA DuesStay ==
  ASSUME PlanInv, UNCHANGED <<plan, repos, epics, batch, at, uuidOf, origin, lost>>
  PROVE  /\ MadeOnce' /\ LostWereMade' /\ Registered' /\ DueIsNotMade' /\ AllDueOrMade'
         /\ Tickets' = Tickets /\ Nodes' = Nodes /\ RepoNames' = RepoNames
         /\ \A r : EpicsOf(r)' = EpicsOf(r)
         /\ \A r, e : TicketsOf(r, e)' = TicketsOf(r, e)
         /\ WiresOf(uuidOf)' = WiresOf(uuidOf)
<1>1. /\ Tickets' = Tickets /\ Nodes' = Nodes /\ RepoNames' = RepoNames
      /\ \A i : EpicNode(i)' = EpicNode(i) /\ NodeOf(i)' = NodeOf(i)
      /\ \A r : EpicsOf(r)' = EpicsOf(r)
      /\ \A r, e : TicketsOf(r, e)' = TicketsOf(r, e)
      /\ WiresOf(uuidOf)' = WiresOf(uuidOf)
  BY PlanStays, WiresStay
<1>2. \A n : Made(n)' <=> Made(n)
  BY DEF Made
<1>3. \A r, e : EpicDue(r, e)' <=> EpicDue(r, e)
  BY DEF EpicDue
<1>4. \A r, e, i : TicketDue(r, e, i)' <=> TicketDue(r, e, i)
  BY <1>3 DEF TicketDue
<1>5. MadeOnce' /\ LostWereMade' /\ Registered'
  BY <1>1, <1>2 DEF PlanInv, MadeOnce, LostWereMade, Registered
<1>6. DueIsNotMade'
  BY <1>2, <1>3, <1>4 DEF PlanInv, DueIsNotMade
<1>7. AllDueOrMade'
  <2>1. \A r, e : \A i \in TicketsOf(r, e) : TicketDue(r, e, i) => TicketDue(r, e, i)'
    BY <1>4
  <2> QED
    BY <1>2, <1>3, <2>1, StillDueOrMade DEF PlanInv
<1> QED
  BY <1>1, <1>5, <1>6, <1>7

LEMMA AbandonInv ==
  ASSUME ImportInv, Abandon
  PROVE  ImportInv'
<1>1. /\ stage' = "gone"
      /\ UNCHANGED <<tables, plan, tenant, repos, epics, batch, at, uuidOf, wires,
                     report, origin, lost, writes>>
  BY DEF Abandon
<1>2. /\ MadeOnce' /\ LostWereMade' /\ Registered' /\ DueIsNotMade' /\ AllDueOrMade'
      /\ Tickets' = Tickets /\ Nodes' = Nodes /\ RepoNames' = RepoNames
  BY <1>1, DuesStay DEF ImportInv
<1>3. TypeOK'
  <2>1. TablesOK'
    BY <1>1 DEF ImportInv, TypeOK, TablesOK, tables, Live
  <2> QED
    BY <1>1, <1>2, <2>1 DEF ImportInv, TypeOK, tables
<1>4. StageOK' /\ PlaceOK' /\ WiresOK' /\ EdgesOK'
  BY <1>1, <1>2 DEF ImportInv, PlanInv, StageOK, PlaceOK, WiresOK, EdgesOK, Wiring
<1>5. Placed => Placed'
  BY <1>1 DEF Placed, tables, Live, CutOff, OnPath, Above
<1>6. \A n : Stored(n)' = Stored(n)
  BY <1>1 DEF Stored, tables, Live
<1>7. Counts => Counts'
  BY <1>1, <1>6, PlanStays DEF Counts, StoredNodes
<1> QED
  BY <1>1, <1>2, <1>3, <1>4, <1>5, <1>7 DEF ImportInv, PlanInv, Undisturbed

LEMMA TablesStayTyped ==
  ASSUME TablesOK, [StoreNext]_tables
  PROVE  TablesOK'
<1> USE DEF TablesOK, Live
<1>1. CASE \E id \in Ids, row \in Rows : CreateFacet(id, row)
  <2> PICK id \in Ids, row \in Rows : CreateFacet(id, row)
    BY <1>1
  <2>1. facets' = InsertRow(facets, id, row) /\ minted' = minted \cup {id} /\ edges' = edges
    BY DEF CreateFacet
  <2>2. /\ IsTable(InsertRow(facets, id, row))
        /\ DOMAIN InsertRow(facets, id, row) = DOMAIN facets \cup {id}
    BY InsertKeepsTable
  <2> QED
    BY <2>1, <2>2
<1>2. CASE \E id \in Ids, row \in Rows : UpdateFacet(id, row)
  BY <1>2, UpdateKeepsTable DEF UpdateFacet
<1>3. CASE \E id \in Ids, parent \in Parents : MoveFacet(id, parent)
  BY <1>3, SetParentKeepsTable DEF MoveFacet
<1>4. CASE \E id \in Ids : DeleteFacet(id)
  <2> PICK id \in Ids : DeleteFacet(id)
    BY <1>4
  <2>1. /\ id \in DOMAIN facets /\ facets' = DeleteRow(facets, id) /\ minted' = minted
        /\ edges' \subseteq edges
    BY DEF DeleteFacet, EdgesAfterDelete
  <2>2. IsTable(DeleteRow(facets, id)) /\ DOMAIN DeleteRow(facets, id) = DOMAIN facets \ {id}
    BY <2>1, DeleteKeepsTable
  <2> QED
    BY <2>1, <2>2
<1>5. CASE \E e \in Edges : AddEdge(e) \/ RemoveEdge(e)
  BY <1>5 DEF AddEdge, RemoveEdge
<1>6. CASE UNCHANGED tables
  BY <1>6 DEF tables
<1> QED
  BY <1>1, <1>2, <1>3, <1>4, <1>5, <1>6 DEF StoreNext

(***************************************************************************)
(* Steps that are not the import's: a gated write, or none.                *)
(***************************************************************************)
LEMMA OthersKeepPlan ==
  ASSUME ImportInv, [GatedNext]_tables, UNCHANGED <<plan, tenant, progress>>,
         writes' \in 0 .. MaxWrites
  PROVE  TypeOK' /\ PlanInv'
<1>1. UNCHANGED <<stage, repos, epics, batch, at, uuidOf, wires, report, origin, lost, plan, tenant>>
  BY DEF progress
<1>2. /\ MadeOnce' /\ LostWereMade' /\ Registered' /\ DueIsNotMade' /\ AllDueOrMade'
      /\ Tickets' = Tickets /\ Nodes' = Nodes /\ RepoNames' = RepoNames
      /\ \A r : EpicsOf(r)' = EpicsOf(r)
      /\ \A r, e : TicketsOf(r, e)' = TicketsOf(r, e)
      /\ WiresOf(uuidOf)' = WiresOf(uuidOf)
  BY <1>1, DuesStay DEF ImportInv
<1>3. TablesOK
  BY DEF ImportInv, TypeOK
<1>4. TablesOK' /\ minted \subseteq minted'
  BY <1>3, GatedStepIsStatement, TablesStayTyped, MintedPersist DEF Persist
<1>5. TypeOK'
  BY <1>1, <1>2, <1>4 DEF ImportInv, TypeOK
<1>6. StageOK' /\ WiresOK'
  BY <1>1, <1>2 DEF ImportInv, PlanInv, StageOK, WiresOK, Wiring
<1>7. PlaceOK'
  <2>1. PlaceOK
    BY DEF ImportInv, PlanInv
  <2>2. EpicsOf(at.repo)' = EpicsOf(at.repo) /\ TicketsOf(at.repo, at.epic)' = TicketsOf(at.repo, at.epic)
    BY <1>1, <1>2 DEF EpicsOf, TicketsOf, EpicNode
  <2> QED
    BY <1>1, <1>2, <2>1, <2>2 DEF PlaceOK
<1> QED
  BY <1>2, <1>5, <1>6, <1>7 DEF PlanInv

LEMMA WriteMeanwhileInv ==
  ASSUME ImportInv, WriteMeanwhile
  PROVE  ImportInv'
<1>1. writes \in 0 .. MaxWrites /\ writes < MaxWrites /\ writes' = writes + 1
  BY DEF WriteMeanwhile, ImportInv, TypeOK
<1>2. writes' \in 0 .. MaxWrites /\ writes' # 0
  BY <1>1, ImportAssumption
<1>3. TypeOK' /\ PlanInv'
  BY <1>2, OthersKeepPlan DEF WriteMeanwhile
<1> QED
  BY <1>2, <1>3 DEF ImportInv, Undisturbed

LEMMA ImportStutters ==
  ASSUME ImportInv, UNCHANGED importVars
  PROVE  ImportInv'
<1>1. UNCHANGED <<facets, edges, minted, plan, tenant, writes>> /\ UNCHANGED progress
  BY DEF importVars, tables
<1>2. UNCHANGED <<stage, repos, epics, batch, at, uuidOf, wires, report, origin, lost>>
  BY <1>1 DEF progress
<1>3. TypeOK' /\ PlanInv'
  BY <1>1, OthersKeepPlan DEF tables, ImportInv, TypeOK
<1>4. Placed => Placed'
  BY <1>1, <1>2 DEF Placed, Live, CutOff, OnPath, Above
<1>5. \A n : Stored(n)' = Stored(n)
  BY <1>1, <1>2 DEF Stored, Live
<1>6. Counts => Counts'
  BY <1>1, <1>2, <1>5, PlanStays DEF Counts, StoredNodes
<1>7. EdgesOK => EdgesOK'
  <2>1. WiresOf(uuidOf)' = WiresOf(uuidOf) /\ OneNameEach' = OneNameEach
    BY <1>1, <1>2, PlanStays, WiresStay
  <2> QED
    BY <1>1, <1>2, <2>1 DEF EdgesOK, Wiring, EndsExist
<1> QED
  BY <1>1, <1>3, <1>4, <1>6, <1>7 DEF ImportInv, Undisturbed

LEMMA ImportInitInv == Init => ImportInv
<1> SUFFICES ASSUME Init PROVE ImportInv
  OBVIOUS
<1>1. TablesOK /\ Live = {} /\ edges = {}
  BY StoreInitInv DEF Init, StoreInv, StoreInit, Live
<1>2. plan \in Seq(PlanFile) /\ tenant \in Callers
  BY WorkspaceAssumption DEF Init
<1>3. /\ repos = RepoNames /\ epics = {} /\ batch = {}
      /\ stage = IF repos = {} THEN "done" ELSE "repo"
      /\ at = [repo |-> None, repoId |-> None, epic |-> None, epicId |-> None]
      /\ DOMAIN uuidOf = {} /\ wires = {} /\ DOMAIN origin = {}
      /\ report = [repos |-> 0, epics |-> 0, tickets |-> 0, edges |-> 0]
      /\ lost = [nodes |-> {}, wires |-> {}] /\ writes = 0
  BY DEF Init, RepoNames
<1>4. \A n : ~ Made(n)
  BY <1>3 DEF Made
<1>5. /\ report \in Reports
      /\ report["repos"] = 0 /\ report["epics"] = 0 /\ report["tickets"] = 0 /\ report["edges"] = 0
  BY <1>3 DEF Reports
<1>6. TypeOK
  <2>1. repos \subseteq Repos
    BY <1>2, <1>3, TicketsTyped DEF RepoNames
  <2>2. at \in [repo : Repos \cup {None}, repoId : Parents, epic : Epics \cup {None}, epicId : Parents]
    BY <1>3 DEF Parents
  <2>3. writes \in 0 .. MaxWrites
    BY <1>3, ImportAssumption
  <2> QED
    BY <1>1, <1>2, <1>3, <1>5, <2>1, <2>2, <2>3 DEF TypeOK, Reports
<1>7. StageOK /\ PlaceOK /\ DueIsNotMade /\ MadeOnce /\ LostWereMade /\ Registered /\ WiresOK
  BY <1>3, <1>4 DEF StageOK, PlaceOK, DueIsNotMade, MadeOnce, LostWereMade, Registered, WiresOK, Wiring
<1>8. AllDueOrMade
  BY <1>3 DEF AllDueOrMade, RepoNames, EpicDue, TicketDue
<1>9. Placed
  BY <1>1, <1>3 DEF Placed
<1>10. Counts
  <2>1. \A S : StoredNodes(S) = {}
    BY <1>1 DEF StoredNodes, Stored
  <2> QED
    BY <1>5, <2>1, FS_EmptySet DEF Counts
<1>11. EdgesOK
  <2>1. stage \in {"repo", "done"} /\ (stage = "done" => Tickets = {})
    BY <1>3 DEF RepoNames
  <2>2. stage = "done" => WiresOf(uuidOf) = {}
    BY <2>1, WireForms
  <2> QED
    BY <1>1, <1>5, <2>1, <2>2, FS_EmptySet DEF EdgesOK, Wiring
<1> QED
  BY <1>6, <1>7, <1>8, <1>9, <1>10, <1>11 DEF ImportInv, PlanInv, Undisturbed

LEMMA ImportNextInv == ImportInv /\ [Next]_importVars => ImportInv'
<1> SUFFICES ASSUME ImportInv, [Next]_importVars PROVE ImportInv'
  OBVIOUS
<1>1. CASE Import
  BY <1>1, CreateRepoInv, CreateEpicInv, CreateTicketInv, AddWireInv DEF Import
<1>2. CASE Abandon \/ WriteMeanwhile
  BY <1>2, AbandonInv, WriteMeanwhileInv
<1>3. CASE UNCHANGED importVars
  BY <1>3, ImportStutters
<1> QED
  BY <1>1, <1>2, <1>3 DEF Next

LEMMA ImportInvariance == Spec => []ImportInv
<1> QED
  BY ImportInitInv, ImportNextInv, PTL DEF Spec

-----------------------------------------------------------------------------
(***************************************************************************)
(* Tables, uuids at hand, counters and history keep their types, whoever   *)
(* writes meanwhile and wherever the import stops.                         *)
(***************************************************************************)
THEOREM ImportTypeCorrect == Spec => []TypeOK
<1>1. ImportInv => TypeOK
  BY DEF ImportInv
<1> QED
  BY <1>1, ImportInvariance, PTL

(***************************************************************************)
(* Whatever statements fail and wherever the import stops, an imported     *)
(* facet stands below the one it belongs to, and once.                     *)
(***************************************************************************)
THEOREM NothingStrays == Spec => []NoStrays
<1>1. ImportInv => NoStrays
  <2> SUFFICES ASSUME ImportInv, writes = 0, NEW i \in Live
               PROVE  /\ Stored(origin[i]) = {i}
                      /\ IF Len(origin[i]) = 1 THEN facets[i].parent = None
                         ELSE facets[i].parent \in Stored(SubSeq(origin[i], 1, Len(origin[i]) - 1))
    BY DEF NoStrays
  <2>1. Placed /\ MadeOnce
    BY DEF ImportInv, PlanInv, Undisturbed
  <2>2. Stored(origin[i]) = {i}
    BY <2>1 DEF Stored, Placed, MadeOnce
  <2>3. CASE Len(origin[i]) = 1
    BY <2>1, <2>2, <2>3 DEF Placed
  <2>4. CASE Len(origin[i]) # 1
    <3>1. facets[i].parent \in Live /\ origin[facets[i].parent] = Above(origin[i])
      BY <2>1, <2>4 DEF Placed
    <3>2. facets[i].parent \in Stored(Above(origin[i]))
      BY <2>1, <3>1 DEF Stored, Placed
    <3> QED
      BY <2>2, <2>4, <3>2 DEF Above
  <2> QED
    BY <2>3, <2>4
<1> QED
  BY <1>1, ImportInvariance, PTL

(***************************************************************************)
(* An import that is done has made every node and registered every ticket. *)
(***************************************************************************)
LEMMA DoneIsMade ==
  ASSUME ImportInv, stage = "done"
  PROVE  /\ \A node \in Nodes : Made(node)
         /\ \A i \in Tickets : plan[i].name \in DOMAIN uuidOf
         /\ wires = {} /\ lost.wires \subseteq WiresOf(uuidOf)
<1>1. /\ repos = {} /\ epics = {} /\ batch = {} /\ wires = {} /\ AllDueOrMade
      /\ lost.wires \subseteq WiresOf(uuidOf)
  BY DEF ImportInv, PlanInv, StageOK, WiresOK, Wiring
<1>2. \A i \in Tickets : /\ Made(<<plan[i].repo>>) /\ Made(EpicNode(i)) /\ Made(NodeOf(i))
                         /\ plan[i].name \in DOMAIN uuidOf
  BY <1>1 DEF AllDueOrMade, TicketDue, EpicDue
<1> QED
  BY <1>1, <1>2 DEF Nodes, RepoNodes, EpicNodes

(***************************************************************************)
(* A made node is there unless it was cut off.                             *)
(***************************************************************************)
LEMMA StoredUnlessCut ==
  ASSUME Placed, NEW node, Made(node)
  PROVE  Stored(node) # {} <=> ~ Cut(node)
<1>1. PICK id \in DOMAIN origin : origin[id] = node
  BY DEF Made
<1> QED
  BY <1>1, CutIs DEF Placed, Stored

(***************************************************************************)
(* When no two tickets share an id, the wire of a ticket to a name is the  *)
(* one to the ticket of that name.                                         *)
(***************************************************************************)
LEMMA WiresBetween ==
  ASSUME Registered, OneNameEach, \A a \in Tickets : plan[a].name \in DOMAIN uuidOf,
         NEW i \in Tickets, NEW j \in Tickets, NEW kind \in {DependsOn, Blocks},
         NEW w \in WiresOf(uuidOf), w.edge.kind = kind,
         w.ticket = i \/ origin[w.edge.from] = NodeOf(i), origin[w.edge.to] = NodeOf(j)
  PROVE  IsWire(w, uuidOf, i, plan[j].name, kind)
<1>1. PICK a \in Tickets, n \in DOMAIN uuidOf, k \in {DependsOn, Blocks} :
        IsWire(w, uuidOf, a, n, k)
  BY WireForms
<1>2. /\ w.ticket = a /\ w.edge.from = uuidOf[plan[a].name] /\ w.edge.to = uuidOf[n]
      /\ w.edge.kind = k
  BY <1>1 DEF IsWire, Edge
<1>3. origin[uuidOf[plan[a].name]] = NodeOf(a)
  BY OwnUuid
<1>4. a = i
  BY <1>2, <1>3, NodeOfOnce
<1>5. PICK b \in Tickets : plan[b].name = n /\ origin[uuidOf[n]] = NodeOf(b)
  BY DEF Registered
<1>6. b = j
  BY <1>2, <1>5, NodeOfOnce
<1> QED
  BY <1>1, <1>2, <1>4, <1>5, <1>6

(***************************************************************************)
(* An undisturbed import leaves the plan in the store: every node but the  *)
(* refused ones and what hangs from them, and every reference but those.   *)
(***************************************************************************)
THEOREM PlanIsImported == Spec => []ImportedAsPlanned
<1>1. ImportInv => ImportedAsPlanned
  <2> SUFFICES ASSUME ImportInv, stage = "done", writes = 0
               PROVE  /\ \A node \in Nodes : Stored(node) # {} <=> ~ Cut(node)
                      /\ OneNameEach =>
                           \A r \in References :
                             Wired(r) <=> /\ Declared(r) /\ ~ Cut(r.from) /\ ~ Cut(r.to)
                                          /\ ~ LostWire(r)
    BY DEF ImportedAsPlanned
  <2>1. /\ \A node \in Nodes : Made(node)
        /\ \A i \in Tickets : plan[i].name \in DOMAIN uuidOf
        /\ wires = {} /\ lost.wires \subseteq WiresOf(uuidOf)
    BY DoneIsMade
  <2>2. Placed /\ EdgesOK /\ Registered /\ Wiring
    BY DEF ImportInv, PlanInv, Undisturbed, Wiring
  <2>3. \A node \in Nodes : Stored(node) # {} <=> ~ Cut(node)
    BY <2>1, <2>2, StoredUnlessCut
  <2>4. ASSUME OneNameEach, NEW r \in References
        PROVE  Wired(r) <=> Declared(r) /\ ~ Cut(r.from) /\ ~ Cut(r.to) /\ ~ LostWire(r)
    <3>1. PICK i \in Tickets, j \in Tickets, kind \in {DependsOn, Blocks} :
            r = [ticket |-> i, from |-> NodeOf(i), to |-> NodeOf(j), kind |-> kind]
      BY DEF References
    <3>a. PICK from, to : from = NodeOf(i) /\ to = NodeOf(j)
      OBVIOUS
    <3>2. r.ticket = i /\ r.from = from /\ r.to = to /\ r.kind = kind
      BY <3>1, <3>a
    <3>3. /\ \A x \in edges : \E w \in WiresOf(uuidOf) : w.edge = x
          /\ \A w \in WiresOf(uuidOf) :
               w.edge \in edges <=> EndsExist(facets, w.edge) /\ w \notin lost.wires
      BY <2>1, <2>2, <2>4 DEF EdgesOK
    <3>4. Declared(r) <=> plan[j].name \in NamedBy(i, kind)
      <4>1. \A b \in Tickets : NodeOf(b) = r.to => b = j
        BY <3>2, <3>a, NodeOfOnce
      <4> QED
        BY <3>2, <3>a, <4>1 DEF Declared, NamedBy
    <3>5. ASSUME NEW w \in WiresOf(uuidOf), w.edge.kind = kind, origin[w.edge.to] = to,
                 w.ticket = i \/ origin[w.edge.from] = from
          PROVE  IsWire(w, uuidOf, i, plan[j].name, kind)
      BY <2>1, <2>2, <2>4, <3>5, <3>a, WiresBetween
    <3>6. \A id \in Live : id \in DOMAIN origin /\ ~ Cut(origin[id])
      BY <2>2, CutIs DEF Placed
    <3>7. ASSUME Wired(r)
          PROVE  Declared(r) /\ ~ Cut(r.from) /\ ~ Cut(r.to) /\ ~ LostWire(r)
      <4>1. PICK x \in edges : x.kind = kind /\ origin[x.from] = from /\ origin[x.to] = to
        BY <3>2, <3>7 DEF Wired
      <4>2. PICK w \in WiresOf(uuidOf) : w.edge = x
        BY <3>3
      <4>3. IsWire(w, uuidOf, i, plan[j].name, kind)
        BY <3>5, <4>1, <4>2
      <4>4. Declared(r)
        BY <3>4, <4>3 DEF IsWire
      <4>5. EndsExist(facets, x) /\ w \notin lost.wires
        BY <3>3, <4>1, <4>2
      <4>6. ~ Cut(r.from) /\ ~ Cut(r.to)
        BY <3>2, <3>6, <4>1, <4>5 DEF EndsExist, Live
      <4>7. ASSUME LostWire(r) PROVE FALSE
        <5>1. PICK v \in lost.wires : v.ticket = i /\ v.edge.kind = kind /\ origin[v.edge.to] = to
          BY <3>2, <4>7 DEF LostWire
        <5>2. IsWire(v, uuidOf, i, plan[j].name, kind)
          BY <2>1, <3>5, <5>1
        <5> QED
          BY <4>3, <4>5, <5>1, <5>2 DEF IsWire
      <4> QED
        BY <4>4, <4>6, <4>7
    <3>8. ASSUME Declared(r), ~ Cut(r.from), ~ Cut(r.to), ~ LostWire(r)
          PROVE  Wired(r)
      <4>1. PICK w : w = [ticket |-> i,
                          edge |-> Edge(uuidOf[plan[i].name], uuidOf[plan[j].name], kind)]
        OBVIOUS
      <4>2. IsWire(w, uuidOf, i, plan[j].name, kind)
        BY <3>4, <3>8, <4>1 DEF IsWire
      <4>3. w \in WiresOf(uuidOf)
        BY <2>1, <4>2, WireForms
      <4>4. /\ w.ticket = i /\ w.edge.kind = kind /\ w.edge.from = uuidOf[plan[i].name]
            /\ w.edge.to = uuidOf[plan[j].name]
        BY <4>1 DEF Edge
      <4>5. /\ w.edge.from \in DOMAIN origin /\ origin[w.edge.from] = from
            /\ w.edge.to \in DOMAIN origin /\ origin[w.edge.to] = to
        BY <2>1, <2>2, <2>4, <3>a, <4>4, OwnUuid
      <4>6. w \notin lost.wires
        BY <3>2, <3>8, <4>4, <4>5 DEF LostWire
      <4>7. EndsExist(facets, w.edge)
        BY <2>2, <3>2, <3>8, <4>5, CutIs DEF EndsExist, Placed, Live
      <4>8. w.edge \in edges
        BY <3>3, <4>3, <4>6, <4>7
      <4> QED
        BY <3>2, <4>4, <4>5, <4>8 DEF Wired
    <3> QED
      BY <3>7, <3>8
  <2> QED
    BY <2>3, <2>4
<1> QED
  BY <1>1, ImportInvariance, PTL

(***************************************************************************)
(* The report of an undisturbed import counts what is in the store.        *)
(***************************************************************************)
THEOREM CountsAreHonest == Spec => []ReportIsHonest
<1>1. ImportInv => ReportIsHonest
  <2> SUFFICES ASSUME ImportInv, stage = "done", writes = 0
               PROVE  /\ report.repos = Cardinality(StoredNodes(RepoNodes))
                      /\ report.epics = Cardinality(StoredNodes(EpicNodes))
                      /\ report.tickets =
                           Cardinality(StoredNodes(Nodes \ (RepoNodes \cup EpicNodes)))
                      /\ OneNameEach => report.edges = Cardinality(edges)
    BY DEF ReportIsHonest
  <2> QED
    BY DEF ImportInv, Undisturbed, Counts, EdgesOK, Wiring, TicketNodes
<1> QED
  BY <1>1, ImportInvariance, PTL

(***************************************************************************)
(* A wire joins a facet of the declaring ticket to one of the name in it.  *)
(***************************************************************************)
LEMMA WireIsDeclared ==
  ASSUME Registered, \A a \in Tickets : plan[a].name \in DOMAIN uuidOf,
         NEW w \in WiresOf(uuidOf)
  PROVE  JoinsDeclared(w.edge)
<1>1. PICK i \in Tickets, n \in DOMAIN uuidOf, kind \in {DependsOn, Blocks} :
        IsWire(w, uuidOf, i, n, kind)
  BY WireForms
<1>2. /\ w.edge.from = uuidOf[plan[i].name] /\ w.edge.to = uuidOf[n] /\ w.edge.kind = kind
      /\ n \in NamedBy(i, kind)
  BY <1>1 DEF IsWire, Edge
<1>3. \A m \in DOMAIN uuidOf : m \in NamesAt(uuidOf[m])
  BY DEF Registered, NamesAt
<1>4. plan[i].name \in NamesAt(w.edge.from) /\ n \in NamesAt(w.edge.to)
  BY <1>2, <1>3
<1> QED
  BY <1>2, <1>4 DEF JoinsDeclared, NamedBy

LEMMA InsertCountsNoEdge ==
  ASSUME TypeOK, NEW parent, NEW node, NEW part \in {"repos", "epics", "tickets"},
         Insert(parent, node, part)
  PROVE  report'["edges"] = report["edges"]
BY DEF TypeOK, Insert, Counted

(***************************************************************************)
(* Whatever others do meanwhile and whichever tickets share an id, an edge *)
(* the import adds joins facets of tickets that declare it.                *)
(***************************************************************************)
THEOREM EdgesAreDeclared == Spec => OnlyDeclaredEdges
<1> DEFINE Declares == report'.edges > report.edges => \A e \in edges' \ edges : JoinsDeclared(e)
<1>1. ImportInv /\ [Next]_importVars => [Declares]_importVars
  <2> SUFFICES ASSUME ImportInv, Next PROVE Declares
    OBVIOUS
  <2>0. report["edges"] \in Nat
    BY DEF ImportInv, TypeOK
  <2>1. CASE \E r \in repos : CreateRepo(r)
    BY <2>0, <2>1, InsertCountsNoEdge DEF CreateRepo, ImportInv
  <2>2. CASE \E e \in epics : CreateEpic(e)
    BY <2>0, <2>2, InsertCountsNoEdge DEF CreateEpic, EnterEpic, ImportInv
  <2>3. CASE CreateTicket
    BY <2>0, <2>3, InsertCountsNoEdge DEF CreateTicket, ImportInv
  <2>4. CASE \E w \in wires : AddWire(w)
    <3> PICK w \in wires : AddWire(w)
      BY <2>4
    <3>1. /\ repos = {} /\ epics = {} /\ batch = {} /\ wires \subseteq WiresOf(uuidOf)
          /\ Registered /\ AllDueOrMade
      BY DEF AddWire, ImportInv, PlanInv, StageOK, WiresOK, Wiring
    <3>2. JoinsDeclared(w.edge)
      BY <3>1, AllRegistered, WireIsDeclared
    <3>3. CASE Added(w)
      BY <3>2, <3>3 DEF Added, AddEdge
    <3>4. CASE Refused(w)
      BY <2>0, <3>4 DEF Refused
    <3> QED
      BY <3>3, <3>4 DEF AddWire
  <2>5. CASE Abandon \/ WriteMeanwhile
    BY <2>0, <2>5 DEF Abandon, WriteMeanwhile, progress
  <2> QED
    BY <2>1, <2>2, <2>3, <2>4, <2>5 DEF Next, Import
<1> QED
  BY <1>1, ImportInvariance, PTL DEF Spec, OnlyDeclaredEdges
=============================================================================
