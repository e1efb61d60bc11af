---------------------------- MODULE ImportPlans ----------------------------
(***************************************************************************)
(* import_plans of FacetHub: scan_plans and import_into_trak of            *)
(* src/import.rs.  The plan files of a workspace become facets, a tree of  *)
(* repositories, epics and tickets, and the references between tickets     *)
(* become edges.  The import writes to the store itself, below the gate,   *)
(* one statement after the other; it drops every statement that fails and  *)
(* goes on.  Other requests write meanwhile, as GatedStore lets them, and  *)
(* the import stops for good when its caller goes away.                    *)
(*                                                                         *)
(* One action is one statement.  A plan file keeps what its place in the   *)
(* tree and its edges depend on; bodies, titles, tags and states are left  *)
(* out, so all the rows of an import look alike.  A list of references is  *)
(* a set.                                                                  *)
(***************************************************************************)
EXTENDS GatedStore, Sequences

CONSTANTS
  Repos, Epics, Names,   \* repository directories, epics, ticket ids
  DependsOn, Blocks,     \* the kinds of edges an import makes
  Workspaces,            \* what may be found on disk: sequences of plan files
  Plain,                 \* the contents of an imported row
  MaxFailures,           \* bound: how many statements the database refuses
  MaxWrites              \* bound: how many writes of others happen meanwhile

(***************************************************************************)
(* A file lies in the directory dir of its epic, or straight in plans/ and *)
(* then belongs to the epic its name begins with.  overview: declared an   *)
(* epic, numbered 1 or titled "epic overview".  readable: not an artifact, *)
(* and it parses.                                                          *)
(***************************************************************************)
PlanFile ==
  [repo : Repos, dir : Epics \cup {None}, prefix : Epics, name : Names,
   overview : BOOLEAN, readable : BOOLEAN,
   blockedBy : SUBSET Names, unlocks : SUBSET Names]

ASSUME WorkspaceAssumption == Workspaces \subseteq Seq(PlanFile)
ASSUME ImportAssumption ==
  /\ {DependsOn, Blocks} \subseteq Kinds /\ DependsOn # Blocks
  /\ Plain \in Contents
  /\ None \notin Epics
  /\ MaxFailures \in Nat /\ MaxWrites \in Nat

VARIABLES
  plan,      \* the files found, in the order of the scan
  tenant,    \* the caller's, or None
  stage,     \* "repo", "epic", "ticket" or "edge": what comes next; "done", "gone"
  repos, epics, batch, \* what is left: repositories, epics of this one, tickets of this one
  at,        \* the repository and the epic being filled
  uuidOf,    \* id_to_uuid
  wires,     \* edges left to add, each with the ticket that declares it
  report,    \* ImportReport
  origin,    \* history: the node of the plan each uuid was minted for
  lost,      \* history: the nodes and wires whose statement the database refused
  writes     \* how many writes others have made

progress == <<stage, repos, epics, batch, at, uuidOf, wires, report, origin, lost>>
importVars == <<tables, plan, tenant, progress, writes>>

-----------------------------------------------------------------------------
(***************************************************************************)
(* The plan.  A node is <<repo>>, <<repo, epic>> or <<repo, epic, ticket>>.*)
(***************************************************************************)
Readable(file) == file.readable

EpicOf(file) == IF file.dir = None THEN file.prefix ELSE file.dir

Tickets == {i \in DOMAIN plan : Readable(plan[i])}

EpicNode(i) == <<plan[i].repo, EpicOf(plan[i])>>

EpicsOf(r) == {EpicOf(plan[i]) : i \in {j \in Tickets : plan[j].repo = r}}

TicketsOf(r, e) == {i \in Tickets : EpicNode(i) = <<r, e>>}

FirstOf(S) == CHOOSE i \in S : \A j \in S : i <= j

(***************************************************************************)
(* The first ticket of an epic that reads like an overview is the epic; 0  *)
(* when there is none.                                                     *)
(***************************************************************************)
OverviewOf(r, e) ==
  LET all == {i \in TicketsOf(r, e) : plan[i].overview}
  IN  IF all = {} THEN 0 ELSE FirstOf(all)

Init ==
  /\ StoreInit
  /\ plan \in Workspaces
  /\ tenant \in Callers
  /\ repos = {plan[i].repo : i \in Tickets} /\ epics = {} /\ batch = {}
  /\ stage = IF repos = {} THEN "done" ELSE "repo"
  /\ at = [repo |-> None, repoId |-> None, epic |-> None, epicId |-> None]
  /\ uuidOf = [n \in {} |-> None]
  /\ wires = {}
  /\ report = [repos |-> 0, epics |-> 0, tickets |-> 0, edges |-> 0]
  /\ origin = [i \in {} |-> None]
  /\ lost = [nodes |-> {}, wires |-> {}]
  /\ writes = 0

-----------------------------------------------------------------------------
(***************************************************************************)
(* create_facet with a new uuid, which one is of no consequence.  The      *)
(* statement fails when the parent is gone, or for the database's reasons. *)
(***************************************************************************)
Fresh == CHOOSE i \in Ids : i \notin minted

Imported(parent) == [parent |-> parent, tenant |-> tenant, cols |-> Plain]

Failures == Cardinality(lost.nodes) + Cardinality(lost.wires)

MayFail(part, what, impossible) ==
  \/ impossible /\ UNCHANGED lost
  \/ /\ ~impossible /\ Failures < MaxFailures
     /\ lost' = [lost EXCEPT ![part] = @ \cup {what}]

Counted(part) == report' = [report EXCEPT ![part] = @ + 1]

InsertCounted(parent, node, part) ==
  /\ Ids \ minted # {}
  /\ origin' = [i \in DOMAIN origin \cup {Fresh} |-> IF i = Fresh THEN node ELSE origin[i]]
  /\ Counted(part)
  /\ \/ CreateFacet(Fresh, Imported(parent)) /\ UNCHANGED lost
     \/ /\ MayFail("nodes", node, ~ParentExists(facets, parent))
        /\ minted' = minted \cup {Fresh}
        /\ UNCHANGED <<facets, edges>>

Insert(parent, node, part) ==
  /\ Ids \ minted # {}
  /\ origin' = [i \in DOMAIN origin \cup {Fresh} |-> IF i = Fresh THEN node ELSE origin[i]]
  /\ \/ CreateFacet(Fresh, Imported(parent)) /\ Counted(part) /\ UNCHANGED lost
     \/ /\ MayFail("nodes", node, ~ParentExists(facets, parent))
        /\ minted' = minted \cup {Fresh}
        /\ UNCHANGED <<facets, edges, report>>

(***************************************************************************)
(* The repositories and their epics come out of hash maps in any order,    *)
(* the tickets of an epic in the order of the scan.                        *)
(***************************************************************************)
CreateRepo(r) ==
  /\ stage = "repo" /\ r \in repos
  /\ Insert(None, <<r>>, "repos")
  /\ at' = [repo |-> r, repoId |-> Fresh, epic |-> None, epicId |-> None]
  /\ repos' = repos \ {r} /\ epics' = EpicsOf(r)
  /\ stage' = "epic"
  /\ UNCHANGED <<batch, uuidOf, wires>>

EnterEpic(e, id) ==
  /\ stage = "epic" /\ e \in epics
  /\ Insert(at.repoId, <<at.repo, e>>, "epics")
  /\ at' = [at EXCEPT !.epic = e, !.epicId = id]
  /\ epics' = epics \ {e} /\ batch' = TicketsOf(at.repo, e)
  /\ stage' = "ticket"
  /\ UNCHANGED <<repos, uuidOf, wires>>

CreateEpicOrNone(e) ==
  EnterEpic(e, IF ParentExists(facets, at.repoId) THEN Fresh ELSE None)

CreateEpic(e) == EnterEpic(e, Fresh)

(***************************************************************************)
(* The edges to add, once every ticket has its uuid: blocked_by becomes    *)
(* depends_on, unlocks becomes blocks, both from the declaring ticket.     *)
(***************************************************************************)
Edge(from, to, kind) == [from |-> from, to |-> to, kind |-> kind]

Wire(i, names, kind, known) ==
  {[ticket |-> i, edge |-> Edge(known[plan[i].name], known[n], kind)] :
     n \in names \cap DOMAIN known}

WiresUnlockingBack(known) ==
  UNION {Wire(i, plan[i].blockedBy, DependsOn, known)
           \cup Wire(i, plan[i].unlocks, DependsOn, known) : i \in Tickets}

WiresOf(known) ==
  UNION {Wire(i, plan[i].blockedBy, DependsOn, known)
           \cup Wire(i, plan[i].unlocks, Blocks, known) : i \in Tickets}

Register(name, id) ==
  uuidOf' = [n \in DOMAIN uuidOf \cup {name} |-> IF n = name THEN id ELSE uuidOf[n]]

(***************************************************************************)
(* A ticket that is its epic's overview gets no facet of its own.  A later *)
(* ticket of the same id takes its place in id_to_uuid.                    *)
(***************************************************************************)
CreateTicket ==
  /\ stage = "ticket"
  /\ LET i == FirstOf(batch)
     IN  \/ /\ i = OverviewOf(at.repo, at.epic)
            /\ Register(plan[i].name, at.epicId)
            /\ UNCHANGED <<tables, report, origin, lost>>
         \/ /\ i # OverviewOf(at.repo, at.epic)
            /\ Insert(at.epicId, <<at.repo, at.epic, i>>, "tickets")
            /\ Register(plan[i].name, Fresh)
  /\ batch' = batch \ {FirstOf(batch)}
  /\ LET last == batch' = {} /\ epics = {} /\ repos = {}
     IN  /\ wires' = IF last THEN WiresOf(uuidOf') ELSE {}
         /\ stage' = IF last THEN IF wires' = {} THEN "done" ELSE "edge"
                     ELSE IF batch' # {} THEN "ticket"
                     ELSE IF epics # {} THEN "epic"
                     ELSE "repo"
  /\ UNCHANGED <<repos, epics, at>>

(***************************************************************************)
(* add_edge, ticket by ticket, what it depends on before what it blocks.   *)
(***************************************************************************)
IsNext(w) ==
  \A v \in wires : \/ w.ticket < v.ticket
                   \/ w.ticket = v.ticket /\ (w.edge.kind = DependsOn \/ v.edge.kind = Blocks)

Added(w) == AddEdge(w.edge) /\ Counted("edges") /\ UNCHANGED lost

Refused(w) ==
  /\ MayFail("wires", w, ~EndsExist(facets, w.edge))
  /\ UNCHANGED <<tables, report>>

AddWire(w) ==
  /\ stage = "edge" /\ w \in wires /\ IsNext(w)
  /\ Added(w) \/ Refused(w)
  /\ wires' = wires \ {w}
  /\ stage' = IF wires' = {} THEN "done" ELSE "edge"
  /\ UNCHANGED <<repos, epics, batch, at, uuidOf, origin>>

Import ==
  /\ \/ \E r \in repos : CreateRepo(r)
     \/ \E e \in epics : CreateEpic(e)
     \/ CreateTicket
     \/ \E w \in wires : AddWire(w)
  /\ UNCHANGED <<plan, tenant, writes>>

(***************************************************************************)
(* The handler is a stream: it is dropped with its caller's connection.    *)
(***************************************************************************)
Abandon ==
  /\ stage \notin {"done", "gone"}
  /\ stage' = "gone"
  /\ UNCHANGED <<tables, plan, tenant, repos, epics, batch, at, uuidOf, wires,
                 report, origin, lost, writes>>

WriteMeanwhile ==
  /\ writes < MaxWrites
  /\ stage \notin {"done", "gone"}
  /\ GatedNext
  /\ writes' = writes + 1
  /\ UNCHANGED <<plan, tenant, progress>>

Next == Import \/ Abandon \/ WriteMeanwhile

Spec == Init /\ [][Next]_importVars

-----------------------------------------------------------------------------
RepoNodes == {<<plan[i].repo>> : i \in Tickets}

EpicNodes == {EpicNode(i) : i \in Tickets}

NodeOf(i) ==
  IF i = OverviewOf(plan[i].repo, EpicOf(plan[i])) THEN EpicNode(i)
  ELSE <<plan[i].repo, EpicOf(plan[i]), i>>

Nodes == RepoNodes \cup EpicNodes \cup {NodeOf(i) : i \in Tickets}

(***************************************************************************)
(* Every uuid the import hands on is one it minted, and counters, tables   *)
(* and history have their types.                                           *)
(***************************************************************************)
TypeOK ==
  /\ TablesOK
  /\ plan \in Seq(PlanFile) /\ tenant \in Callers
  /\ stage \in {"repo", "epic", "ticket", "edge", "done", "gone"}
  /\ repos \subseteq Repos /\ epics \subseteq Epics /\ batch \subseteq Tickets
  /\ at \in [repo : Repos \cup {None}, repoId : Parents,
             epic : Epics \cup {None}, epicId : Parents]
  /\ DOMAIN uuidOf \subseteq Names
  /\ \A n \in DOMAIN uuidOf : uuidOf[n] \in DOMAIN origin
  /\ DOMAIN origin \subseteq minted /\ \A i \in DOMAIN origin : origin[i] \in Nodes
  /\ wires \subseteq [ticket : Tickets, edge : Edges]
  /\ report \in [{"repos", "epics", "tickets", "edges"} -> Nat]
  /\ lost \in [nodes : SUBSET Nodes, wires : SUBSET [ticket : Tickets, edge : Edges]]
  /\ writes \in 0 .. MaxWrites

Stored(node) == {i \in Live \cap DOMAIN origin : origin[i] = node}

(***************************************************************************)
(* Whatever statements failed and wherever the import was broken off, no   *)
(* imported facet stands outside its place: a ticket is below its epic,    *)
(* an epic below its repository, and nothing is there twice.               *)
(***************************************************************************)
NoStrays ==
  writes = 0 =>
    \A i \in Live :
      /\ Stored(origin[i]) = {i}
      /\ IF Len(origin[i]) = 1 THEN facets[i].parent = None
         ELSE facets[i].parent \in Stored(SubSeq(origin[i], 1, Len(origin[i]) - 1))

(***************************************************************************)
(* An import that nobody disturbs leaves exactly the plan in the store,    *)
(* less what the database refused and all that hangs from it.  The         *)
(* references are compared when no two tickets share an id.                *)
(***************************************************************************)
OneNameEach == \A i, j \in Tickets : plan[i].name = plan[j].name => i = j

Cut(node) == \E n \in 1 .. Len(node) : SubSeq(node, 1, n) \in lost.nodes

References ==
  {[ticket |-> i, from |-> NodeOf(i), to |-> NodeOf(j), kind |-> kind] :
     i \in Tickets, j \in Tickets, kind \in {DependsOn, Blocks}}

Declared(r) ==
  LET named == IF r.kind = DependsOn THEN plan[r.ticket].blockedBy ELSE plan[r.ticket].unlocks
  IN  \E j \in Tickets : NodeOf(j) = r.to /\ plan[j].name \in named

Wired(r) ==
  \E e \in edges : e.kind = r.kind /\ origin[e.from] = r.from /\ origin[e.to] = r.to

LostWire(r) ==
  \E w \in lost.wires :
    w.ticket = r.ticket /\ w.edge.kind = r.kind /\ origin[w.edge.to] = r.to

ImportedAsPlanned ==
  stage = "done" /\ writes = 0 =>
    /\ \A node \in Nodes : Stored(node) # {} <=> ~Cut(node)
    /\ OneNameEach =>
         \A r \in References :
           Wired(r) <=> Declared(r) /\ ~Cut(r.from) /\ ~Cut(r.to) /\ ~LostWire(r)

(***************************************************************************)
(* The counts reported are those of the rows that are there, also after    *)
(* failures; edges are counted one by one when no two tickets share an id  *)
(* and, lists of references being sets here, none names an id twice.       *)
(***************************************************************************)
StoredNodes(S) == {node \in S : Stored(node) # {}}

ReportIsHonest ==
  stage = "done" /\ writes = 0 =>
    /\ report.repos = Cardinality(StoredNodes(RepoNodes))
    /\ report.epics = Cardinality(StoredNodes(EpicNodes))
    /\ report.tickets = Cardinality(StoredNodes(Nodes \ (RepoNodes \cup EpicNodes)))
    /\ OneNameEach => report.edges = Cardinality(edges)

(***************************************************************************)
(* An edge the import adds joins facets made for two tickets of which the  *)
(* first names the second, whatever others do to the rows meanwhile and    *)
(* also when several tickets share an id: a uuid registered for a row that *)
(* was never stored, or is gone, is not taken up by another row.           *)
(***************************************************************************)
NamesAt(id) == {plan[i].name : i \in {j \in Tickets : NodeOf(j) = origin[id]}}

JoinsDeclared(e) ==
  \E i \in Tickets :
    /\ plan[i].name \in NamesAt(e.from)
    /\ NamesAt(e.to) \cap (IF e.kind = DependsOn THEN plan[i].blockedBy ELSE plan[i].unlocks) # {}

OnlyDeclaredEdges ==
  [][report'.edges > report.edges => \A e \in edges' \ edges : JoinsDeclared(e)]_importVars
=============================================================================
