---------------------------- MODULE Discuss_proofs ----------------------------
(***************************************************************************)
(* Discuss implements Comments, and what was acknowledged stands, for      *)
(* every number of tasks, comments and authors.                            *)
(*                                                                         *)
(* The author is checked in one statement and the comment changed in a     *)
(* later one.  The check holds until then because an id, once posted, is   *)
(* never posted again, and no statement changes an author: a comment that  *)
(* was checked is gone for good or still its author's.                     *)
(***************************************************************************)
EXTENDS Discuss, TLAPS, FiniteSetTheorems

(***************************************************************************)
(* What a task at each place is doing, and with what.                      *)
(***************************************************************************)
PlaceOK(p) ==
  /\ pc[p] # "idle" => req[p] \in Request
  /\ pc[p] = "insert" => req[p].op = "comment" /\ held[p] # None
  /\ pc[p] \in {"read", "write"} => req[p].op \in {"update", "delete"}
  /\ pc[p] = "refetch" => req[p].op = "update"
  /\ reply[p] # None => pc[p] = "answered"
  /\ reply[p] = "updated" => req[p].op = "update"
  /\ reply[p] = "deleted" => req[p].op = "delete"

(***************************************************************************)
(* Ids handed out are all different, and a pending one is not posted yet.  *)
(***************************************************************************)
IdsDiffer ==
  /\ \A p \in Tasks : pc[p] = "insert" => held[p].id \notin posted
  /\ \A p, q \in Tasks :
       p # q /\ held[p] # None /\ held[q] # None => held[p].id # held[q].id

(***************************************************************************)
(* The check of the author stays good.                                     *)
(***************************************************************************)
Checked(p) ==
  pc[p] \in {"write", "refetch"} \/ reply[p] \in {"updated", "deleted"} =>
    /\ req[p].id \in posted
    /\ req[p].id \in Live => comments[req[p].id].author = req[p].caller

(***************************************************************************)
(* A deleted comment was posted once, so it will never be again; an update *)
(* leaves its mark from the write on, before it is acknowledged.           *)
(***************************************************************************)
DeleteCounts(p) ==
  reply[p] = "deleted" =>
    /\ req[p].id \in posted \ Live
    /\ \A q \in Tasks \ {p} : reply[q] = "deleted" => req[q].id # req[p].id

BodyIsAsked(id) ==
  \E q \in UpdatesOf(id) :
    req[q].caller = comments[id].author /\ req[q].body = comments[id].body

EditStays(p) ==
  (pc[p] = "refetch" \/ reply[p] = "updated") /\ req[p].id \in Live =>
    comments[req[p].id].edited /\ BodyIsAsked(req[p].id)

TasksInv ==
  \A p \in Tasks : PlaceOK(p) /\ Checked(p) /\ DeleteCounts(p) /\ EditStays(p)

DiscussInv == TypeOK /\ IdsDiffer /\ TasksInv

(***************************************************************************)
(* What the statements do to the table.                                    *)
(***************************************************************************)
LEMMA PostKeepsTable ==
  ASSUME NEW table_, Abstract!IsCommentTable(table_), NEW id \in CommentIds,
         NEW comment \in Abstract!Comment
  PROVE  Abstract!IsCommentTable(Abstract!WithComment(table_, id, comment))
BY DEF Abstract!IsCommentTable, Abstract!WithComment

LEMMA EditKeepsTable ==
  ASSUME NEW table_, Abstract!IsCommentTable(table_), NEW id \in DOMAIN table_,
         NEW body \in Bodies
  PROVE  /\ Abstract!IsCommentTable(Abstract!WithBody(table_, id, body))
         /\ DOMAIN Abstract!WithBody(table_, id, body) = DOMAIN table_
         /\ \A i \in DOMAIN table_ :
              /\ Abstract!WithBody(table_, id, body)[i].author = table_[i].author
              /\ Abstract!WithBody(table_, id, body)[i].thread = table_[i].thread
              /\ Abstract!WithBody(table_, id, body)[i].createdAt = table_[i].createdAt
         /\ \A i \in DOMAIN table_ \ {id} : Abstract!WithBody(table_, id, body)[i] = table_[i]
         /\ Abstract!WithBody(table_, id, body)[id].body = body
         /\ Abstract!WithBody(table_, id, body)[id].edited
<1>1. DOMAIN table_ \subseteq CommentIds /\ table_ \in [DOMAIN table_ -> Abstract!Comment]
  BY DEF Abstract!IsCommentTable
<1>2. Abstract!WithBody(table_, id, body) \in [DOMAIN table_ -> Abstract!Comment]
  BY <1>1 DEF Abstract!WithBody, Abstract!Comment
<1>3. \A i \in DOMAIN table_ \ {id} : Abstract!WithBody(table_, id, body)[i] = table_[i]
  BY <1>1 DEF Abstract!WithBody, Abstract!Comment
<1>4. /\ Abstract!WithBody(table_, id, body)[id].author = table_[id].author
      /\ Abstract!WithBody(table_, id, body)[id].thread = table_[id].thread
      /\ Abstract!WithBody(table_, id, body)[id].createdAt = table_[id].createdAt
      /\ Abstract!WithBody(table_, id, body)[id].body = body
      /\ Abstract!WithBody(table_, id, body)[id].edited
  BY <1>1 DEF Abstract!WithBody, Abstract!Comment
<1> QED
  BY <1>1, <1>2, <1>3, <1>4 DEF Abstract!IsCommentTable

LEMMA RemoveKeepsTable ==
  ASSUME NEW table_, Abstract!IsCommentTable(table_), NEW id
  PROVE  Abstract!IsCommentTable(Abstract!WithoutComment(table_, id))
BY DEF Abstract!IsCommentTable, Abstract!WithoutComment

(***************************************************************************)
(* The parts of a request.                                                 *)
(***************************************************************************)
LEMMA RequestParts ==
  ASSUME NEW r \in Request
  PROVE  /\ r.op \in {"comment", "update", "delete"}
         /\ r.caller \in Authors
         /\ r.op = "comment" => r.thread \in Threads /\ r.body \in Bodies
         /\ r.op = "update" => r.id \in CommentIds /\ r.body \in Bodies
         /\ r.op = "delete" => r.id \in CommentIds
BY DEF Request

(***************************************************************************)
(* Who asked for the present body of a comment asked for it still, as long *)
(* as nobody writes to it.                                                 *)
(***************************************************************************)
LEMMA AskedStays ==
  ASSUME NEW id, BodyIsAsked(id),
         comments'[id].author = comments[id].author, comments'[id].body = comments[id].body,
         \A q \in UpdatesOf(id) : q \in UpdatesOf(id)' /\ req'[q] = req[q]
  PROVE  BodyIsAsked(id)'
BY DEF BodyIsAsked

(***************************************************************************)
(* A step of one task leaves the others where they are.                    *)
(***************************************************************************)
LEMMA OthersStay ==
  ASSUME NEW q \in Tasks, PlaceOK(q),
         pc'[q] = pc[q], req'[q] = req[q], held'[q] = held[q], reply'[q] = reply[q]
  PROVE  PlaceOK(q)'
BY DEF PlaceOK

-----------------------------------------------------------------------------
LEMMA DiscussInitInv == Init => DiscussInv
<1> SUFFICES ASSUME Init PROVE DiscussInv
  OBVIOUS
<1> USE DiscussAssumption
<1>1. PICK start \in Starts : comments = start.comments /\ clock = start.clock
  BY DEF Init
<1>2. TypeOK
  BY <1>1 DEF Init, TypeOK, Idle, ReaderType, Live, Abstract!IsCommentTable
<1>3. \A p \in Tasks : pc[p] = "idle" /\ req[p] = None /\ held[p] = None /\ reply[p] = None
  BY DEF Init
<1>4. IdsDiffer
  BY <1>3 DEF IdsDiffer
<1>5. TasksInv
  BY <1>3 DEF TasksInv, PlaceOK, Checked, DeleteCounts, EditStays, Replies
<1> QED
  BY <1>2, <1>4, <1>5 DEF DiscussInv

(***************************************************************************)
(* A request begins: nothing is stored, an id may be handed out.           *)
(***************************************************************************)
LEMMA BeginInv ==
  ASSUME DiscussInv, NEW p \in Tasks, NEW r \in Requests, Begin(p, r)
  PROVE  DiscussInv'
<1> USE DiscussAssumption
<1>0. TypeOK /\ IdsDiffer /\ TasksInv /\ r \in Request
  BY DEF DiscussInv
<1>1. r.op = "comment" => Fresh \in CommentIds \ Taken
  BY DEF Begin, Fresh
<1>2. /\ pc[p] = "idle" /\ req' = [req EXCEPT ![p] = r] /\ UNCHANGED <<comments, posted, actor, reply, reader>>
      /\ \/ r.op = "comment" /\ pc' = [pc EXCEPT ![p] = "insert"]
         \/ r.op # "comment" /\ pc' = [pc EXCEPT ![p] = "read"]
  BY DEF Begin, table, GoTo
<1>3. \/ /\ r.op = "comment" /\ clock \in Times /\ clock' = clock + 1
         /\ held' = [held EXCEPT ![p] = [id |-> Fresh, createdAt |-> clock]]
      \/ r.op # "comment" /\ UNCHANGED <<held, clock>>
  BY DEF Begin
<1>4. r.op = "comment" => [id |-> Fresh, createdAt |-> clock] \in Pending
  BY <1>1, <1>3 DEF Pending
<1>5. TypeOK'
  BY <1>0, <1>2, <1>3, <1>4, RequestParts DEF TypeOK, Live
<1>6. IdsDiffer'
  <2>1. \A q \in Tasks \ {p} : held[q] # None => held[q].id \in Taken
    BY DEF Taken
  <2>2. posted \subseteq Taken
    BY DEF Taken
  <2>3. r.op = "comment" => held'[p].id = Fresh
    BY <1>0, <1>3 DEF TypeOK
  <2> QED
    BY <1>0, <1>1, <1>2, <1>3, <2>1, <2>2, <2>3 DEF IdsDiffer, TypeOK
<1>7. ASSUME NEW q \in Tasks
      PROVE  PlaceOK(q)' /\ Checked(q)' /\ DeleteCounts(q)' /\ EditStays(q)'
  <2>1. PlaceOK(q) /\ Checked(q) /\ DeleteCounts(q) /\ EditStays(q) /\ PlaceOK(p)
    BY <1>0 DEF TasksInv
  <2>3. reply[p] = None
    BY <1>2, <2>1 DEF PlaceOK
  <2>2. PlaceOK(q)'
    <3>1. CASE q # p
      BY <1>0, <1>2, <1>3, <2>1, <3>1, OthersStay DEF TypeOK
    <3>2. CASE q = p
      <4>1. req'[p] = r /\ reply'[p] = None
        BY <1>0, <1>2, <2>3 DEF TypeOK
      <4>2. \/ r.op = "comment" /\ pc'[p] = "insert" /\ held'[p] # None
            \/ r.op \in {"update", "delete"} /\ pc'[p] = "read"
        BY <1>0, <1>2, <1>3, <1>4, RequestParts DEF TypeOK
      <4> QED
        BY <1>0, <3>2, <4>1, <4>2 DEF PlaceOK, Replies
    <3> QED
      BY <3>1, <3>2
  <2>4. Checked(q)'
    BY <1>0, <1>2, <2>1, <2>3 DEF Checked, TypeOK, Live, Replies
  <2>5. DeleteCounts(q)'
    BY <1>0, <1>2, <2>1, <2>3 DEF DeleteCounts, TypeOK, Live, Replies
  <2>6. ASSUME NEW id, BodyIsAsked(id)
        PROVE  BodyIsAsked(id)'
    BY <1>0, <1>2, <2>6, AskedStays DEF UpdatesOf, TypeOK
  <2>7. EditStays(q)'
    BY <1>0, <1>2, <2>1, <2>3, <2>6 DEF EditStays, TypeOK, Live, Replies
  <2> QED
    BY <2>2, <2>4, <2>5, <2>7
<1> QED
  BY <1>5, <1>6, <1>7 DEF DiscussInv, TasksInv

(***************************************************************************)
(* A statement that leaves the tables alone keeps the invariant if it does *)
(* for its own task and tells nobody of a delete.                          *)
(***************************************************************************)
LEMMA QuietInv ==
  ASSUME DiscussInv, NEW p \in Tasks,
         UNCHANGED <<comments, posted, actor, clock, req, held, reader>>,
         NEW place \in {"write", "answered"}, pc' = [pc EXCEPT ![p] = place],
         NEW answer \in Replies \cup {None}, reply' = [reply EXCEPT ![p] = answer],
         answer # "deleted", pc[p] # "idle", pc[p] = "read" \/ place = "answered",
         PlaceOK(p)', Checked(p)', EditStays(p), pc[p] = "refetch" \/ answer # "updated"
  PROVE  DiscussInv'
<1> USE DiscussAssumption
<1>0. TypeOK /\ IdsDiffer /\ TasksInv
  BY DEF DiscussInv
<1>1. TypeOK'
  BY <1>0 DEF TypeOK, Live
<1>2. IdsDiffer'
  BY <1>0 DEF IdsDiffer, TypeOK
<1>3. ASSUME NEW q \in Tasks
      PROVE  PlaceOK(q)' /\ Checked(q)' /\ DeleteCounts(q)' /\ EditStays(q)'
  <2>1. PlaceOK(q) /\ Checked(q) /\ DeleteCounts(q) /\ EditStays(q) /\ PlaceOK(p)
    BY <1>0 DEF TasksInv
  <2>2. PlaceOK(q)' /\ Checked(q)'
    <3>1. q # p => /\ pc'[q] = pc[q] /\ req'[q] = req[q] /\ held'[q] = held[q]
                   /\ reply'[q] = reply[q]
      BY <1>0 DEF TypeOK
    <3> QED
      BY <2>1, <3>1, OthersStay DEF Checked, Live
  <2>3. \A t \in Tasks : reply'[t] = "deleted" => reply[t] = "deleted"
    BY <1>0 DEF TypeOK
  <2>4. DeleteCounts(q)'
    BY <2>1, <2>3 DEF DeleteCounts, Live
  <2>5. ASSUME NEW id, BodyIsAsked(id)
        PROVE  BodyIsAsked(id)'
    <3>1. \A t \in UpdatesOf(id) : t \in UpdatesOf(id)'
      BY <1>0 DEF UpdatesOf, TypeOK
    <3> QED
      BY <2>5, <3>1, AskedStays
  <2>6. pc'[q] = "refetch" \/ reply'[q] = "updated" => pc[q] = "refetch" \/ reply[q] = "updated"
    BY <1>0 DEF TypeOK
  <2>7. EditStays(q)'
    BY <2>1, <2>5, <2>6 DEF EditStays, Live
  <2> QED
    BY <2>2, <2>4, <2>7
<1> QED
  BY <1>1, <1>2, <1>3 DEF DiscussInv, TasksInv

LEMMA ReadInv ==
  ASSUME DiscussInv, NEW p \in Tasks, Read(p)
  PROVE  DiscussInv'
<1>0. TypeOK /\ PlaceOK(p) /\ Checked(p) /\ EditStays(p)
  BY DEF DiscussInv, TasksInv
<1>1. /\ pc[p] = "read" /\ UNCHANGED <<comments, posted, actor, clock, req, held, reader>>
      /\ reply[p] = None
  BY <1>0 DEF Read, table, PlaceOK
<1>2. CASE pc' = [pc EXCEPT ![p] = "answered"]
  <2>1. PICK answer \in {"not_found", "forbidden"} : reply' = [reply EXCEPT ![p] = answer]
    BY <1>0, <1>2 DEF Read, Answer, GoTo, TypeOK
  <2>2. pc'[p] = "answered" /\ reply'[p] = answer
    BY <1>0, <1>2, <2>1 DEF TypeOK
  <2>3. PlaceOK(p)' /\ Checked(p)'
    BY <1>0, <1>1, <2>2 DEF PlaceOK, Checked
  <2> QED
    BY <1>0, <1>1, <1>2, <2>1, <2>3, QuietInv DEF Replies
<1>3. CASE /\ req[p].id \in Live /\ comments[req[p].id].author = req[p].caller
           /\ GoTo(p, "write") /\ UNCHANGED reply
  <2>1. pc' = [pc EXCEPT ![p] = "write"] /\ reply' = [reply EXCEPT ![p] = None] /\ pc'[p] = "write"
    BY <1>0, <1>1, <1>3 DEF GoTo, TypeOK
  <2>2. PlaceOK(p)'
    BY <1>0, <1>1, <1>3, <2>1 DEF PlaceOK
  <2>3. Checked(p)'
    BY <1>0, <1>1, <1>3, <2>1 DEF Checked, TypeOK, Live
  <2> QED
    BY <1>0, <1>1, <2>1, <2>2, <2>3, QuietInv, DiscussAssumption DEF Replies
<1> QED
  BY <1>2, <1>3 DEF Read, Answer

LEMMA RefetchInv ==
  ASSUME DiscussInv, NEW p \in Tasks, Refetch(p)
  PROVE  DiscussInv'
<1>0. TypeOK /\ PlaceOK(p) /\ Checked(p) /\ EditStays(p)
  BY DEF DiscussInv, TasksInv
<1>1. PICK answer \in {"updated", "not_found"} :
        /\ pc' = [pc EXCEPT ![p] = "answered"] /\ reply' = [reply EXCEPT ![p] = answer]
        /\ pc[p] = "refetch" /\ UNCHANGED <<comments, posted, actor, clock, req, held, reader>>
  BY DEF Refetch, Answer, table
<1>2. pc'[p] = "answered" /\ reply'[p] = answer
  BY <1>0, <1>1 DEF TypeOK
<1>3. PlaceOK(p)' /\ Checked(p)'
  BY <1>0, <1>1, <1>2 DEF PlaceOK, Checked, Live
<1> QED
  BY <1>0, <1>1, <1>3, QuietInv DEF Replies

LEMMA FailInv ==
  ASSUME DiscussInv, NEW p \in Tasks, Fail(p)
  PROVE  DiscussInv'
<1>0. TypeOK /\ PlaceOK(p) /\ Checked(p) /\ EditStays(p)
  BY DEF DiscussInv, TasksInv
<1>1. /\ pc' = [pc EXCEPT ![p] = "answered"] /\ reply' = [reply EXCEPT ![p] = "failed"]
      /\ pc[p] # "idle" /\ UNCHANGED <<comments, posted, actor, clock, req, held, reader>>
  BY DEF Fail, Answer, table
<1>2. pc'[p] = "answered" /\ reply'[p] = "failed"
  BY <1>0, <1>1 DEF TypeOK
<1>3. PlaceOK(p)' /\ Checked(p)'
  BY <1>0, <1>1, <1>2 DEF PlaceOK, Checked
<1> QED
  BY <1>0, <1>1, <1>3, QuietInv DEF Replies

(***************************************************************************)
(* A comment is stored: no id that anybody holds or has checked is its id. *)
(***************************************************************************)
LEMMA InsertInv ==
  ASSUME DiscussInv, NEW p \in Tasks, Insert(p)
  PROVE  DiscussInv'
<1> USE DiscussAssumption
<1>0. TypeOK /\ IdsDiffer /\ TasksInv /\ PlaceOK(p)
  BY DEF DiscussInv, TasksInv
<1> DEFINE id == held[p].id
           comment == NewComment(p)
<1>1. /\ pc[p] = "insert" /\ req[p] \in Request /\ req[p].op = "comment" /\ held[p] \in Pending
      /\ reply[p] = None
  BY <1>0 DEF Insert, PlaceOK, TypeOK
<1>2. id \in CommentIds /\ id \notin posted /\ comment \in Abstract!Comment
  BY <1>0, <1>1, RequestParts DEF IdsDiffer, Pending, NewComment, Abstract!Comment
<1>3. /\ comments' = Abstract!WithComment(comments, id, comment) /\ posted' = posted \cup {id}
      /\ actor' = req[p].caller /\ UNCHANGED <<clock, req, held, reader>>
      /\ pc' = [pc EXCEPT ![p] = "answered"] /\ reply' = [reply EXCEPT ![p] = "added"]
  BY DEF Insert, Answer
<1> HIDE DEF id, comment
<1>4. /\ Abstract!IsCommentTable(comments') /\ Live' = Live \cup {id}
      /\ \A i \in Live \ {id} : comments'[i] = comments[i]
  <2>1. Abstract!IsCommentTable(comments)
    BY <1>0 DEF TypeOK
  <2> DEFINE new == Abstract!WithComment(comments, id, comment)
  <2>2. /\ Abstract!IsCommentTable(new) /\ DOMAIN new = DOMAIN comments \cup {id}
        /\ \A i \in DOMAIN comments \ {id} : new[i] = comments[i]
    BY <1>2, <2>1, PostKeepsTable DEF Abstract!WithComment
  <2>3. comments' = new
    BY <1>3
  <2> HIDE DEF new
  <2> QED
    BY <2>2, <2>3 DEF Live
<1>5. TypeOK'
  BY <1>0, <1>1, <1>2, <1>3, <1>4, RequestParts DEF TypeOK, Replies
<1>6. IdsDiffer'
  <2>1. \A q \in Tasks \ {p} :
          pc'[q] = pc[q] /\ (pc[q] = "insert" => held[q] # None)
    BY <1>0, <1>3 DEF TypeOK, TasksInv, PlaceOK
  <2>2. pc'[p] = "answered" /\ held[p] # None
    BY <1>0, <1>1, <1>3 DEF TypeOK, PlaceOK
  <2> QED
    BY <1>0, <1>3, <2>1, <2>2 DEF IdsDiffer, id
<1>7. ASSUME NEW q \in Tasks
      PROVE  PlaceOK(q)' /\ Checked(q)' /\ DeleteCounts(q)' /\ EditStays(q)'
  <2>1. PlaceOK(q) /\ Checked(q) /\ DeleteCounts(q) /\ EditStays(q)
    BY <1>0 DEF TasksInv
  <2>2. \A t \in Tasks :
          /\ t # p => pc'[t] = pc[t] /\ reply'[t] = reply[t]
          /\ pc'[p] = "answered" /\ reply'[p] = "added"
    BY <1>0, <1>3 DEF TypeOK
  <2>3. PlaceOK(q)'
    BY <1>0, <1>1, <1>3, <2>1, <2>2 DEF PlaceOK
  <2>4. Checked(q)'
    BY <1>2, <1>3, <1>4, <2>1, <2>2 DEF Checked
  <2>5. DeleteCounts(q)'
    BY <1>2, <1>3, <1>4, <2>1, <2>2 DEF DeleteCounts
  <2>6. ASSUME NEW i \in Live \ {id}, BodyIsAsked(i)
        PROVE  BodyIsAsked(i)'
    <3>1. \A t \in UpdatesOf(i) : t \in UpdatesOf(i)'
      BY <1>1, <1>3, <2>2 DEF UpdatesOf
    <3> QED
      BY <1>3, <1>4, <2>6, <3>1, AskedStays
  <2>7. EditStays(q)'
    <3>1. pc'[q] = "refetch" \/ reply'[q] = "updated" =>
            (pc[q] = "refetch" \/ reply[q] = "updated") /\ req[q].id # id
      BY <1>2, <2>1, <2>2 DEF Checked
    <3> QED
      BY <1>3, <1>4, <2>1, <2>6, <3>1 DEF EditStays
  <2> QED
    BY <2>3, <2>4, <2>5, <2>7
<1> QED
  BY <1>5, <1>6, <1>7 DEF DiscussInv, TasksInv

(***************************************************************************)
(* The UPDATE: on a row that is still there it writes for its author, by   *)
(* the check; on no row it changes nothing.                                *)
(***************************************************************************)
LEMMA WriteUpdateInv ==
  ASSUME DiscussInv, NEW p \in Tasks, WriteUpdate(p)
  PROVE  DiscussInv'
<1> USE DiscussAssumption
<1> DEFINE id == req[p].id
<1>0. TypeOK /\ IdsDiffer /\ TasksInv /\ PlaceOK(p) /\ Checked(p)
  BY DEF DiscussInv, TasksInv
<1>1. /\ pc[p] = "write" /\ req[p] \in Request /\ req[p].op = "update" /\ reply[p] = None
      /\ id \in CommentIds /\ req[p].body \in Bodies /\ req[p].caller \in Authors
  BY <1>0, RequestParts DEF WriteUpdate, PlaceOK
<1>2. /\ comments' = UpdateComment(id, req[p].body)
      /\ actor' \in {actor, req[p].caller} /\ pc' = [pc EXCEPT ![p] = "refetch"]
      /\ UNCHANGED <<posted, clock, req, held, reply, reader>>
  BY DEF WriteUpdate, ActorIf, GoTo
<1>3. /\ Abstract!IsCommentTable(comments') /\ Live' = Live
      /\ \A i \in Live : comments'[i].author = comments[i].author
      /\ \A i \in Live \ {id} : comments'[i] = comments[i]
      /\ id \in Live => comments'[id].body = req[p].body /\ comments'[id].edited
  <2>1. Abstract!IsCommentTable(comments)
    BY <1>0 DEF TypeOK
  <2>2. CASE id \in Live
    <3> DEFINE new == Abstract!WithBody(comments, id, req[p].body)
    <3>1. /\ Abstract!IsCommentTable(new) /\ DOMAIN new = DOMAIN comments
          /\ \A i \in DOMAIN comments : new[i].author = comments[i].author
          /\ \A i \in DOMAIN comments \ {id} : new[i] = comments[i]
          /\ new[id].body = req[p].body /\ new[id].edited
      BY <1>1, <2>1, <2>2, EditKeepsTable DEF Live
    <3>2. comments' = new
      BY <1>2, <2>2 DEF UpdateComment
    <3> HIDE DEF new
    <3> QED
      BY <3>1, <3>2 DEF Live
  <2>3. CASE id \notin Live
    BY <1>2, <2>1, <2>3 DEF UpdateComment, Live
  <2> QED
    BY <2>2, <2>3
<1>4. TypeOK'
  BY <1>0, <1>1, <1>2, <1>3 DEF TypeOK
<1>5. IdsDiffer'
  BY <1>0, <1>2 DEF IdsDiffer, TypeOK
<1>6. \A t \in Tasks : /\ t # p => pc'[t] = pc[t]
                       /\ pc'[p] = "refetch"
  BY <1>0, <1>2 DEF TypeOK
<1>7. ASSUME NEW q \in Tasks
      PROVE  PlaceOK(q)' /\ Checked(q)' /\ DeleteCounts(q)' /\ EditStays(q)'
  <2>1. PlaceOK(q) /\ Checked(q) /\ DeleteCounts(q) /\ EditStays(q)
    BY <1>0 DEF TasksInv
  <2>2. PlaceOK(q)'
    BY <1>1, <1>2, <1>6, <2>1 DEF PlaceOK
  <2>3. Checked(q)'
    BY <1>0, <1>1, <1>2, <1>3, <1>6, <2>1 DEF Checked
  <2>4. DeleteCounts(q)'
    BY <1>2, <1>3, <2>1 DEF DeleteCounts
  <2>5. ASSUME NEW i \in Live \ {id}, BodyIsAsked(i)
        PROVE  BodyIsAsked(i)'
    <3>1. \A t \in UpdatesOf(i) : t \in UpdatesOf(i)'
      BY <1>1, <1>2, <1>6 DEF UpdatesOf
    <3> QED
      BY <1>2, <1>3, <2>5, <3>1, AskedStays
  <2>6. ASSUME NEW i \in Live, i = id
        PROVE  comments'[i].edited /\ BodyIsAsked(i)'
    <3>1. p \in UpdatesOf(i)'
      BY <1>1, <1>2, <1>6, <2>6 DEF UpdatesOf
    <3>2. req'[p].caller = comments'[i].author /\ req'[p].body = comments'[i].body
      BY <1>0, <1>1, <1>2, <1>3, <2>6 DEF Checked
    <3> QED
      BY <1>2, <1>3, <2>6, <3>1, <3>2 DEF BodyIsAsked
  <2>7. EditStays(q)'
    <3>1. pc'[q] = "refetch" \/ reply'[q] = "updated" =>
            req[q].id = id \/ pc[q] = "refetch" \/ reply[q] = "updated"
      BY <1>2, <1>6
    <3> QED
      BY <1>2, <1>3, <2>1, <2>5, <2>6, <3>1 DEF EditStays
  <2> QED
    BY <2>2, <2>3, <2>4, <2>7
<1> QED
  BY <1>4, <1>5, <1>7 DEF DiscussInv, TasksInv

(***************************************************************************)
(* The DELETE: who is told that it met a row is the first to be told.      *)
(***************************************************************************)
LEMMA WriteDeleteInv ==
  ASSUME DiscussInv, NEW p \in Tasks, WriteDelete(p)
  PROVE  DiscussInv'
<1> USE DiscussAssumption
<1> DEFINE id == req[p].id
<1>0. TypeOK /\ IdsDiffer /\ TasksInv /\ PlaceOK(p) /\ Checked(p)
  BY DEF DiscussInv, TasksInv
<1>1. /\ pc[p] = "write" /\ req[p] \in Request /\ req[p].op = "delete" /\ reply[p] = None
      /\ id \in CommentIds /\ req[p].caller \in Authors /\ id \in posted
  BY <1>0, RequestParts DEF WriteDelete, PlaceOK, Checked
<1>2. /\ comments' = Abstract!WithoutComment(comments, id)
      /\ actor' \in {actor, req[p].caller} /\ pc' = [pc EXCEPT ![p] = "answered"]
      /\ UNCHANGED <<posted, clock, req, held>>
      /\ \/ id \in Live /\ reply' = [reply EXCEPT ![p] = "deleted"] /\ Shrunk(id)
         \/ id \notin Live /\ reply' = [reply EXCEPT ![p] = "not_found"] /\ UNCHANGED reader
  BY DEF WriteDelete, ActorIf, Answer
<1>3. /\ Abstract!IsCommentTable(comments') /\ Live' = Live \ {id}
      /\ \A i \in Live' : comments'[i] = comments[i]
  <2>1. Abstract!IsCommentTable(comments)
    BY <1>0 DEF TypeOK
  <2>2. Abstract!IsCommentTable(comments')
    BY <1>2, <2>1, RemoveKeepsTable
  <2> QED
    BY <1>2, <2>2 DEF Live, Abstract!WithoutComment
<1>4. TypeOK'
  BY <1>0, <1>1, <1>2, <1>3 DEF TypeOK, Shrunk, ReaderType, Replies
<1>5. IdsDiffer'
  BY <1>0, <1>2 DEF IdsDiffer, TypeOK
<1>6. /\ \A t \in Tasks \ {p} : pc'[t] = pc[t] /\ reply'[t] = reply[t]
      /\ pc'[p] = "answered"
      /\ \/ id \in Live /\ reply'[p] = "deleted"
         \/ id \notin Live /\ reply'[p] = "not_found"
  BY <1>0, <1>2 DEF TypeOK
<1>7. ASSUME NEW q \in Tasks
      PROVE  PlaceOK(q)' /\ Checked(q)' /\ DeleteCounts(q)' /\ EditStays(q)'
  <2>1. PlaceOK(q) /\ Checked(q) /\ DeleteCounts(q) /\ EditStays(q)
    BY <1>0 DEF TasksInv
  <2>2. PlaceOK(q)'
    BY <1>1, <1>2, <1>6, <2>1 DEF PlaceOK
  <2>3. Checked(q)'
    BY <1>0, <1>1, <1>2, <1>3, <1>6, <2>1 DEF Checked
  <2>4. \A t \in Tasks : reply[t] = "deleted" => req[t].id \in posted \ Live
    BY <1>0 DEF TasksInv, DeleteCounts
  <2>5. DeleteCounts(q)'
    BY <1>1, <1>2, <1>3, <1>6, <2>1, <2>4 DEF DeleteCounts
  <2>6. ASSUME NEW i \in Live', BodyIsAsked(i)
        PROVE  BodyIsAsked(i)'
    <3>1. \A t \in UpdatesOf(i) : t \in UpdatesOf(i)'
      BY <1>1, <1>2, <1>6 DEF UpdatesOf
    <3> QED
      BY <1>2, <1>3, <2>6, <3>1, AskedStays
  <2>7. EditStays(q)'
    BY <1>1, <1>2, <1>3, <1>6, <2>1, <2>6 DEF EditStays
  <2> QED
    BY <2>2, <2>3, <2>5, <2>7
<1> QED
  BY <1>4, <1>5, <1>7 DEF DiscussInv, TasksInv

(***************************************************************************)
(* Reading pages changes nothing but what the reader has seen.             *)
(***************************************************************************)
LEMMA ReaderTyped ==
  ASSUME TypeOK, ReadPage \/ \E thread \in Threads : StartReading(thread)
  PROVE  /\ UNCHANGED <<comments, posted, actor, clock, pc, req, held, reply>>
         /\ reader' \in ReaderType
<1>1. /\ \A thread : On(thread) \subseteq CommentIds
      /\ reader \in ReaderType
  BY DEF On, Live, TypeOK, Abstract!IsCommentTable
<1>2. CASE ReadPage
  <2>1. PICK page : /\ page = Page(reader.thread, reader.offset)
                    /\ reader' = [reader EXCEPT !.seen = @ \cup page, !.offset = @ + Limit,
                                     !.stage = IF Cardinality(page) < Limit THEN "done" ELSE @]
    BY <1>2 DEF ReadPage
  <2>2. page \subseteq CommentIds
    BY <1>1, <2>1 DEF Page
  <2>3. reader' \in ReaderType
    <3>1. reader.offset + Limit \in Nat
      BY <1>1, DiscussAssumption DEF ReaderType
    <3>2. (IF Cardinality(page) < Limit THEN "done" ELSE reader.stage) \in {"done", "paging"}
      BY <1>2 DEF ReadPage
    <3> QED
      BY <1>1, <2>1, <2>2, <3>1, <3>2 DEF ReaderType
  <2> QED
    BY <1>2, <2>3 DEF ReadPage, table
<1>3. CASE \E thread \in Threads : StartReading(thread)
  <2>1. PICK thread \in Threads : StartReading(thread)
    BY <1>3
  <2>2. Idle \in ReaderType
    BY DEF Idle, ReaderType
  <2>3. reader' \in ReaderType
    BY <1>1, <2>1, <2>2 DEF StartReading, ReaderType
  <2> QED
    BY <2>1, <2>3 DEF StartReading, table
<1> QED
  BY <1>2, <1>3

LEMMA ReaderInv ==
  ASSUME DiscussInv, ReadPage \/ \E thread \in Threads : StartReading(thread)
  PROVE  DiscussInv'
<1>1. TypeOK
  BY DEF DiscussInv
<1>2. TypeOK' /\ UNCHANGED <<comments, posted, pc, req, held, reply>>
  BY <1>1, ReaderTyped DEF TypeOK, Live
<1> QED
  BY <1>2 DEF DiscussInv, IdsDiffer, TasksInv, PlaceOK, Checked, DeleteCounts, EditStays,
              BodyIsAsked, UpdatesOf, Live

LEMMA StutterInv ==
  ASSUME DiscussInv, UNCHANGED discussVars
  PROVE  DiscussInv'
BY DEF discussVars, DiscussInv, TypeOK, IdsDiffer, TasksInv, PlaceOK, Checked, DeleteCounts, EditStays,
       BodyIsAsked, UpdatesOf, Live

LEMMA DiscussNextInv == DiscussInv /\ [Next]_discussVars => DiscussInv'
<1> SUFFICES ASSUME DiscussInv, [Next]_discussVars PROVE DiscussInv'
  OBVIOUS
<1>1. ASSUME NEW p \in Tasks, Serve(p) PROVE DiscussInv'
  BY <1>1, InsertInv, ReadInv, WriteUpdateInv, RefetchInv, WriteDeleteInv DEF Serve
<1>2. ASSUME NEW p \in Tasks, NEW r \in Requests, Begin(p, r) PROVE DiscussInv'
  BY <1>2, BeginInv
<1> QED
  BY <1>1, <1>2, FailInv, ReaderInv, StutterInv DEF Next

LEMMA DiscussInvariance == Spec => []DiscussInv
BY DiscussInitInv, DiscussNextInv, PTL DEF Spec

(***************************************************************************)
(* Every row is a whole comment under an id that was handed out, and every *)
(* task holds what its place needs (comment, update and delete in          *)
(* hubs/discuss.rs).                                                       *)
(***************************************************************************)
THEOREM DiscussTypeCorrect == Spec => []TypeOK
<1>1. DiscussInv => TypeOK
  BY DEF DiscussInv
<1> QED
  BY <1>1, DiscussInvariance, PTL

(***************************************************************************)
(* A delete that was acknowledged is final and single, for any number of   *)
(* tasks (delete in hubs/discuss.rs, delete_comment in store/discuss.rs).  *)
(***************************************************************************)
THEOREM AcknowledgedDeletesCount == Spec => []DeletesCount
<1>1. DiscussInv => DeletesCount
  BY DEF DiscussInv, TasksInv, DeleteCounts, DeletesCount
<1> QED
  BY <1>1, DiscussInvariance, PTL

(***************************************************************************)
(* An update that was acknowledged stays, unless the author wrote again    *)
(* (update in hubs/discuss.rs, update_comment in store/discuss.rs).        *)
(***************************************************************************)
THEOREM AcknowledgedEditsStay == Spec => []EditsStay
<1>1. DiscussInv => EditsStay
  BY DEF DiscussInv, TasksInv, EditStays, BodyIsAsked, EditsStay
<1> QED
  BY <1>1, DiscussInvariance, PTL

-----------------------------------------------------------------------------
(***************************************************************************)
(* The refinement.  The INSERT is Post: its id was handed out to this task *)
(* alone.                                                                  *)
(***************************************************************************)
LEMMA InsertPosts ==
  ASSUME DiscussInv, NEW p \in Tasks, Insert(p)
  PROVE  Abstract!AbstractNext
<1>1. TypeOK /\ IdsDiffer /\ PlaceOK(p)
  BY DEF DiscussInv, TasksInv
<1>2. req[p] \in Request /\ req[p].op = "comment" /\ held[p] \in Pending
  BY <1>1 DEF Insert, PlaceOK, TypeOK
<1>3. /\ req[p].caller \in Authors /\ held[p].id \in CommentIds \ posted
      /\ NewComment(p) \in Abstract!Comment
  BY <1>1, <1>2, RequestParts DEF IdsDiffer, Insert, Pending, NewComment, Abstract!Comment
<1>4. NewComment(p).author = req[p].caller /\ ~NewComment(p).edited
  BY DEF NewComment
<1>5. Abstract!Post(req[p].caller, held[p].id, NewComment(p))
  BY <1>3, <1>4 DEF Insert, Abstract!Post
<1> QED
  BY <1>3, <1>5 DEF Abstract!AbstractNext

(***************************************************************************)
(* The UPDATE is Edit while the row is there, for whoever is then its      *)
(* author, and nothing when the row is gone.                               *)
(***************************************************************************)
LEMMA WriteUpdateEdits ==
  ASSUME DiscussInv, NEW p \in Tasks, WriteUpdate(p)
  PROVE  Abstract!AbstractNext \/ UNCHANGED table
<1>1. TypeOK /\ PlaceOK(p) /\ Checked(p)
  BY DEF DiscussInv, TasksInv
<1>2. /\ req[p].caller \in Authors /\ req[p].id \in CommentIds /\ req[p].body \in Bodies
  BY <1>1, RequestParts DEF WriteUpdate, PlaceOK
<1>3. CASE req[p].id \in Live
  <2>1. Abstract!Edit(req[p].caller, req[p].id, req[p].body)
    BY <1>1, <1>3 DEF WriteUpdate, Checked, UpdateComment, ActorIf, Live, Abstract!Edit, Abstract!MayChange
  <2> QED
    BY <1>2, <2>1 DEF Abstract!AbstractNext
<1>4. CASE req[p].id \notin Live
  BY <1>4 DEF WriteUpdate, UpdateComment, ActorIf, table
<1> QED
  BY <1>3, <1>4

(***************************************************************************)
(* The DELETE is Remove in the same way.                                   *)
(***************************************************************************)
LEMMA WriteDeleteRemoves ==
  ASSUME DiscussInv, NEW p \in Tasks, WriteDelete(p)
  PROVE  Abstract!AbstractNext \/ UNCHANGED table
<1>1. TypeOK /\ PlaceOK(p) /\ Checked(p)
  BY DEF DiscussInv, TasksInv
<1>2. req[p].caller \in Authors /\ req[p].id \in CommentIds
  BY <1>1, RequestParts DEF WriteDelete, PlaceOK
<1>3. CASE req[p].id \in Live
  <2>1. Abstract!Remove(req[p].caller, req[p].id)
    BY <1>1, <1>3 DEF WriteDelete, Checked, ActorIf, Live, Abstract!Remove, Abstract!MayChange
  <2> QED
    BY <1>2, <2>1 DEF Abstract!AbstractNext
<1>4. CASE req[p].id \notin Live
  <2>1. Abstract!WithoutComment(comments, req[p].id) = comments
    BY <1>1, <1>4 DEF TypeOK, Live, Abstract!WithoutComment, Abstract!IsCommentTable
  <2> QED
    BY <1>4, <2>1 DEF WriteDelete, ActorIf, table
<1> QED
  BY <1>3, <1>4

LEMMA DiscussStepIsAbstract ==
  ASSUME DiscussInv, [Next]_discussVars
  PROVE  Abstract!AbstractNext \/ UNCHANGED table
<1>1. ASSUME NEW p \in Tasks, Serve(p)
      PROVE  Abstract!AbstractNext \/ UNCHANGED table
  BY <1>1, InsertPosts, WriteUpdateEdits, WriteDeleteRemoves DEF Serve, Read, Refetch
<1>2. ASSUME NEW p \in Tasks, Fail(p) \/ \E r \in Requests : Begin(p, r)
      PROVE  UNCHANGED table
  BY <1>2 DEF Fail, Begin
<1>3. ASSUME ReadPage \/ \E thread \in Threads : StartReading(thread)
      PROVE  UNCHANGED table
  BY <1>3 DEF ReadPage, StartReading
<1>4. CASE UNCHANGED discussVars
  BY <1>4 DEF discussVars, table
<1> QED
  BY <1>1, <1>2, <1>3, <1>4 DEF Next

(***************************************************************************)
(* Discuss implements Comments: although the author is checked in one      *)
(* statement and the comment written in another, each change is made by    *)
(* the author of that moment (comment, update, delete in hubs/discuss.rs). *)
(***************************************************************************)
THEOREM DiscussImplementsComments == Spec => OnlyAuthorsChangeComments
<1>1. Init => Abstract!AbstractInit
  BY DiscussInitInv DEF Init, Abstract!AbstractInit, DiscussInv, TypeOK, Live
<1>2. DiscussInv /\ [Next]_discussVars => [Abstract!AbstractNext]_<<comments, posted, actor>>
  BY DiscussStepIsAbstract DEF table
<1> QED
  BY <1>1, <1>2, DiscussInvariance, PTL DEF Spec, OnlyAuthorsChangeComments, Abstract!AbstractSpec

-----------------------------------------------------------------------------
(***************************************************************************)
(* Paging by LIMIT and OFFSET.  Rows have different times, the pending     *)
(* ones too, so that a thread has one order.  The reader has passed no     *)
(* comment without seeing it: one not seen yet has at least offset         *)
(* comments before it, and those only grow in number while none is deleted.*)
(* The last page is short, and a page is short only if nothing comes after *)
(* it.                                                                     *)
(***************************************************************************)
TimesDiffer ==
  /\ \A i \in Live : comments[i].createdAt < clock
  /\ \A i, j \in Live : comments[i].createdAt = comments[j].createdAt => i = j
  /\ \A p \in Tasks : held[p] # None => held[p].createdAt < clock
  /\ \A p, q \in Tasks :
       p # q /\ held[p] # None /\ held[q] # None => held[p].createdAt # held[q].createdAt
  /\ \A p \in Tasks, i \in Live : pc[p] = "insert" => held[p].createdAt # comments[i].createdAt

NothingPassed ==
  reader.stage = "paging" /\ ~reader.shrunk =>
    \A i \in reader.there :
      /\ i \in Live /\ comments[i].thread = reader.thread
      /\ i \in reader.seen \/ Cardinality(Earlier(i)) >= reader.offset

PagingInv == DiscussInv /\ TimesDiffer /\ NothingPassed /\ PagesSkipNothing

(***************************************************************************)
(* Counting: where low + n elements of a finite ordered set precede one,   *)
(* n of the set have ranks from low on and below low + n.                  *)
(***************************************************************************)
Before(S, time, i) == {j \in S : time[j] < time[i]}

LEMMA PageIsFull ==
  ASSUME NEW S, IsFiniteSet(S), NEW time \in [S -> Nat],
         \A i, j \in S : time[i] = time[j] => i = j,
         NEW low \in Nat, NEW n \in Nat,
         NEW last \in S, Cardinality(Before(S, time, last)) >= low + n
  PROVE  Cardinality({j \in S : low <= Cardinality(Before(S, time, j)) /\ Cardinality(Before(S, time, j)) < low + n}) >= n
<1> DEFINE page == {j \in S : low <= Cardinality(Before(S, time, j)) /\ Cardinality(Before(S, time, j)) < low + n}
           beyond == {j \in S : Cardinality(Before(S, time, j)) >= low + n}
<1>1. \A i \in S : Before(S, time, i) \subseteq S /\ IsFiniteSet(Before(S, time, i)) /\ Cardinality(Before(S, time, i)) \in Nat
  <2>1. \A i \in S : Before(S, time, i) \in SUBSET S
    BY DEF Before
  <2> QED
    BY <2>1, FS_Subset, FS_CardinalityType
<1>2. \A i, j \in S : time[j] < time[i] => Before(S, time, j) \subseteq Before(S, time, i) /\ j \in Before(S, time, i) \ Before(S, time, j)
  BY DEF Before
<1>3. \A i, j \in S : time[j] < time[i] => Cardinality(Before(S, time, j)) < Cardinality(Before(S, time, i))
  <2> SUFFICES ASSUME NEW i \in S, NEW j \in S, time[j] < time[i]
               PROVE  Cardinality(Before(S, time, j)) < Cardinality(Before(S, time, i))
    OBVIOUS
  <2>1. Before(S, time, j) \in SUBSET Before(S, time, i) /\ Before(S, time, i) # Before(S, time, j)
    BY <1>2
  <2>2. Cardinality(Before(S, time, j)) <= Cardinality(Before(S, time, i)) /\ Cardinality(Before(S, time, i)) # Cardinality(Before(S, time, j))
    BY <1>1, <2>1, FS_Subset
  <2>3. Cardinality(Before(S, time, i)) \in Nat /\ Cardinality(Before(S, time, j)) \in Nat
    BY <1>1
  <2> QED
    BY <2>2, <2>3
<1>4. PICK m \in beyond : \A j \in Before(S, time, m) : j \notin beyond
  <2> DEFINE T == {Before(S, time, j) : j \in beyond}
  <2>1. T \subseteq FiniteSubsetsOf(S) /\ T # {}
    <3>1. last \in beyond
      OBVIOUS
    <3>2. \A j \in S : Before(S, time, j) \in FiniteSubsetsOf(S)
      BY <1>1 DEF FiniteSubsetsOf
    <3> QED
      BY <3>1, <3>2
  <2>2. PICK B \in T : \A C \in T : <<C, B>> \notin StrictSubsetOrdering(S)
    BY <2>1, WFMin, FS_StrictSubsetOrderingWellFounded
  <2>3. PICK m \in beyond : B = Before(S, time, m)
    OBVIOUS
  <2>4. ASSUME NEW j \in Before(S, time, m), j \in beyond
        PROVE  FALSE
    <3>1. Before(S, time, j) \subseteq Before(S, time, m) /\ Before(S, time, j) # Before(S, time, m)
      BY <1>1, <1>2, <2>4 DEF Before
    <3>2. <<Before(S, time, j), B>> \in StrictSubsetOrdering(S)
      BY <1>1, <2>3, <3>1 DEF StrictSubsetOrdering
    <3> QED
      BY <2>2, <2>4, <3>2
  <2> QED
    BY <2>4
<1> DEFINE early == {j \in Before(S, time, m) : Cardinality(Before(S, time, j)) < low}
<1>5. IsFiniteSet(early) /\ Cardinality(early) \in Nat /\ Cardinality(early) <= low
  <2> DEFINE rank == [j \in early |-> Cardinality(Before(S, time, j))]
  <2>1. rank \in [early -> 0 .. low - 1]
    BY <1>1
  <2>2. rank \in Injection(early, 0 .. low - 1)
    <3>1. ASSUME NEW i \in early, NEW j \in early, rank[i] = rank[j]
          PROVE  i = j
      <4>1. i \in S /\ j \in S /\ Cardinality(Before(S, time, i)) = Cardinality(Before(S, time, j))
        BY <1>1, <3>1
      <4>2. ~(time[i] < time[j]) /\ ~(time[j] < time[i])
        BY <1>1, <1>3, <4>1
      <4>3. time[i] \in Nat /\ time[j] \in Nat
        BY <4>1
      <4>4. time[i] = time[j]
        BY <4>2, <4>3
      <4> QED
        BY <4>1, <4>4
    <3> QED
      BY <2>1, <3>1 DEF Injection, IsInjective
  <2>3. IsFiniteSet(0 .. low - 1) /\ Cardinality(0 .. low - 1) = low
    <3>1. 0 \in Int /\ low - 1 \in Int /\ (IF 0 > low - 1 THEN 0 ELSE (low - 1) - 0 + 1) = low
      OBVIOUS
    <3> QED
      BY <3>1, FS_Interval
  <2> HIDE DEF rank, early
  <2>4. IsFiniteSet(early) /\ Cardinality(early) <= Cardinality(0 .. low - 1)
    BY <2>2, <2>3, FS_Injection
  <2> QED
    BY <2>3, <2>4, FS_CardinalityType
<1>6. IsFiniteSet(page) /\ Cardinality(page) \in Nat
  BY FS_Subset, FS_CardinalityType
<1>7. Before(S, time, m) \subseteq early \cup page
  <2> SUFFICES ASSUME NEW j \in Before(S, time, m) PROVE j \in early \cup page
    OBVIOUS
  <2>1. j \in S /\ j \notin beyond
    BY <1>1, <1>4
  <2>2. Cardinality(Before(S, time, j)) \in Nat /\ ~(Cardinality(Before(S, time, j)) >= low + n)
    BY <1>1, <2>1
  <2>3. Cardinality(Before(S, time, j)) < low \/ (low <= Cardinality(Before(S, time, j)) /\ Cardinality(Before(S, time, j)) < low + n)
    BY <2>2
  <2> QED
    BY <2>1, <2>3
<1>8. Cardinality(Before(S, time, m)) <= Cardinality(early) + Cardinality(page)
  <2> HIDE DEF early, page
  <2>1. /\ IsFiniteSet(early \cup page)
        /\ Cardinality(early \cup page) = Cardinality(early) + Cardinality(page) - Cardinality(early \cap page)
        /\ IsFiniteSet(early \cap page)
    BY <1>5, <1>6, FS_Union, FS_Intersection
  <2>2. Cardinality(early \cap page) \in Nat
    BY <2>1, FS_CardinalityType
  <2>3. Cardinality(Before(S, time, m)) <= Cardinality(early \cup page)
    BY <1>7, <2>1, FS_Subset
  <2>4. Cardinality(Before(S, time, m)) \in Nat
    BY <1>1
  <2> QED
    BY <1>5, <1>6, <2>1, <2>2, <2>3, <2>4
<1>9. Cardinality(Before(S, time, m)) \in Nat /\ Cardinality(Before(S, time, m)) >= low + n
  BY <1>1
<1> HIDE DEF page, early
<1>10. Cardinality(page) >= n
  BY <1>5, <1>6, <1>8, <1>9
<1> QED
  BY <1>10 DEF page

(***************************************************************************)
(* What each statement leaves of the order of a thread.                    *)
(***************************************************************************)
LEMMA InsertTable ==
  ASSUME DiscussInv, NEW p \in Tasks, Insert(p)
  PROVE  /\ held[p] \in Pending /\ held[p].id \notin Live /\ Live' = Live \cup {held[p].id}
         /\ \A i \in Live : comments'[i] = comments[i]
         /\ comments'[held[p].id].createdAt = held[p].createdAt
<1>1. TypeOK /\ IdsDiffer /\ PlaceOK(p)
  BY DEF DiscussInv, TasksInv
<1>2. held[p] \in Pending /\ held[p].id \notin Live
  BY <1>1 DEF Insert, PlaceOK, TypeOK, IdsDiffer
<1> QED
  BY <1>2 DEF Insert, Live, Abstract!WithComment, NewComment

LEMMA UpdateTable ==
  ASSUME DiscussInv, NEW p \in Tasks, WriteUpdate(p)
  PROVE  /\ Live' = Live
         /\ \A i \in Live : /\ comments'[i].thread = comments[i].thread
                            /\ comments'[i].createdAt = comments[i].createdAt
<1>1. Abstract!IsCommentTable(comments) /\ req[p].body \in Bodies
  BY RequestParts DEF DiscussInv, TypeOK, TasksInv, PlaceOK, WriteUpdate
<1>2. CASE req[p].id \in Live
  <2> DEFINE new == Abstract!WithBody(comments, req[p].id, req[p].body)
  <2>1. /\ DOMAIN new = DOMAIN comments
        /\ \A i \in DOMAIN comments : /\ new[i].thread = comments[i].thread
                                      /\ new[i].createdAt = comments[i].createdAt
    BY <1>1, <1>2, EditKeepsTable DEF Live
  <2>2. comments' = new
    BY <1>2 DEF WriteUpdate, UpdateComment
  <2> HIDE DEF new
  <2> QED
    BY <2>1, <2>2 DEF Live
<1>3. CASE req[p].id \notin Live
  BY <1>3 DEF WriteUpdate, UpdateComment, Live
<1> QED
  BY <1>2, <1>3

LEMMA DeleteTable ==
  ASSUME NEW p \in Tasks, WriteDelete(p)
  PROVE  /\ Live' = Live \ {req[p].id}
         /\ \A i \in Live' : comments'[i] = comments[i]
BY DEF WriteDelete, Live, Abstract!WithoutComment

LEMMA BeginTimes ==
  ASSUME DiscussInv, NEW p \in Tasks, NEW r \in Requests, Begin(p, r)
  PROVE  /\ UNCHANGED <<comments, reader>>
         /\ \A q \in Tasks \ {p} : held'[q] = held[q] /\ pc'[q] = pc[q]
         /\ \/ held'[p].createdAt = clock /\ clock' = clock + 1
            \/ held' = held /\ clock' = clock /\ pc'[p] # "insert"
BY DEF Begin, GoTo, table, DiscussInv, TypeOK

LEMMA TimesDifferNext == PagingInv /\ [Next]_discussVars => TimesDiffer'
<1> SUFFICES ASSUME DiscussInv, TimesDiffer, [Next]_discussVars PROVE TimesDiffer'
  BY DEF PagingInv
<1> USE DEF TimesDiffer
<1>0. /\ clock \in Nat
      /\ \A p \in Tasks : held[p] # None => held[p].createdAt \in Nat
      /\ \A i \in Live : comments[i].createdAt \in Nat
      /\ \A p \in Tasks : pc[p] = "insert" => held[p] # None
  BY DiscussAssumption DEF DiscussInv, TypeOK, Pending, Live, Abstract!IsCommentTable, Abstract!Comment, TasksInv, PlaceOK
<1>1. ASSUME NEW p \in Tasks, Insert(p) PROVE TimesDiffer'
  <2>1. UNCHANGED <<held, clock>> /\ \A q \in Tasks : pc'[q] = "insert" => q # p /\ pc[q] = "insert"
    BY <1>1 DEF Insert, Answer, DiscussInv, TypeOK
  <2>2. held[p] # None /\ pc[p] = "insert"
    BY <1>0, <1>1 DEF Insert
  <2> QED
    BY <1>0, <1>1, <2>1, <2>2, InsertTable
<1>2. ASSUME NEW p \in Tasks, WriteUpdate(p) PROVE TimesDiffer'
  <2>1. UNCHANGED <<held, clock>> /\ \A q \in Tasks : pc'[q] = "insert" => pc[q] = "insert"
    BY <1>2 DEF WriteUpdate, GoTo, DiscussInv, TypeOK
  <2> QED
    BY <1>2, <2>1, UpdateTable
<1>3. ASSUME NEW p \in Tasks, WriteDelete(p) PROVE TimesDiffer'
  <2>1. UNCHANGED <<held, clock>> /\ \A q \in Tasks : pc'[q] = "insert" => pc[q] = "insert"
    BY <1>3 DEF WriteDelete, Answer, DiscussInv, TypeOK
  <2> QED
    BY <1>3, <2>1, DeleteTable
<1>4. ASSUME NEW p \in Tasks, Read(p) \/ Refetch(p) \/ Fail(p) PROVE TimesDiffer'
  <2>1. UNCHANGED <<comments, held, clock>> /\ \A q \in Tasks : pc'[q] = "insert" => pc[q] = "insert"
    BY <1>4 DEF Read, Refetch, Fail, GoTo, Answer, table, DiscussInv, TypeOK
  <2> QED
    BY <2>1 DEF Live
<1>5. ASSUME NEW p \in Tasks, NEW r \in Requests, Begin(p, r) PROVE TimesDiffer'
  BY <1>0, <1>5, BeginTimes DEF Live
<1>6. CASE ReadPage \/ (\E thread \in Threads : StartReading(thread)) \/ UNCHANGED discussVars
  <2>1. UNCHANGED <<comments, held, clock, pc>>
    BY <1>6 DEF ReadPage, StartReading, discussVars, table
  <2> QED
    BY <2>1 DEF Live
<1> QED
  BY <1>1, <1>2, <1>3, <1>4, <1>5, <1>6 DEF Next, Serve

(***************************************************************************)
(* Ids are finite in number, so ranks are numbers; they grow with what is  *)
(* stored on the thread.                                                   *)
(***************************************************************************)
LEMMA RanksAreNumbers ==
  ASSUME TypeOK, NEW i
  PROVE  IsFiniteSet(Earlier(i)) /\ Cardinality(Earlier(i)) \in Nat
<1>1. Earlier(i) \in SUBSET CommentIds
  BY DEF TypeOK, Earlier, On, Live, Abstract!IsCommentTable
<1> QED
  BY <1>1, DiscussAssumption, FS_Subset, FS_CardinalityType

LEMMA LaterRanksAreNumbers ==
  ASSUME TypeOK', NEW i
  PROVE  IsFiniteSet(Earlier(i)') /\ Cardinality(Earlier(i)') \in Nat
<1>1. Earlier(i)' \in SUBSET CommentIds
  BY DEF TypeOK, Earlier, On, Live, Abstract!IsCommentTable
<1> QED
  BY <1>1, DiscussAssumption, FS_Subset, FS_CardinalityType

LEMMA RanksGrow ==
  ASSUME TypeOK, TypeOK', NEW i \in Live,
         \A j \in On(comments[i].thread) :
           /\ j \in Live'
           /\ comments'[j].thread = comments[j].thread
           /\ comments'[j].createdAt = comments[j].createdAt
  PROVE  /\ i \in Live' /\ comments'[i].thread = comments[i].thread
         /\ Cardinality(Earlier(i)) <= Cardinality(Earlier(i)')
<1>1. i \in On(comments[i].thread)
  BY DEF On
<1>2. Earlier(i) \in SUBSET (Earlier(i)')
  BY <1>1 DEF Earlier, On
<1>3. IsFiniteSet(Earlier(i)')
  BY LaterRanksAreNumbers
<1> QED
  BY <1>1, <1>2, <1>3, FS_Subset

(***************************************************************************)
(* A short page is the last one.                                           *)
(***************************************************************************)
LEMMA ShortPageIsLast ==
  ASSUME DiscussInv, TimesDiffer, NEW thread, NEW offset \in Nat,
         Cardinality(Page(thread, offset)) < Limit, NEW i \in On(thread)
  PROVE  Cardinality(Earlier(i)) < offset + Limit
<1> DEFINE S == On(thread)
           time == [j \in S |-> comments[j].createdAt]
<1>1. TypeOK /\ Limit \in Nat
  BY DiscussAssumption DEF DiscussInv
<1>2. S \in SUBSET CommentIds /\ time \in [S -> Nat]
  BY <1>1, DiscussAssumption DEF TypeOK, On, Live, Abstract!IsCommentTable, Abstract!Comment
<1>3. IsFiniteSet(S)
  BY <1>2, DiscussAssumption, FS_Subset
<1>4. \A j, k \in S : time[j] = time[k] => j = k
  BY DEF On, TimesDiffer
<1>5. \A j \in S : Earlier(j) = Before(S, time, j)
  BY DEF Earlier, Before, On
<1> HIDE DEF time
<1>6. Page(thread, offset) =
        {j \in S : offset <= Cardinality(Before(S, time, j)) /\ Cardinality(Before(S, time, j)) < offset + Limit}
  BY <1>5 DEF Page
<1>7. Cardinality(Earlier(i)) \in Nat /\ Cardinality(Page(thread, offset)) \in Nat
  <2>1. Page(thread, offset) \in SUBSET S
    BY DEF Page
  <2> QED
    BY <1>1, <1>3, <2>1, RanksAreNumbers, FS_Subset, FS_CardinalityType
<1>8. ~(Cardinality(Before(S, time, i)) >= offset + Limit)
  <2> SUFFICES ASSUME Cardinality(Before(S, time, i)) >= offset + Limit PROVE FALSE
    OBVIOUS
  <2> HIDE DEF S
  <2>1. Cardinality({j \in S : offset <= Cardinality(Before(S, time, j))
                                /\ Cardinality(Before(S, time, j)) < offset + Limit}) >= Limit
    BY <1>1, <1>2, <1>3, <1>4, PageIsFull DEF S
  <2> QED
    BY <1>1, <1>6, <1>7, <2>1
<1> QED
  BY <1>1, <1>5, <1>7, <1>8

LEMMA NothingPassedNext ==
  PagingInv /\ TypeOK' /\ [Next]_discussVars => NothingPassed' /\ PagesSkipNothing'
<1> SUFFICES ASSUME PagingInv, TypeOK', [Next]_discussVars
             PROVE  NothingPassed' /\ PagesSkipNothing'
  OBVIOUS
<1>0. /\ DiscussInv /\ TimesDiffer /\ NothingPassed /\ PagesSkipNothing /\ TypeOK /\ reader \in ReaderType
      /\ Limit \in Nat
  BY DiscussAssumption DEF PagingInv, DiscussInv, TypeOK
<1>1. ASSUME UNCHANGED reader,
             \A j \in On(reader.thread) : /\ j \in Live'
                                          /\ comments'[j].thread = comments[j].thread
                                          /\ comments'[j].createdAt = comments[j].createdAt
      PROVE  NothingPassed' /\ PagesSkipNothing'
  <2>1. \A i \in Live : comments[i].thread = reader.thread =>
          /\ i \in Live' /\ comments'[i].thread = comments[i].thread
          /\ Cardinality(Earlier(i)) <= Cardinality(Earlier(i)')
          /\ Cardinality(Earlier(i)) \in Nat /\ Cardinality(Earlier(i)') \in Nat
    <3> SUFFICES ASSUME NEW i \in Live, comments[i].thread = reader.thread
                 PROVE  /\ i \in Live' /\ comments'[i].thread = comments[i].thread
                        /\ Cardinality(Earlier(i)) <= Cardinality(Earlier(i)')
                        /\ Cardinality(Earlier(i)) \in Nat /\ Cardinality(Earlier(i)') \in Nat
      OBVIOUS
    <3>1. Cardinality(Earlier(i)) \in Nat
      BY <1>0, RanksAreNumbers
    <3>2. Cardinality(Earlier(i)') \in Nat
      BY LaterRanksAreNumbers
    <3> QED
      BY <1>0, <1>1, <3>1, <3>2, RanksGrow
  <2>2. NothingPassed'
    BY <1>0, <1>1, <2>1 DEF NothingPassed, ReaderType
  <2> QED
    BY <1>0, <1>1, <2>2 DEF PagesSkipNothing
<1>2. ASSUME NEW p \in Tasks, Insert(p) PROVE NothingPassed' /\ PagesSkipNothing'
  BY <1>0, <1>1, <1>2, InsertTable DEF Insert, On
<1>3. ASSUME NEW p \in Tasks, WriteUpdate(p) PROVE NothingPassed' /\ PagesSkipNothing'
  BY <1>0, <1>1, <1>3, UpdateTable DEF WriteUpdate, On
<1>4. ASSUME NEW p \in Tasks, WriteDelete(p) PROVE NothingPassed' /\ PagesSkipNothing'
  <2>1. CASE req[p].id \in On(reader.thread)
    <3>1. reader'.shrunk
      BY <1>0, <1>4, <2>1 DEF WriteDelete, Shrunk, On, ReaderType
    <3> QED
      BY <3>1 DEF NothingPassed, PagesSkipNothing
  <2>2. CASE req[p].id \in Live /\ comments[req[p].id].thread # reader.thread
    <3>1. UNCHANGED reader
      BY <1>0, <1>4, <2>2 DEF WriteDelete, Shrunk, ReaderType
    <3> QED
      BY <1>1, <1>4, <2>2, <3>1, DeleteTable DEF On
  <2>3. CASE req[p].id \notin Live
    BY <1>1, <1>4, <2>3, DeleteTable DEF WriteDelete, On
  <2> QED
    BY <2>1, <2>2, <2>3 DEF On
<1>5. CASE \/ \E p \in Tasks : Read(p) \/ Refetch(p) \/ Fail(p) \/ (\E r \in Requests : Begin(p, r))
           \/ UNCHANGED discussVars
  <2>1. UNCHANGED <<comments, reader>>
    BY <1>5 DEF Read, Refetch, Fail, Begin, discussVars, table
  <2> QED
    BY <1>1, <2>1 DEF On, Live
<1>6. ASSUME NEW thread \in Threads, StartReading(thread)
      PROVE  NothingPassed' /\ PagesSkipNothing'
  <2>1. /\ UNCHANGED comments
        /\ reader'.thread = thread /\ reader'.offset = 0 /\ reader'.there = On(thread)
        /\ reader'.stage = "paging"
    BY <1>6 DEF StartReading, Idle, table
  <2>2. \A i \in On(thread) : Cardinality(Earlier(i)') \in Nat
    BY LaterRanksAreNumbers
  <2> QED
    BY <2>1, <2>2 DEF NothingPassed, PagesSkipNothing, On, Live
<1>7. CASE ReadPage
  <2> DEFINE page == Page(reader.thread, reader.offset)
  <2>1. /\ UNCHANGED comments /\ reader.stage = "paging"
        /\ reader'.thread = reader.thread /\ reader'.there = reader.there /\ reader'.shrunk = reader.shrunk
        /\ reader'.seen = reader.seen \cup page /\ reader'.offset = reader.offset + Limit
        /\ reader'.stage \in {"paging", "done"}
        /\ reader'.stage = "done" => Cardinality(page) < Limit
    BY <1>0, <1>7 DEF ReadPage, ReaderType, table
  <2>2. SUFFICES ASSUME ~reader.shrunk, NEW i \in reader.there
                 PROVE  /\ i \in Live' /\ comments'[i].thread = reader'.thread
                        /\ i \in reader'.seen \/ Cardinality(Earlier(i)') >= reader'.offset
                        /\ reader'.stage = "done" => i \in reader'.seen
    BY <2>1 DEF NothingPassed, PagesSkipNothing
  <2>3. /\ i \in On(reader.thread)
        /\ i \in reader.seen \/ Cardinality(Earlier(i)) >= reader.offset
    BY <1>0, <2>1, <2>2 DEF NothingPassed, On
  <2>4. Earlier(i)' = Earlier(i) /\ Live' = Live
    BY <2>1 DEF Earlier, On, Live
  <2>5. Cardinality(Earlier(i)) \in Nat /\ reader.offset \in Nat
    BY <1>0, RanksAreNumbers DEF ReaderType
  <2>6. i \in reader'.seen \/ Cardinality(Earlier(i)) >= reader.offset + Limit
    BY <1>0, <2>1, <2>3, <2>5 DEF Page
  <2>7. reader'.stage = "done" => Cardinality(Earlier(i)) < reader.offset + Limit
    BY <1>0, <2>1, <2>3, <2>5, ShortPageIsLast
  <2> QED
    BY <1>0, <2>1, <2>3, <2>4, <2>5, <2>6, <2>7 DEF On
<1> QED
  BY <1>2, <1>3, <1>4, <1>5, <1>6, <1>7 DEF Next, Serve

LEMMA PagingInit == Init => PagingInv
<1> SUFFICES ASSUME Init PROVE PagingInv
  OBVIOUS
<1>1. DiscussInv
  BY DiscussInitInv
<1>2. TimesDiffer
  BY DiscussAssumption DEF Init, TimesDiffer, Live
<1>3. reader.stage = "idle"
  BY DEF Init, Idle
<1> QED
  BY <1>1, <1>2, <1>3 DEF PagingInv, NothingPassed, PagesSkipNothing

(***************************************************************************)
(* For any number of comments, tasks and any page size: reading a thread   *)
(* by pages shows every comment that was there at the start, if none of    *)
(* the thread is deleted meanwhile (list in hubs/discuss.rs and            *)
(* list_comments in store/discuss.rs).                                     *)
(***************************************************************************)
THEOREM PagesShowEverything == Spec => []PagesSkipNothing
<1>1. PagingInv /\ [Next]_discussVars => PagingInv'
  <2> SUFFICES ASSUME PagingInv, [Next]_discussVars PROVE PagingInv'
    OBVIOUS
  <2>1. DiscussInv'
    BY DiscussNextInv DEF PagingInv
  <2>2. TypeOK'
    BY <2>1 DEF DiscussInv
  <2> QED
    BY <2>1, <2>2, TimesDifferNext, NothingPassedNext DEF PagingInv
<1>2. PagingInv => PagesSkipNothing
  BY DEF PagingInv
<1> QED
  BY <1>1, <1>2, PagingInit, PTL DEF Spec
=============================================================================
