------------------------------ MODULE Discuss ------------------------------
(***************************************************************************)
(* DiscussHub (src/hubs/discuss.rs) over DiscussStore                      *)
(* (src/store/discuss.rs): tasks that comment, update and delete, one      *)
(* request each, and a reader who pages through a thread with list.  One   *)
(* action is one statement with the code up to the next; a statement may   *)
(* also fail, and then its request is answered with an error.              *)
(*                                                                         *)
(* A task is at "idle", "insert", "read", "write", "refetch" or "answered".*)
(* Left out: the parent of a reply, which is stored as it is given and     *)
(* never looked up, display names, updated_at, and the total that list     *)
(* counts in a statement of its own before it reads the page.              *)
(***************************************************************************)
EXTENDS Naturals, FiniteSets

CONSTANTS
  CommentIds, Threads, Authors, Bodies, Times,
  Tasks,   \* the concurrent requests
  Limit,   \* how many comments the reader asks for at a time
  Requests, \* what the tasks may ask for
  Starts,  \* what the comments table may hold at first, with the time it is then
  None

VARIABLES
  comments, posted, actor,
  clock,   \* the time, which every new comment is stamped with
  pc, req,
  held,    \* what a task that comments will store, with its id
  reply,
  reader   \* [stage, thread, offset, seen] and, as history, [there, shrunk]

discussVars == <<comments, posted, actor, clock, pc, req, held, reply, reader>>
table == <<comments, posted, actor>>

Abstract == INSTANCE Comments WITH comments <- comments, posted <- posted, actor <- actor

Live == DOMAIN comments

Request ==
  [op : {"comment"}, caller : Authors, thread : Threads, body : Bodies]
    \cup [op : {"update"}, caller : Authors, id : CommentIds, body : Bodies]
    \cup [op : {"delete"}, caller : Authors, id : CommentIds]

Pending == [id : CommentIds, createdAt : Times]

Replies == {"added", "updated", "deleted", "not_found", "forbidden", "failed"}

ASSUME DiscussAssumption ==
  /\ Times \subseteq Nat
  /\ Limit \in Nat \ {0}
  /\ Requests \subseteq Request
  /\ \A start \in Starts :
       /\ Abstract!IsCommentTable(start.comments)
       /\ start.clock \in Nat
       /\ \A i \in DOMAIN start.comments : start.comments[i].createdAt < start.clock
       /\ \A i, j \in DOMAIN start.comments :
            start.comments[i].createdAt = start.comments[j].createdAt => i = j
  /\ None \notin CommentIds \cup Authors \cup Request \cup Replies \cup Pending
  /\ IsFiniteSet(CommentIds)

ReaderType ==
  [stage : {"idle", "paging", "done"}, thread : Threads \cup {None}, offset : Nat,
   seen : SUBSET CommentIds, there : SUBSET CommentIds, shrunk : BOOLEAN]

Idle == [stage |-> "idle", thread |-> None, offset |-> 0, seen |-> {}, there |-> {}, shrunk |-> FALSE]

Init ==
  /\ \E start \in Starts : comments = start.comments /\ clock = start.clock
  /\ posted = Live
  /\ actor = None
  /\ pc = [p \in Tasks |-> "idle"]
  /\ req = [p \in Tasks |-> None]
  /\ held = [p \in Tasks |-> None]
  /\ reply = [p \in Tasks |-> None]
  /\ reader = Idle

-----------------------------------------------------------------------------
GoTo(p, place) == pc' = [pc EXCEPT ![p] = place]

Answer(p, answer) ==
  /\ pc' = [pc EXCEPT ![p] = "answered"]
  /\ reply' = [reply EXCEPT ![p] = answer]

(***************************************************************************)
(* History: who made the latest change.                                    *)
(***************************************************************************)
ActorIf(p, changed) == actor' = IF changed THEN req[p].caller ELSE actor

(***************************************************************************)
(* A comment gets its id, which one is of no consequence, and its time     *)
(* before it is stored.                                                    *)
(***************************************************************************)
Taken == posted \cup {held[p].id : p \in {q \in Tasks : held[q] # None}}

Fresh == CHOOSE id \in CommentIds : id \notin Taken

Begin(p, r) ==
  /\ pc[p] = "idle"
  /\ req' = [req EXCEPT ![p] = r]
  /\ IF r.op = "comment"
       THEN /\ clock \in Times
            /\ CommentIds \ Taken # {}
            /\ held' = [held EXCEPT ![p] = [id |-> Fresh, createdAt |-> clock]]
            /\ clock' = clock + 1
            /\ GoTo(p, "insert")
       ELSE GoTo(p, "read") /\ UNCHANGED <<held, clock>>
  /\ UNCHANGED <<table, reply, reader>>

NewComment(p) ==
  [thread |-> req[p].thread, author |-> req[p].caller, body |-> req[p].body,
   edited |-> FALSE, createdAt |-> held[p].createdAt]

Insert(p) ==
  /\ pc[p] = "insert"
  /\ comments' = Abstract!WithComment(comments, held[p].id, NewComment(p))
  /\ posted' = posted \cup {held[p].id}
  /\ actor' = req[p].caller
  /\ Answer(p, "added")
  /\ UNCHANGED <<clock, req, held, reader>>

(***************************************************************************)
(* get_comment and the check of the author, for update and delete.         *)
(***************************************************************************)
ReadAnyones(p) ==
  /\ pc[p] = "read"
  /\ IF req[p].id \in Live THEN GoTo(p, "write") /\ UNCHANGED reply ELSE Answer(p, "not_found")
  /\ UNCHANGED <<table, clock, req, held, reader>>

Read(p) ==
  /\ pc[p] = "read"
  /\ \/ req[p].id \notin Live /\ Answer(p, "not_found")
     \/ /\ req[p].id \in Live /\ comments[req[p].id].author # req[p].caller
        /\ Answer(p, "forbidden")
     \/ /\ req[p].id \in Live /\ comments[req[p].id].author = req[p].caller
        /\ GoTo(p, "write") /\ UNCHANGED reply
  /\ UNCHANGED <<table, clock, req, held, reader>>

(***************************************************************************)
(* UPDATE does not say whether it met a row; the row is fetched again.     *)
(***************************************************************************)
ReplaceBody(id, body) ==
  IF id \in Live THEN [comments EXCEPT ![id].body = body] ELSE comments

UpdateComment(id, body) ==
  IF id \in Live THEN Abstract!WithBody(comments, id, body) ELSE comments

WriteUpdate(p) ==
  /\ pc[p] = "write" /\ req[p].op = "update"
  /\ comments' = UpdateComment(req[p].id, req[p].body)
  /\ ActorIf(p, req[p].id \in Live)
  /\ GoTo(p, "refetch")
  /\ UNCHANGED <<posted, clock, req, held, reply, reader>>

RefetchPatiently(p) ==
  /\ pc[p] = "refetch" /\ req[p].id \in Live
  /\ Answer(p, "updated")
  /\ UNCHANGED <<table, clock, req, held, reader>>

Refetch(p) ==
  /\ pc[p] = "refetch"
  /\ Answer(p, IF req[p].id \in Live THEN "updated" ELSE "not_found")
  /\ UNCHANGED <<table, clock, req, held, reader>>

(***************************************************************************)
(* DELETE does say it.                                                     *)
(***************************************************************************)
Shrunk(id) ==
  reader' = [reader EXCEPT !.shrunk = @ \/ comments[id].thread = reader.thread]

DeleteInAnyCase(p) ==
  /\ pc[p] = "write" /\ req[p].op = "delete"
  /\ comments' = Abstract!WithoutComment(comments, req[p].id)
  /\ ActorIf(p, req[p].id \in Live)
  /\ IF req[p].id \in Live THEN Shrunk(req[p].id) ELSE UNCHANGED reader
  /\ Answer(p, "deleted")
  /\ UNCHANGED <<posted, clock, req, held>>

WriteDelete(p) ==
  /\ pc[p] = "write" /\ req[p].op = "delete"
  /\ comments' = Abstract!WithoutComment(comments, req[p].id)
  /\ ActorIf(p, req[p].id \in Live)
  /\ IF req[p].id \in Live
       THEN Shrunk(req[p].id) /\ Answer(p, "deleted")
       ELSE UNCHANGED reader /\ Answer(p, "not_found")
  /\ UNCHANGED <<posted, clock, req, held>>

Fail(p) ==
  /\ pc[p] \in {"insert", "read", "write", "refetch"}
  /\ Answer(p, "failed")
  /\ UNCHANGED <<table, clock, req, held, reader>>

Serve(p) ==
  Insert(p) \/ Read(p) \/ WriteUpdate(p) \/ Refetch(p) \/ WriteDelete(p)

-----------------------------------------------------------------------------
(***************************************************************************)
(* The reader calls list with a growing offset until a page is short.      *)
(***************************************************************************)
On(thread) == {i \in Live : comments[i].thread = thread}

Earlier(i) == {j \in On(comments[i].thread) : comments[j].createdAt < comments[i].createdAt}

PageAfter(thread, offset) ==
  {i \in On(thread) : offset < Cardinality(Earlier(i)) /\ Cardinality(Earlier(i)) <= offset + Limit}

Page(thread, offset) ==
  {i \in On(thread) : offset <= Cardinality(Earlier(i)) /\ Cardinality(Earlier(i)) < offset + Limit}

StartReading(thread) ==
  /\ reader.stage = "idle"
  /\ reader' = [Idle EXCEPT !.stage = "paging", !.thread = thread, !.there = On(thread)]
  /\ UNCHANGED <<table, clock, pc, req, held, reply>>

ReadPage ==
  /\ reader.stage = "paging"
  /\ LET page == Page(reader.thread, reader.offset)
     IN  reader' = [reader EXCEPT !.seen = @ \cup page, !.offset = @ + Limit,
                                  !.stage = IF Cardinality(page) < Limit THEN "done" ELSE @]
  /\ UNCHANGED <<table, clock, pc, req, held, reply>>

Next ==
  \/ \E p \in Tasks : Serve(p) \/ Fail(p) \/ \E r \in Requests : Begin(p, r)
  \/ \E thread \in Threads : StartReading(thread)
  \/ ReadPage

Spec == Init /\ [][Next]_discussVars

(***************************************************************************)
(* A runtime polls every handler whenever its statement is done, and the   *)
(* reader goes on asking.                                                  *)
(***************************************************************************)
FairSpec ==
  /\ Spec
  /\ \A p \in Tasks : WF_discussVars(Serve(p))
  /\ WF_discussVars(ReadPage)

-----------------------------------------------------------------------------
(***************************************************************************)
(* Rows are whole comments under ids that were handed out.                 *)
(***************************************************************************)
TypeOK ==
  /\ Abstract!IsCommentTable(comments)
  /\ Live \subseteq posted /\ posted \subseteq CommentIds
  /\ clock \in Nat /\ actor \in Authors \cup {None}
  /\ pc \in [Tasks -> {"idle", "insert", "read", "write", "refetch", "answered"}]
  /\ req \in [Tasks -> Request \cup {None}]
  /\ held \in [Tasks -> Pending \cup {None}]
  /\ reply \in [Tasks -> Replies \cup {None}]
  /\ reader \in ReaderType

(***************************************************************************)
(* Requests that check the author in one statement and write in a later    *)
(* one change comments as Comments says: one at a time and only for the    *)
(* author at the moment of the write.                                      *)
(***************************************************************************)
OnlyAuthorsChangeComments == Abstract!AbstractSpec

(***************************************************************************)
(* A delete that was acknowledged is final, and no two tasks are told that *)
(* they deleted one comment.                                               *)
(***************************************************************************)
DeletesCount ==
  \A p \in Tasks :
    reply[p] = "deleted" =>
      /\ req[p].id \notin Live
      /\ \A q \in Tasks \ {p} : reply[q] = "deleted" => req[q].id # req[p].id

(***************************************************************************)
(* An update that was acknowledged stays: the comment bears the mark of an *)
(* edit and says what some update of its author asked for, this one or a   *)
(* concurrent one.                                                         *)
(***************************************************************************)
UpdatesOf(id) ==
  {q \in Tasks : req[q] # None /\ req[q].op = "update" /\ req[q].id = id
                   /\ pc[q] \in {"refetch", "answered"}}

EditsStay ==
  \A p \in Tasks :
    reply[p] = "updated" /\ req[p].id \in Live =>
      /\ comments[req[p].id].edited
      /\ \E q \in UpdatesOf(req[p].id) :
           /\ req[q].caller = comments[req[p].id].author
           /\ req[q].body = comments[req[p].id].body

(***************************************************************************)
(* Reading by pages skips no comment of the thread, unless one is deleted  *)
(* on the way: comments that were there when the reader began are all      *)
(* seen, although others are stored between two pages, and may even come   *)
(* before them, being stamped before they are stored.                      *)
(***************************************************************************)
PagesSkipNothing ==
  reader.stage = "done" /\ ~reader.shrunk => reader.there \subseteq reader.seen

(***************************************************************************)
(* Every request is answered and the reader comes to the last page: in the *)
(* end nobody waits.                                                       *)
(***************************************************************************)
NobodyWaits ==
  /\ \A p \in Tasks : pc[p] \in {"idle", "answered"}
  /\ reader.stage # "paging"

EverythingIsAnswered == <>[]NobodyWaits
=============================================================================
