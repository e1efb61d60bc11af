------------------------------ MODULE Comments ------------------------------
(***************************************************************************)
(* What the discuss activation promises: "Anyone may comment; only the     *)
(* author may later edit/delete" (src/hubs/discuss.rs).  Posting, editing  *)
(* and deleting each take effect in one step, for the caller who at that   *)
(* very step is the author; an id is never given to a second comment.      *)
(* Discuss, whose requests check in one statement and write in another,    *)
(* implements this.                                                        *)
(***************************************************************************)
CONSTANTS
  CommentIds,  \* the uuids of comments
  Threads,     \* the facets commented on, which need not exist
  Authors,     \* user ids, among them "anonymous" for whoever is not logged in
  Bodies,      \* what a comment may say
  Times,       \* what the clock may show
  None         \* nobody

VARIABLES
  comments,    \* the comments table, a function from the ids of its rows
  posted,      \* the ids of all comments ever stored
  actor        \* who changed the table last, None to begin with

Comment == [thread : Threads, author : Authors, body : Bodies, edited : BOOLEAN, createdAt : Times]

IsCommentTable(table) ==
  DOMAIN table \subseteq CommentIds /\ table \in [DOMAIN table -> Comment]

WithComment(table, id, comment) ==
  [i \in DOMAIN table \cup {id} |-> IF i = id THEN comment ELSE table[i]]

WithBody(table, id, body) == [table EXCEPT ![id].body = body, ![id].edited = TRUE]

WithoutComment(table, id) == [i \in DOMAIN table \ {id} |-> table[i]]

AbstractInit ==
  /\ IsCommentTable(comments)
  /\ posted = DOMAIN comments
  /\ actor = None

Post(author, id, comment) ==
  /\ id \in CommentIds \ posted
  /\ comment.author = author /\ ~comment.edited
  /\ comments' = WithComment(comments, id, comment)
  /\ posted' = posted \cup {id}
  /\ actor' = author

MayChange(author, id) == id \in DOMAIN comments /\ comments[id].author = author

Edit(author, id, body) ==
  /\ MayChange(author, id)
  /\ comments' = WithBody(comments, id, body)
  /\ actor' = author
  /\ UNCHANGED posted

Remove(author, id) ==
  /\ MayChange(author, id)
  /\ comments' = WithoutComment(comments, id)
  /\ actor' = author
  /\ UNCHANGED posted

AbstractNext ==
  \E author \in Authors, id \in CommentIds :
    \/ \E comment \in Comment : Post(author, id, comment)
    \/ \E body \in Bodies : Edit(author, id, body)
    \/ Remove(author, id)

AbstractSpec == AbstractInit /\ [][AbstractNext]_<<comments, posted, actor>>
=============================================================================
