----------------------------- MODULE MCDiscuss -----------------------------
(***************************************************************************)
(* Discuss for TLC: the thread starts with up to two comments of any       *)
(* authors; new comments all say the same.                                 *)
(***************************************************************************)
EXTENDS Discuss

CONSTANTS a, b, hello

Times5 == 1 .. 5

Written(time) ==
  [thread : Threads, author : Authors, body : {hello}, edited : {FALSE}, createdAt : {time}]

SomeComments ==
  [comments : {[i \in {} |-> None]} \cup {[i \in {a} |-> x] : x \in Written(1)}
                \cup {[i \in {a, b} |-> IF i = a THEN x ELSE y] : x \in Written(1), y \in Written(2)},
   clock : {3}]

SomeRequests == {r \in Request : r.op = "comment" => r.body = hello}
=============================================================================
