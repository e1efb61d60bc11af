---------------------------- MODULE MCImportPlans ----------------------------
(***************************************************************************)
(* ImportPlans for TLC: workspaces with two repositories, with two epics   *)
(* one of which is met in its directory and beside it, with an overview    *)
(* or two, with a file that does not parse, with two tickets of one id.    *)
(***************************************************************************)
EXTENDS ImportPlans

CONSTANTS r1, r2, e1, e2, n1, n2, n3

File(repo, dir, prefix, name, overview, readable, blockedBy, unlocks) ==
  [repo |-> repo, dir |-> dir, prefix |-> prefix, name |-> name, overview |-> overview,
   readable |-> readable, blockedBy |-> blockedBy, unlocks |-> unlocks]

OneEpic ==
  <<File(r1, e1, e1, n1, TRUE, TRUE, {}, {n2}),
    File(r1, None, e1, n2, TRUE, TRUE, {n1}, {}),
    File(r1, e1, e2, n3, FALSE, TRUE, {n2, n3}, {n1})>>

TwoRepos ==
  <<File(r1, e1, e1, n1, FALSE, TRUE, {n2, n3}, {}),
    File(r1, e1, e1, n3, FALSE, FALSE, {n1}, {n1}),
    File(r2, e1, e2, n2, TRUE, TRUE, {}, {n1})>>

OneName ==
  <<File(r1, e1, e1, n1, FALSE, TRUE, {}, {n2}),
    File(r1, e2, e1, n1, FALSE, TRUE, {n2}, {}),
    File(r1, e2, e2, n2, TRUE, TRUE, {}, {n1})>>

PlanWorkspaces == {OneEpic, TwoRepos, OneName, <<>>}

OnlyContents == [c \in Columns |-> None]

NoRows == {}
=============================================================================
