--------------------------- MODULE Accounts_proofs ---------------------------
(***************************************************************************)
(* Credentials end when they should and not before: for any number of      *)
(* tasks, users, keys and tokens, any expires_in and any width of integers.*)
(*                                                                         *)
(* A secret is drawn once, so the time it was meant to serve never         *)
(* changes, and a key that was revoked, once out of the table, stays out.  *)
(* A request that was late when it began is therefore still late when its  *)
(* credential is read, and is turned away there.                           *)
(***************************************************************************)
EXTENDS Accounts, TLAPS

(***************************************************************************)
(* What a task at each place serves and holds.                             *)
(***************************************************************************)
PlaceOK(p) ==
  /\ pc[p] # "idle" => req[p] \in Requests
  /\ pc[p] \in {"lookup", "store"} => req[p].op = "login"
  /\ pc[p] \in {"find", "discard"} => req[p].op = "refresh"
  /\ pc[p] \in {"match", "touch"} => req[p].op = "validate"
  /\ pc[p] = "touch" => held[p] \in KeyRows
  /\ pc[p] \in {"store", "discard"} => held[p] \in RefreshRows /\ held[p].id \in Drawn

(***************************************************************************)
(* Rows bear the term their secret was drawn with, in flight and in the    *)
(* table.                                                                  *)
(***************************************************************************)
HoldsTerm(p) ==
  /\ pc[p] \in {"store", "discard"} => held[p].expires = deadline[held[p].id]
  /\ pc[p] = "discard" => held[p].expires < now

TokensKeepTheirTerm ==
  \A r \in DOMAIN refreshes : refreshes[r].id = r /\ refreshes[r].expires = deadline[r]

(***************************************************************************)
(* What was revoked was drawn, and is out of the table.                    *)
(***************************************************************************)
RevokedAreOut ==
  \A k \in Keys, c \in Callers : <<k, c>> \in revoked => k \in Drawn \ DOMAIN keys

(***************************************************************************)
(* A late request is late for good, and does not get past its first read.  *)
(***************************************************************************)
StillLate(p) == late[p] => pc[p] \in {"find", "discard", "match"} /\ Late(req[p])

TasksInv == \A p \in Procs : PlaceOK(p) /\ HoldsTerm(p) /\ StillLate(p)

TermsKept == TokensKeepTheirTerm /\ KeysKeepTheirTerm /\ RevokedAreOut

AccountsInv == TypeOK /\ TasksInv /\ TermsKept

(***************************************************************************)
(* What a step of one task does to the tasks.                              *)
(***************************************************************************)
Places == {"idle", "lookup", "store", "find", "discard", "match", "touch", "owner"}

LEMMA StepMoves ==
  ASSUME TypeOK, NEW p \in Procs, NEW place \in Places, NEW row \in RefreshRows \cup KeyRows,
         Step(p, place, row)
  PROVE  /\ pc'[p] = place /\ held'[p] = row
         /\ \A q \in Procs \ {p} : pc'[q] = pc[q] /\ held'[q] = held[q]
         /\ UNCHANGED <<req, late, granted>>
         /\ pc' \in [Procs -> Places]
         /\ held' \in [Procs -> RefreshRows \cup KeyRows \cup {None}]
BY DEF Step, TypeOK, Places

LEMMA AnswerMoves ==
  ASSUME TypeOK, NEW p \in Procs, Answer(p)
  PROVE  /\ pc'[p] = "idle" /\ late'[p] = FALSE
         /\ \A q \in Procs \ {p} : /\ pc'[q] = pc[q] /\ held'[q] = held[q]
                                   /\ req'[q] = req[q] /\ late'[q] = late[q]
         /\ pc' \in [Procs -> Places]
         /\ held' \in [Procs -> RefreshRows \cup KeyRows \cup {None}]
         /\ req' \in [Procs -> Requests \cup {NoRequest}] /\ late' \in [Procs -> BOOLEAN]
BY DEF Answer, TypeOK, Places

(***************************************************************************)
(* Time passes, secrets are drawn and keys are revoked, and none of it is  *)
(* taken back.                                                             *)
(***************************************************************************)
Forward ==
  /\ now' \in Nat /\ now <= now' /\ revoked \subseteq revoked'
  /\ Drawn \subseteq Drawn' /\ \A s \in Drawn : deadline'[s] = deadline[s]

LEMMA LateStays ==
  ASSUME TypeOK, Forward, NEW r, Late(r)
  PROVE  Late(r)'
<1>1. \A s : PastDeadline(s) => PastDeadline(s)'
  <2>1. \A s \in Drawn : deadline[s] # None => deadline[s] \in Nat
    BY DEF TypeOK
  <2> QED
    BY <2>1 DEF TypeOK, Forward, PastDeadline
<1> QED
  BY <1>1 DEF Late, Forward

LEMMA OthersKeep ==
  ASSUME TypeOK, Forward, NEW q \in Procs, PlaceOK(q), HoldsTerm(q), StillLate(q),
         pc'[q] = pc[q], held'[q] = held[q], req'[q] = req[q], late'[q] = late[q]
  PROVE  PlaceOK(q)' /\ HoldsTerm(q)' /\ StillLate(q)'
<1>1. PlaceOK(q)'
  BY DEF PlaceOK, Forward
<1>2. HoldsTerm(q)'
  <2>1. pc[q] = "discard" => held[q].expires \in Nat
    BY DEF PlaceOK, RefreshRows
  <2> QED
    BY <2>1 DEF HoldsTerm, PlaceOK, Forward, TypeOK
<1>3. StillLate(q)'
  <2>1. Late(req[q]) => Late(req[q])'
    BY LateStays
  <2> QED
    BY <2>1 DEF StillLate
<1> QED
  BY <1>1, <1>2, <1>3

(***************************************************************************)
(* A statement leaves the history alone, or draws a secret.                *)
(***************************************************************************)
LEMMA HistoryStays ==
  ASSUME TypeOK, UNCHANGED <<now, history>>
  PROVE  Forward
BY DEF TypeOK, Forward, history, Drawn

LEMMA SecretDrawn ==
  ASSUME TypeOK, NEW s \in Keys \cup Refreshes, s \notin Drawn, NEW end \in Nat \cup {None},
         deadline' = WithRow(deadline, s, end), UNCHANGED <<now, revoked>>
  PROVE  /\ Forward /\ Drawn' = Drawn \cup {s} /\ deadline'[s] = end
         /\ Drawn' \subseteq Keys \cup Refreshes /\ deadline' \in [Drawn' -> Nat \cup {None}]
BY DEF TypeOK, Forward, Drawn, WithRow

(***************************************************************************)
(* A step of p keeps the invariant of all tasks if p keeps its own.        *)
(***************************************************************************)
LEMMA StepKeepsTasks ==
  ASSUME AccountsInv, Forward, NEW p \in Procs, NEW place \in Places,
         NEW row \in RefreshRows \cup KeyRows, Step(p, place, row),
         PlaceOK(p)', HoldsTerm(p)', StillLate(p)'
  PROVE  TasksInv'
<1>1. TypeOK /\ TasksInv
  BY DEF AccountsInv
<1>2. ASSUME NEW q \in Procs \ {p}
      PROVE  PlaceOK(q)' /\ HoldsTerm(q)' /\ StillLate(q)'
  <2>1. PlaceOK(q) /\ HoldsTerm(q) /\ StillLate(q)
    BY <1>1 DEF TasksInv
  <2>2. pc'[q] = pc[q] /\ held'[q] = held[q] /\ req'[q] = req[q] /\ late'[q] = late[q]
    BY <1>1, StepMoves
  <2> QED
    BY <1>1, <2>1, <2>2, OthersKeep
<1> QED
  BY <1>2 DEF TasksInv

LEMMA AnswerKeepsTasks ==
  ASSUME AccountsInv, Forward, NEW p \in Procs, Answer(p)
  PROVE  TasksInv'
<1>1. TypeOK /\ TasksInv
  BY DEF AccountsInv
<1>2. ASSUME NEW q \in Procs \ {p}
      PROVE  PlaceOK(q)' /\ HoldsTerm(q)' /\ StillLate(q)'
  <2>1. PlaceOK(q) /\ HoldsTerm(q) /\ StillLate(q)
    BY <1>1 DEF TasksInv
  <2>2. pc'[q] = pc[q] /\ held'[q] = held[q] /\ req'[q] = req[q] /\ late'[q] = late[q]
    BY <1>1, AnswerMoves
  <2> QED
    BY <1>1, <2>1, <2>2, OthersKeep
<1>3. PlaceOK(p)' /\ HoldsTerm(p)' /\ StillLate(p)'
  BY <1>1, AnswerMoves DEF PlaceOK, HoldsTerm, StillLate
<1> QED
  BY <1>2, <1>3 DEF TasksInv

LEMMA NoTaskKeepsTasks ==
  ASSUME AccountsInv, Forward, UNCHANGED <<pc, req, held, late>>
  PROVE  TasksInv'
<1> SUFFICES ASSUME NEW q \in Procs
             PROVE  PlaceOK(q)' /\ HoldsTerm(q)' /\ StillLate(q)'
  BY DEF TasksInv
<1>1. TypeOK /\ PlaceOK(q) /\ HoldsTerm(q) /\ StillLate(q)
  BY DEF AccountsInv, TasksInv
<1> QED
  BY <1>1, OthersKeep

(***************************************************************************)
(* Rows and revocations that stay as they are keep their terms.            *)
(***************************************************************************)
LEMMA TermsStay ==
  ASSUME AccountsInv, Forward, UNCHANGED <<keys, refreshes, revoked>>
  PROVE  TermsKept'
<1>1. /\ DOMAIN keys \subseteq Drawn /\ DOMAIN refreshes \subseteq Drawn
      /\ TermsKept
  BY DEF AccountsInv, TypeOK
<1>2. TokensKeepTheirTerm' /\ RevokedAreOut'
  BY <1>1 DEF TermsKept, TokensKeepTheirTerm, RevokedAreOut, Forward
<1>3. KeysKeepTheirTerm'
  BY <1>1 DEF TermsKept, KeysKeepTheirTerm, Forward
<1> QED
  BY <1>2, <1>3 DEF TermsKept

(***************************************************************************)
(* Either way a task leaves the variables of the tasks typed.              *)
(***************************************************************************)
TasksTyped ==
  /\ pc \in [Procs -> Places] /\ req \in [Procs -> Requests \cup {NoRequest}]
  /\ held \in [Procs -> RefreshRows \cup KeyRows \cup {None}] /\ late \in [Procs -> BOOLEAN]

LEMMA MovesTyped ==
  ASSUME TypeOK, NEW p \in Procs,
         Answer(p) \/ \E place \in Places, row \in RefreshRows \cup KeyRows : Step(p, place, row)
  PROVE  TasksTyped'
BY StepMoves, AnswerMoves DEF TypeOK, TasksTyped, Places

(***************************************************************************)
(* A request that ends changes tables and counts only as its caller says.  *)
(***************************************************************************)
LEMMA EndsTyped ==
  ASSUME TypeOK, NEW p \in Procs, TurnAway(p) \/ Grant(p)
  PROVE  Answer(p) /\ TasksTyped' /\ granted' \in Nat
<1>1. granted \in Nat
  BY DEF TypeOK
<1> QED
  BY <1>1, MovesTyped DEF TurnAway, Grant

-----------------------------------------------------------------------------
LEMMA AccountsInitInv == Init => AccountsInv
<1> SUFFICES ASSUME Init PROVE AccountsInv
  OBVIOUS
<1>1. TypeOK
  BY DEF Init, TypeOK, Drawn
<1>2. TasksInv
  BY DEF Init, TasksInv, PlaceOK, HoldsTerm, StillLate
<1>3. TermsKept
  BY DEF Init, TermsKept, TokensKeepTheirTerm, KeysKeepTheirTerm, RevokedAreOut
<1> QED
  BY <1>1, <1>2, <1>3 DEF AccountsInv

LEMMA RegisterInv ==
  ASSUME AccountsInv, NEW u \in Users, NEW name \in Names, Register(u, name)
  PROVE  AccountsInv'
<1>1. TypeOK /\ UNCHANGED <<now, keys, refreshes, pc, req, held, begun, failures, granted, late, history>>
  BY DEF AccountsInv, Register, NoTask
<1>2. DOMAIN users' \subseteq Users /\ users' \in [DOMAIN users' -> Names]
  BY <1>1 DEF Register, CreateUser, WithRow, TypeOK
<1>3. TypeOK'
  BY <1>1, <1>2 DEF TypeOK, history, Drawn
<1>4. Forward
  BY <1>1, HistoryStays
<1>5. TasksInv' /\ TermsKept'
  BY <1>1, <1>4, NoTaskKeepsTasks, TermsStay DEF history
<1> QED
  BY <1>3, <1>5 DEF AccountsInv

(***************************************************************************)
(* The cast can only shorten a term: what it changes, it makes negative.   *)
(***************************************************************************)
LEMMA CastShortens ==
  ASSUME NEW asked \in Asks
  PROVE  asked \in Nat /\ AsI64(asked) \in Int /\ AsI64(asked) <= asked
<1>1. asked \in Nat /\ Half \in Nat
  BY NumbersAssumption
<1> QED
  BY <1>1 DEF AsI64

LEMMA CreateKeyInv ==
  ASSUME AccountsInv, NEW k \in Keys, NEW caller \in Callers, NEW asked \in Asks \cup {None},
         CreateKey(k, caller, asked)
  PROVE  AccountsInv'
<1> DEFINE end == IF asked = None THEN None ELSE now + asked
           row == [owner |-> caller, expires |-> Expiry(asked), touched |-> FALSE]
<1>1. /\ TypeOK /\ now \in Nat /\ k \notin Drawn
      /\ UNCHANGED <<now, users, refreshes, pc, req, held, begun, failures, granted, late, revoked>>
      /\ keys' = WithRow(keys, k, row) /\ deadline' = WithRow(deadline, k, end)
  BY DEF AccountsInv, TypeOK, CreateKey, CreateApiKey, NoTask
<1>2. /\ end \in Nat \cup {None} /\ row \in KeyRows
      /\ end # None => row.expires # None /\ row.expires <= end
  <2>1. CASE asked = None
    BY <2>1 DEF KeyRows, Expiry
  <2>2. CASE asked # None
    <3>1. asked \in Asks /\ asked \in Nat /\ AsI64(asked) \in Int /\ AsI64(asked) <= asked
      BY <2>2, CastShortens
    <3>2. Expiry(asked) = now + AsI64(asked) /\ Expiry(asked) \in Int /\ end = now + asked
      BY <1>1, <2>2, <3>1 DEF Expiry
    <3>3. None \notin Int
      BY CallerAssumption
    <3> QED
      BY <1>1, <3>1, <3>2, <3>3 DEF KeyRows
  <2> QED
    BY <2>1, <2>2
<1> HIDE DEF end, row
<1>3. /\ Forward /\ Drawn' = Drawn \cup {k} /\ deadline'[k] = end
      /\ Drawn' \subseteq Keys \cup Refreshes /\ deadline' \in [Drawn' -> Nat \cup {None}]
  BY <1>1, <1>2, SecretDrawn
<1>4. /\ DOMAIN keys' = DOMAIN keys \cup {k} /\ keys'[k] = row
      /\ \A x \in DOMAIN keys : keys'[x] = keys[x]
      /\ keys' \in [DOMAIN keys' -> KeyRows]
      /\ DOMAIN keys \subseteq Drawn /\ DOMAIN refreshes \subseteq Drawn
  BY <1>1, <1>2 DEF WithRow, TypeOK
<1>5. TypeOK'
  BY <1>1, <1>3, <1>4 DEF TypeOK
<1>6. TasksInv'
  BY <1>1, <1>3, NoTaskKeepsTasks
<1>7. TermsKept'
  <2>1. TermsKept
    BY DEF AccountsInv
  <2>2. TokensKeepTheirTerm'
    BY <1>1, <1>3, <1>4, <2>1 DEF TermsKept, TokensKeepTheirTerm, Forward
  <2>3. KeysKeepTheirTerm'
    BY <1>2, <1>3, <1>4, <2>1 DEF TermsKept, KeysKeepTheirTerm, Forward
  <2>4. RevokedAreOut'
    BY <1>1, <1>3, <1>4, <2>1 DEF TermsKept, RevokedAreOut
  <2> QED
    BY <2>2, <2>3, <2>4 DEF TermsKept
<1> QED
  BY <1>5, <1>6, <1>7 DEF AccountsInv

LEMMA RevokeKeyInv ==
  ASSUME AccountsInv, NEW k \in Keys, NEW caller \in Callers, RevokeKey(k, caller)
  PROVE  AccountsInv'
<1>1. /\ TypeOK /\ TermsKept /\ k \in DOMAIN keys /\ DeleteApiKey(k, caller)
      /\ revoked' = IF keys' = keys THEN revoked ELSE revoked \cup {<<k, caller>>}
      /\ UNCHANGED <<now, users, refreshes, pc, req, held, begun, failures, granted, late, deadline>>
  BY DEF AccountsInv, RevokeKey, NoTask
<1>2. Drawn' = Drawn /\ keys \in [DOMAIN keys -> KeyRows] /\ DOMAIN keys \subseteq Keys \cap Drawn
  BY <1>1 DEF TypeOK, Drawn
<1>3. /\ DOMAIN keys' \subseteq DOMAIN keys /\ \A x \in DOMAIN keys' : keys'[x] = keys[x]
      /\ keys' \in [DOMAIN keys' -> KeyRows]
      /\ \/ keys' = keys /\ revoked' = revoked
         \/ k \notin DOMAIN keys' /\ revoked' = revoked \cup {<<k, caller>>}
  <2>1. CASE keys[k].owner = caller
    BY <1>1, <1>2, <2>1 DEF DeleteApiKey
  <2>2. CASE keys[k].owner # caller
    <3>1. keys' = keys
      BY <1>1, <1>2, <2>2 DEF DeleteApiKey
    <3> QED
      BY <1>1, <1>2, <3>1
  <2> QED
    BY <2>1, <2>2
<1>4. Forward
  BY <1>1, <1>2, <1>3 DEF Forward, TypeOK
<1>5. TypeOK'
  BY <1>1, <1>2, <1>3 DEF TypeOK
<1>6. TasksInv'
  BY <1>1, <1>4, NoTaskKeepsTasks
<1>7. TermsKept'
  BY <1>1, <1>2, <1>3 DEF TermsKept, TokensKeepTheirTerm, KeysKeepTheirTerm, RevokedAreOut
<1> QED
  BY <1>5, <1>6, <1>7 DEF AccountsInv

(***************************************************************************)
(* A request begins.  It is late only if it presents a credential.         *)
(***************************************************************************)
LEMMA BeginInv ==
  ASSUME AccountsInv, NEW p \in Procs, NEW r \in Requests, Begin(p, r)
  PROVE  AccountsInv'
<1>1. /\ TypeOK /\ TasksInv /\ begun \in Nat /\ begun' = begun + 1
      /\ UNCHANGED <<now, users, keys, refreshes, held, failures, granted, deadline, revoked>>
      /\ pc' = [pc EXCEPT ![p] = FirstPlace(r.op)] /\ req' = [req EXCEPT ![p] = r]
      /\ late' = [late EXCEPT ![p] = Late(r)]
  BY DEF AccountsInv, TypeOK, Begin, tables, history
<1>2. Late(r) \in BOOLEAN /\ (Late(r) => r.op \in {"validate", "refresh"})
  BY DEF Late, PastDeadline
<1>3. \/ r.op = "login" /\ FirstPlace(r.op) = "lookup"
      \/ r.op = "refresh" /\ FirstPlace(r.op) = "find"
      \/ r.op = "validate" /\ FirstPlace(r.op) = "match"
  BY DEF Requests, FirstPlace
<1>4. /\ pc'[p] = FirstPlace(r.op) /\ req'[p] = r /\ late'[p] = Late(r)
      /\ \A q \in Procs \ {p} : pc'[q] = pc[q] /\ req'[q] = req[q] /\ late'[q] = late[q]
  BY <1>1 DEF TypeOK
<1>5. TypeOK'
  BY <1>1, <1>2, <1>3 DEF TypeOK, Drawn
<1>6. Forward
  BY <1>1, HistoryStays DEF history
<1>7. TasksInv'
  <2>1. ASSUME NEW q \in Procs \ {p}
        PROVE  PlaceOK(q)' /\ HoldsTerm(q)' /\ StillLate(q)'
    <3>1. PlaceOK(q) /\ HoldsTerm(q) /\ StillLate(q)
      BY <1>1 DEF TasksInv
    <3> QED
      BY <1>1, <1>4, <1>6, <3>1, OthersKeep
  <2>2. PlaceOK(p)' /\ HoldsTerm(p)'
    BY <1>3, <1>4 DEF PlaceOK, HoldsTerm
  <2>3. StillLate(p)'
    <3>1. Late(r)' <=> Late(r)
      BY <1>1 DEF Late, PastDeadline, Drawn
    <3> QED
      BY <1>2, <1>3, <1>4, <3>1 DEF StillLate
  <2> QED
    BY <2>1, <2>2, <2>3 DEF TasksInv
<1>8. TermsKept'
  BY <1>1, <1>6, TermsStay
<1> QED
  BY <1>5, <1>7, <1>8 DEF AccountsInv

(***************************************************************************)
(* The refresh token drawn at login is new, and bears its term from there. *)
(***************************************************************************)
LEMMA LookupInv ==
  ASSUME AccountsInv, NEW p \in Procs, Lookup(p)
  PROVE  AccountsInv'
<1>1. /\ TypeOK /\ now \in Nat /\ PlaceOK(p) /\ StillLate(p) /\ pc[p] = "lookup"
      /\ UNCHANGED <<now, users, keys, refreshes, begun, failures, revoked>>
  BY DEF AccountsInv, TypeOK, TasksInv, Lookup, tables
<1>2. ASSUME NEW u \in DOMAIN users, NEW r \in Refreshes \ Drawn,
             Step(p, "store", [id |-> r, owner |-> u, expires |-> now + RefreshTTL]),
             deadline' = WithRow(deadline, r, now + RefreshTTL)
      PROVE  AccountsInv'
  <2> DEFINE row == [id |-> r, owner |-> u, expires |-> now + RefreshTTL]
  <2>1. now + RefreshTTL \in Nat
    BY <1>1, NumbersAssumption
  <2>2. row \in RefreshRows /\ row.id = r /\ row.expires = now + RefreshTTL
    BY <1>1, <2>1 DEF RefreshRows, TypeOK
  <2>3. Step(p, "store", row)
    BY <1>2
  <2> HIDE DEF row
  <2>4. /\ Forward /\ Drawn' = Drawn \cup {r} /\ deadline'[r] = now + RefreshTTL
        /\ Drawn' \subseteq Keys \cup Refreshes /\ deadline' \in [Drawn' -> Nat \cup {None}]
    BY <1>1, <1>2, <2>1, SecretDrawn
  <2>5. pc'[p] = "store" /\ held'[p] = row /\ UNCHANGED <<req, late, granted>>
    BY <1>1, <2>2, <2>3, StepMoves DEF Places
  <2>6. TasksTyped'
    BY <1>1, <2>2, <2>3, MovesTyped DEF Places
  <2>7. TypeOK'
    BY <1>1, <2>4, <2>5, <2>6 DEF TypeOK, TasksTyped, Places
  <2>8. PlaceOK(p)' /\ HoldsTerm(p)' /\ StillLate(p)'
    BY <1>1, <2>2, <2>4, <2>5 DEF PlaceOK, HoldsTerm, StillLate
  <2>9. TasksInv'
    BY <2>2, <2>3, <2>4, <2>8, StepKeepsTasks DEF Places
  <2>10. TermsKept'
    BY <1>1, <2>4, TermsStay
  <2> QED
    BY <2>7, <2>9, <2>10 DEF AccountsInv
<1>3. ASSUME TurnAway(p), UNCHANGED deadline
      PROVE  AccountsInv'
  <2>1. Answer(p) /\ TasksTyped' /\ granted' \in Nat
    BY <1>1, <1>3, EndsTyped
  <2>2. Forward
    BY <1>1, <1>3, HistoryStays DEF history
  <2>3. TypeOK'
    BY <1>1, <1>3, <2>1 DEF TypeOK, TasksTyped, Places, Drawn
  <2>4. TasksInv' /\ TermsKept'
    BY <1>1, <2>1, <2>2, AnswerKeepsTasks, TermsStay
  <2> QED
    BY <2>3, <2>4 DEF AccountsInv
<1> QED
  BY <1>2, <1>3 DEF Lookup

LEMMA StoreInv ==
  ASSUME AccountsInv, NEW p \in Procs, Store(p)
  PROVE  AccountsInv'
<1>1. /\ TypeOK /\ TermsKept /\ PlaceOK(p) /\ HoldsTerm(p) /\ pc[p] = "store" /\ Grant(p)
      /\ refreshes' = WithRow(refreshes, held[p].id, held[p])
      /\ UNCHANGED <<now, users, keys, begun, failures, deadline, revoked>>
  BY DEF AccountsInv, TasksInv, Store, CreateRefreshToken, history
<1>2. Answer(p) /\ TasksTyped' /\ granted' \in Nat
  BY <1>1, EndsTyped
<1>3. held[p] \in RefreshRows /\ held[p].id \in Refreshes \cap Drawn
      /\ held[p].expires = deadline[held[p].id]
  BY <1>1 DEF PlaceOK, HoldsTerm, RefreshRows
<1>4. /\ DOMAIN refreshes' = DOMAIN refreshes \cup {held[p].id} /\ refreshes'[held[p].id] = held[p]
      /\ \A x \in DOMAIN refreshes \ {held[p].id} : refreshes'[x] = refreshes[x]
      /\ refreshes' \in [DOMAIN refreshes' -> RefreshRows]
  BY <1>1, <1>3 DEF WithRow, TypeOK
<1>5. TypeOK'
  BY <1>1, <1>2, <1>3, <1>4 DEF TypeOK, TasksTyped, Places, Drawn
<1>6. Forward
  BY <1>1, HistoryStays DEF history
<1>7. TasksInv'
  BY <1>2, <1>6, AnswerKeepsTasks
<1>8. TermsKept'
  BY <1>1, <1>3, <1>4 DEF TermsKept, TokensKeepTheirTerm, KeysKeepTheirTerm, RevokedAreOut, Drawn
<1> QED
  BY <1>5, <1>7, <1>8 DEF AccountsInv

(***************************************************************************)
(* A late refresh finds its token expired, and goes to discard it.         *)
(***************************************************************************)
LEMMA FindInv ==
  ASSUME AccountsInv, NEW p \in Procs, Find(p)
  PROVE  AccountsInv'
<1>1. /\ TypeOK /\ TermsKept /\ PlaceOK(p) /\ StillLate(p) /\ pc[p] = "find"
      /\ now \in Nat /\ UNCHANGED <<now, users, keys, refreshes, begun, failures, deadline, revoked>>
  BY DEF AccountsInv, TypeOK, TasksInv, Find, tables, history
<1>2. Forward
  BY <1>1, HistoryStays DEF history
<1>3. TermsKept'
  BY <1>1, <1>2, TermsStay
<1>4. CASE req[p].token \in DOMAIN refreshes
  <2> DEFINE row == refreshes[req[p].token]
             place == IF row.expires < now THEN "discard" ELSE "owner"
  <2>1. Step(p, place, row)
    BY <1>4 DEF Find
  <2>2. /\ row \in RefreshRows /\ row.id = req[p].token /\ row.expires = deadline[row.id]
        /\ row.id \in Drawn /\ row.expires \in Nat
    BY <1>1, <1>4 DEF TypeOK, TermsKept, TokensKeepTheirTerm, RefreshRows
  <2>3. /\ place \in {"discard", "owner"}
        /\ place = "discard" => row.expires < now
        /\ row.expires < now => place = "discard"
    OBVIOUS
  <2> HIDE DEF row, place
  <2>4. pc'[p] = place /\ held'[p] = row /\ UNCHANGED <<req, late, granted>>
    BY <1>1, <2>1, <2>2, <2>3, StepMoves DEF Places
  <2>5. TasksTyped'
    BY <1>1, <2>1, <2>2, <2>3, MovesTyped DEF Places
  <2>6. TypeOK'
    BY <1>1, <2>4, <2>5 DEF TypeOK, TasksTyped, Places, Drawn
  <2>7. PlaceOK(p)' /\ HoldsTerm(p)'
    BY <1>1, <2>2, <2>3, <2>4 DEF PlaceOK, HoldsTerm, Drawn
  <2>8. StillLate(p)'
    <3>1. ASSUME late[p] PROVE place = "discard" /\ Late(req[p])
      BY <1>1, <2>2, <2>3, <3>1 DEF StillLate, PlaceOK, Late, PastDeadline
    <3>2. ASSUME late[p] PROVE Late(req[p])'
      <4>1. Late(req[p]) /\ req'[p] = req[p]
        BY <2>4, <3>1, <3>2
      <4> QED
        BY <1>1, <1>2, <4>1, LateStays
    <3> QED
      BY <2>4, <3>1, <3>2 DEF StillLate
  <2>9. TasksInv'
    BY <1>2, <2>1, <2>2, <2>3, <2>7, <2>8, StepKeepsTasks DEF Places
  <2> QED
    BY <1>3, <2>6, <2>9 DEF AccountsInv
<1>5. CASE req[p].token \notin DOMAIN refreshes
  <2>1. Answer(p) /\ TasksTyped' /\ granted' \in Nat
    BY <1>1, <1>5, EndsTyped DEF Find
  <2>2. TypeOK'
    BY <1>1, <2>1 DEF TypeOK, TasksTyped, Places, Drawn
  <2>3. TasksInv'
    BY <1>2, <2>1, AnswerKeepsTasks
  <2> QED
    BY <1>3, <2>2, <2>3 DEF AccountsInv
<1> QED
  BY <1>4, <1>5

LEMMA DiscardInv ==
  ASSUME AccountsInv, NEW p \in Procs, Discard(p)
  PROVE  AccountsInv'
<1>1. /\ TypeOK /\ TermsKept /\ TurnAway(p)
      /\ refreshes' = [x \in DOMAIN refreshes \ {held[p].id} |-> refreshes[x]]
      /\ UNCHANGED <<now, users, keys, begun, failures, deadline, revoked>>
  BY DEF AccountsInv, Discard, DeleteRefreshToken, history
<1>2. Answer(p) /\ TasksTyped' /\ granted' \in Nat
  BY <1>1, EndsTyped
<1>3. TypeOK'
  BY <1>1, <1>2 DEF TypeOK, TasksTyped, Places, Drawn
<1>4. Forward
  BY <1>1, HistoryStays DEF history
<1>5. TasksInv'
  BY <1>2, <1>4, AnswerKeepsTasks
<1>6. TermsKept'
  BY <1>1 DEF TermsKept, TokensKeepTheirTerm, KeysKeepTheirTerm, RevokedAreOut, Drawn
<1> QED
  BY <1>3, <1>5, <1>6 DEF AccountsInv

(***************************************************************************)
(* A late validation finds its key gone, or past its term.                 *)
(***************************************************************************)
LEMMA MatchInv ==
  ASSUME AccountsInv, NEW p \in Procs, Match(p)
  PROVE  AccountsInv'
<1>1. /\ TypeOK /\ TermsKept /\ PlaceOK(p) /\ StillLate(p) /\ pc[p] = "match"
      /\ now \in Nat /\ UNCHANGED <<now, users, keys, refreshes, begun, failures, deadline, revoked>>
  BY DEF AccountsInv, TypeOK, TasksInv, Match, tables, history
<1>2. Forward
  BY <1>1, HistoryStays DEF history
<1>3. TermsKept'
  BY <1>1, <1>2, TermsStay
<1>4. ASSUME req[p].key \in DOMAIN keys, Serves(keys[req[p].key])
      PROVE  AccountsInv'
  <2> DEFINE row == keys[req[p].key]
  <2>1. Step(p, "touch", row) /\ row \in KeyRows
    BY <1>1, <1>4 DEF Match, TypeOK
  <2>2. ~late[p]
    <3>1. req[p].op = "validate" /\ req[p].key \in Keys
      BY <1>1, <1>4 DEF PlaceOK, TypeOK
    <3>2. \A c \in Callers : <<req[p].key, c>> \notin revoked
      BY <1>1, <1>4, <3>1 DEF TermsKept, RevokedAreOut
    <3>3. ~PastDeadline(req[p].key)
      <4>1. row.expires \in Int \cup {None} /\ deadline[req[p].key] \in Nat \cup {None}
        BY <1>1, <1>4, <2>1 DEF KeyRows, TypeOK
      <4> QED
        BY <1>1, <1>4, <4>1, CallerAssumption
        DEF PastDeadline, Serves, TermsKept, KeysKeepTheirTerm
    <3> QED
      BY <1>1, <3>1, <3>2, <3>3 DEF StillLate, Late
  <2> HIDE DEF row
  <2>3. pc'[p] = "touch" /\ held'[p] = row /\ UNCHANGED <<req, late, granted>>
    BY <1>1, <2>1, StepMoves DEF Places
  <2>4. TasksTyped'
    BY <1>1, <2>1, MovesTyped DEF Places
  <2>5. TypeOK'
    BY <1>1, <2>3, <2>4 DEF TypeOK, TasksTyped, Places, Drawn
  <2>6. PlaceOK(p)' /\ HoldsTerm(p)' /\ StillLate(p)'
    BY <1>1, <2>1, <2>2, <2>3 DEF PlaceOK, HoldsTerm, StillLate
  <2>7. TasksInv'
    BY <1>2, <2>1, <2>6, StepKeepsTasks DEF Places
  <2> QED
    BY <1>3, <2>5, <2>7 DEF AccountsInv
<1>5. ASSUME TurnAway(p)
      PROVE  AccountsInv'
  <2>1. Answer(p) /\ TasksTyped' /\ granted' \in Nat
    BY <1>1, <1>5, EndsTyped
  <2>2. TypeOK'
    BY <1>1, <2>1 DEF TypeOK, TasksTyped, Places, Drawn
  <2>3. TasksInv'
    BY <1>2, <2>1, AnswerKeepsTasks
  <2> QED
    BY <1>3, <2>2, <2>3 DEF AccountsInv
<1> QED
  BY <1>4, <1>5 DEF Match

(***************************************************************************)
(* A task that has noted a use, or failed to, has only its user to read.   *)
(***************************************************************************)
LEMMA ToOwnerTasks ==
  ASSUME AccountsInv, Forward, NEW p \in Procs, pc[p] = "touch", Step(p, "owner", held[p])
  PROVE  TasksInv' /\ TasksTyped' /\ UNCHANGED granted
<1>1. TypeOK /\ PlaceOK(p) /\ StillLate(p) /\ held[p] \in KeyRows
  BY DEF AccountsInv, TasksInv, PlaceOK
<1>2. pc'[p] = "owner" /\ held'[p] = held[p] /\ UNCHANGED <<req, late, granted>>
  BY <1>1, StepMoves DEF Places
<1>3. PlaceOK(p)' /\ HoldsTerm(p)' /\ StillLate(p)'
  BY <1>1, <1>2 DEF PlaceOK, HoldsTerm, StillLate
<1>4. TasksInv'
  BY <1>1, <1>3, StepKeepsTasks DEF Places
<1> QED
  BY <1>1, <1>2, <1>4, MovesTyped DEF Places

LEMMA TouchInv ==
  ASSUME AccountsInv, NEW p \in Procs, Touch(p)
  PROVE  AccountsInv'
<1>1. /\ TypeOK /\ TermsKept /\ pc[p] = "touch" /\ Step(p, "owner", held[p])
      /\ TouchApiKey(req[p].key, held[p])
      /\ UNCHANGED <<now, users, refreshes, begun, failures, deadline, revoked>>
  BY DEF AccountsInv, Touch, history
<1>2. Forward
  BY <1>1, HistoryStays DEF history
<1>3. TasksInv' /\ TasksTyped' /\ UNCHANGED granted
  BY <1>1, <1>2, ToOwnerTasks
<1>4. /\ DOMAIN keys' = DOMAIN keys /\ keys' \in [DOMAIN keys -> KeyRows]
      /\ \A x \in DOMAIN keys : keys'[x].expires = keys[x].expires
  <2>1. \A x \in DOMAIN keys : /\ keys[x] \in KeyRows /\ [keys[x] EXCEPT !.touched = TRUE] \in KeyRows
                               /\ [keys[x] EXCEPT !.touched = TRUE].expires = keys[x].expires
    BY <1>1 DEF TypeOK, KeyRows
  <2> QED
    BY <1>1, <2>1 DEF TouchApiKey
<1>5. TypeOK'
  BY <1>1, <1>3, <1>4 DEF TypeOK, TasksTyped, Places, Drawn
<1>6. TermsKept'
  BY <1>1, <1>4 DEF TermsKept, TokensKeepTheirTerm, KeysKeepTheirTerm, RevokedAreOut, Drawn
<1> QED
  BY <1>3, <1>5, <1>6 DEF AccountsInv

LEMMA OwnerInv ==
  ASSUME AccountsInv, NEW p \in Procs, Owner(p)
  PROVE  AccountsInv'
<1>1. /\ TypeOK /\ (Grant(p) \/ TurnAway(p))
      /\ UNCHANGED <<now, users, keys, refreshes, begun, failures, deadline, revoked>>
  BY DEF AccountsInv, Owner, tables, history
<1>2. Answer(p) /\ TasksTyped' /\ granted' \in Nat
  BY <1>1, EndsTyped
<1>3. Forward
  BY <1>1, HistoryStays DEF history
<1>4. TypeOK'
  BY <1>1, <1>2 DEF TypeOK, TasksTyped, Places, Drawn
<1> QED
  BY <1>1, <1>2, <1>3, <1>4, AnswerKeepsTasks, TermsStay DEF AccountsInv

LEMMA StatementFailsInv ==
  ASSUME AccountsInv, NEW p \in Procs, StatementFails(p)
  PROVE  AccountsInv'
<1>1. /\ TypeOK /\ failures \in Nat /\ failures' = failures + 1
      /\ UNCHANGED <<now, users, keys, refreshes, begun, deadline, revoked>>
      /\ IF pc[p] = "touch" THEN Step(p, "owner", held[p]) ELSE TurnAway(p)
  BY DEF AccountsInv, TypeOK, StatementFails, tables, history
<1>2. Forward
  BY <1>1, HistoryStays DEF history
<1>3. TasksInv' /\ TasksTyped' /\ granted' \in Nat
  <2>1. CASE pc[p] = "touch"
    BY <1>1, <1>2, <2>1, ToOwnerTasks DEF TypeOK
  <2>2. CASE pc[p] # "touch"
    BY <1>1, <1>2, <2>2, EndsTyped, AnswerKeepsTasks
  <2> QED
    BY <2>1, <2>2
<1>4. TypeOK'
  BY <1>1, <1>3 DEF TypeOK, TasksTyped, Places, Drawn
<1> QED
  BY <1>1, <1>2, <1>3, <1>4, TermsStay DEF AccountsInv

LEMMA TickInv ==
  ASSUME AccountsInv, Tick
  PROVE  AccountsInv'
<1>1. /\ TypeOK /\ now \in Nat /\ now' = now + 1
      /\ UNCHANGED <<users, keys, refreshes, pc, req, held, begun, failures, granted, late,
                     deadline, revoked>>
  BY DEF AccountsInv, TypeOK, Tick, tables, history
<1>2. Forward
  BY <1>1 DEF Forward, Drawn
<1>3. TypeOK'
  BY <1>1 DEF TypeOK, Drawn
<1> QED
  BY <1>1, <1>2, <1>3, NoTaskKeepsTasks, TermsStay DEF AccountsInv

LEMMA AccountsNextInv == AccountsInv /\ [Next]_vars => AccountsInv'
<1> SUFFICES ASSUME AccountsInv, [Next]_vars PROVE AccountsInv'
  OBVIOUS
<1>1. CASE UNCHANGED vars
  <2>1. TypeOK' /\ Forward
    BY <1>1, HistoryStays DEF vars, history, AccountsInv, TypeOK, Drawn
  <2> QED
    BY <1>1, <2>1, NoTaskKeepsTasks, TermsStay DEF vars, AccountsInv
<1>2. ASSUME NEW p \in Procs, Serve(p) PROVE AccountsInv'
  BY <1>2, LookupInv, StoreInv, FindInv, DiscardInv, MatchInv, TouchInv, OwnerInv DEF Serve
<1> QED
  BY <1>1, <1>2, RegisterInv, CreateKeyInv, RevokeKeyInv, BeginInv, StatementFailsInv, TickInv
  DEF Next

LEMMA AccountsInvariance == Spec => []AccountsInv
BY AccountsInitInv, AccountsNextInv, PTL DEF Spec

-----------------------------------------------------------------------------
(***************************************************************************)
(* The tables and what the tasks hold keep their types (the tables of      *)
(* store/identity.rs, the handlers of hubs/identity.rs and auth.rs).       *)
(***************************************************************************)
THEOREM AccountsTypeCorrect == Spec => []TypeOK
<1>1. AccountsInv => TypeOK
  BY DEF AccountsInv
<1> QED
  BY <1>1, AccountsInvariance, PTL

(***************************************************************************)
(* A revoked key is never in the table again, whatever validations had     *)
(* read of it before (touch_api_key is an UPDATE: store/identity.rs).      *)
(***************************************************************************)
THEOREM RevokedKeysStayGone == Spec => []RevokedKeysAreGone
<1>1. AccountsInv => RevokedKeysAreGone
  BY DEF AccountsInv, TypeOK, TermsKept, RevokedAreOut, RevokedKeysAreGone, KeyRows
<1> QED
  BY <1>1, AccountsInvariance, PTL

(***************************************************************************)
(* No expires_in gives a key that lasts longer than was asked, for any     *)
(* width of integers and any bounds of chrono (create_api_key).            *)
(***************************************************************************)
THEOREM TermsAreKept == Spec => []KeysKeepTheirTerm
<1>1. AccountsInv => KeysKeepTheirTerm
  BY DEF AccountsInv, TermsKept
<1> QED
  BY <1>1, AccountsInvariance, PTL

(***************************************************************************)
(* Nobody is let in with a credential that was over when the request began *)
(* (refresh in hubs/identity.rs, try_api_key in auth.rs).                  *)
(***************************************************************************)
THEOREM LateCredentialsAreRefused == Spec => LateCredentialsRefused
<1>1. ASSUME AccountsInv, [Next]_vars, NEW p \in Procs, late[p], pc'[p] = "idle"
      PROVE  granted' = granted
  <2>1. /\ TypeOK /\ pc[p] \in {"find", "discard", "match"}
        /\ \A q \in Procs : late[q] => pc[q] \in {"find", "discard", "match"}
    BY <1>1 DEF AccountsInv, TasksInv, StillLate
  <2>2. ASSUME NEW q \in Procs, Store(q) \/ Owner(q) PROVE granted' = granted
    <3>1. q # p
      BY <2>1, <2>2 DEF Store, Owner
    <3>2. Answer(q)
      BY <2>2 DEF Store, Owner, Grant, TurnAway
    <3>3. pc'[p] = pc[p]
      BY <2>1, <3>1, <3>2 DEF Answer, TypeOK
    <3> QED
      BY <1>1, <2>1, <3>3
  <2>3. ASSUME NEW q \in Procs, Lookup(q) \/ Find(q) \/ Discard(q) \/ Match(q) \/ Touch(q)
        PROVE  granted' = granted
    BY <2>3 DEF Lookup, Find, Discard, Match, Touch, Step, TurnAway
  <2>4. ASSUME NEW q \in Procs, StatementFails(q) PROVE granted' = granted
    BY <2>4 DEF StatementFails, Step, TurnAway
  <2>5. ASSUME NEW q \in Procs, Serve(q) PROVE granted' = granted
    BY <2>2, <2>3, <2>5 DEF Serve
  <2> QED
    BY <1>1, <2>4, <2>5 DEF Next, vars, Register, CreateKey, RevokeKey, NoTask, Begin, Tick
<1>2. AccountsInv /\ [Next]_vars =>
        [\A p \in Procs : late[p] /\ pc'[p] = "idle" => granted' = granted]_vars
  BY <1>1
<1> QED
  BY <1>2, AccountsInvariance, PTL DEF Spec, LateCredentialsRefused

(***************************************************************************)
(* Credentials end in no other way: a key by its owner's revocation, a     *)
(* refresh token by being found expired (revoke_api_key and refresh in     *)
(* hubs/identity.rs).                                                      *)
(***************************************************************************)
THEOREM CredentialsEndInTime == Spec => CredentialsStay
<1> DEFINE Ends ==
      /\ \A k \in DOMAIN keys \ DOMAIN keys' : <<k, keys[k].owner>> \in revoked'
      /\ \A r \in DOMAIN refreshes \ DOMAIN refreshes' : refreshes[r].expires < now
<1>1. ASSUME AccountsInv, [Next]_vars PROVE [Ends]_vars
  <2>1. TypeOK /\ TasksInv /\ TermsKept
    BY <1>1 DEF AccountsInv
  <2>2. ASSUME NEW k \in Keys, NEW c \in Callers, RevokeKey(k, c) PROVE Ends
    <3>1. UNCHANGED refreshes
      BY <2>2 DEF RevokeKey
    <3>2. \A x \in DOMAIN keys \ DOMAIN keys' : x = k /\ keys[x].owner = c
      BY <2>2 DEF RevokeKey, DeleteApiKey
    <3>3. \A x \in DOMAIN keys \ DOMAIN keys' : <<x, keys[x].owner>> \in revoked'
      BY <2>2, <3>2 DEF RevokeKey
    <3> QED
      BY <3>1, <3>3
  <2>3. ASSUME NEW p \in Procs, Discard(p) PROVE Ends
    <3>1. UNCHANGED keys /\ HoldsTerm(p) /\ pc[p] = "discard"
      BY <2>1, <2>3 DEF Discard, TasksInv
    <3>2. \A r \in DOMAIN refreshes \ DOMAIN refreshes' : r = held[p].id
      BY <2>3 DEF Discard, DeleteRefreshToken
    <3>3. \A r \in DOMAIN refreshes \ DOMAIN refreshes' : refreshes[r].expires < now
      BY <2>1, <3>1, <3>2 DEF HoldsTerm, TermsKept, TokensKeepTheirTerm
    <3> QED
      BY <3>1, <3>3
  <2>4. ASSUME NEW p \in Procs, Store(p) PROVE Ends
    BY <2>4 DEF Store, CreateRefreshToken, WithRow
  <2>5. ASSUME NEW p \in Procs, Touch(p) PROVE Ends
    BY <2>5 DEF Touch, TouchApiKey
  <2>6. ASSUME NEW k \in Keys, NEW c \in Callers, NEW asked \in Asks \cup {None}, CreateKey(k, c, asked)
        PROVE  Ends
    BY <2>6 DEF CreateKey, CreateApiKey, WithRow
  <2>7. ASSUME UNCHANGED <<keys, refreshes>> PROVE Ends
    BY <2>7
  <2>8. ASSUME NEW p \in Procs, Lookup(p) \/ Find(p) \/ Match(p) \/ Owner(p) \/ StatementFails(p)
        PROVE  Ends
    BY <2>7, <2>8 DEF Lookup, Find, Match, Owner, StatementFails, tables
  <2>9. ASSUME NEW p \in Procs, Serve(p) PROVE Ends
    BY <2>3, <2>4, <2>5, <2>8, <2>9 DEF Serve
  <2>10. ASSUME \/ \E u \in Users, name \in Names : Register(u, name)
                \/ \E p \in Procs, r \in Requests : Begin(p, r)
                \/ Tick
         PROVE  Ends
    BY <2>7, <2>10 DEF Register, Begin, Tick, tables
  <2> HIDE DEF Ends
  <2> QED
    BY <1>1, <2>2, <2>6, <2>8, <2>9, <2>10 DEF Next
<1>2. AccountsInv /\ [Next]_vars => [Ends]_vars
  BY <1>1
<1> QED
  BY <1>2, AccountsInvariance, PTL DEF Spec, CredentialsStay
=============================================================================
