------------------------- MODULE SrpHandshake_proofs -------------------------
(***************************************************************************)
(* A session of the SRP login is used at most once by requests that follow *)
(* one another, late proofs are refused, and live handshakes are left      *)
(* alone: for any number of tasks and sessions, any time to live, any      *)
(* statements that fail and any restarts.                                  *)
(*                                                                         *)
(* The heart of it is that a session which srp_init has drawn and not yet  *)
(* stored is known to nobody: no task verifies it, and it is in no table.  *)
(* So an id that was used cannot be stored afterwards.                     *)
(***************************************************************************)
EXTENDS SrpHandshake, TLAPS

(***************************************************************************)
(* What a task at each place serves and holds.                             *)
(***************************************************************************)
PlaceOK(p) ==
  /\ pc[p] # "idle" => req[p] \in Requests
  /\ pc[p] \in {"identify", "insert"} => req[p].op = "init"
  /\ pc[p] \in {"find", "prove", "drop", "touch"} => req[p].op = "verify"
  /\ pc[p] = "insert" => held[p].row \in SessionRows /\ held[p].row.session \in drawn
  /\ pc[p] \in {"prove", "drop", "touch"} =>
       held[p].row \in SessionRows /\ req[p].session \in drawn

(***************************************************************************)
(* A session drawn and not yet stored is known to nobody.                  *)
(***************************************************************************)
Unknown(p) ==
  pc[p] = "insert" =>
    /\ held[p].row.session \notin DOMAIN sessions \cup used
    /\ \A q \in Procs :
         /\ pc[q] = "insert" /\ held[q].row.session = held[p].row.session => q = p
         /\ pc[q] \in {"prove", "drop", "touch"} => req[q].session # held[p].row.session

(***************************************************************************)
(* Without failures, a token follows the drop.                             *)
(***************************************************************************)
DroppedFirst ==
  failures = 0 =>
    /\ \A s \in Sessions : tokens[s] # 0 => s \in used
    /\ \A p \in Procs : pc[p] = "touch" => req[p].session \in used

(***************************************************************************)
(* A proof goes no further than the age check when it was late.            *)
(***************************************************************************)
InTime(p) ==
  /\ start[p].at <= now
  /\ start[p].late => /\ pc[p] \in {"sweep", "find"}
                      /\ req[p].op = "verify" /\ req[p].session \in used
  /\ pc[p] \in {"prove", "touch"} \/ (pc[p] = "drop" /\ held[p].good) =>
       start[p].at - held[p].row.created < (TTL + 1) * Second

TasksInv == \A p \in Procs : PlaceOK(p) /\ Unknown(p) /\ InTime(p)

SrpInv == TypeOK /\ TasksInv /\ used \subseteq drawn /\ UsedSessionsAreGone /\ DroppedFirst

(***************************************************************************)
(* An age that is not past the limit in whole seconds is short of one more.*)
(***************************************************************************)
LEMMA WholeSeconds ==
  ASSUME NEW age \in Nat, age \div Second <= TTL
  PROVE  age < (TTL + 1) * Second
<1>0. TTL \in Nat /\ Second \in Nat \ {0}
  BY ClockAssumption
<1>1. /\ age = Second * (age \div Second) + (age % Second)
      /\ age % Second < Second /\ age \div Second \in Int /\ age % Second \in Int
  BY <1>0
<1>2. Second * (age \div Second) <= Second * TTL
  BY <1>0, <1>1
<1> QED
  BY <1>0, <1>1, <1>2

(***************************************************************************)
(* What a step of one task does to the tasks.                              *)
(***************************************************************************)
Places == {"idle", "sweep", "identify", "insert", "find", "prove", "drop", "touch"}

LEMMA StepMoves ==
  ASSUME TypeOK, NEW p \in Procs, NEW place \in Places, NEW h \in Verdicts, Step(p, place, h)
  PROVE  /\ pc'[p] = place /\ held'[p] = h
         /\ \A q \in Procs \ {p} : pc'[q] = pc[q] /\ held'[q] = held[q]
         /\ UNCHANGED <<req, begun, start>>
         /\ pc' \in [Procs -> Places] /\ held' \in [Procs -> Verdicts]
BY DEF Step, TypeOK, Places

LEMMA AnswerMoves ==
  ASSUME TypeOK, NEW p \in Procs, Answer(p)
  PROVE  /\ pc'[p] = "idle" /\ start'[p] = NotLate(0)
         /\ \A q \in Procs \ {p} : /\ pc'[q] = pc[q] /\ held'[q] = held[q]
                                   /\ req'[q] = req[q] /\ start'[q] = start[q]
         /\ UNCHANGED begun
         /\ pc' \in [Procs -> Places] /\ held' \in [Procs -> Verdicts]
         /\ req' \in [Procs -> Requests \cup {NoRequest}] /\ start' \in [Procs -> Starts]
<1>1. Nothing \in Verdicts /\ NotLate(0) \in Starts
  BY DEF Nothing, Verdicts, NotLate, Starts
<1> QED
  BY <1>1 DEF Answer, TypeOK, Places

(***************************************************************************)
(* A task that goes on keeps the invariant of all tasks if it keeps its    *)
(* own, does not get hold of a session that is not stored yet, and what it *)
(* stores or drops is not another's.                                       *)
(***************************************************************************)
LEMMA StepKeepsTasks ==
  ASSUME SrpInv, NEW p \in Procs, NEW place \in Places, NEW h \in Verdicts, Step(p, place, h),
         now' = now, used \subseteq used', drawn \subseteq drawn',
         \A q \in Procs \ {p} : pc[q] = "insert" =>
           /\ held[q].row.session \notin DOMAIN sessions' \cup used'
           /\ place \in {"prove", "drop", "touch"} => req[p].session # held[q].row.session,
         PlaceOK(p)', Unknown(p)', InTime(p)'
  PROVE  TasksInv'
<1>1. TypeOK /\ TasksInv
  BY DEF SrpInv
<1>2. /\ pc'[p] = place /\ \A q \in Procs \ {p} : pc'[q] = pc[q] /\ held'[q] = held[q]
      /\ UNCHANGED <<req, start>>
  BY <1>1, StepMoves
<1>3. ASSUME NEW q \in Procs \ {p}
      PROVE  PlaceOK(q)' /\ Unknown(q)' /\ InTime(q)'
  <2>1. PlaceOK(q) /\ Unknown(q) /\ InTime(q)
    BY <1>1 DEF TasksInv
  <2>2. PlaceOK(q)' /\ InTime(q)'
    BY <1>2, <2>1 DEF PlaceOK, InTime
  <2>3. Unknown(q)'
    BY <1>2, <2>1 DEF Unknown
  <2> QED
    BY <2>2, <2>3
<1> QED
  BY <1>3 DEF TasksInv

LEMMA AnswerKeepsTasks ==
  ASSUME SrpInv, NEW p \in Procs, Answer(p),
         now' = now, used \subseteq used', drawn \subseteq drawn',
         \A q \in Procs \ {p} : pc[q] = "insert" => held[q].row.session \notin DOMAIN sessions' \cup used'
  PROVE  TasksInv'
<1>1. TypeOK /\ TasksInv /\ now \in Nat
  BY DEF SrpInv, TypeOK
<1>2. /\ pc'[p] = "idle" /\ start'[p] = NotLate(0)
      /\ \A q \in Procs \ {p} : /\ pc'[q] = pc[q] /\ held'[q] = held[q]
                                /\ req'[q] = req[q] /\ start'[q] = start[q]
  BY <1>1, AnswerMoves
<1>3. ASSUME NEW q \in Procs \ {p}
      PROVE  PlaceOK(q)' /\ Unknown(q)' /\ InTime(q)'
  <2>1. PlaceOK(q) /\ Unknown(q) /\ InTime(q)
    BY <1>1 DEF TasksInv
  <2>2. PlaceOK(q)' /\ InTime(q)'
    BY <1>2, <2>1 DEF PlaceOK, InTime
  <2>3. Unknown(q)'
    BY <1>2, <2>1 DEF Unknown
  <2> QED
    BY <2>2, <2>3
<1>4. PlaceOK(p)' /\ Unknown(p)' /\ InTime(p)'
  BY <1>1, <1>2 DEF PlaceOK, Unknown, InTime, NotLate
<1> QED
  BY <1>3, <1>4 DEF TasksInv

-----------------------------------------------------------------------------
LEMMA SrpInitInv == Init => SrpInv
<1> SUFFICES ASSUME Init PROVE SrpInv
  OBVIOUS
<1>1. TypeOK
  <2>1. Nothing \in Verdicts /\ NotLate(0) \in Starts
    BY DEF Nothing, Verdicts, NotLate, Starts
  <2> QED
    BY <2>1 DEF Init, TypeOK
<1>2. TasksInv
  BY DEF Init, TasksInv, PlaceOK, Unknown, InTime, NotLate
<1> QED
  BY <1>1, <1>2 DEF Init, SrpInv, UsedSessionsAreGone, DroppedFirst

(***************************************************************************)
(* Nothing that leaves tasks, sessions and history alone disturbs them.    *)
(***************************************************************************)
LEMMA RegisterInv ==
  ASSUME SrpInv, NEW i \in Identities, SrpRegister(i)
  PROVE  SrpInv'
<1>1. TypeOK'
  BY DEF SrpInv, TypeOK, SrpRegister, CreateSrpIdentity, WithRow
<1> QED
  BY <1>1 DEF SrpRegister, SrpInv, TasksInv, PlaceOK, Unknown, InTime, UsedSessionsAreGone, DroppedFirst

LEMMA TickInv ==
  ASSUME SrpInv, Tick
  PROVE  SrpInv'
<1>1. TypeOK /\ TasksInv
  BY DEF SrpInv
<1>2. TypeOK'
  BY <1>1 DEF TypeOK, Tick
<1>3. \A p \in Procs : InTime(p)'
  <2>1. \A p \in Procs : start[p].at \in Nat /\ now \in Nat
    BY <1>1 DEF TypeOK, Starts
  <2> QED
    BY <1>1, <2>1 DEF TasksInv, InTime, Tick
<1> QED
  BY <1>1, <1>2, <1>3 DEF Tick, SrpInv, TasksInv, PlaceOK, Unknown, UsedSessionsAreGone, DroppedFirst

(***************************************************************************)
(* A restart forgets the tasks; what they knew is not in the tables.       *)
(***************************************************************************)
LEMMA CrashInv ==
  ASSUME SrpInv, Crash
  PROVE  SrpInv'
<1>1. TypeOK /\ now \in Nat
  BY DEF SrpInv, TypeOK
<1>2. Nothing \in Verdicts /\ NotLate(0) \in Starts
  BY DEF Nothing, Verdicts, NotLate, Starts
<1>3. TypeOK'
  BY <1>1, <1>2 DEF TypeOK, Crash, tablesAndClock
<1>4. TasksInv'
  BY <1>1 DEF Crash, tablesAndClock, TasksInv, PlaceOK, Unknown, InTime, NotLate
<1> QED
  BY <1>3, <1>4 DEF Crash, tablesAndClock, SrpInv, UsedSessionsAreGone, DroppedFirst

(***************************************************************************)
(* A request begins.  A verification that is late names a used session.    *)
(***************************************************************************)
LEMMA BeginInv ==
  ASSUME SrpInv, NEW p \in Procs, NEW r \in Requests, Begin(p, r)
  PROVE  SrpInv'
<1>1. TypeOK /\ TasksInv /\ now \in Nat
  BY DEF SrpInv, TypeOK
<1> DEFINE begins == [at |-> now, late |-> r.op = "verify" /\ r.session \in used]
<1>2. /\ UNCHANGED <<now, identities, sessions, held, failures, drawn, used, tokens>>
      /\ begun' = begun + 1 /\ pc' = [pc EXCEPT ![p] = "sweep"] /\ req' = [req EXCEPT ![p] = r]
      /\ start' = [start EXCEPT ![p] = begins]
  BY DEF Begin, tablesAndClock
<1>3. begins \in Starts /\ begins.at = now /\ (begins.late => r.op = "verify" /\ r.session \in used)
  BY <1>1 DEF Starts
<1> HIDE DEF begins
<1>4. TypeOK'
  BY <1>1, <1>2, <1>3 DEF TypeOK
<1>5. /\ pc'[p] = "sweep" /\ req'[p] = r /\ start'[p] = begins
      /\ \A q \in Procs \ {p} : pc'[q] = pc[q] /\ req'[q] = req[q] /\ start'[q] = start[q]
  BY <1>1, <1>2 DEF TypeOK
<1>6. ASSUME NEW q \in Procs
      PROVE  PlaceOK(q)' /\ Unknown(q)' /\ InTime(q)'
  <2>1. PlaceOK(q) /\ Unknown(q) /\ InTime(q)
    BY <1>1 DEF TasksInv
  <2>2. PlaceOK(q)'
    BY <1>2, <1>5, <2>1 DEF PlaceOK
  <2>3. Unknown(q)'
    BY <1>2, <1>5, <2>1 DEF Unknown
  <2>4. InTime(q)'
    BY <1>1, <1>2, <1>3, <1>5, <2>1 DEF InTime
  <2> QED
    BY <2>2, <2>3, <2>4
<1>7. DroppedFirst'
  BY <1>2, <1>5 DEF SrpInv, DroppedFirst
<1> QED
  BY <1>2, <1>4, <1>6, <1>7 DEF SrpInv, TasksInv, UsedSessionsAreGone

(***************************************************************************)
(* After the sweep, whether it succeeded or not.                           *)
(***************************************************************************)
LEMMA AfterSweepTasks ==
  ASSUME SrpInv, NEW p \in Procs, pc[p] = "sweep", AfterSweep(p),
         UNCHANGED <<now, used, drawn>>, DOMAIN sessions' \subseteq DOMAIN sessions
  PROVE  TasksInv'
<1>1. TypeOK /\ PlaceOK(p) /\ InTime(p) /\ \A q \in Procs : Unknown(q)
  BY DEF SrpInv, TasksInv
<1>2. \A q \in Procs : pc[q] = "insert" => held[q].row.session \notin DOMAIN sessions' \cup used'
  BY <1>1 DEF Unknown
<1>3. Nothing \in Verdicts
  BY DEF Nothing, Verdicts
<1>4. ASSUME NEW place \in {"identify", "find"}, Step(p, place, Nothing),
             place = "identify" => req[p].op = "init", place = "find" => req[p].op = "verify"
      PROVE  TasksInv'
  <2>1. place \in Places
    BY DEF Places
  <2>2. pc'[p] = place /\ UNCHANGED <<req, start>>
    BY <1>1, <1>3, <1>4, <2>1, StepMoves
  <2>3. PlaceOK(p)' /\ Unknown(p)' /\ InTime(p)'
    BY <1>1, <1>4, <2>2 DEF PlaceOK, Unknown, InTime
  <2> QED
    BY <1>2, <1>3, <1>4, <2>1, <2>3, StepKeepsTasks
<1>5. ASSUME Answer(p) PROVE TasksInv'
  BY <1>2, <1>5, AnswerKeepsTasks
<1> QED
  BY <1>4, <1>5 DEF AfterSweep

(***************************************************************************)
(* Either way a task leaves the variables of the tasks typed.              *)
(***************************************************************************)
TasksTyped ==
  /\ pc \in [Procs -> Places] /\ req \in [Procs -> Requests \cup {NoRequest}]
  /\ held \in [Procs -> Verdicts] /\ start \in [Procs -> Starts] /\ begun \in Nat

LEMMA MovesTyped ==
  ASSUME TypeOK, NEW p \in Procs,
         Answer(p) \/ \E place \in Places, h \in Verdicts : Step(p, place, h)
  PROVE  TasksTyped'
BY StepMoves, AnswerMoves DEF TypeOK, TasksTyped, Places

(***************************************************************************)
(* DroppedFirst speaks of tasks at touch and of tokens.                    *)
(***************************************************************************)
LEMMA DroppedFirstStays ==
  ASSUME DroppedFirst, used \subseteq used',
         failures' = 0 => failures = 0 /\ tokens' = tokens,
         \A q \in Procs : failures' = 0 /\ pc'[q] = "touch" => pc[q] = "touch" /\ req'[q] = req[q]
  PROVE  DroppedFirst'
BY DEF DroppedFirst

LEMMA SweepInv ==
  ASSUME SrpInv, NEW p \in Procs, Sweep(p)
  PROVE  SrpInv'
<1>1. TypeOK /\ pc[p] = "sweep" /\ UNCHANGED <<now, identities, failures, drawn, used, tokens>>
  BY DEF SrpInv, Sweep
<1>2. /\ DOMAIN sessions' \subseteq DOMAIN sessions
      /\ sessions' \in [DOMAIN sessions' -> SessionRows]
  BY <1>1 DEF Sweep, CleanupExpiredSessions, TypeOK
<1>3. Answer(p) \/ \E place \in {"identify", "find"} : Step(p, place, Nothing)
  BY DEF Sweep, AfterSweep
<1>4. Nothing \in Verdicts
  BY DEF Nothing, Verdicts
<1>5. TasksTyped'
  BY <1>1, <1>3, <1>4, MovesTyped DEF Places
<1>6. TypeOK'
  BY <1>1, <1>2, <1>5 DEF TypeOK, TasksTyped, Places
<1>7. TasksInv'
  BY <1>1, <1>2, AfterSweepTasks DEF Sweep
<1>8. \A q \in Procs : pc'[q] = "touch" => pc[q] = "touch" /\ req'[q] = req[q]
  <2>1. CASE Answer(p)
    BY <1>1, <2>1, AnswerMoves
  <2>2. CASE \E place \in {"identify", "find"} : Step(p, place, Nothing)
    BY <1>1, <1>4, <2>2, StepMoves DEF Places
  <2> QED
    BY <1>3, <2>1, <2>2
<1>9. DroppedFirst'
  BY <1>1, <1>8, DroppedFirstStays DEF SrpInv
<1> QED
  BY <1>1, <1>2, <1>6, <1>7, <1>9 DEF SrpInv, UsedSessionsAreGone

(***************************************************************************)
(* The session drawn is new: nobody has it and it was never used.          *)
(***************************************************************************)
LEMMA IdentifyInv ==
  ASSUME SrpInv, NEW p \in Procs, Identify(p)
  PROVE  SrpInv'
<1>1. /\ TypeOK /\ pc[p] = "identify" /\ UNCHANGED <<now, identities, sessions, failures, used, tokens>>
      /\ TasksInv /\ PlaceOK(p) /\ Unknown(p) /\ InTime(p) /\ used \subseteq drawn
      /\ DOMAIN sessions \subseteq drawn /\ now \in Nat
  BY DEF SrpInv, Identify, tablesAndClock, TasksInv, TypeOK
<1>2. ASSUME NEW s \in Sessions \ drawn, NewSession(p, s)
      PROVE  SrpInv'
  <2> DEFINE h == [row |-> [session |-> s, identity |-> req[p].identity, created |-> now], good |-> FALSE]
  <2>1. Step(p, "insert", h) /\ drawn' = drawn \cup {s}
    BY <1>2 DEF NewSession
  <2>2. h \in Verdicts /\ h.row \in SessionRows /\ h.row.session = s
    <3>1. req[p].identity \in Identities
      BY <1>1 DEF PlaceOK, Requests
    <3> QED
      BY <1>1, <3>1 DEF Verdicts, SessionRows
  <2> HIDE DEF h
  <2>3. /\ pc'[p] = "insert" /\ held'[p] = h
        /\ \A q \in Procs \ {p} : pc'[q] = pc[q] /\ held'[q] = held[q]
        /\ UNCHANGED <<req, begun, start>>
    BY <1>1, <2>1, <2>2, StepMoves DEF Places
  <2>4. TasksTyped'
    BY <1>1, <2>1, <2>2, MovesTyped DEF Places
  <2>5. TypeOK'
    BY <1>1, <2>1, <2>4 DEF TypeOK, TasksTyped, Places
  <2>6. PlaceOK(p)' /\ InTime(p)'
    BY <1>1, <2>1, <2>2, <2>3 DEF PlaceOK, InTime
  <2>7. Unknown(p)'
    <3>1. \A q \in Procs : /\ pc[q] = "insert" => held[q].row.session # s
                           /\ pc[q] \in {"prove", "drop", "touch"} => req[q].session # s
      BY <1>2, <1>1 DEF TasksInv, PlaceOK
    <3> QED
      BY <1>1, <1>2, <2>2, <2>3, <3>1 DEF Unknown
  <2>8. TasksInv'
    <3>1. \A q \in Procs : pc[q] = "insert" => held[q].row.session \notin DOMAIN sessions' \cup used'
      BY <1>1 DEF TasksInv, Unknown
    <3> QED
      BY <1>1, <2>1, <2>2, <2>6, <2>7, <3>1, StepKeepsTasks DEF Places
  <2>9. DroppedFirst'
    BY <1>1, <2>3, DroppedFirstStays DEF SrpInv
  <2> QED
    BY <1>1, <2>1, <2>5, <2>8, <2>9 DEF SrpInv, UsedSessionsAreGone
<1>3. ASSUME Answer(p), UNCHANGED drawn
      PROVE  SrpInv'
  <2>1. TasksTyped'
    BY <1>1, <1>3, MovesTyped
  <2>2. TypeOK'
    BY <1>1, <1>3, <2>1 DEF TypeOK, TasksTyped, Places
  <2>3. TasksInv'
    BY <1>1, <1>3, AnswerKeepsTasks DEF TasksInv, Unknown
  <2>4. DroppedFirst'
    BY <1>1, <1>3, AnswerMoves, DroppedFirstStays DEF SrpInv
  <2> QED
    BY <1>1, <1>3, <2>2, <2>3, <2>4 DEF SrpInv, UsedSessionsAreGone
<1> QED
  BY <1>2, <1>3 DEF Identify

(***************************************************************************)
(* The session is stored by the only task that knows it.                   *)
(***************************************************************************)
LEMMA InsertInv ==
  ASSUME SrpInv, NEW p \in Procs, Insert(p)
  PROVE  SrpInv'
<1> DEFINE row == held[p].row
<1>1. /\ TypeOK /\ TasksInv /\ PlaceOK(p) /\ Unknown(p) /\ used \subseteq drawn /\ UsedSessionsAreGone
      /\ pc[p] = "insert" /\ UNCHANGED <<now, identities, failures, drawn, used, tokens>>
      /\ sessions' = WithRow(sessions, row.session, row) /\ Answer(p)
  BY DEF SrpInv, Insert, TasksInv, CreateSrpSession
<1>2. row \in SessionRows /\ row.session \in drawn /\ row.session \notin used
  BY <1>1 DEF PlaceOK, Unknown
<1> HIDE DEF row
<1>3. /\ DOMAIN sessions' = DOMAIN sessions \cup {row.session}
      /\ sessions' \in [DOMAIN sessions' -> SessionRows]
  BY <1>1, <1>2 DEF WithRow, TypeOK
<1>4. TasksTyped'
  BY <1>1, MovesTyped
<1>5. TypeOK'
  BY <1>1, <1>2, <1>3, <1>4 DEF TypeOK, TasksTyped, Places
<1>6. TasksInv'
  <2>1. \A q \in Procs \ {p} : pc[q] = "insert" => held[q].row.session \notin DOMAIN sessions' \cup used'
    BY <1>1, <1>3 DEF TasksInv, Unknown, row
  <2> QED
    BY <1>1, <2>1, AnswerKeepsTasks
<1>7. DroppedFirst'
  BY <1>1, AnswerMoves, DroppedFirstStays DEF SrpInv
<1> QED
  BY <1>1, <1>2, <1>3, <1>5, <1>6, <1>7 DEF SrpInv, UsedSessionsAreGone

(***************************************************************************)
(* Found is what was not used before the request began, and not too old.   *)
(***************************************************************************)
LEMMA FindInv ==
  ASSUME SrpInv, NEW p \in Procs, Find(p)
  PROVE  SrpInv'
<1>1. /\ TypeOK /\ TasksInv /\ PlaceOK(p) /\ InTime(p) /\ UsedSessionsAreGone /\ used \subseteq drawn
      /\ pc[p] = "find" /\ UNCHANGED <<now, identities, sessions, failures, drawn, used, tokens>>
      /\ now \in Nat /\ start[p].at \in Nat
  BY DEF SrpInv, Find, TasksInv, TypeOK, Starts, tablesAndClock
<1>2. CASE req[p].session \in DOMAIN sessions
  <2> DEFINE row == sessions[req[p].session]
             h == [row |-> row, good |-> FALSE]
             place == IF AgeInSeconds(row) > TTL THEN "drop" ELSE "prove"
  <2>1. Step(p, place, h) /\ place \in {"drop", "prove"}
    BY <1>2 DEF Find
  <2>2. h \in Verdicts /\ h.row = row /\ row \in SessionRows /\ h.good = FALSE /\ req[p].session \in drawn
    BY <1>1, <1>2 DEF TypeOK, Verdicts
  <2>3. row.created \in Nat
    BY <2>2 DEF SessionRows
  <2>4. place = "prove" => start[p].at - row.created < (TTL + 1) * Second
    <3>0. TTL \in Nat /\ Second \in Nat \ {0} /\ (TTL + 1) * Second \in Nat
      BY ClockAssumption
    <3>1. CASE now >= row.created
      <4>1. now - row.created \in Nat /\ (now - row.created) \div Second \in Int
        BY <1>1, <2>3, <3>0, <3>1
      <4>2. place = "prove" => (now - row.created) \div Second <= TTL
        BY <3>0, <4>1 DEF AgeInSeconds
      <4>3. place = "prove" => now - row.created < (TTL + 1) * Second
        BY <4>1, <4>2, WholeSeconds
      <4> QED
        BY <1>1, <2>3, <3>0, <4>3 DEF InTime
    <3>2. CASE now < row.created
      <4>1. (TTL + 1) * Second >= 0
        BY <3>0
      <4> QED
        BY <1>1, <2>3, <3>0, <3>2, <4>1 DEF InTime
    <3> QED
      BY <1>1, <2>3, <3>1, <3>2
  <2> HIDE DEF row, h, place
  <2>5. /\ pc'[p] = place /\ held'[p] = h
        /\ \A q \in Procs \ {p} : pc'[q] = pc[q] /\ held'[q] = held[q]
        /\ UNCHANGED <<req, begun, start>>
    BY <1>1, <2>1, <2>2, StepMoves DEF Places
  <2>6. TasksTyped'
    BY <1>1, <2>1, <2>2, MovesTyped DEF Places
  <2>7. TypeOK'
    BY <1>1, <2>6 DEF TypeOK, TasksTyped, Places
  <2>8. PlaceOK(p)' /\ Unknown(p)'
    BY <1>1, <2>1, <2>2, <2>5 DEF PlaceOK, Unknown
  <2>9. InTime(p)'
    <3>1. ~start[p].late
      BY <1>1, <1>2 DEF InTime, UsedSessionsAreGone, TypeOK, Starts
    <3> QED
      BY <1>1, <2>1, <2>2, <2>4, <2>5, <3>1 DEF InTime
  <2>10. TasksInv'
    <3>1. \A q \in Procs : pc[q] = "insert" =>
            /\ held[q].row.session \notin DOMAIN sessions' \cup used'
            /\ req[p].session # held[q].row.session
      BY <1>1, <1>2 DEF TasksInv, Unknown
    <3> QED
      BY <1>1, <2>1, <2>2, <2>8, <2>9, <3>1, StepKeepsTasks DEF Places
  <2>11. DroppedFirst'
    BY <1>1, <2>1, <2>5, DroppedFirstStays DEF SrpInv
  <2> QED
    BY <1>1, <2>7, <2>10, <2>11 DEF SrpInv, UsedSessionsAreGone
<1>3. CASE req[p].session \notin DOMAIN sessions
  <2>1. Answer(p)
    BY <1>3 DEF Find
  <2>2. TasksTyped'
    BY <1>1, <2>1, MovesTyped
  <2>3. TypeOK'
    BY <1>1, <2>2 DEF TypeOK, TasksTyped, Places
  <2>4. TasksInv'
    BY <1>1, <2>1, AnswerKeepsTasks DEF TasksInv, Unknown
  <2>5. DroppedFirst'
    BY <1>1, <2>1, AnswerMoves, DroppedFirstStays DEF SrpInv
  <2> QED
    BY <1>1, <2>3, <2>4, <2>5 DEF SrpInv, UsedSessionsAreGone
<1> QED
  BY <1>2, <1>3

LEMMA ProveInv ==
  ASSUME SrpInv, NEW p \in Procs, Prove(p)
  PROVE  SrpInv'
<1>1. /\ TypeOK /\ TasksInv /\ PlaceOK(p) /\ InTime(p) /\ used \subseteq drawn
      /\ pc[p] = "prove" /\ UNCHANGED <<now, identities, sessions, failures, drawn, used, tokens>>
  BY DEF SrpInv, Prove, TasksInv, tablesAndClock
<1>2. PICK good \in BOOLEAN : Step(p, "drop", [row |-> held[p].row, good |-> good])
  BY DEF Prove
<1> DEFINE h == [row |-> held[p].row, good |-> good]
<1>3. h \in Verdicts /\ h.row = held[p].row
  BY <1>1 DEF TypeOK, Verdicts
<1>4. Step(p, "drop", h)
  BY <1>2
<1> HIDE DEF h
<1>5. /\ pc'[p] = "drop" /\ held'[p] = h
      /\ \A q \in Procs \ {p} : pc'[q] = pc[q] /\ held'[q] = held[q]
      /\ UNCHANGED <<req, begun, start>>
  BY <1>1, <1>3, <1>4, StepMoves DEF Places
<1>6. TasksTyped'
  BY <1>1, <1>3, <1>4, MovesTyped DEF Places
<1>7. TypeOK'
  BY <1>1, <1>6 DEF TypeOK, TasksTyped, Places
<1>8. PlaceOK(p)' /\ Unknown(p)' /\ InTime(p)'
  BY <1>1, <1>3, <1>5 DEF PlaceOK, Unknown, InTime
<1>9. TasksInv'
  <2>1. \A q \in Procs : pc[q] = "insert" =>
          /\ held[q].row.session \notin DOMAIN sessions' \cup used'
          /\ req[p].session # held[q].row.session
    BY <1>1 DEF TasksInv, Unknown
  <2> QED
    BY <1>1, <1>3, <1>4, <1>8, <2>1, StepKeepsTasks DEF Places
<1>10. DroppedFirst'
  BY <1>1, <1>5, DroppedFirstStays DEF SrpInv
<1> QED
  BY <1>1, <1>7, <1>9, <1>10 DEF SrpInv, UsedSessionsAreGone

(***************************************************************************)
(* After the drop, whether it succeeded or not: the session dropped is one *)
(* that was read, so no task is about to store it.                         *)
(***************************************************************************)
LEMMA AfterDropTasks ==
  ASSUME SrpInv, NEW p \in Procs, pc[p] = "drop", AfterDrop(p),
         UNCHANGED <<now, drawn>>, used' \in {used, used \cup {req[p].session}},
         DOMAIN sessions' \subseteq DOMAIN sessions
  PROVE  TasksInv' /\ TasksTyped'
<1>1. TypeOK /\ PlaceOK(p) /\ InTime(p) /\ \A q \in Procs : Unknown(q)
  BY DEF SrpInv, TasksInv
<1>2. \A q \in Procs : pc[q] = "insert" =>
        /\ held[q].row.session \notin DOMAIN sessions' \cup used'
        /\ req[p].session # held[q].row.session
  BY <1>1 DEF Unknown
<1>3. CASE held[p].good
  <2>1. Step(p, "touch", held[p]) /\ held[p] \in Verdicts
    BY <1>1, <1>3 DEF AfterDrop, TypeOK
  <2>2. pc'[p] = "touch" /\ held'[p] = held[p] /\ UNCHANGED <<req, start>>
    BY <1>1, <2>1, StepMoves DEF Places
  <2>3. PlaceOK(p)' /\ Unknown(p)' /\ InTime(p)'
    BY <1>1, <1>3, <2>2 DEF PlaceOK, Unknown, InTime
  <2>4. TasksTyped'
    BY <1>1, <2>1, MovesTyped DEF Places
  <2> QED
    BY <1>2, <2>1, <2>3, <2>4, StepKeepsTasks DEF Places
<1>4. CASE ~held[p].good
  <2>1. Answer(p)
    BY <1>4 DEF AfterDrop
  <2> QED
    BY <1>1, <1>2, <2>1, AnswerKeepsTasks, MovesTyped
<1> QED
  BY <1>3, <1>4

LEMMA DropInv ==
  ASSUME SrpInv, NEW p \in Procs, Drop(p)
  PROVE  SrpInv'
<1>1. /\ TypeOK /\ PlaceOK(p) /\ used \subseteq drawn /\ UsedSessionsAreGone
      /\ pc[p] = "drop" /\ UNCHANGED <<now, identities, failures, drawn, tokens>>
      /\ used' = used \cup {req[p].session} /\ AfterDrop(p)
  BY DEF SrpInv, Drop, TasksInv
<1>2. /\ DOMAIN sessions' = DOMAIN sessions \ {req[p].session}
      /\ sessions' \in [DOMAIN sessions' -> SessionRows]
      /\ req[p].session \in drawn
  BY <1>1 DEF Drop, DeleteSrpSession, TypeOK, PlaceOK
<1>3. TasksInv' /\ TasksTyped'
  BY <1>1, <1>2, AfterDropTasks
<1>4. TypeOK'
  BY <1>1, <1>2, <1>3 DEF TypeOK, TasksTyped, Places
<1>5. DroppedFirst'
  <2>1. \A q \in Procs : pc'[q] = "touch" => (pc[q] = "touch" \/ q = p) /\ req'[q] = req[q]
    <3>1. CASE Answer(p)
      BY <1>1, <3>1, AnswerMoves
    <3>2. CASE Step(p, "touch", held[p])
      <4>1. held[p] \in Verdicts
        BY <1>1 DEF TypeOK
      <4> QED
        BY <1>1, <3>2, <4>1, StepMoves DEF Places
    <3> QED
      BY <1>1, <3>1, <3>2 DEF AfterDrop
  <2> QED
    BY <1>1, <2>1 DEF SrpInv, DroppedFirst
<1> QED
  BY <1>1, <1>2, <1>3, <1>4, <1>5 DEF SrpInv, UsedSessionsAreGone

LEMMA TouchInv ==
  ASSUME SrpInv, NEW p \in Procs, Touch(p)
  PROVE  SrpInv'
<1>1. /\ TypeOK /\ PlaceOK(p) /\ used \subseteq drawn /\ pc[p] = "touch" /\ Answer(p)
      /\ UNCHANGED <<now, sessions, failures, drawn, used>>
      /\ tokens' = [tokens EXCEPT ![req[p].session] = @ + 1]
  BY DEF SrpInv, Touch, HandOut, TasksInv
<1>2. TasksInv'
  BY <1>1, AnswerKeepsTasks DEF SrpInv, TasksInv, Unknown
<1>3. TasksTyped'
  BY <1>1, MovesTyped
<1>4. TypeOK'
  <2>1. /\ DOMAIN identities' \subseteq Identities
        /\ identities' \in [DOMAIN identities' -> Nat \cup {None}]
    BY <1>1 DEF Touch, TouchSrpIdentity, TypeOK
  <2>2. tokens' \in [Sessions -> Nat]
    <3>1. req[p].session \in Sessions /\ tokens \in [Sessions -> Nat]
      BY <1>1 DEF TypeOK, PlaceOK
    <3> QED
      BY <1>1, <3>1
  <2> QED
    BY <1>1, <1>3, <2>1, <2>2 DEF TypeOK, TasksTyped, Places
<1>5. DroppedFirst'
  <2>1. \A q \in Procs : pc'[q] = "touch" => pc[q] = "touch" /\ req'[q] = req[q]
    BY <1>1, AnswerMoves
  <2> QED
    BY <1>1, <2>1 DEF SrpInv, DroppedFirst, TypeOK
<1> QED
  BY <1>1, <1>2, <1>4, <1>5 DEF SrpInv, UsedSessionsAreGone

(***************************************************************************)
(* A failed statement changes no table and no history.                     *)
(***************************************************************************)
LEMMA StatementFailsInv ==
  ASSUME SrpInv, NEW p \in Procs, StatementFails(p)
  PROVE  SrpInv'
<1>1. /\ TypeOK /\ TasksInv /\ used \subseteq drawn /\ UsedSessionsAreGone
      /\ UNCHANGED <<now, identities, sessions, drawn, used>>
      /\ failures \in Nat /\ failures' = failures + 1
  BY DEF SrpInv, StatementFails, tablesAndClock, TypeOK
<1>2. Nothing \in Verdicts /\ held[p] \in Verdicts
  BY <1>1 DEF Nothing, Verdicts, TypeOK
<1>3. TasksInv' /\ TasksTyped'
  <2>1. CASE pc[p] = "sweep" /\ AfterSweep(p)
    <3>1. Answer(p) \/ \E place \in {"identify", "find"} : Step(p, place, Nothing)
      BY <2>1 DEF AfterSweep
    <3> QED
      BY <1>1, <1>2, <2>1, <3>1, AfterSweepTasks, MovesTyped DEF Places
  <2>2. CASE pc[p] = "drop" /\ AfterDrop(p)
    BY <1>1, <2>2, AfterDropTasks
  <2>3. CASE Answer(p)
    BY <1>1, <2>3, AnswerKeepsTasks, MovesTyped DEF TasksInv, Unknown
  <2> QED
    BY <2>1, <2>2, <2>3 DEF StatementFails, HandOut
<1>4. tokens' \in [Sessions -> Nat]
  BY <1>1 DEF StatementFails, HandOut, TypeOK
<1>5. TypeOK'
  BY <1>1, <1>3, <1>4 DEF TypeOK, TasksTyped, Places
<1>6. DroppedFirst'
  BY <1>1 DEF DroppedFirst
<1> QED
  BY <1>1, <1>3, <1>5, <1>6 DEF SrpInv, UsedSessionsAreGone

LEMMA SrpNextInv == SrpInv /\ [Next]_vars => SrpInv'
<1> SUFFICES ASSUME SrpInv, [Next]_vars PROVE SrpInv'
  OBVIOUS
<1>1. CASE UNCHANGED vars
  BY <1>1 DEF vars, SrpInv, TypeOK, TasksInv, PlaceOK, Unknown, InTime, UsedSessionsAreGone, DroppedFirst
<1>2. ASSUME NEW p \in Procs, Serve(p) PROVE SrpInv'
  BY <1>2, SweepInv, IdentifyInv, InsertInv, FindInv, ProveInv, DropInv, TouchInv DEF Serve
<1> QED
  BY <1>1, <1>2, RegisterInv, BeginInv, StatementFailsInv, CrashInv, TickInv DEF Next

LEMMA SrpInvariance == Spec => []SrpInv
BY SrpInitInv, SrpNextInv, PTL DEF Spec

-----------------------------------------------------------------------------
(***************************************************************************)
(* The tables and what the tasks hold keep their types (the tables of      *)
(* store/identity.rs, the handlers of hubs/identity.rs).                   *)
(***************************************************************************)
THEOREM SrpTypeCorrect == Spec => []TypeOK
<1>1. SrpInv => TypeOK
  BY DEF SrpInv
<1> QED
  BY <1>1, SrpInvariance, PTL

(***************************************************************************)
(* A session that a verification has dropped is never stored again, for    *)
(* any number of tasks and under any failures and restarts (srp_init and   *)
(* srp_verify in hubs/identity.rs).                                        *)
(***************************************************************************)
THEOREM DroppedSessionsStayGone == Spec => []UsedSessionsAreGone
<1>1. SrpInv => UsedSessionsAreGone
  BY DEF SrpInv
<1> QED
  BY <1>1, SrpInvariance, PTL

(***************************************************************************)
(* While no statement has failed, a session is out of the table before the *)
(* token it is traded for is handed out (srp_verify: "single-use").        *)
(***************************************************************************)
THEOREM TokensFollowDrops == Spec => []TradedSessionsAreGone
<1>1. SrpInv => TradedSessionsAreGone
  BY DEF SrpInv, DroppedFirst, UsedSessionsAreGone, TradedSessionsAreGone, TypeOK
<1> QED
  BY <1>1, SrpInvariance, PTL

(***************************************************************************)
(* No token for a proof that was sent after its session was used, or later *)
(* than the time to live allows, even if every sweep fails (the age check  *)
(* of srp_verify).                                                         *)
(***************************************************************************)
THEOREM LateProofsGetNoToken == Spec => LateProofsRefused
<1>1. SrpInv => \A p \in Procs : HandsOut(p) =>
                  /\ start[p].at - held[p].row.created < (TTL + 1) * Second
                  /\ ~start[p].late
  BY DEF SrpInv, TasksInv, InTime, HandsOut, TypeOK, Starts
<1> QED
  BY <1>1, SrpInvariance, PTL DEF LateProofsRefused

(***************************************************************************)
(* A session leaves the table by the sweep only when it is past its time   *)
(* to live, and otherwise only in the drop of its own verification.        *)
(***************************************************************************)
THEOREM LiveHandshakesStay == Spec => FreshSessionsStay
<1> DEFINE Leaves(s) ==
      \/ now - sessions[s].created > TTL * Second
      \/ \E p \in Procs : pc[p] = "drop" /\ req[p].session = s /\ pc'[p] # "drop"
<1>1. ASSUME SrpInv, [Next]_vars, NEW s \in DOMAIN sessions \ DOMAIN sessions'
      PROVE  Leaves(s)
  <2>1. TypeOK /\ now \in Nat /\ sessions[s].created \in Nat /\ TTL * Second \in Nat
    <3>1. TTL \in Nat /\ Second \in Nat
      BY ClockAssumption
    <3> QED
      BY <1>1, <3>1 DEF SrpInv, TypeOK, SessionRows
  <2>2. ASSUME NEW p \in Procs, Sweep(p) PROVE Leaves(s)
    <3>1. ~(sessions[s].created >= now - TTL * Second)
      BY <1>1, <2>2 DEF Sweep, CleanupExpiredSessions
    <3> QED
      BY <2>1, <3>1
  <2>3. ASSUME NEW p \in Procs, Drop(p) PROVE Leaves(s)
    <3>1. pc[p] = "drop" /\ req[p].session = s
      BY <1>1, <2>3 DEF Drop, DeleteSrpSession
    <3>2. pc'[p] # "drop"
      BY <2>1, <2>3 DEF Drop, AfterDrop, Step, Answer, TypeOK
    <3> QED
      BY <3>1, <3>2
  <2>4. ASSUME NEW p \in Procs, Insert(p) PROVE FALSE
    BY <1>1, <2>4 DEF Insert, CreateSrpSession, WithRow
  <2>5. ASSUME UNCHANGED sessions PROVE FALSE
    BY <1>1, <2>5
  <2>6. ASSUME NEW p \in Procs, Identify(p) \/ Find(p) \/ Prove(p) \/ Touch(p) \/ StatementFails(p)
        PROVE  FALSE
    BY <2>5, <2>6 DEF Identify, Find, Prove, Touch, StatementFails, tablesAndClock
  <2>7. ASSUME NEW p \in Procs, Serve(p) PROVE Leaves(s)
    BY <2>2, <2>3, <2>4, <2>6, <2>7 DEF Serve
  <2> QED
    BY <1>1, <2>5, <2>6, <2>7 DEF Next, SrpRegister, Begin, Crash, Tick, vars, tablesAndClock
<1>2. SrpInv /\ [Next]_vars => [\A s \in DOMAIN sessions \ DOMAIN sessions' : Leaves(s)]_vars
  BY <1>1
<1> QED
  BY <1>2, SrpInvariance, PTL DEF Spec, FreshSessionsStay
=============================================================================
