---------------------------- MODULE SrpHandshake ----------------------------
(***************************************************************************)
(* The SRP login of IdentityHub (src/hubs/identity.rs): srp_register,      *)
(* srp_init and srp_verify, as concurrent tasks over the srp_identities    *)
(* and srp_sessions tables (src/store/identity.rs).                        *)
(*                                                                         *)
(* As in TenantGate one action is one statement together with the code up  *)
(* to the next one.  A task p is at                                        *)
(*   "sweep"     deleting the sessions past their time to live,            *)
(*   "identify"  srp_init reads the identity,                              *)
(*   "insert"    srp_init stores the session it has made,                  *)
(*   "find"      srp_verify reads the session,                             *)
(*   "prove"     srp_verify reads the identity and checks the proof,       *)
(*   "drop"      srp_verify deletes the session,                           *)
(*   "touch"     srp_verify notes the login on the identity,               *)
(*   "idle"      no request.                                               *)
(* Of the answers only the token is told apart from the others: tokens     *)
(* counts it.                                                              *)
(*                                                                         *)
(* Any statement may fail without effect (a locked or full database), and  *)
(* the server may stop at any moment: the tables survive, the tasks do not.*)
(*                                                                         *)
(* The mathematics of SRP is one field of a request: whether its proof is  *)
(* "good", "bad" (the crate rejects it or the ephemeral), or not even hex. *)
(* Time is counted in ticks, Second of them to a second.                   *)
(***************************************************************************)
EXTENDS Integers, FiniteSets

CONSTANTS
  Procs,        \* tasks that serve requests
  Identities,   \* uuids srp_register may mint
  Sessions,     \* session ids srp_init may draw
  TTL,          \* SRP_SESSION_TTL_SECS
  Second,       \* ticks of the clock to a second
  MaxTime,      \* bound: the clock stops here
  MaxRequests,  \* bound: how many requests TLC lets clients send
  MaxFailures,  \* bound: how many statements TLC lets fail
  None

ASSUME ClockAssumption ==
  TTL \in Nat /\ Second \in Nat \ {0} /\ MaxTime \in Nat

ASSUME BoundsAssumption ==
  MaxRequests \in Nat /\ MaxFailures \in Nat /\ IsFiniteSet(Sessions) /\ IsFiniteSet(Procs)

VARIABLES
  now,         \* the clock
  identities,  \* srp_identities: last_auth_at of each registered identity
  sessions,    \* srp_sessions: the identity and created_at of each session
  pc, req,     \* where each task is, and its request
  held,        \* the session it made or read, and whether its proof was good
  begun, failures,  \* how many requests were sent, how many statements failed
  drawn,       \* session ids drawn so far
  used,        \* history: sessions whose verification is over, the drop done
  tokens,      \* history: how many tokens each session was traded for
  start        \* history: when each request began, and whether it was late

tablesAndClock == <<now, identities, sessions>>

vars == <<now, identities, sessions, pc, req, held, begun, failures, drawn, used, tokens, start>>

(***************************************************************************)
(* A request to srp_init names an identity, one to srp_verify a session    *)
(* and brings a proof; of either, one whose arguments are no uuid or no    *)
(* hex is malformed.                                                       *)
(***************************************************************************)
Requests ==
  [op : {"init"}, identity : Identities]
    \cup [op : {"verify"}, session : Sessions, proof : {"good", "bad"}]
    \cup [op : {"malformed"}]

NoRequest == [op |-> "none"]
NoSession == [session |-> None]
Starts == [at : Nat, late : BOOLEAN]
NotLate(t) == [at |-> t, late |-> FALSE]

SessionRows == [session : Sessions, identity : Identities, created : Nat]
Verdicts == [row : SessionRows \cup {NoSession}, good : BOOLEAN]
Nothing == [row |-> NoSession, good |-> FALSE]

TypeOK ==
  /\ now \in Nat
  /\ DOMAIN identities \subseteq Identities
  /\ identities \in [DOMAIN identities -> Nat \cup {None}]
  /\ DOMAIN sessions \subseteq drawn
  /\ sessions \in [DOMAIN sessions -> SessionRows]
  /\ pc \in [Procs -> {"idle", "sweep", "identify", "insert", "find", "prove", "drop", "touch"}]
  /\ req \in [Procs -> Requests \cup {NoRequest}]
  /\ held \in [Procs -> Verdicts]
  /\ begun \in Nat /\ failures \in Nat
  /\ drawn \subseteq Sessions /\ used \subseteq Sessions
  /\ tokens \in [Sessions -> Nat]
  /\ start \in [Procs -> Starts]

Init ==
  /\ now = 0
  /\ identities = [i \in {} |-> None]
  /\ sessions = [s \in {} |-> NoSession]
  /\ pc = [p \in Procs |-> "idle"]
  /\ req = [p \in Procs |-> NoRequest]
  /\ held = [p \in Procs |-> Nothing]
  /\ begun = 0 /\ failures = 0
  /\ drawn = {} /\ used = {}
  /\ tokens = [s \in Sessions |-> 0]
  /\ start = [p \in Procs |-> NotLate(0)]

-----------------------------------------------------------------------------
(***************************************************************************)
(* The statements of IdentityStore, on the contents of its tables.         *)
(***************************************************************************)
WithRow(rows, id, row) == [x \in DOMAIN rows \cup {id} |-> IF x = id THEN row ELSE rows[x]]

CreateSrpIdentity(i) == identities' = WithRow(identities, i, None)

TouchSrpIdentity(i) == identities' = [identities EXCEPT ![i] = now]

CreateSrpSession(row) == sessions' = WithRow(sessions, row.session, row)

BlankSrpSession(s) ==
  sessions' = [x \in DOMAIN sessions |-> IF x = s THEN NoSession ELSE sessions[x]]

DeleteSrpSession(s) == sessions' = [x \in DOMAIN sessions \ {s} |-> sessions[x]]

CleanupTooSoon ==
  sessions' = [x \in {s \in DOMAIN sessions : sessions[s].created > now - TTL * Second}
                 |-> sessions[x]]

CleanupExpiredSessions ==
  sessions' = [x \in {s \in DOMAIN sessions : sessions[s].created >= now - TTL * Second}
                 |-> sessions[x]]

(***************************************************************************)
(* The task goes on holding h, or has answered.                            *)
(***************************************************************************)
Step(p, place, h) ==
  /\ pc' = [pc EXCEPT ![p] = place]
  /\ held' = [held EXCEPT ![p] = h]
  /\ UNCHANGED <<req, begun, start>>

Answer(p) ==
  /\ pc' = [pc EXCEPT ![p] = "idle"]
  /\ req' = [req EXCEPT ![p] = NoRequest]
  /\ held' = [held EXCEPT ![p] = Nothing]
  /\ start' = [start EXCEPT ![p] = NotLate(0)]
  /\ UNCHANGED begun

-----------------------------------------------------------------------------
(***************************************************************************)
(* srp_register: a single insertion.                                       *)
(***************************************************************************)
SrpRegister(i) ==
  /\ i \notin DOMAIN identities
  /\ CreateSrpIdentity(i)
  /\ UNCHANGED <<now, sessions, pc, req, held, begun, failures, drawn, used, tokens, start>>

(***************************************************************************)
(* A request arrives.  Sessions bounds the calls of srp_init too.          *)
(***************************************************************************)
IdsReserved ==
  Cardinality(drawn) + Cardinality({p \in Procs : req[p].op = "init" /\ held[p] = Nothing})

Begin(p, r) ==
  /\ pc[p] = "idle"
  /\ begun < MaxRequests
  /\ r.op = "init" => IdsReserved < Cardinality(Sessions)
  /\ begun' = begun + 1
  /\ pc' = [pc EXCEPT ![p] = "sweep"]
  /\ req' = [req EXCEPT ![p] = r]
  /\ start' = [start EXCEPT ![p] = [at |-> now, late |-> r.op = "verify" /\ r.session \in used]]
  /\ UNCHANGED <<tablesAndClock, held, failures, drawn, used, tokens>>

(***************************************************************************)
(* Both handlers sweep first, whatever the sweep's result, and look at     *)
(* their arguments only then.                                              *)
(***************************************************************************)
AfterSweep(p) ==
  \/ req[p].op = "init" /\ Step(p, "identify", Nothing)
  \/ req[p].op = "verify" /\ Step(p, "find", Nothing)
  \/ req[p].op = "malformed" /\ Answer(p)

Sweep(p) ==
  /\ pc[p] = "sweep"
  /\ CleanupExpiredSessions
  /\ AfterSweep(p)
  /\ UNCHANGED <<now, identities, failures, drawn, used, tokens>>

(***************************************************************************)
(* srp_init draws the session id and takes created_at once it knows the    *)
(* identity; the session is stored in its next statement.                  *)
(***************************************************************************)
NewSession(p, s) ==
  /\ Step(p, "insert",
          [row |-> [session |-> s, identity |-> req[p].identity, created |-> now], good |-> FALSE])
  /\ drawn' = drawn \cup {s}

IdentifyReusingIds(p) ==
  /\ pc[p] = "identify"
  /\ IF req[p].identity \in DOMAIN identities
       THEN \E s \in Sessions \ DOMAIN sessions : NewSession(p, s)
       ELSE Answer(p) /\ UNCHANGED drawn
  /\ UNCHANGED <<tablesAndClock, used, tokens, failures>>

Identify(p) ==
  /\ pc[p] = "identify"
  /\ IF req[p].identity \in DOMAIN identities
       THEN \E s \in Sessions \ drawn : NewSession(p, s)
       ELSE Answer(p) /\ UNCHANGED drawn
  /\ UNCHANGED <<tablesAndClock, used, tokens, failures>>

Insert(p) ==
  /\ pc[p] = "insert"
  /\ CreateSrpSession(held[p].row)
  /\ Answer(p)
  /\ UNCHANGED <<now, identities, failures, drawn, used, tokens>>

(***************************************************************************)
(* srp_verify reads the session and takes its age in whole seconds, then   *)
(* the identity, with which it checks the proof; it drops the session on   *)
(* success and on failure alike, and after a success touches the identity. *)
(* The token is made before the drop and handed out after the touch.       *)
(***************************************************************************)
AgeInSeconds(row) == (now - row.created) \div Second

FindTrustingSweep(p) ==
  /\ pc[p] = "find"
  /\ IF req[p].session \in DOMAIN sessions
       THEN Step(p, "prove", [row |-> sessions[req[p].session], good |-> FALSE])
       ELSE Answer(p)
  /\ UNCHANGED <<tablesAndClock, failures, drawn, used, tokens>>

Find(p) ==
  /\ pc[p] = "find"
  /\ IF req[p].session \in DOMAIN sessions
       THEN LET row == sessions[req[p].session]
            IN  Step(p, IF AgeInSeconds(row) > TTL THEN "drop" ELSE "prove",
                        [row |-> row, good |-> FALSE])
       ELSE Answer(p)
  /\ UNCHANGED <<tablesAndClock, failures, drawn, used, tokens>>

ProveKeepingSession(p) ==
  /\ pc[p] = "prove"
  /\ LET good == req[p].proof = "good" /\ held[p].row.identity \in DOMAIN identities
     IN  Step(p, IF good THEN "touch" ELSE "drop", [row |-> held[p].row, good |-> good])
  /\ UNCHANGED <<tablesAndClock, failures, drawn, used, tokens>>

Prove(p) ==
  /\ pc[p] = "prove"
  /\ LET good == req[p].proof = "good" /\ held[p].row.identity \in DOMAIN identities
     IN  Step(p, "drop", [row |-> held[p].row, good |-> good])
  /\ UNCHANGED <<tablesAndClock, failures, drawn, used, tokens>>

AfterDrop(p) == IF held[p].good THEN Step(p, "touch", held[p]) ELSE Answer(p)

DropUntilGone(p) ==
  /\ pc[p] = "drop"
  /\ req[p].session \in DOMAIN sessions
  /\ DeleteSrpSession(req[p].session)
  /\ AfterDrop(p)
  /\ used' = used \cup {req[p].session}
  /\ UNCHANGED <<now, identities, failures, drawn, tokens>>

Drop(p) ==
  /\ pc[p] = "drop"
  /\ DeleteSrpSession(req[p].session)
  /\ AfterDrop(p)
  /\ used' = used \cup {req[p].session}
  /\ UNCHANGED <<now, identities, failures, drawn, tokens>>

HandOut(p) == tokens' = [tokens EXCEPT ![req[p].session] = @ + 1] /\ Answer(p)

Touch(p) ==
  /\ pc[p] = "touch"
  /\ TouchSrpIdentity(held[p].row.identity)
  /\ HandOut(p)
  /\ UNCHANGED <<now, sessions, failures, drawn, used>>

(***************************************************************************)
(* A statement fails.  The sweep, the drop and the touch are best effort   *)
(* (let _ = ...): the handler goes on.  After any other it answers.        *)
(***************************************************************************)
StatementFails(p) ==
  /\ failures < MaxFailures
  /\ failures' = failures + 1
  /\ \/ pc[p] = "sweep" /\ AfterSweep(p) /\ UNCHANGED tokens
     \/ pc[p] = "drop" /\ AfterDrop(p) /\ UNCHANGED tokens
     \/ pc[p] = "touch" /\ HandOut(p)
     \/ pc[p] \in {"identify", "insert", "find", "prove"} /\ Answer(p) /\ UNCHANGED tokens
  /\ UNCHANGED <<tablesAndClock, drawn, used>>

(***************************************************************************)
(* The server stops and starts again.                                      *)
(***************************************************************************)
Crash ==
  /\ \E p \in Procs : pc[p] # "idle"
  /\ pc' = [p \in Procs |-> "idle"]
  /\ req' = [p \in Procs |-> NoRequest]
  /\ held' = [p \in Procs |-> Nothing]
  /\ start' = [p \in Procs |-> NotLate(0)]
  /\ UNCHANGED <<tablesAndClock, begun, failures, drawn, used, tokens>>

Tick ==
  /\ now < MaxTime
  /\ now' = now + 1
  /\ UNCHANGED <<identities, sessions, pc, req, held, begun, failures, drawn, used, tokens, start>>

Serve(p) ==
  \/ Sweep(p)
  \/ Identify(p)
  \/ Insert(p)
  \/ Find(p)
  \/ Prove(p)
  \/ Drop(p)
  \/ Touch(p)

Next ==
  \/ \E i \in Identities : SrpRegister(i)
  \/ \E p \in Procs, r \in Requests : Begin(p, r)
  \/ \E p \in Procs : Serve(p) \/ StatementFails(p)
  \/ Crash
  \/ Tick

Spec == Init /\ [][Next]_vars

(***************************************************************************)
(* A runtime polls every task that is ready: a handler whose statement is  *)
(* done goes on.  Clients, the clock and crashes owe nothing.              *)
(***************************************************************************)
FairSpec == Spec /\ \A p \in Procs : WF_vars(Serve(p))

-----------------------------------------------------------------------------
(***************************************************************************)
(* Once a verification has dropped its session, whatever its outcome, the  *)
(* session is never in the table again: no slow srp_init, no failed        *)
(* statement and no restart brings it back.                                *)
(***************************************************************************)
UsedSessionsAreGone == used \cap DOMAIN sessions = {}

(***************************************************************************)
(* The sequential half of "single-use": while no statement has failed, a   *)
(* session is gone by the time the token it was traded for is handed out,  *)
(* so the two tokens of one session can only come from two requests that   *)
(* ran side by side.                                                       *)
(***************************************************************************)
TradedSessionsAreGone ==
  failures = 0 => \A s \in DOMAIN sessions : tokens[s] = 0

(***************************************************************************)
(* A proof sent more than the time to live after its session was made is   *)
(* refused, even if every sweep failed or came too early, and so is one    *)
(* sent after the session was used.  (The age is cut to whole seconds, so  *)
(* the limit is enforced up to a second late.)                             *)
(***************************************************************************)
HandsOut(p) == pc[p] = "touch" /\ tokens'[req[p].session] > tokens[req[p].session]

LateProofsRefused ==
  [][\A p \in Procs : HandsOut(p) =>
       /\ start[p].at - held[p].row.created < (TTL + 1) * Second
       /\ ~start[p].late]_vars

(***************************************************************************)
(* Nobody else's requests end a handshake: a session younger than its time *)
(* to live leaves the table only in the drop of its own verification.      *)
(***************************************************************************)
FreshSessionsStay ==
  [][\A s \in DOMAIN sessions \ DOMAIN sessions' :
       \/ now - sessions[s].created > TTL * Second
       \/ \E p \in Procs : pc[p] = "drop" /\ req[p].session = s /\ pc'[p] # "drop"]_vars

(***************************************************************************)
(* Every request is answered, two verifications of one session included:   *)
(* neither waits for a row the other has deleted.                          *)
(***************************************************************************)
RequestsAreAnswered == \A p \in Procs : pc[p] # "idle" ~> pc[p] = "idle"
=============================================================================
