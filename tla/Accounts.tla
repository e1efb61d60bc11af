------------------------------ MODULE Accounts ------------------------------
(***************************************************************************)
(* Password accounts of IdentityHub (src/hubs/identity.rs) and the API-key *)
(* half of TrakAuth::validate (src/auth.rs), over the users, api_keys and  *)
(* refresh_tokens tables (src/store/identity.rs).                          *)
(*                                                                         *)
(* register, create_api_key and revoke_api_key are one statement each.     *)
(* The others run as tasks; one action is one statement with the code up   *)
(* to the next.  A task p is at                                            *)
(*   "lookup"   login reads the user and checks the password,              *)
(*   "store"    login stores the refresh token it has made,                *)
(*   "find"     refresh reads the refresh token,                           *)
(*   "discard"  refresh deletes the token it found expired,                *)
(*   "match"    try_api_key reads the key with the hash of what it got,    *)
(*   "touch"    try_api_key notes the use of the key,                      *)
(*   "owner"    refresh and try_api_key read the user,                     *)
(*   "idle"     no request.                                                *)
(* granted counts the answers that let the client in.                      *)
(*                                                                         *)
(* A secret is the id of its row: it is 32 random bytes, found by its hash.*)
(* Access tokens are not stored, so nothing here depends on them.          *)
(***************************************************************************)
EXTENDS Integers, FiniteSets

CONSTANTS
  Procs,         \* tasks that serve requests
  Users, Names,  \* user ids that may be minted, usernames
  Outsider,      \* a caller without a row in users: anonymous, or an SRP login
  Keys,          \* API keys that may be drawn
  Refreshes,     \* refresh tokens that may be drawn
  RefreshTTL,    \* REFRESH_TOKEN_TTL_SECS
  Asks,          \* the expires_in (a u64) callers may ask for
  Half,          \* 2^63: a u64 from Half on turns negative as i64
  MaxDuration,   \* chrono::Duration::seconds panics beyond this
  LastDate,      \* chrono's last representable date
  FirstReadable, LastReadable,  \* years 0 to 9999: RFC 3339 has four digits
  MaxTime,       \* bound: the clock stops here
  MaxRequests,   \* bound: how many requests TLC lets clients send
  MaxFailures,   \* bound: how many statements TLC lets fail
  None

ASSUME NumbersAssumption ==
  /\ RefreshTTL \in Nat /\ MaxTime \in Nat /\ MaxRequests \in Nat /\ MaxFailures \in Nat
  /\ {Half, MaxDuration, LastDate, LastReadable} \subseteq Nat /\ FirstReadable \in Int
  /\ MaxTime + RefreshTTL < LastReadable /\ LastReadable < LastDate
  /\ LastDate < MaxDuration /\ MaxDuration < Half
  /\ Asks \subseteq 0 .. (2 * Half - 1)

ASSUME CallerAssumption == Outsider \notin Users /\ None \notin Int

VARIABLES
  now,        \* the clock, in seconds
  users,      \* users: the name of each registered user
  keys,       \* api_keys: owner, expires_at and whether it was ever used
  refreshes,  \* refresh_tokens: user and expires_at
  pc, req,    \* where each task is, and its request
  held,       \* the row it made or read
  begun, failures, granted,
  deadline,   \* history: the last second each secret drawn was meant to serve
  revoked,    \* history: <<k, c>> when c was told that k is revoked
  late        \* history: whether a task's credential was over when it began

tables == <<users, keys, refreshes>>
history == <<deadline, revoked>>
vars == <<now, users, keys, refreshes, pc, req, held, begun, failures, granted,
          deadline, revoked, late>>

Requests ==
  [op : {"login"}, name : Names, knows : BOOLEAN]
    \cup [op : {"refresh"}, token : Refreshes]
    \cup [op : {"validate"}, key : Keys]

NoRequest == [op |-> "none"]

Callers == Users \cup {Outsider}
KeyRows == [owner : Callers, expires : Int \cup {None}, touched : BOOLEAN]
RefreshRows == [id : Refreshes, owner : Users, expires : Nat]

Drawn == DOMAIN deadline

TypeOK ==
  /\ now \in Nat
  /\ DOMAIN users \subseteq Users /\ users \in [DOMAIN users -> Names]
  /\ DOMAIN keys \subseteq Keys \cap Drawn /\ keys \in [DOMAIN keys -> KeyRows]
  /\ DOMAIN refreshes \subseteq Refreshes \cap Drawn
  /\ refreshes \in [DOMAIN refreshes -> RefreshRows]
  /\ pc \in [Procs -> {"idle", "lookup", "store", "find", "discard", "match", "touch", "owner"}]
  /\ req \in [Procs -> Requests \cup {NoRequest}]
  /\ held \in [Procs -> RefreshRows \cup KeyRows \cup {None}]
  /\ {begun, failures, granted} \subseteq Nat
  /\ deadline \in [Drawn -> Nat \cup {None}] /\ Drawn \subseteq Keys \cup Refreshes
  /\ revoked \subseteq Keys \X Callers
  /\ late \in [Procs -> BOOLEAN]

Init ==
  /\ now = 0
  /\ users = [u \in {} |-> None]
  /\ keys = [k \in {} |-> None]
  /\ refreshes = [r \in {} |-> None]
  /\ pc = [p \in Procs |-> "idle"]
  /\ req = [p \in Procs |-> NoRequest]
  /\ held = [p \in Procs |-> None]
  /\ begun = 0 /\ failures = 0 /\ granted = 0
  /\ deadline = [s \in {} |-> None]
  /\ revoked = {}
  /\ late = [p \in Procs |-> FALSE]

-----------------------------------------------------------------------------
(***************************************************************************)
(* The statements of IdentityStore that change a table.  A username is     *)
(* UNIQUE; a DELETE or an UPDATE of no row is no error.                    *)
(***************************************************************************)
WithRow(rows, id, row) == [x \in DOMAIN rows \cup {id} |-> IF x = id THEN row ELSE rows[x]]

CreateUser(u, name) ==
  /\ \A other \in DOMAIN users : users[other] # name
  /\ users' = WithRow(users, u, name)

CreateApiKey(k, row) == keys' = WithRow(keys, k, row)

BlankApiKey(k, caller) == keys' = [keys EXCEPT ![k] = None]

DeleteApiKey(k, caller) ==
  keys' = [x \in DOMAIN keys \ {y \in {k} : keys[y].owner = caller} |-> keys[x]]

TouchByReplace(k, row) == keys' = WithRow(keys, k, [row EXCEPT !.touched = TRUE])

TouchApiKey(k, row) ==
  keys' = [x \in DOMAIN keys |-> IF x = k THEN [keys[x] EXCEPT !.touched = TRUE] ELSE keys[x]]

CreateRefreshToken(row) == refreshes' = WithRow(refreshes, row.id, row)

DeleteUserRefreshTokens(row) ==
  refreshes' = [x \in {y \in DOMAIN refreshes : refreshes[y].owner # row.owner} |-> refreshes[x]]

DeleteRefreshToken(row) == refreshes' = [x \in DOMAIN refreshes \ {row.id} |-> refreshes[x]]

(***************************************************************************)
(* The handlers of one statement.  A taken username changes nothing.       *)
(***************************************************************************)
NoTask == UNCHANGED <<now, pc, req, held, begun, failures, granted, late>>

Register(u, name) ==
  /\ u \notin DOMAIN users
  /\ CreateUser(u, name)
  /\ NoTask /\ UNCHANGED <<keys, refreshes, history>>

(***************************************************************************)
(* expires_in is cast from u64 to i64 and added to the clock.  The handler *)
(* panics, and stores nothing, when chrono cannot represent the duration   *)
(* or the date.                                                            *)
(***************************************************************************)
AsI64(n) == IF n < Half THEN n ELSE n - 2 * Half

Representable(secs) ==
  secs \in -MaxDuration .. MaxDuration /\ now + secs \in -LastDate .. LastDate

ExpiryOrNever(asked) ==
  IF asked = None \/ ~Representable(AsI64(asked)) THEN None ELSE now + AsI64(asked)

Expiry(asked) == IF asked = None THEN None ELSE now + AsI64(asked)

CreateKeyUnchecked(k, caller, asked) ==
  /\ k \notin Drawn
  /\ CreateApiKey(k, [owner |-> caller, expires |-> ExpiryOrNever(asked), touched |-> FALSE])
  /\ deadline' = WithRow(deadline, k, IF asked = None THEN None ELSE now + asked)
  /\ NoTask /\ UNCHANGED <<users, refreshes, revoked>>

CreateKey(k, caller, asked) ==
  /\ k \notin Drawn
  /\ asked # None => Representable(AsI64(asked))
  /\ CreateApiKey(k, [owner |-> caller, expires |-> Expiry(asked), touched |-> FALSE])
  /\ deadline' = WithRow(deadline, k, IF asked = None THEN None ELSE now + asked)
  /\ NoTask /\ UNCHANGED <<users, refreshes, revoked>>

RevokeKey(k, caller) ==
  /\ k \in DOMAIN keys
  /\ DeleteApiKey(k, caller)
  /\ revoked' = IF keys' = keys THEN revoked ELSE revoked \cup {<<k, caller>>}
  /\ NoTask /\ UNCHANGED <<users, refreshes, deadline>>

-----------------------------------------------------------------------------
(***************************************************************************)
(* The handlers of several statements.  The task goes on holding row, is   *)
(* turned away, or is let in.                                              *)
(***************************************************************************)
Step(p, place, row) ==
  /\ pc' = [pc EXCEPT ![p] = place]
  /\ held' = [held EXCEPT ![p] = row]
  /\ UNCHANGED <<req, late, granted>>

Answer(p) ==
  /\ pc' = [pc EXCEPT ![p] = "idle"]
  /\ req' = [req EXCEPT ![p] = NoRequest]
  /\ held' = [held EXCEPT ![p] = None]
  /\ late' = [late EXCEPT ![p] = FALSE]

TurnAway(p) == Answer(p) /\ UNCHANGED granted

Grant(p) == Answer(p) /\ granted' = granted + 1

(***************************************************************************)
(* A request arrives; Refreshes bounds the logins too.                     *)
(***************************************************************************)
RefreshesReserved ==
  Cardinality(Refreshes \cap Drawn) + Cardinality({p \in Procs : pc[p] = "lookup"})

FirstPlace(op) == CASE op = "login" -> "lookup" [] op = "refresh" -> "find" [] op = "validate" -> "match"

PastDeadline(s) == s \in Drawn /\ deadline[s] # None /\ deadline[s] < now

Late(r) ==
  \/ r.op = "validate" /\ (PastDeadline(r.key) \/ \E c \in Callers : <<r.key, c>> \in revoked)
  \/ r.op = "refresh" /\ PastDeadline(r.token)

Begin(p, r) ==
  /\ pc[p] = "idle"
  /\ begun < MaxRequests
  /\ r.op = "login" => RefreshesReserved < Cardinality(Refreshes)
  /\ begun' = begun + 1
  /\ pc' = [pc EXCEPT ![p] = FirstPlace(r.op)]
  /\ req' = [req EXCEPT ![p] = r]
  /\ late' = [late EXCEPT ![p] = Late(r)]
  /\ UNCHANGED <<now, tables, held, failures, granted, history>>

(***************************************************************************)
(* login: the user and the password, then the refresh token.               *)
(***************************************************************************)
Lookup(p) ==
  /\ pc[p] = "lookup"
  /\ \/ \E u \in DOMAIN users, r \in Refreshes \ Drawn :
          /\ users[u] = req[p].name /\ req[p].knows
          /\ Step(p, "store", [id |-> r, owner |-> u, expires |-> now + RefreshTTL])
          /\ deadline' = WithRow(deadline, r, now + RefreshTTL)
     \/ /\ ~req[p].knows \/ \A u \in DOMAIN users : users[u] # req[p].name
        /\ TurnAway(p)
        /\ UNCHANGED deadline
  /\ UNCHANGED <<now, tables, begun, failures, revoked>>

Store(p) ==
  /\ pc[p] = "store"
  /\ CreateRefreshToken(held[p])
  /\ Grant(p)
  /\ UNCHANGED <<now, users, keys, begun, failures, history>>

(***************************************************************************)
(* refresh: the token is not rotated; one found expired is deleted.        *)
(***************************************************************************)
FindAnyAge(p) ==
  /\ pc[p] = "find"
  /\ IF req[p].token \in DOMAIN refreshes
       THEN Step(p, "owner", refreshes[req[p].token])
       ELSE TurnAway(p)
  /\ UNCHANGED <<now, tables, begun, failures, history>>

Find(p) ==
  /\ pc[p] = "find"
  /\ IF req[p].token \in DOMAIN refreshes
       THEN LET row == refreshes[req[p].token]
            IN  Step(p, IF row.expires < now THEN "discard" ELSE "owner", row)
       ELSE TurnAway(p)
  /\ UNCHANGED <<now, tables, begun, failures, history>>

Discard(p) ==
  /\ pc[p] = "discard"
  /\ DeleteRefreshToken(held[p])
  /\ TurnAway(p)
  /\ UNCHANGED <<now, users, keys, begun, failures, history>>

(***************************************************************************)
(* try_api_key: a date that RFC 3339 cannot hold was stored, but reading   *)
(* the row back fails.                                                     *)
(***************************************************************************)
Readable(date) == date = None \/ date \in FirstReadable .. LastReadable

Serves(row) == Readable(row.expires) /\ (row.expires # None => row.expires >= now)

Match(p) ==
  /\ pc[p] = "match"
  /\ IF req[p].key \in DOMAIN keys /\ Serves(keys[req[p].key])
       THEN Step(p, "touch", keys[req[p].key])
       ELSE TurnAway(p)
  /\ UNCHANGED <<now, tables, begun, failures, history>>

Touch(p) ==
  /\ pc[p] = "touch"
  /\ TouchApiKey(req[p].key, held[p])
  /\ Step(p, "owner", held[p])
  /\ UNCHANGED <<now, users, refreshes, begun, failures, history>>

Owner(p) ==
  /\ pc[p] = "owner"
  /\ IF held[p].owner \in DOMAIN users THEN Grant(p) ELSE TurnAway(p)
  /\ UNCHANGED <<now, tables, begun, failures, history>>

(***************************************************************************)
(* A statement fails: touch is best effort (let _ = ...), discard too and  *)
(* the token is refused all the same; any other turns the client away.     *)
(***************************************************************************)
StatementFails(p) ==
  /\ pc[p] # "idle"
  /\ failures < MaxFailures
  /\ failures' = failures + 1
  /\ IF pc[p] = "touch" THEN Step(p, "owner", held[p]) ELSE TurnAway(p)
  /\ UNCHANGED <<now, tables, begun, history>>

Tick ==
  /\ now < MaxTime
  /\ now' = now + 1
  /\ UNCHANGED <<tables, pc, req, held, begun, failures, granted, late, history>>

Serve(p) ==
  \/ Lookup(p)
  \/ Store(p)
  \/ Find(p)
  \/ Discard(p)
  \/ Match(p)
  \/ Touch(p)
  \/ Owner(p)

Next ==
  \/ \E u \in Users, name \in Names : Register(u, name)
  \/ \E k \in Keys, caller \in Callers, asked \in Asks \cup {None} : CreateKey(k, caller, asked)
  \/ \E k \in Keys, caller \in Callers : RevokeKey(k, caller)
  \/ \E p \in Procs, r \in Requests : Begin(p, r)
  \/ \E p \in Procs : Serve(p) \/ StatementFails(p)
  \/ Tick

Spec == Init /\ [][Next]_vars

-----------------------------------------------------------------------------
(***************************************************************************)
(* A key is refused to every validation that begins after its owner was    *)
(* told it is revoked, or after the time it was asked to serve; a refresh  *)
(* token to every refresh that begins past its thirty days.  What other    *)
(* requests are doing with the same row meanwhile changes nothing.         *)
(***************************************************************************)
LateCredentialsRefused == [][\A p \in Procs : late[p] /\ pc'[p] = "idle" => granted' = granted]_vars

(***************************************************************************)
(* A key stored with a term ends at the end of that term or before: no     *)
(* expires_in, however large, makes the cast and the sum give a key that   *)
(* lasts longer than was asked, or for ever.                               *)
(***************************************************************************)
KeysKeepTheirTerm ==
  \A k \in DOMAIN keys :
    deadline[k] # None => keys[k].expires # None /\ keys[k].expires <= deadline[k]

(***************************************************************************)
(* Credentials end in no other way: a key goes when its owner revokes it,  *)
(* a refresh token when it has expired, also when other tokens of the same *)
(* user are refreshed at the time.                                         *)
(***************************************************************************)
CredentialsStay ==
  [][/\ \A k \in DOMAIN keys \ DOMAIN keys' : <<k, keys[k].owner>> \in revoked'
     /\ \A r \in DOMAIN refreshes \ DOMAIN refreshes' : refreshes[r].expires < now]_vars

(***************************************************************************)
(* Revoked keys stay out of the table: a validation that had read the key  *)
(* before does not bring it back when it notes the use.                    *)
(***************************************************************************)
RevokedKeysAreGone == \A k \in DOMAIN keys : <<k, keys[k].owner>> \notin revoked
=============================================================================
