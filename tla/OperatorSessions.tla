---------------------------- MODULE OperatorSessions ----------------------------
(***************************************************************************)
(* Operators sign in, by the API and by the web panel, and out again; a    *)
(* command on the server's machine resets a password.                      *)
(*                                                                         *)
(* Code: internal/api/auth.go, internal/web/pages_auth.go, internal/auth/  *)
(* {reset,password_limiter}.go, cmd/aliasdeck-server/resetpassword.go and  *)
(* the operator and token repositories of internal/store/sqlitestore.      *)
(*                                                                         *)
(* One action per store call, as in DeviceCredentials, and one per use of  *)
(* the password limiter, which all logins of the server process share. The *)
(* reset is a process of its own on the same database.                     *)
(*                                                                         *)
(* A stored hash is the number of resets the operator has had: every reset *)
(* stores a new one. Whether a password matches the hash it is verified    *)
(* against is the caller's choice. Sessions also end after 24 hours, which *)
(* only takes away what is live here, and is left out.                     *)
(***************************************************************************)
EXTENDS FiniteSets, Naturals

CONSTANTS Operator,    \* operator accounts
          NoOperator,  \* the subject of no session
          Session,     \* session token lookups the server may draw
          NoSession,
          Request,     \* handlers and reset commands in flight
          Capacity,    \* PasswordVerificationConcurrency
          MaxResets    \* bound on the resets of an operator

ASSUME NoneAssumption == NoOperator \notin Operator /\ NoSession \notin Session
ASSUME CapacityAssumption == Capacity \in Nat \ {0} /\ MaxResets \in Nat
ASSUME RequestAssumption == IsFiniteSet(Request)

VARIABLES
  hash,     \* operators.password_hash
  owner,    \* tokens.subject_id of a session, NoOperator before it is drawn
  revoked,  \* sessions with revoked_at set
  inUse,    \* length of the PasswordLimiter channel
  pc,       \* where each request is
  oper,     \* the operator it read or resets
  read,     \* the hash a login read
  sess      \* the session a logout authenticated with

\* History: what the properties need to remember.
VARIABLES
  opened,   \* the hash each session's password was verified against
  owing,    \* operators with a new hash whose sessions are not revoked yet
  raced     \* operators whose password was reset beside a login

sessionVars == <<owner, revoked, opened>>
locals == <<pc, oper, read, sess>>
history == <<owing, raced>>
vars == <<hash, sessionVars, inUse, locals, history>>

-----------------------------------------------------------------------------

Login == {"login.acquire", "login.verify", "login.create"}
PC == {"idle", "logout.revoke", "reset.revoke"} \cup Login

\* The requests in flight in the server process; a reset is in its own.
Handlers == {r \in Request : pc[r] \in Login \cup {"logout.revoke"}}

Logins(o) == {r \in Request : pc[r] \in Login /\ oper[r] = o}

\* auth.Verify for kind session.
Live(o) == {t \in Session : owner[t] = o} \ revoked

TypeOK ==
  /\ hash \in [Operator -> 0 .. MaxResets]
  /\ owner \in [Session -> Operator \cup {NoOperator}]
  /\ revoked \subseteq Session
  /\ inUse \in 0 .. Capacity
  /\ pc \in [Request -> PC]
  /\ oper \in [Request -> Operator \cup {NoOperator}]
  /\ read \in [Request -> 0 .. MaxResets]
  /\ sess \in [Request -> Session \cup {NoSession}]
  /\ opened \in [Session -> 0 .. MaxResets]
  /\ owing \subseteq Operator
  /\ raced \subseteq Operator
  /\ \A r \in Request : /\ pc[r] \in Login \cup {"reset.revoke"} => oper[r] \in Operator
                        /\ pc[r] = "logout.revoke" => sess[r] \in Session

Init ==
  /\ hash = [o \in Operator |-> 0]
  /\ owner = [t \in Session |-> NoOperator]
  /\ revoked = {}
  /\ inUse = 0
  /\ pc = [r \in Request |-> "idle"]
  /\ oper = [r \in Request |-> NoOperator]
  /\ read = [r \in Request |-> 0]
  /\ sess = [r \in Request |-> NoSession]
  /\ opened = [t \in Session |-> 0]
  /\ owing = {} /\ raced = {}

\* The requests R end, and their locals are gone.
Return(R) ==
  /\ pc' = [r \in Request |-> IF r \in R THEN "idle" ELSE pc[r]]
  /\ oper' = [r \in Request |-> IF r \in R THEN NoOperator ELSE oper[r]]
  /\ read' = [r \in Request |-> IF r \in R THEN 0 ELSE read[r]]
  /\ sess' = [r \in Request |-> IF r \in R THEN NoSession ELSE sess[r]]

GoOn(r, from, to) ==
  /\ pc[r] = from
  /\ pc' = [pc EXCEPT ![r] = to]
  /\ UNCHANGED <<oper, read, sess>>

-----------------------------------------------------------------------------
(* Login, by API or web. *)

\* Operators().ByUsername. An unknown username is refused here.
LoginLookup(r, o) ==
  /\ pc[r] = "idle"
  /\ pc' = [pc EXCEPT ![r] = "login.acquire"]
  /\ oper' = [oper EXCEPT ![r] = o]
  /\ read' = [read EXCEPT ![r] = hash[o]]
  /\ UNCHANGED <<hash, sessionVars, inUse, sess, history>>

\* Mutant: the channel has no capacity to fill.
LoginAcquireUnbounded(r) ==
  /\ GoOn(r, "login.acquire", "login.verify")
  /\ inUse' = inUse + 1
  /\ UNCHANGED <<hash, sessionVars, history>>

\* TryAcquire: a slot, or a refusal at once.
LoginAcquire(r) ==
  /\ GoOn(r, "login.acquire", "login.verify")
  /\ inUse < Capacity
  /\ inUse' = inUse + 1
  /\ UNCHANGED <<hash, sessionVars, history>>

LoginBusy(r) ==
  /\ pc[r] = "login.acquire"
  /\ inUse >= Capacity
  /\ Return({r})
  /\ UNCHANGED <<hash, sessionVars, inUse, history>>

\* VerifyPassword, then Release: the password matched ...
LoginMatch(r) ==
  /\ GoOn(r, "login.verify", "login.create")
  /\ inUse' = inUse - 1
  /\ UNCHANGED <<hash, sessionVars, history>>

\* Mutant: the early return comes before the release.
LoginMismatchUnreleased(r) ==
  /\ pc[r] = "login.verify"
  /\ Return({r})
  /\ UNCHANGED <<hash, sessionVars, inUse, history>>

\* ... or did not.
LoginMismatch(r) ==
  /\ pc[r] = "login.verify"
  /\ inUse' = inUse - 1
  /\ Return({r})
  /\ UNCHANGED <<hash, sessionVars, history>>

\* Tokens().Create of a session for the operator that was read, whatever has
\* become of its password by now.
LoginCreate(r, t) ==
  /\ pc[r] = "login.create"
  /\ owner[t] = NoOperator
  /\ owner' = [owner EXCEPT ![t] = oper[r]]
  /\ opened' = [opened EXCEPT ![t] = read[r]]
  /\ Return({r})
  /\ UNCHANGED <<hash, revoked, inUse, history>>

-----------------------------------------------------------------------------
(* Logout, by API or web, of the session the request authenticates with. *)

LogoutAuthenticate(r, t) ==
  /\ pc[r] = "idle"
  /\ \E o \in Operator : t \in Live(o)
  /\ pc' = [pc EXCEPT ![r] = "logout.revoke"]
  /\ sess' = [sess EXCEPT ![r] = t]
  /\ UNCHANGED <<hash, sessionVars, inUse, oper, read, history>>

LogoutRevoke(r) ==
  /\ pc[r] = "logout.revoke"
  /\ revoked' = revoked \cup {sess[r]}
  /\ Return({r})
  /\ UNCHANGED <<hash, owner, opened, inUse, history>>

-----------------------------------------------------------------------------
(* aliasdeck-server reset-password. *)

\* Operators().UpdatePasswordHash ...
ResetUpdate(r, o) ==
  /\ pc[r] = "idle"
  /\ hash[o] < MaxResets
  /\ hash' = [hash EXCEPT ![o] = @ + 1]
  /\ pc' = [pc EXCEPT ![r] = "reset.revoke"]
  /\ oper' = [oper EXCEPT ![r] = o]
  /\ owing' = owing \cup {o}
  /\ raced' = IF Logins(o) = {} THEN raced ELSE raced \cup {o}
  /\ UNCHANGED <<sessionVars, inUse, read, sess>>

\* Mutant: one session is revoked where all of the subject are meant.
ResetRevokeOne(r) ==
  /\ pc[r] = "reset.revoke"
  /\ \E t \in Session : revoked' = revoked \cup {t}
  /\ owing' = owing \ {oper[r]}
  /\ Return({r})
  /\ UNCHANGED <<hash, owner, opened, inUse, raced>>

\* ... and then RevokeSubject(session, operator).
ResetRevoke(r) ==
  /\ pc[r] = "reset.revoke"
  /\ revoked' = revoked \cup {t \in Session : owner[t] = oper[r]}
  /\ owing' = owing \ {oper[r]}
  /\ Return({r})
  /\ UNCHANGED <<hash, owner, opened, inUse, raced>>

-----------------------------------------------------------------------------

\* A store call fails, or the context of a request is cancelled, and what it has
\* not done does not happen. A verification in progress asks no context, so a
\* login that holds a slot gets to its release. A reset that stops here has
\* failed with ErrSessionsSurvivedReset, or died.
Abort(r) ==
  /\ pc[r] \in {"login.create", "logout.revoke", "reset.revoke"}
  /\ Return({r})
  /\ UNCHANGED <<hash, sessionVars, inUse, history>>

\* The server process dies and restarts: its handlers and its limiter are gone.
Restart ==
  /\ Handlers # {}
  /\ inUse' = 0
  /\ Return(Handlers)
  /\ UNCHANGED <<hash, sessionVars, history>>

Verify(r) == LoginMatch(r) \/ LoginMismatch(r)

LoginHandler(r) ==
  \/ \E o \in Operator : LoginLookup(r, o)
  \/ LoginAcquire(r)
  \/ LoginBusy(r)
  \/ Verify(r)
  \/ \E t \in Session : LoginCreate(r, t)

LogoutHandler(r) ==
  \/ \E t \in Session : LogoutAuthenticate(r, t)
  \/ LogoutRevoke(r)

ResetCommand(r) ==
  \/ \E o \in Operator : ResetUpdate(r, o)
  \/ ResetRevoke(r)

Next ==
  \/ \E r \in Request : LoginHandler(r) \/ LogoutHandler(r) \/ ResetCommand(r) \/ Abort(r)
  \/ Restart

\* A verification is plain computation and comes to its end.
Fairness == \A r \in Request : WF_vars(Verify(r))

Spec == Init /\ [][Next]_vars /\ Fairness

-----------------------------------------------------------------------------
(* Properties. *)

\* The limiter's count is the number of verifications that are running, API and
\* web together: none is lost and none is given back twice, whichever way a
\* login ends (TryAcquire and Release around VerifyPassword).
SlotsAreAccounted ==
  inUse = Cardinality({r \in Request : pc[r] = "login.verify"})

\* Logins are never refused as busy from some time on: the limiter always comes
\* to have a free slot again.
CapacityComesBack == []<>(inUse < Capacity)

\* The operator's live sessions were all opened with the password that counts.
OnlyCurrentSessions(o) == \A t \in Live(o) : opened[t] = hash[o]

\* A reset that got to its end leaves no session that was opened with an older
\* password, unless a login was in flight when it replaced the hash
\* (ResetPassword, and why it revokes after the update).
ResetEndsSessionsUnlessRaced ==
  \A o \in Operator \ (owing \cup raced) : OnlyCurrentSessions(o)

\* README, "Recover a lost operator password": the reset revokes every session,
\* so whoever is signed in with the old password is signed out.
ResetEndsSessions ==
  \A o \in Operator \ owing : OnlyCurrentSessions(o)

=============================================================================
