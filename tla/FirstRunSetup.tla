----------------------------- MODULE FirstRunSetup -----------------------------
(***************************************************************************)
(* How the first operator comes to be: by the environment when the server  *)
(* starts, or by the setup page in a browser, with the one-time credential *)
(* on disk or, from the server's own host, with a token of the page.       *)
(*                                                                         *)
(* Code: internal/auth/{setup,bootstrap}.go, internal/web/pages_setup.go,  *)
(* and the start of internal/server/server.go.                             *)
(*                                                                         *)
(* One server process at a time. A setup is a sequence of steps on the     *)
(* credential file, its .lock and the operators table; other setups run    *)
(* beside it and the process may die in it. The table of page tokens is in *)
(* memory, under a mutex.                                                  *)
(***************************************************************************)
EXTENDS FiniteSets, Naturals

CONSTANTS Username,     \* names operators choose
          Admin,        \* the name bootstrap gives, one of them
          PageToken,    \* local setup tokens the server may draw
          Request,      \* submitted setup forms in flight
          MaxTokens,    \* maxLocalSetupTokens
          TTL,          \* localSetupTokenTTL
          MaxTime       \* bound on the clock

ASSUME AdminAssumption == Admin \in Username
ASSUME TokenAssumption == MaxTokens \in Nat \ {0} /\ TTL \in Nat \ {0} /\ MaxTime \in Nat

VARIABLES
  operators,  \* usernames in the operators table
  cred,       \* the credential file exists
  lock,       \* its .lock exists
  up,         \* the server process runs
  table,      \* the page tokens in the tracker
  expiry,     \* when each token drawn expires, 0 for one not drawn
  now,        \* the wall clock
  pc,         \* where each submitted form is
  local       \* the forms that came with a page token

\* History: the page tokens this process has shown, those that were spent, and
\* whether a process died with the .lock.
VARIABLES shown, spent, orphaned

files == <<cred, lock>>
tokens == <<table, expiry, shown, spent>>
locals == <<pc, local>>
vars == <<operators, files, up, tokens, now, locals, orphaned>>

-----------------------------------------------------------------------------

\* A form at one of these is between the creation of the .lock and its removal.
Locked == {"setup.check", "setup.create", "setup.consume", "setup.unlock"}
PC == {"idle", "setup.enabled", "setup.lock", "setup.page"} \cup Locked

TypeOK ==
  /\ operators \subseteq Username
  /\ cred \in BOOLEAN /\ lock \in BOOLEAN /\ up \in BOOLEAN
  /\ table \subseteq PageToken
  /\ expiry \in [PageToken -> 0 .. MaxTime + TTL]
  /\ now \in 0 .. MaxTime
  /\ pc \in [Request -> PC]
  /\ local \subseteq Request
  /\ shown \subseteq PageToken /\ spent \subseteq PageToken
  /\ orphaned \in BOOLEAN
  /\ Cardinality(table) <= MaxTokens

Init ==
  /\ operators = {}
  /\ cred = FALSE /\ lock = FALSE /\ up = FALSE
  /\ table = {} /\ shown = {} /\ spent = {}
  /\ expiry = [t \in PageToken |-> 0]
  /\ now = 0
  /\ pc = [r \in Request |-> "idle"]
  /\ local = {}
  /\ orphaned = FALSE

GoOn(r, from, to) ==
  /\ pc[r] = from
  /\ pc' = [pc EXCEPT ![r] = to]
  /\ UNCHANGED local

Return(r) ==
  /\ pc' = [pc EXCEPT ![r] = "idle"]
  /\ local' = local \ {r}

-----------------------------------------------------------------------------
(* The start of the server, before it listens. *)

\* Bootstrap, with ALIASDECK_ADMIN_PASSWORD set.
StartWithPassword ==
  /\ ~up
  /\ up' = TRUE
  /\ operators' = IF operators = {} THEN {Admin} ELSE operators
  /\ UNCHANGED <<files, tokens, now, locals, orphaned>>

\* Mutant: the operators are not counted.
StartWithSetupUncounted ==
  /\ ~up
  /\ up' = TRUE
  /\ cred' = TRUE
  /\ UNCHANGED <<operators, lock, tokens, now, locals, orphaned>>

\* The file is left alone if it is there, and written by a rename if not.
EnsureSetupCredential == cred' = TRUE

\* BootstrapWithSetup, without it: a credential, unless there is an operator.
StartWithSetup ==
  /\ ~up
  /\ up' = TRUE
  /\ IF operators = {} THEN EnsureSetupCredential ELSE UNCHANGED cred
  /\ UNCHANGED <<operators, lock, tokens, now, locals, orphaned>>

-----------------------------------------------------------------------------
(* The page tokens. *)

Fresh(T) == {t \in T : expiry[t] > now}

\* Mutant: nothing bounds the table.
DrawUnbounded(t) ==
  /\ expiry[t] = 0
  /\ shown' = shown \cup {t}
  /\ expiry' = [expiry EXCEPT ![t] = now + TTL]
  /\ table' = Fresh(table) \cup {t}
  /\ UNCHANGED spent

\* Mutant: a full table gives up whatever the map yields first.
DrawEvictingAny(t) ==
  /\ expiry[t] = 0
  /\ shown' = shown \cup {t}
  /\ expiry' = [expiry EXCEPT ![t] = now + TTL]
  /\ IF Cardinality(Fresh(table)) < MaxTokens
     THEN table' = Fresh(table) \cup {t}
     ELSE \E e \in Fresh(table) : table' = (Fresh(table) \ {e}) \cup {t}
  /\ UNCHANGED spent

\* setupTokenTracker.create: the expired are dropped, and a full table then
\* gives up one that expires first.
Draw(t) ==
  /\ expiry[t] = 0
  /\ shown' = shown \cup {t}
  /\ expiry' = [expiry EXCEPT ![t] = now + TTL]
  /\ IF Cardinality(Fresh(table)) < MaxTokens
     THEN table' = Fresh(table) \cup {t}
     ELSE \E e \in Fresh(table) :
            /\ \A u \in Fresh(table) : expiry[e] <= expiry[u]
            /\ table' = (Fresh(table) \ {e}) \cup {t}
  /\ UNCHANGED spent

\* setupTokenTracker.consume.
Spend(t) ==
  /\ t \in Fresh(table)
  /\ table' = Fresh(table) \ {t}
  /\ spent' = spent \cup {t}
  /\ UNCHANGED <<expiry, shown>>

\* GET /setup from the server's host, while there is a credential file.
ShowPage(t) ==
  /\ up /\ cred
  /\ Draw(t)
  /\ UNCHANGED <<operators, files, up, now, locals, orphaned>>

-----------------------------------------------------------------------------
(* POST /setup. *)

Submit(r) == up /\ pc[r] = "idle" /\ pc' = [pc EXCEPT ![r] = "setup.enabled"]

\* A form with a page token spends it, whatever becomes of the form ...
SubmitLocal(r, t) ==
  /\ Submit(r)
  /\ Spend(t)
  /\ local' = local \cup {r}
  /\ UNCHANGED <<operators, files, up, now, orphaned>>

\* ... and one with a credential, right or wrong, needs none.
SubmitCredential(r) ==
  /\ Submit(r)
  /\ UNCHANGED <<operators, files, up, tokens, now, local, orphaned>>

\* SetupEnabled: the credential file must be there.
SetupEnabled(r) ==
  /\ cred
  /\ GoOn(r, "setup.enabled", "setup.lock")
  /\ UNCHANGED <<operators, files, up, tokens, now, orphaned>>

\* Mutant: O_EXCL is missing.
SetupLockShared(r) ==
  /\ lock' = TRUE
  /\ GoOn(r, "setup.lock", "setup.check")
  /\ UNCHANGED <<operators, cred, up, tokens, now, orphaned>>

\* The .lock is created, and must not exist.
SetupLock(r) ==
  /\ ~lock
  /\ lock' = TRUE
  /\ GoOn(r, "setup.lock", "setup.check")
  /\ UNCHANGED <<operators, cred, up, tokens, now, orphaned>>

\* ErrSetupDisabled, answered with 404 and no new page token.
SetupRefused(r) ==
  /\ \/ pc[r] = "setup.enabled" /\ ~cred
     \/ pc[r] = "setup.lock" /\ lock
  /\ Return(r)
  /\ UNCHANGED <<operators, files, up, tokens, now, orphaned>>

\* Mutant: the credential is consumed before the operator is created.
SetupCountConsuming(r) ==
  /\ operators = {}
  /\ cred' = FALSE
  /\ GoOn(r, "setup.check", "setup.create")
  /\ UNCHANGED <<operators, lock, up, tokens, now, orphaned>>

\* The form is in order and the operators table is empty.
SetupCount(r) ==
  /\ operators = {}
  /\ GoOn(r, "setup.check", "setup.create")
  /\ UNCHANGED <<operators, files, up, tokens, now, orphaned>>

\* There is an operator already: ErrSetupDisabled too.
SetupDisabled(r) ==
  /\ pc[r] = "setup.check"
  /\ operators # {}
  /\ lock' = FALSE
  /\ Return(r)
  /\ UNCHANGED <<operators, cred, up, tokens, now, orphaned>>

\* Operators().Create.
SetupCreate(r, u) ==
  /\ GoOn(r, "setup.create", "setup.consume")
  /\ u \notin operators
  /\ operators' = operators \cup {u}
  /\ UNCHANGED <<files, up, tokens, now, orphaned>>

\* The credential file is renamed away.
SetupConsume(r) ==
  /\ GoOn(r, "setup.consume", "setup.unlock")
  /\ cred' = FALSE
  /\ UNCHANGED <<operators, lock, up, tokens, now, orphaned>>

\* The deferred removal of the .lock.
SetupUnlock(r) ==
  /\ pc[r] = "setup.unlock"
  /\ lock' = FALSE
  /\ Return(r)
  /\ UNCHANGED <<operators, cred, up, tokens, now, orphaned>>

\* The credential is wrong or gone, the name or the password will not do, or a
\* step fails: the .lock goes, and what was done stays.
SetupFail(r) ==
  /\ pc[r] \in {"setup.check", "setup.create", "setup.consume"}
  /\ lock' = FALSE
  /\ IF r \in local THEN GoOn(r, pc[r], "setup.page") ELSE Return(r)
  /\ UNCHANGED <<operators, cred, up, tokens, now, orphaned>>

\* A form to be filled in again gets a new page token; a 404 gets none.
SetupAgain(r, t) ==
  /\ pc[r] = "setup.page"
  /\ cred
  /\ Draw(t)
  /\ Return(r)
  /\ UNCHANGED <<operators, files, up, now, orphaned>>

SetupOver(r) ==
  /\ pc[r] = "setup.page"
  /\ Return(r)
  /\ UNCHANGED <<operators, files, up, tokens, now, orphaned>>

-----------------------------------------------------------------------------

\* The process dies: nothing is deferred any more, and memory is gone.
Crash ==
  /\ up
  /\ up' = FALSE
  /\ table' = {}
  /\ pc' = [r \in Request |-> "idle"]
  /\ local' = {}
  /\ orphaned' = (orphaned \/ \E r \in Request : pc[r] \in Locked)
  /\ shown' = {}
  /\ UNCHANGED <<operators, files, expiry, spent, now>>

Tick ==
  /\ now < MaxTime
  /\ now' = now + 1
  /\ UNCHANGED <<operators, files, up, tokens, locals, orphaned>>

Start == StartWithPassword \/ StartWithSetup

Setup(r) ==
  \/ \E t \in PageToken : SubmitLocal(r, t)
  \/ SubmitCredential(r)
  \/ SetupEnabled(r)
  \/ SetupLock(r)
  \/ SetupRefused(r)
  \/ SetupCount(r)
  \/ SetupDisabled(r)
  \/ \E u \in Username : SetupCreate(r, u)
  \/ SetupConsume(r)
  \/ SetupUnlock(r)
  \/ SetupFail(r)
  \/ \E t \in PageToken : SetupAgain(r, t)
  \/ SetupOver(r)

Next ==
  \/ Start
  \/ \E t \in PageToken : ShowPage(t)
  \/ \E r \in Request : Setup(r)
  \/ Crash
  \/ Tick

Spec == Init /\ [][Next]_vars

-----------------------------------------------------------------------------
(* Properties. *)

\* However many setups run at once, under whatever names, before and after
\* crashes and restarts with and without a password in the environment: one
\* operator comes of it (completeSetup, Bootstrap).
OneOperator == Cardinality(operators) <= 1

\* A server that runs without an operator can be set up: the credential file is
\* there, and the .lock only while some setup holds it, unless a process died
\* with it (completeSetup's deferred removal).
SetupIsOpen ==
  up /\ operators = {} /\ ~orphaned =>
    /\ cred
    /\ lock <=> \E r \in Request : pc[r] \in Locked

\* Once there is an operator, no setup and no restart makes another or
\* puts a credential back on disk.
OnceDoneStaysDone ==
  [][operators # {} => operators' = operators /\ (cred' => cred)]_vars

\* A page token that was shown, has not been sent and has not expired is good,
\* until the server restarts or MaxTokens others, none of them older, are
\* shown: opening the page over and over locks out nobody who is quick
\* (setupTokenTracker).
PageTokenLasts ==
  \A t \in shown \ (spent \cup table) :
    \/ expiry[t] <= now
    \/ Cardinality({u \in shown \ {t} : expiry[u] >= expiry[t]}) >= MaxTokens

=============================================================================
