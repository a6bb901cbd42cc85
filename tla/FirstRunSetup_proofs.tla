-------------------------- MODULE FirstRunSetup_proofs --------------------------
(***************************************************************************)
(* Theorems about FirstRunSetup, for every set of names, page tokens and   *)
(* forms, and every bound on the table and the clock.                      *)
(***************************************************************************)
EXTENDS FirstRunSetup, FiniteSetTheorems, TLAPS

-----------------------------------------------------------------------------
(* Mutual exclusion of the setups. *)

\* The types the safety of a setup rests on.
FileType ==
  /\ operators \subseteq Username
  /\ cred \in BOOLEAN /\ lock \in BOOLEAN /\ up \in BOOLEAN /\ orphaned \in BOOLEAN
  /\ pc \in [Request -> PC]

Holds(r) == pc[r] \in Locked

\* Forms are in flight only in a running server; one at a time is past the
\* .lock, which is then there; and, unless one was orphaned, it is there only then.
LockInv ==
  /\ \A r \in Request : pc[r] # "idle" => up
  /\ \A r \in Request : Holds(r) => lock
  /\ \A r, s \in Request : Holds(r) /\ Holds(s) => r = s
  /\ lock /\ ~orphaned => \E r \in Request : Holds(r)

\* What a form past the .lock knows of the operators table, and a running server
\* of the credential file.
TableInv ==
  /\ operators = {} \/ \E u \in Username : operators = {u}
  /\ \A r \in Request :
       /\ pc[r] = "setup.create" => operators = {}
       /\ pc[r] \in {"setup.consume", "setup.unlock"} => operators # {}
  /\ up /\ operators = {} => cred

SetupInv == FileType /\ LockInv /\ TableInv

\* The steps that move a form, or nothing of the files, one by one: SetupInv is
\* inductive.
LEMMA SetupStep == ASSUME SetupInv, [Next]_vars PROVE SetupInv'
<1> USE DEF SetupInv, FileType, LockInv, TableInv, Holds, Locked, PC
<1>1. CASE StartWithPassword
  BY <1>1, AdminAssumption DEF StartWithPassword, files, locals
<1>2. CASE StartWithSetup
  BY <1>2 DEF StartWithSetup, EnsureSetupCredential, locals
<1>3. ASSUME NEW t \in PageToken, ShowPage(t) PROVE SetupInv'
  BY <1>3 DEF ShowPage, files, locals
<1>4. ASSUME NEW r \in Request, NEW t \in PageToken, SubmitLocal(r, t) PROVE SetupInv'
  BY <1>4 DEF SubmitLocal, Submit, files
<1>5. ASSUME NEW r \in Request, SubmitCredential(r) PROVE SetupInv'
  BY <1>5 DEF SubmitCredential, Submit, files
<1>6. ASSUME NEW r \in Request, SetupEnabled(r) PROVE SetupInv'
  BY <1>6 DEF SetupEnabled, GoOn, files
<1>7. ASSUME NEW r \in Request, SetupLock(r) PROVE SetupInv'
  BY <1>7 DEF SetupLock, GoOn
<1>8. ASSUME NEW r \in Request, SetupRefused(r) PROVE SetupInv'
  BY <1>8 DEF SetupRefused, Return, files
<1>9. ASSUME NEW r \in Request, SetupCount(r) PROVE SetupInv'
  BY <1>9 DEF SetupCount, GoOn, files
<1>10. ASSUME NEW r \in Request, SetupDisabled(r) PROVE SetupInv'
  BY <1>10 DEF SetupDisabled, Return
<1>11. ASSUME NEW r \in Request, NEW u \in Username, SetupCreate(r, u) PROVE SetupInv'
  <2>1. operators' = {u}
    BY <1>11 DEF SetupCreate, GoOn
  <2> QED
    BY <1>11, <2>1 DEF SetupCreate, GoOn, files
<1>12. ASSUME NEW r \in Request, SetupConsume(r) PROVE SetupInv'
  BY <1>12 DEF SetupConsume, GoOn
<1>13. ASSUME NEW r \in Request, SetupUnlock(r) PROVE SetupInv'
  BY <1>13 DEF SetupUnlock, Return
<1>14. ASSUME NEW r \in Request, SetupFail(r) PROVE SetupInv'
  BY <1>14 DEF SetupFail, GoOn, Return
<1>15. ASSUME NEW r \in Request, NEW t \in PageToken, SetupAgain(r, t) PROVE SetupInv'
  BY <1>15 DEF SetupAgain, Return, files
<1>16. ASSUME NEW r \in Request, SetupOver(r) PROVE SetupInv'
  BY <1>16 DEF SetupOver, Return, files
<1>17. CASE Crash
  BY <1>17 DEF Crash, files
<1>18. CASE Tick
  BY <1>18 DEF Tick, files, locals
<1>19. CASE UNCHANGED vars
  BY <1>19 DEF vars, files, locals
<1> QED
  BY <1>1, <1>2, <1>3, <1>4, <1>5, <1>6, <1>7, <1>8, <1>9, <1>10, <1>11, <1>12,
     <1>13, <1>14, <1>15, <1>16, <1>17, <1>18, <1>19 DEF Next, Start, Setup

\* SetupInv holds throughout.
LEMMA SetupInvariant == Spec => []SetupInv
<1>1. Init => SetupInv
  BY DEF Init, SetupInv, FileType, LockInv, TableInv, Holds, Locked, PC
<1>2. SetupInv /\ [Next]_vars => SetupInv'
  BY SetupStep
<1> QED
  BY <1>1, <1>2, PTL DEF Spec

\* However many forms and restarts there are, one operator comes of first-run
\* setup (completeSetup's .lock, Count and Create; Bootstrap).
THEOREM OneOperatorSafe == Spec => []OneOperator
<1>1. SetupInv => OneOperator
  BY FS_EmptySet, FS_Singleton DEF SetupInv, TableInv, OneOperator
<1> QED
  BY <1>1, SetupInvariant, PTL

\* A server that runs without an operator can be set up, unless a process died
\* with the .lock (EnsureSetupCredential, completeSetup's deferred removal).
THEOREM SetupOpenSafe == Spec => []SetupIsOpen
<1>1. SetupInv => SetupIsOpen
  BY DEF SetupInv, LockInv, TableInv, Holds, SetupIsOpen, FileType
<1> QED
  BY <1>1, SetupInvariant, PTL

\* Once there is an operator, nothing makes another and nothing puts a
\* credential back on disk.
THEOREM OnceDone == Spec => OnceDoneStaysDone
<1> DEFINE Stays == operators # {} => operators' = operators /\ (cred' => cred)
<1>1. ASSUME SetupInv, [Next]_vars PROVE Stays
  <2> USE DEF SetupInv, FileType, TableInv
  <2>1. CASE Start
    BY <1>1, <2>1 DEF Start, StartWithPassword, StartWithSetup, files
  <2>2. ASSUME NEW t \in PageToken, ShowPage(t) PROVE Stays
    BY <2>2 DEF ShowPage, files
  <2>3. ASSUME NEW r \in Request, Setup(r) PROVE Stays
    <3>1. CASE \E u \in Username : SetupCreate(r, u)
      BY <1>1, <3>1 DEF SetupCreate, GoOn
    <3> QED
      BY <2>3, <3>1 DEF Setup, SubmitLocal, SubmitCredential, SetupEnabled, SetupLock,
         SetupRefused, SetupCount, SetupDisabled, SetupConsume, SetupUnlock, SetupFail,
         SetupAgain, SetupOver, files
  <2>4. CASE Crash \/ Tick \/ UNCHANGED vars
    BY <2>4 DEF Crash, Tick, vars, files
  <2> QED
    BY <1>1, <2>1, <2>2, <2>3, <2>4 DEF Next
<1>2. SetupInv /\ [Next]_vars => [Stays]_vars
  BY <1>1
<1> QED
  BY <1>2, SetupInvariant, PTL DEF Spec, OnceDoneStaysDone

-----------------------------------------------------------------------------
(* The tracker of page tokens. *)

\* The types of what the tracker reads and writes.
TrackerType ==
  /\ table \subseteq PageToken /\ shown \subseteq PageToken /\ spent \subseteq PageToken
  /\ expiry \in [PageToken -> 0 .. MaxTime + TTL]
  /\ now \in 0 .. MaxTime

\* The tokens shown beside t that expire no earlier.
NoOlder(t) == {u \in shown \ {t} : expiry[u] >= expiry[t]}

\* The table is bounded, holds tokens that were shown, and misses only those
\* that PageTokenLasts lets it miss.
TrackerInv ==
  /\ TrackerType
  /\ IsFiniteSet(table) /\ Cardinality(table) <= MaxTokens
  /\ IsFiniteSet(shown) /\ table \subseteq shown
  /\ \A t \in shown : expiry[t] # 0 /\ expiry[t] <= now + TTL
  /\ \A t \in shown \ (spent \cup table) :
       expiry[t] <= now \/ Cardinality(NoOlder(t)) >= MaxTokens

\* A step that shows more tokens and alters the expiry of none that was shown
\* leaves each at least as many no older than it.
LEMMA NoOlderGrows ==
  ASSUME TrackerInv, IsFiniteSet(shown'), shown \subseteq shown', NEW t \in shown,
         \A u \in shown : expiry'[u] = expiry[u]
  PROVE  Cardinality(NoOlder(t)) >= MaxTokens => Cardinality(NoOlder(t)') >= MaxTokens
<1>1. NoOlder(t) \subseteq NoOlder(t)' /\ NoOlder(t)' \subseteq shown'
  BY DEF NoOlder, TrackerInv, TrackerType
<1>2. IsFiniteSet(NoOlder(t)')
  BY <1>1, FS_Subset
<1>3. IsFiniteSet(NoOlder(t)) /\ Cardinality(NoOlder(t)) <= Cardinality(NoOlder(t)')
  BY <1>1, <1>2, FS_Subset
<1> QED
  BY <1>2, <1>3, TokenAssumption, FS_CardinalityType

\* Drawing a token keeps the table within its bound, and what it evicts has
\* MaxTokens others no older than itself (setupTokenTracker.create).
LEMMA DrawStep ==
  ASSUME TrackerInv, NEW t \in PageToken, Draw(t), now' = now
  PROVE  TrackerInv'
<1> USE TokenAssumption
<1> DEFINE F == Fresh(table)
<1>1. F \subseteq table /\ IsFiniteSet(F) /\ Cardinality(F) <= MaxTokens
        /\ Cardinality(F) \in Nat
  <2>1. F \subseteq table
    BY DEF Fresh
  <2>2. IsFiniteSet(F) /\ Cardinality(F) <= Cardinality(table)
    BY <2>1, FS_Subset DEF TrackerInv
  <2> QED
    BY <2>1, <2>2, FS_CardinalityType DEF TrackerInv
<1>2. t \notin F /\ t \notin shown
  BY <1>1 DEF Draw, TrackerInv
<1>3. shown' = shown \cup {t} /\ IsFiniteSet(shown')
  BY FS_AddElement DEF Draw, TrackerInv
<1>4. /\ \A u \in shown : expiry'[u] = expiry[u]
      /\ expiry'[t] = now + TTL
      /\ expiry' \in [PageToken -> 0 .. MaxTime + TTL]
  BY <1>2 DEF Draw, TrackerInv, TrackerType
<1>5. CASE Cardinality(F) < MaxTokens
  <2>1. table' = F \cup {t}
    BY <1>5 DEF Draw
  <2>2. IsFiniteSet(table') /\ Cardinality(table') <= MaxTokens
    <3>1. IsFiniteSet(F \cup {t}) /\ Cardinality(F \cup {t}) = Cardinality(F) + 1
      BY <1>1, <1>2, FS_AddElement
    <3> QED
      BY <1>1, <1>5, <2>1, <3>1
  <2>3. ASSUME NEW u \in shown' \ (spent' \cup table')
        PROVE  expiry'[u] <= now' \/ Cardinality(NoOlder(u)') >= MaxTokens
    <3>1. u \in shown /\ u \notin spent /\ u \notin F
      BY <1>3, <2>1, <2>3 DEF Draw
    <3>2. CASE u \in table
      BY <1>4, <3>1, <3>2 DEF Fresh, TrackerInv, TrackerType
    <3>3. CASE u \notin table
      BY <1>3, <1>4, <3>1, <3>3, NoOlderGrows DEF TrackerInv
    <3> QED
      BY <3>2, <3>3
  <2> QED
    BY <1>1, <1>3, <1>4, <2>1, <2>2, <2>3 DEF TrackerInv, TrackerType, Draw
<1>6. CASE ~(Cardinality(F) < MaxTokens)
  <2>1. PICK e \in F : /\ \A u \in F : expiry[e] <= expiry[u]
                       /\ table' = (F \ {e}) \cup {t}
    BY <1>6 DEF Draw
  <2>2. IsFiniteSet(table') /\ Cardinality(table') = MaxTokens
    <3>1. IsFiniteSet(F \ {e}) /\ Cardinality(F \ {e}) = MaxTokens - 1
      BY <1>1, <1>6, FS_RemoveElement
    <3> QED
      BY <1>2, <2>1, <3>1, FS_AddElement
  <2>3. ASSUME NEW u \in shown' \ (spent' \cup table')
        PROVE  expiry'[u] <= now' \/ Cardinality(NoOlder(u)') >= MaxTokens
    <3>1. u \in shown /\ u \notin spent /\ u \notin F \ {e}
      BY <1>3, <2>1, <2>3 DEF Draw
    <3>2. CASE u = e
      <4>1. table' \subseteq NoOlder(u)'
        BY <1>1, <1>2, <1>3, <1>4, <2>1, <3>1, <3>2 DEF NoOlder, TrackerInv, TrackerType
      <4>2. NoOlder(u)' \subseteq shown'
        BY DEF NoOlder
      <4>3. IsFiniteSet(NoOlder(u)')
        BY <1>3, <4>2, FS_Subset
      <4>4. Cardinality(table') <= Cardinality(NoOlder(u)')
        BY <4>1, <4>3, FS_Subset
      <4> QED
        BY <2>2, <4>3, <4>4, FS_CardinalityType
    <3>3. CASE u # e /\ u \in table
      BY <1>4, <3>1, <3>3 DEF Fresh, TrackerInv, TrackerType
    <3>4. CASE u \notin table
      BY <1>3, <1>4, <3>1, <3>4, NoOlderGrows DEF TrackerInv
    <3> QED
      BY <3>2, <3>3, <3>4
  <2> QED
    BY <1>1, <1>3, <1>4, <2>1, <2>2, <2>3 DEF TrackerInv, TrackerType, Draw
<1> QED
  BY <1>5, <1>6

\* A step that alters no table of tokens and at most lets time pass.
LEMMA TrackerSame ==
  ASSUME TrackerInv, UNCHANGED tokens, now' \in 0 .. MaxTime, now' >= now
  PROVE  TrackerInv'
<1>1. \A t \in shown : NoOlder(t)' = NoOlder(t)
  BY DEF NoOlder, tokens
<1> QED
  BY <1>1, TokenAssumption DEF TrackerInv, TrackerType, tokens

\* TrackerInv is inductive.
LEMMA TrackerStep == ASSUME TrackerInv, [Next]_vars PROVE TrackerInv'
<1>0. now \in 0 .. MaxTime /\ now >= now
  BY TokenAssumption DEF TrackerInv, TrackerType
<1>1. ASSUME NEW t \in PageToken, ShowPage(t) PROVE TrackerInv'
  BY <1>1, DrawStep DEF ShowPage
<1>2. ASSUME NEW r \in Request, NEW t \in PageToken, SetupAgain(r, t) PROVE TrackerInv'
  BY <1>2, DrawStep DEF SetupAgain
<1>3. ASSUME NEW r \in Request, NEW t \in PageToken, SubmitLocal(r, t) PROVE TrackerInv'
  <2>1. /\ table' = Fresh(table) \ {t} /\ spent' = spent \cup {t}
        /\ UNCHANGED <<expiry, shown, now>>
    BY <1>3 DEF SubmitLocal, Spend
  <2>2. table' \subseteq table
    BY <2>1 DEF Fresh
  <2>3. IsFiniteSet(table') /\ Cardinality(table') <= MaxTokens
    <3>1. IsFiniteSet(table') /\ Cardinality(table') <= Cardinality(table)
      BY <2>2, FS_Subset DEF TrackerInv
    <3> QED
      BY <3>1, FS_CardinalityType, TokenAssumption DEF TrackerInv
  <2>4. \A u \in shown : NoOlder(u)' = NoOlder(u)
    BY <2>1 DEF NoOlder
  <2>5. \A u \in table \ table' : u = t \/ expiry[u] <= now
    BY <2>1 DEF Fresh, TrackerInv, TrackerType
  <2> QED
    BY <2>1, <2>2, <2>3, <2>4, <2>5 DEF TrackerInv, TrackerType
<1>4. CASE Crash
  BY <1>4, FS_EmptySet, TokenAssumption DEF Crash, TrackerInv, TrackerType
<1>5. CASE Tick
  BY <1>5, TrackerSame, TokenAssumption DEF Tick, TrackerInv, TrackerType
<1>6. CASE Start
  BY <1>0, <1>6, TrackerSame DEF Start, StartWithPassword, StartWithSetup
<1>7. ASSUME NEW r \in Request, Setup(r),
             ~ \E t \in PageToken : SubmitLocal(r, t) \/ SetupAgain(r, t)
      PROVE  UNCHANGED <<tokens, now>>
  BY <1>7 DEF Setup, SubmitCredential, SetupEnabled, SetupLock, SetupRefused, SetupCount,
     SetupDisabled, SetupCreate, SetupConsume, SetupUnlock, SetupFail, SetupOver
<1>8. CASE UNCHANGED vars
  BY <1>0, <1>8, TrackerSame DEF vars
<1> QED
  BY <1>0, <1>1, <1>2, <1>3, <1>4, <1>5, <1>6, <1>7, <1>8, TrackerSame DEF Next

\* TrackerInv holds throughout.
LEMMA TrackerInvariant == Spec => []TrackerInv
<1>1. Init => TrackerInv
  BY FS_EmptySet, TokenAssumption DEF Init, TrackerInv, TrackerType
<1>2. TrackerInv /\ [Next]_vars => TrackerInv'
  BY TrackerStep
<1> QED
  BY <1>1, <1>2, PTL DEF Spec

\* A page token that was shown and not sent is good until it expires, the server
\* restarts, or MaxTokens others no older are shown.
THEOREM PageTokenSafe == Spec => []PageTokenLasts
<1>1. TrackerInv => PageTokenLasts
  BY DEF TrackerInv, PageTokenLasts, NoOlder
<1> QED
  BY <1>1, TrackerInvariant, PTL

-----------------------------------------------------------------------------
(* Typing. *)

\* The forms that came with a page token are forms.
LEMMA LocalInvariant == Spec => [](local \subseteq Request)
<1>1. Init => local \subseteq Request
  BY DEF Init
<1>2. ASSUME local \subseteq Request, [Next]_vars PROVE local' \subseteq Request
  <2>1. ASSUME NEW r \in Request, Setup(r) PROVE local' \subseteq Request
    BY <1>2, <2>1 DEF Setup, SubmitLocal, SubmitCredential, SetupEnabled, SetupLock,
       SetupRefused, SetupCount, SetupDisabled, SetupCreate, SetupConsume, SetupUnlock,
       SetupFail, SetupAgain, SetupOver, GoOn, Return
  <2> QED
    BY <1>2, <2>1 DEF Next, Start, StartWithPassword, StartWithSetup, ShowPage, Crash, Tick,
       vars, locals
<1>3. local \subseteq Request /\ [Next]_vars => (local \subseteq Request)'
  BY <1>2
<1> QED
  BY <1>1, <1>3, PTL DEF Spec

\* Every variable keeps its type, and the table of page tokens its bound.
THEOREM TypeCorrect == Spec => []TypeOK
<1>1. SetupInv /\ TrackerInv /\ local \subseteq Request => TypeOK
  BY DEF SetupInv, FileType, TrackerInv, TrackerType, TypeOK
<1> QED
  BY <1>1, SetupInvariant, TrackerInvariant, LocalInvariant, PTL

=============================================================================
