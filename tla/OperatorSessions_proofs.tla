------------------------- MODULE OperatorSessions_proofs -------------------------
(***************************************************************************)
(* Theorems about OperatorSessions, for any operators, sessions, requests, *)
(* capacity of the limiter and number of resets.                           *)
(***************************************************************************)
EXTENDS OperatorSessions, FiniteSetTheorems, TLAPS

-----------------------------------------------------------------------------
(* The limiter. *)

\* The requests whose password is being verified.
Verifying == {r \in Request : pc[r] = "login.verify"}

SlotInv ==
  /\ pc \in [Request -> PC]
  /\ inUse \in 0 .. Capacity
  /\ inUse = Cardinality(Verifying)

\* A step that leaves the slots and the verifications alone.
LEMMA SlotSame ==
  ASSUME SlotInv, inUse' = inUse, pc' \in [Request -> PC],
         \A r \in Request : pc[r] = "login.verify" <=> pc'[r] = "login.verify"
  PROVE  SlotInv'
<1>1. Verifying' = Verifying
  BY DEF Verifying
<1> QED
  BY <1>1 DEF SlotInv

\* A verification begins with one more slot in use.
LEMMA SlotTaken == ASSUME SlotInv, NEW r \in Request, LoginAcquire(r) PROVE SlotInv'
<1>1. IsFiniteSet(Verifying)
  BY RequestAssumption, FS_Subset DEF Verifying
<1>2. Verifying' = Verifying \cup {r} /\ r \notin Verifying
  BY DEF LoginAcquire, GoOn, Verifying, SlotInv
<1>3. Cardinality(Verifying') = Cardinality(Verifying) + 1
  BY <1>1, <1>2, FS_AddElement
<1> QED
  BY <1>3, CapacityAssumption DEF LoginAcquire, GoOn, SlotInv, PC, Login

\* It ends, however it does, with one fewer.
LEMMA SlotReleased == ASSUME SlotInv, NEW r \in Request, Verify(r) PROVE SlotInv'
<1>1. IsFiniteSet(Verifying)
  BY RequestAssumption, FS_Subset DEF Verifying
<1>2. Verifying' = Verifying \ {r} /\ r \in Verifying
  BY DEF Verify, LoginMatch, LoginMismatch, GoOn, Return, Verifying, SlotInv
<1>3. Cardinality(Verifying') = Cardinality(Verifying) - 1 /\ Cardinality(Verifying) \in Nat
  BY <1>1, <1>2, FS_RemoveElement, FS_CardinalityType
<1>4. Cardinality(Verifying') \in Nat
  BY <1>1, <1>2, FS_RemoveElement, FS_CardinalityType
<1>5. inUse' = inUse - 1 /\ pc' \in [Request -> PC]
  BY DEF Verify, LoginMatch, LoginMismatch, GoOn, Return, SlotInv, PC, Login
<1> QED
  BY <1>3, <1>4, <1>5, CapacityAssumption DEF SlotInv

\* A restart forgets the slots together with every verification.
LEMMA SlotsForgotten == ASSUME SlotInv, Restart PROVE SlotInv'
<1>1. Verifying' = {}
  BY DEF Restart, Return, Handlers, Login, Verifying
<1> QED
  BY <1>1, FS_EmptySet, CapacityAssumption DEF Restart, Return, SlotInv, PC

\* SlotInv is inductive.
LEMMA SlotStep == ASSUME SlotInv, [Next]_vars PROVE SlotInv'
<1>1. ASSUME NEW r \in Request, LoginHandler(r) PROVE SlotInv'
  <2>1. CASE LoginAcquire(r)
    BY <2>1, SlotTaken
  <2>2. CASE Verify(r)
    BY <2>2, SlotReleased
  <2>3. CASE LoginBusy(r) \/ (\E o \in Operator : LoginLookup(r, o))
              \/ \E t \in Session : LoginCreate(r, t)
    BY <2>3, SlotSame DEF LoginBusy, LoginLookup, LoginCreate, Return, SlotInv, PC, Login
  <2> QED
    BY <1>1, <2>1, <2>2, <2>3 DEF LoginHandler
<1>2. ASSUME NEW r \in Request, LogoutHandler(r) PROVE SlotInv'
  BY <1>2, SlotSame DEF LogoutHandler, LogoutAuthenticate, LogoutRevoke, Return, SlotInv, PC, Login
<1>3. ASSUME NEW r \in Request, ResetCommand(r) PROVE SlotInv'
  BY <1>3, SlotSame DEF ResetCommand, ResetUpdate, ResetRevoke, Return, SlotInv, PC, Login
<1>4. ASSUME NEW r \in Request, Abort(r) PROVE SlotInv'
  BY <1>4, SlotSame DEF Abort, Return, SlotInv, PC, Login
<1>5. CASE Restart
  BY <1>5, SlotsForgotten
<1>6. CASE UNCHANGED vars
  BY <1>6, SlotSame DEF vars, locals, SlotInv
<1> QED
  BY <1>1, <1>2, <1>3, <1>4, <1>5, <1>6 DEF Next

\* SlotInv holds throughout.
LEMMA SlotInvariant == Spec => []SlotInv
<1>1. Init => SlotInv
  <2>1. Init => Verifying = {}
    BY DEF Init, Verifying
  <2> QED
    BY <2>1, FS_EmptySet, CapacityAssumption DEF Init, SlotInv, PC
<1>2. SlotInv /\ [Next]_vars => SlotInv'
  BY SlotStep
<1> QED
  BY <1>1, <1>2, PTL DEF Spec

\* No slot is lost and none is given back twice: what the limiter counts are the
\* verifications that run (PasswordLimiter in the login handlers).
THEOREM SlotsSafe == Spec => []SlotsAreAccounted
<1>1. SlotInv => SlotsAreAccounted
  BY DEF SlotInv, SlotsAreAccounted, Verifying
<1> QED
  BY <1>1, SlotInvariant, PTL

-----------------------------------------------------------------------------
(* Typing. *)

\* TypeOK is inductive once SlotInv bounds the slots.
LEMMA TypeStep == ASSUME TypeOK, SlotInv', [Next]_vars PROVE TypeOK'
<1> USE DEF TypeOK, PC, Login
<1>0. inUse' \in 0 .. Capacity /\ pc' \in [Request -> PC]
  BY DEF SlotInv
<1>1. ASSUME NEW r \in Request, LoginHandler(r) PROVE TypeOK'
  <2>1. CASE \E o \in Operator : LoginLookup(r, o)
    BY <1>0, <2>1 DEF LoginLookup, sessionVars, history
  <2>2. CASE LoginAcquire(r) \/ LoginMatch(r)
    BY <1>0, <2>2 DEF LoginAcquire, LoginMatch, GoOn, sessionVars, history
  <2>3. CASE LoginBusy(r) \/ LoginMismatch(r)
    BY <1>0, <2>3, CapacityAssumption DEF LoginBusy, LoginMismatch, Return, sessionVars, history
  <2>4. CASE \E t \in Session : LoginCreate(r, t)
    BY <1>0, <2>4, CapacityAssumption DEF LoginCreate, Return, history
  <2> QED
    BY <1>1, <2>1, <2>2, <2>3, <2>4 DEF LoginHandler, Verify
<1>2. ASSUME NEW r \in Request, LogoutHandler(r) PROVE TypeOK'
  <2>1. CASE \E t \in Session : LogoutAuthenticate(r, t)
    BY <1>0, <2>1 DEF LogoutAuthenticate, sessionVars, history
  <2>2. CASE LogoutRevoke(r)
    BY <1>0, <2>2, CapacityAssumption DEF LogoutRevoke, Return, history
  <2> QED
    BY <1>2, <2>1, <2>2 DEF LogoutHandler
<1>3. ASSUME NEW r \in Request, ResetCommand(r) PROVE TypeOK'
  <2>1. CASE \E o \in Operator : ResetUpdate(r, o)
    BY <1>0, <2>1, CapacityAssumption DEF ResetUpdate, sessionVars
  <2>2. CASE ResetRevoke(r)
    BY <1>0, <2>2, CapacityAssumption DEF ResetRevoke, Return
  <2> QED
    BY <1>3, <2>1, <2>2 DEF ResetCommand
<1>4. ASSUME NEW r \in Request, Abort(r) PROVE TypeOK'
  BY <1>0, <1>4, CapacityAssumption DEF Abort, Return, sessionVars, history
<1>5. CASE Restart
  BY <1>0, <1>5, CapacityAssumption DEF Restart, Return, sessionVars, history
<1>6. CASE UNCHANGED vars
  BY <1>6 DEF vars, locals, sessionVars, history
<1> QED
  BY <1>1, <1>2, <1>3, <1>4, <1>5, <1>6 DEF Next

\* Every variable keeps its type, and the limiter its bound.
THEOREM TypeCorrect == Spec => []TypeOK
<1>1. Init => TypeOK
  BY CapacityAssumption DEF Init, TypeOK, PC, Login
<1>2. TypeOK /\ SlotInv' /\ [Next]_vars => TypeOK'
  BY TypeStep
<1> QED
  BY <1>1, <1>2, SlotInvariant, PTL DEF Spec

-----------------------------------------------------------------------------
(* Resets. *)

\* What a login in flight has read is the hash that counts, unless a reset raced
\* it; and the sessions of an operator to whom no reset owes a revocation were
\* opened with that hash.
ResetInv ==
  /\ \A r \in Request : pc[r] \in Login => read[r] = hash[oper[r]] \/ oper[r] \in raced
  /\ ResetEndsSessionsUnlessRaced

\* ResetInv is inductive.
LEMMA ResetStep == ASSUME TypeOK, ResetInv, [Next]_vars PROVE ResetInv'
<1> USE DEF TypeOK, PC, Login, ResetInv, ResetEndsSessionsUnlessRaced, OnlyCurrentSessions, Live
<1>1. ASSUME NEW r \in Request, LoginHandler(r) PROVE ResetInv'
  <2>1. CASE \E o \in Operator : LoginLookup(r, o)
    BY <2>1 DEF LoginLookup, sessionVars, history
  <2>2. CASE LoginAcquire(r) \/ LoginMatch(r)
    BY <2>2 DEF LoginAcquire, LoginMatch, GoOn, sessionVars, history
  <2>3. CASE LoginBusy(r) \/ LoginMismatch(r)
    BY <2>3 DEF LoginBusy, LoginMismatch, Return, sessionVars, history
  <2>4. CASE \E t \in Session : LoginCreate(r, t)
    BY <2>4, NoneAssumption DEF LoginCreate, Return, history
  <2> QED
    BY <1>1, <2>1, <2>2, <2>3, <2>4 DEF LoginHandler, Verify
<1>2. ASSUME NEW r \in Request, LogoutHandler(r) PROVE ResetInv'
  <2>1. CASE \E t \in Session : LogoutAuthenticate(r, t)
    BY <2>1 DEF LogoutAuthenticate, sessionVars, history
  <2>2. CASE LogoutRevoke(r)
    BY <2>2 DEF LogoutRevoke, Return, history
  <2> QED
    BY <1>2, <2>1, <2>2 DEF LogoutHandler
<1>3. ASSUME NEW r \in Request, ResetCommand(r) PROVE ResetInv'
  <2>1. ASSUME NEW o \in Operator, ResetUpdate(r, o) PROVE ResetInv'
    <3>1. \A s \in Request : pc'[s] \in Login => s # r /\ pc[s] = pc'[s]
      BY <2>1 DEF ResetUpdate
    <3>2. \A s \in Request : pc[s] \in Login /\ oper[s] = o => o \in raced'
      BY <2>1 DEF ResetUpdate, Logins
    <3>3. \A s \in Request :
            pc'[s] \in Login => read'[s] = hash'[oper'[s]] \/ oper'[s] \in raced'
      BY <2>1, <3>1, <3>2 DEF ResetUpdate
    <3>4. ResetEndsSessionsUnlessRaced'
      BY <2>1 DEF ResetUpdate, sessionVars
    <3> QED
      BY <3>3, <3>4
  <2>2. CASE ResetRevoke(r)
    BY <2>2 DEF ResetRevoke, Return
  <2> QED
    BY <1>3, <2>1, <2>2 DEF ResetCommand
<1>4. ASSUME NEW r \in Request, Abort(r) PROVE ResetInv'
  BY <1>4 DEF Abort, Return, sessionVars, history
<1>5. CASE Restart
  BY <1>5 DEF Restart, Return, sessionVars, history
<1>6. CASE UNCHANGED vars
  BY <1>6 DEF vars, locals, sessionVars, history
<1> QED
  BY <1>1, <1>2, <1>3, <1>4, <1>5, <1>6 DEF Next

\* A reset that got to its end leaves no session opened with an older password,
\* unless a login was in flight when it replaced the hash (ResetPassword updates
\* first and revokes after).
THEOREM ResetSafe == Spec => []ResetEndsSessionsUnlessRaced
<1>1. Init => ResetInv
  BY NoneAssumption DEF Init, ResetInv, ResetEndsSessionsUnlessRaced, OnlyCurrentSessions, Live, Login
<1>2. TypeOK /\ ResetInv /\ [Next]_vars => ResetInv'
  BY ResetStep
<1>3. ResetInv => ResetEndsSessionsUnlessRaced
  BY DEF ResetInv
<1> QED
  BY <1>1, <1>2, <1>3, TypeCorrect, PTL DEF Spec

=============================================================================
