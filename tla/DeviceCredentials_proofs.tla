---------------------- MODULE DeviceCredentials_proofs ----------------------
(***************************************************************************)
(* Theorems about DeviceCredentials, for every set of devices, tokens and  *)
(* requests, every token lifetime and every bound on the clock.            *)
(*                                                                         *)
(* Each safety property is proved from an inductive invariant of its own,  *)
(* that of typing first; the later ones use the earlier ones. The step of  *)
(* an invariant has one step per action of the specification.              *)
(***************************************************************************)
EXTENDS DeviceCredentials, TLAPS

-----------------------------------------------------------------------------
(* Typing. *)

\* Every variable keeps its type: the step.
LEMMA TypeStep == ASSUME TypeOK, [Next]_vars PROVE TypeOK'
<1>0. ASSUME NEW r \in Request, pc[r] \in Writing PROVE subj[r] \in Device
  BY <1>0 DEF TypeOK
<1> USE DEF TypeOK, PC, Writing, AuditAction
<1>1. ASSUME NEW r \in Request, NEW t \in Token, MintEnrollment(r, t) PROVE TypeOK'
  BY <1>1, ClockAssumption DEF MintEnrollment, historyVars
<1>2. ASSUME NEW r \in Request, NEW t \in Token, NEW d \in Device,
             RegisterConsume(r, t, d)
      PROVE  TypeOK'
  BY <1>2 DEF RegisterConsume, Begin, TokensOf
<1>3. ASSUME NEW r \in Request, NEW t \in Token, RegisterIssue(r, t) PROVE TypeOK'
  <2>1. subj[r] \in Device
    BY <1>0, <1>3 DEF RegisterIssue
  <2> QED
    BY <1>3, <2>1 DEF RegisterIssue, CreateDeviceToken, Return
<1>4. ASSUME NEW r \in Request, NEW d \in Device, RevokeRow(r, d) PROVE TypeOK'
  BY <1>4 DEF RevokeRow, Begin, TokensOf, tokenVars
<1>5. ASSUME NEW r \in Request, RevokeTokens(r) PROVE TypeOK'
  <2>1. subj[r] \in Device
    BY <1>0, <1>5 DEF RevokeTokens, GoOn
  <2> QED
    BY <1>5, <2>1 DEF RevokeTokens, GoOn, RevokeSubject, TokensOf, historyVars
<1>6. ASSUME NEW r \in Request, NEW d \in Device, RotateGet(r, d) PROVE TypeOK'
  BY <1>6 DEF RotateGet, Begin, TokensOf, tokenVars
<1>7. ASSUME NEW r \in Request, RotateRevoke(r) PROVE TypeOK'
  <2>1. subj[r] \in Device
    BY <1>0, <1>7 DEF RotateRevoke, GoOn
  <2> QED
    BY <1>7, <2>1 DEF RotateRevoke, GoOn, RevokeSubject, TokensOf, historyVars
<1>8. ASSUME NEW r \in Request, NEW t \in Token, RotateIssue(r, t) PROVE TypeOK'
  <2>1. subj[r] \in Device
    BY <1>0, <1>8 DEF RotateIssue, GoOn
  <2> QED
    BY <1>8, <2>1 DEF RotateIssue, GoOn, CreateDeviceToken, historyVars
<1>9. ASSUME NEW r \in Request, NEW d \in Device, DeleteTokens(r, d) PROVE TypeOK'
  BY <1>9 DEF DeleteTokens, Begin, RevokeSubject, TokensOf
<1>10. ASSUME NEW r \in Request, DeleteRow(r) PROVE TypeOK'
  <2>1. subj[r] \in Device
    BY <1>0, <1>10 DEF DeleteRow, GoOn
  <2> QED
    BY <1>10, <2>1 DEF DeleteRow, GoOn, tokenVars, historyVars
<1>11. ASSUME NEW r \in Request, DeleteMissing(r) PROVE TypeOK'
  BY <1>11 DEF DeleteMissing, Return, tokenVars
<1>12. ASSUME NEW r \in Request, AppendAudit(r) PROVE TypeOK'
  BY <1>12 DEF AppendAudit, Return, tokenVars
<1>13. ASSUME NEW r \in Request, Abort(r) PROVE TypeOK'
  BY <1>13 DEF Abort, Return, tokenVars
<1>14. CASE Tick
  BY <1>14, ClockAssumption DEF Tick, tokenVars, handlerVars, historyVars
<1>15. CASE UNCHANGED vars
  BY <1>15 DEF vars, tokenVars, handlerVars, historyVars
<1> QED
  BY <1>1, <1>2, <1>3, <1>4, <1>5, <1>6, <1>7, <1>8, <1>9, <1>10, <1>11,
     <1>12, <1>13, <1>14, <1>15 DEF Next, Handler

\* Every variable keeps its type.
THEOREM TypeCorrect == Spec => []TypeOK
<1>1. Init => TypeOK
  BY DEF Init, TypeOK, PC, Writing, AuditAction
<1>2. TypeOK /\ [Next]_vars => TypeOK'
  BY TypeStep
<1> QED
  BY <1>1, <1>2, PTL DEF Spec

-----------------------------------------------------------------------------
(* What only grows. *)

Restored ==
  /\ used \subseteq used'
  /\ revoked \subseteq revoked'
  /\ \A d \in Device :
       /\ device[d] = "deleted" => device'[d] = "deleted"
       /\ device[d] = "revoked" => device'[d] # "trusted"

\* The rows that stay out of trust.
Gone(d) == device[d] \in {"revoked", "deleted"}

\* No step restores what the operator took away; a token once bound to a device
\* stays bound to it, and an enrollment token stays one.
LEMMA Growth ==
  ASSUME TypeOK, [Next]_vars
  PROVE  /\ Restored
         /\ \A d \in Device : Gone(d) => Gone(d)'
         /\ \A d \in Device : TokensOf(d) \subseteq TokensOf(d)'
         /\ \A t \in Token : kind[t] = "enrollment" => kind'[t] = "enrollment"
<1> DEFINE Goal == /\ Restored
                   /\ \A d \in Device : Gone(d) => Gone(d)'
                   /\ \A d \in Device : TokensOf(d) \subseteq TokensOf(d)'
                   /\ \A t \in Token : kind[t] = "enrollment" => kind'[t] = "enrollment"
<1> USE DEF Restored, Gone, TokensOf
<1> USE DEF TypeOK
<1>1. ASSUME NEW r \in Request, NEW t \in Token, MintEnrollment(r, t) PROVE Goal
  BY <1>1 DEF MintEnrollment
<1>2. ASSUME NEW r \in Request, NEW t \in Token, NEW d \in Device,
             RegisterConsume(r, t, d)
      PROVE  Goal
  BY <1>2 DEF RegisterConsume, Consumable
<1>3. ASSUME NEW r \in Request, NEW t \in Token, RegisterIssue(r, t) PROVE Goal
  BY <1>3 DEF RegisterIssue, CreateDeviceToken
<1>4. ASSUME NEW r \in Request, NEW d \in Device, RevokeRow(r, d) PROVE Goal
  BY <1>4 DEF RevokeRow, RowExists, tokenVars
<1>5. ASSUME NEW r \in Request, RevokeTokens(r) PROVE Goal
  BY <1>5 DEF RevokeTokens, RevokeSubject
<1>6. ASSUME NEW r \in Request, NEW d \in Device, RotateGet(r, d) PROVE Goal
  BY <1>6 DEF RotateGet, tokenVars
<1>7. ASSUME NEW r \in Request, RotateRevoke(r) PROVE Goal
  BY <1>7 DEF RotateRevoke, RevokeSubject
<1>8. ASSUME NEW r \in Request, NEW t \in Token, RotateIssue(r, t) PROVE Goal
  BY <1>8 DEF RotateIssue, CreateDeviceToken
<1>9. ASSUME NEW r \in Request, NEW d \in Device, DeleteTokens(r, d) PROVE Goal
  BY <1>9 DEF DeleteTokens, RevokeSubject
<1>10. ASSUME NEW r \in Request, DeleteRow(r) PROVE Goal
  BY <1>10 DEF DeleteRow, tokenVars
<1>11. ASSUME NEW r \in Request, DeleteMissing(r) PROVE Goal
  BY <1>11 DEF DeleteMissing, tokenVars
<1>12. ASSUME NEW r \in Request, AppendAudit(r) PROVE Goal
  BY <1>12 DEF AppendAudit, tokenVars
<1>13. ASSUME NEW r \in Request, Abort(r) PROVE Goal
  BY <1>13 DEF Abort, tokenVars
<1>14. CASE Tick
  BY <1>14 DEF Tick, tokenVars
<1>15. CASE UNCHANGED vars
  BY <1>15 DEF vars, tokenVars
<1> QED
  BY <1>1, <1>2, <1>3, <1>4, <1>5, <1>6, <1>7, <1>8, <1>9, <1>10, <1>11,
     <1>12, <1>13, <1>14, <1>15 DEF Next, Handler

\* What the operator took away stays away, for good.
THEOREM NothingRestored == Spec => NothingIsRestored
<1>1. TypeOK /\ [Next]_vars =>
        [/\ used \subseteq used'
         /\ revoked \subseteq revoked'
         /\ \A d \in Device :
              /\ device[d] = "deleted" => device'[d] = "deleted"
              /\ device[d] = "revoked" => device'[d] # "trusted"]_vars
  BY Growth DEF Restored
<1> QED
  BY <1>1, TypeCorrect, PTL DEF Spec, NothingIsRestored

-----------------------------------------------------------------------------
(* Enrollment tokens. *)

\* EnrollmentIntact is not inductive: it says nothing of a lookup before it is
\* drawn, nor of which tokens can be spent.
EnrollmentInv ==
  /\ EnrollmentIntact
  /\ \A t \in Token : kind[t] = "none" => t \notin used /\ subject[t] = NoDevice
  /\ \A t \in used : kind[t] = "enrollment" /\ device[subject[t]] # "unborn"

\* EnrollmentInv is inductive: the step.
LEMMA EnrollmentStep ==
  ASSUME TypeOK, EnrollmentInv, [Next]_vars
  PROVE  EnrollmentInv'
<1> USE DEF EnrollmentInv, EnrollmentIntact, TypeOK
<1>1. ASSUME NEW r \in Request, NEW t \in Token, MintEnrollment(r, t)
      PROVE  EnrollmentInv'
  BY <1>1, DeviceAssumption DEF MintEnrollment
<1>2. ASSUME NEW r \in Request, NEW t \in Token, NEW d \in Device,
             RegisterConsume(r, t, d)
      PROVE  EnrollmentInv'
  BY <1>2 DEF RegisterConsume, Consumable
<1>3. ASSUME NEW r \in Request, NEW t \in Token, NEW d \in Device,
             CreateDeviceToken(t, d), UNCHANGED device
      PROVE  EnrollmentInv'
  BY <1>3 DEF CreateDeviceToken
<1>4. ASSUME UNCHANGED <<kind, subject, used>>,
             \A d \in Device : device[d] # "unborn" <=> device'[d] # "unborn"
      PROVE  EnrollmentInv'
  BY <1>4, DeviceAssumption
<1>5. ASSUME NEW r \in Request, NEW t \in Token, RegisterIssue(r, t)
      PROVE  EnrollmentInv'
  BY <1>3, <1>5 DEF RegisterIssue, Writing
<1>6. ASSUME NEW r \in Request, NEW t \in Token, RotateIssue(r, t)
      PROVE  EnrollmentInv'
  BY <1>3, <1>6 DEF RotateIssue, GoOn, Writing
<1>7. ASSUME NEW r \in Request, NEW d \in Device, RevokeRow(r, d)
      PROVE  EnrollmentInv'
  BY <1>4, <1>7 DEF RevokeRow, RowExists, tokenVars
<1>8. ASSUME NEW r \in Request, DeleteRow(r) PROVE EnrollmentInv'
  BY <1>4, <1>8 DEF DeleteRow, RowExists, tokenVars
<1>9. ASSUME NEW r \in Request, NEW d \in Device, RotateGet(r, d) \/ DeleteTokens(r, d)
      PROVE  EnrollmentInv'
  BY <1>4, <1>9 DEF RotateGet, DeleteTokens, RevokeSubject, tokenVars
<1>10. ASSUME NEW r \in Request,
              \/ RevokeTokens(r) \/ RotateRevoke(r) \/ DeleteMissing(r)
              \/ AppendAudit(r) \/ Abort(r)
       PROVE  EnrollmentInv'
  BY <1>4, <1>10 DEF RevokeTokens, RotateRevoke, DeleteMissing, AppendAudit, Abort,
     RevokeSubject, tokenVars
<1>11. CASE Tick \/ UNCHANGED vars
  BY <1>4, <1>11 DEF Tick, vars, tokenVars
<1> QED
  BY <1>1, <1>2, <1>5, <1>6, <1>7, <1>8, <1>9, <1>10, <1>11 DEF Next, Handler

\* EnrollmentInv holds throughout.
LEMMA EnrollmentInvariant == Spec => []EnrollmentInv
<1>1. Init => EnrollmentInv
  BY DeviceAssumption DEF Init, EnrollmentInv, EnrollmentIntact
<1> QED
  BY <1>1, EnrollmentStep, TypeCorrect, PTL DEF Spec

\* Every device is born of an enrollment token, and every spent token has borne
\* a device.
THEOREM EnrollmentSafe == Spec => []EnrollmentIntact
<1>1. EnrollmentInv => EnrollmentIntact
  BY DEF EnrollmentInv
<1> QED
  BY <1>1, EnrollmentInvariant, PTL

\* A step of the server is, to the enrollment tokens, a step of
\* OneTimeEnrollment or nothing.
LEMMA OneTimeStep ==
  ASSUME TypeOK, EnrollmentInv, [Next]_vars
  PROVE  [OneTime!Next]_(OneTime!ticketVars)
<1> DEFINE State(t) == IF kind[t] # "enrollment" THEN "unissued"
                       ELSE IF t \in used THEN "spent"
                       ELSE IF expires[t] > now THEN "open" ELSE "lapsed"
           state == [t \in Token |-> State(t)]
           admits == {p \in used \X Device :
                        kind[p[1]] = "enrollment" /\ subject[p[1]] = p[2]}
           Step == [OneTime!Next]_(OneTime!ticketVars)
<1> USE DEF TypeOK, EnrollmentInv
<1>1. ASSUME NEW r \in Request, NEW t \in Token, MintEnrollment(r, t) PROVE Step
  <2>1. state[t] = "unissued" /\ t \notin used
    BY <1>1 DEF MintEnrollment
  <2>2. state' = [state EXCEPT ![t] = "open"]
    <3>1. kind'[t] = "enrollment" /\ used' = used /\ now' = now
      BY <1>1 DEF MintEnrollment
    <3>2. expires'[t] > now
      BY <1>1, ClockAssumption DEF MintEnrollment
    <3>3. \A u \in Token \ {t} : kind'[u] = kind[u] /\ expires'[u] = expires[u]
      BY <1>1 DEF MintEnrollment
    <3> QED
      BY <2>1, <3>1, <3>2, <3>3
  <2>3. admits' = admits
    BY <1>1, <2>1 DEF MintEnrollment
  <2> QED
    BY <2>1, <2>2, <2>3 DEF OneTime!Next, OneTime!Issue
<1>2. ASSUME NEW r \in Request, NEW t \in Token, NEW d \in Device,
             RegisterConsume(r, t, d)
      PROVE  Step
  <2>1. state[t] = "open"
    BY <1>2 DEF RegisterConsume, Consumable
  <2>2. \A u \in Token : <<u, d>> \notin admits
    BY <1>2 DEF RegisterConsume
  <2>3. state' = [state EXCEPT ![t] = "spent"]
    BY <1>2 DEF RegisterConsume, Consumable
  <2>4. admits' = admits \cup {<<t, d>>}
    BY <1>2 DEF RegisterConsume, Consumable
  <2>5. OneTime!Redeem(t, d)
    <3>1. d \notin OneTime!Admitted
      BY <2>2 DEF OneTime!Admitted
    <3> QED
      BY <2>1, <2>3, <2>4, <3>1 DEF OneTime!Redeem
  <2> QED
    BY <2>5 DEF OneTime!Next
<1>3. ASSUME state' = state, admits' = admits PROVE Step
  BY <1>3 DEF OneTime!ticketVars
<1>4. ASSUME NEW t \in Token, NEW d \in Device, CreateDeviceToken(t, d), now' = now
      PROVE  Step
  <2>1. state' = state
    BY <1>4 DEF CreateDeviceToken
  <2>2. admits' = admits
    BY <1>4 DEF CreateDeviceToken
  <2> QED
    BY <2>1, <2>2, <1>3
<1>5. ASSUME UNCHANGED <<kind, subject, expires, used, now>> PROVE Step
  BY <1>3, <1>5
<1>6. CASE Tick
  <2> DEFINE T == {t \in Token : State(t) = "open" /\ State(t)' # "open"}
  <2>1. \A t \in T : state[t] = "open"
    OBVIOUS
  <2>2. state' = [t \in Token |-> IF t \in T THEN "lapsed" ELSE state[t]]
    BY <1>6 DEF Tick, tokenVars
  <2>3. admits' = admits
    BY <1>6 DEF Tick, tokenVars
  <2> QED
    BY <2>1, <2>2, <2>3 DEF OneTime!Next, OneTime!Lapse
<1>7. ASSUME NEW r \in Request, NEW t \in Token, RegisterIssue(r, t) PROVE Step
  BY <1>4, <1>7 DEF RegisterIssue, Writing
<1>8. ASSUME NEW r \in Request, NEW t \in Token, RotateIssue(r, t) PROVE Step
  BY <1>4, <1>8 DEF RotateIssue, GoOn, Writing
<1>9. ASSUME NEW r \in Request, NEW d \in Device,
             RevokeRow(r, d) \/ RotateGet(r, d) \/ DeleteTokens(r, d)
      PROVE  Step
  BY <1>5, <1>9 DEF RevokeRow, RotateGet, DeleteTokens, RevokeSubject, tokenVars
<1>10. ASSUME NEW r \in Request,
              \/ RevokeTokens(r) \/ RotateRevoke(r) \/ DeleteRow(r)
              \/ DeleteMissing(r) \/ AppendAudit(r) \/ Abort(r)
       PROVE  Step
  BY <1>5, <1>10 DEF RevokeTokens, RotateRevoke, DeleteRow, DeleteMissing,
     AppendAudit, Abort, RevokeSubject, tokenVars
<1>11. CASE UNCHANGED vars
  BY <1>5, <1>11 DEF vars, tokenVars
<1> QED
  BY <1>1, <1>2, <1>6, <1>7, <1>8, <1>9, <1>10, <1>11 DEF Next, Handler

\* DeviceCredentials implements OneTimeEnrollment: however requests interleave
\* and wherever they stop, an enrollment token admits one device, once.
THEOREM OneTimeRefined == Spec => ImplementsOneTimeEnrollment
<1>1. Init => OneTime!Init
  BY DEF Init, OneTime!Init
<1>2. TypeOK /\ EnrollmentInv /\ [Next]_vars => [OneTime!Next]_(OneTime!ticketVars)
  BY OneTimeStep
<1> QED
  BY <1>1, <1>2, TypeCorrect, EnrollmentInvariant, PTL
     DEF Spec, ImplementsOneTimeEnrollment, OneTime!Spec

-----------------------------------------------------------------------------
(* What a revocation leaves behind. *)

\* PriorTokensDead becomes inductive with what a handler knows before it
\* revokes: the tokens it found are tokens of its device still.
PriorOf(r) ==
  /\ pc[r] \in {"rotate.issue", "delete.row", "device.revoked",
                "device.rotated", "device.deleted"}
       => prior[r] \subseteq revoked
  /\ pc[r] \in {"revoke.tokens", "rotate.revoke"} => prior[r] \subseteq TokensOf(subj[r])

PriorInv == \A r \in Request : PriorOf(r)

\* PriorInv is inductive: the step.
LEMMA PriorStep ==
  ASSUME TypeOK, PriorInv, [Next]_vars
  PROVE  PriorInv'
<1>1. /\ revoked \subseteq revoked'
      /\ \A d \in Device : TokensOf(d) \subseteq TokensOf(d)'
  BY Growth DEF Restored
<1>2. \A r \in Request : pc[r] \in Writing => subj[r] \in Device
  BY DEF TypeOK
\* Only the handler that takes the step has to be looked at.
<1>3. ASSUME NEW r \in Request, PriorOf(r)',
             \A q \in Request \ {r} :
               pc'[q] = pc[q] /\ subj'[q] = subj[q] /\ prior'[q] = prior[q]
      PROVE  PriorInv'
  BY <1>1, <1>2, <1>3 DEF PriorInv, PriorOf, Writing
<1>4. ASSUME UNCHANGED <<pc, subj, prior>> PROVE PriorInv'
  BY <1>1, <1>2, <1>4 DEF PriorInv, PriorOf, Writing
<1> USE DEF TypeOK, PriorInv, PriorOf
<1>5. ASSUME NEW r \in Request, NEW d \in Device, NEW l \in {"register.issue",
             "revoke.tokens", "rotate.revoke"}, Begin(r, d, l)
      PROVE  PriorInv'
  <2>1. PriorOf(r)'
    BY <1>1, <1>5 DEF Begin
  <2> QED
    BY <1>3, <1>5, <2>1 DEF Begin
<1>6. ASSUME NEW r \in Request, Return(r) PROVE PriorInv'
  BY <1>3, <1>6 DEF Return
<1>7. ASSUME NEW r \in Request, NEW t \in Token, MintEnrollment(r, t) PROVE PriorInv'
  <2>1. PriorOf(r)'
    BY <1>7 DEF MintEnrollment
  <2> QED
    BY <1>3, <1>7, <2>1 DEF MintEnrollment, historyVars
<1>8. ASSUME NEW r \in Request, NEW d \in Device, DeleteTokens(r, d) PROVE PriorInv'
  <2>1. PriorOf(r)'
    BY <1>8 DEF DeleteTokens, Begin, RevokeSubject
  <2> QED
    BY <1>3, <1>8, <2>1 DEF DeleteTokens, Begin
<1>9. ASSUME NEW r \in Request, RevokeTokens(r) \/ RotateRevoke(r) PROVE PriorInv'
  <2>1. PriorOf(r)'
    BY <1>9 DEF RevokeTokens, RotateRevoke, GoOn, RevokeSubject, historyVars
  <2> QED
    BY <1>3, <1>9, <2>1 DEF RevokeTokens, RotateRevoke, GoOn, historyVars
<1>10. ASSUME NEW r \in Request, NEW t \in Token, RotateIssue(r, t) PROVE PriorInv'
  <2>1. PriorOf(r)'
    BY <1>10, <1>1 DEF RotateIssue, GoOn, historyVars
  <2> QED
    BY <1>3, <1>10, <2>1 DEF RotateIssue, GoOn, historyVars
<1>11. ASSUME NEW r \in Request, DeleteRow(r) PROVE PriorInv'
  <2>1. PriorOf(r)'
    BY <1>11, <1>1 DEF DeleteRow, GoOn, historyVars
  <2> QED
    BY <1>3, <1>11, <2>1 DEF DeleteRow, GoOn, historyVars
<1>12. CASE Tick \/ UNCHANGED vars
  BY <1>4, <1>12 DEF Tick, vars, handlerVars, historyVars
<1> QED
  BY <1>5, <1>6, <1>7, <1>8, <1>9, <1>10, <1>11, <1>12
     DEF Next, Handler, RegisterConsume, RegisterIssue, RevokeRow, RotateGet,
         DeleteMissing, AppendAudit, Abort

\* A revoke, rotate or delete that has revoked leaves none of the tokens it
\* found alive, whatever else was in flight.
THEOREM PriorTokensStayDead == Spec => []PriorTokensDead
<1>1. Init => PriorInv
  BY DEF Init, PriorInv, PriorOf
<1>2. TypeOK /\ PriorInv /\ [Next]_vars => PriorInv'
  BY PriorStep
<1>3. PriorInv => PriorTokensDead
  BY DEF PriorInv, PriorOf, PriorTokensDead
<1> QED
  BY <1>1, <1>2, <1>3, TypeCorrect, PTL DEF Spec

-----------------------------------------------------------------------------
(* A device handled by one request at a time. *)

\* What the last write of a handler finds: its device without a live token.
Sole(r) == pc[r] \in {"register.issue", "rotate.issue", "delete.row"}

\* While no two handlers have been in flight on d: the one handler there is
\* owns d, and the token count of d follows from where that handler is.
Exclusive(d) ==
  /\ \A r, q \in Writers(d) : r = q
  /\ \A r \in Writers(d) : Sole(r) => LiveTokens(d) = {}
  /\ \A r \in Writers(d) : pc[r] # "delete.row" => RowExists(d)
  /\ \A t, u \in LiveTokens(d) : t = u
  /\ device[d] = "deleted" => LiveTokens(d) = {}

ExclusiveInv ==
  /\ \A d \in Device : device[d] = "unborn" => TokensOf(d) = {} /\ Writers(d) = {}
  /\ \A d \in Device \ contended : Exclusive(d)

\* ExclusiveInv is inductive: the step.
LEMMA ExclusiveStep ==
  ASSUME TypeOK, EnrollmentInv, ExclusiveInv, [Next]_vars
  PROVE  ExclusiveInv'
<1> USE DEF TypeOK, ExclusiveInv, Exclusive, Writers, LiveTokens, TokensOf, RowExists, Sole
\* A step that leaves the tokens and the row of d alone and starts no handler.
<1>1. ASSUME UNCHANGED <<device, contended>>,
             \A d \in Device : TokensOf(d)' = TokensOf(d) /\ LiveTokens(d)' \subseteq LiveTokens(d),
             NEW r \in Request,
             \A q \in Request \ {r} : pc'[q] = pc[q] /\ subj'[q] = subj[q],
             pc'[r] \notin Writing
      PROVE  ExclusiveInv'
  <2>1. \A d \in Device : Writers(d)' \subseteq Writers(d) \ {r}
    BY <1>1
  <2>2. \A d \in Device \ contended : Exclusive(d)'
    BY <1>1, <2>1
  <2> QED
    BY <1>1, <2>1, <2>2
\* A step of one handler r on d: every other device is left alone.
<1>2. ASSUME NEW r \in Request, NEW d \in Device,
             \A q \in Request \ {r} : pc'[q] = pc[q] /\ subj'[q] = subj[q],
             subj'[r] = d \/ pc'[r] \notin Writing, subj[r] = d \/ pc[r] \notin Writing,
             \A e \in Device \ {d} : /\ device'[e] = device[e]
                                     /\ TokensOf(e)' = TokensOf(e)
                                     /\ LiveTokens(e)' = LiveTokens(e)
                                     /\ e \notin contended' => e \notin contended,
             device'[d] # "unborn",
             d \notin contended' => Exclusive(d)'
      PROVE  ExclusiveInv'
  <2>1. ASSUME NEW e \in Device \ {d} PROVE Writers(e)' = Writers(e)
    BY <1>2
  <2>2. ASSUME NEW e \in Device \ contended' PROVE Exclusive(e)'
    <3>1. CASE e = d
      BY <1>2, <3>1
    <3>2. CASE e # d
      BY <1>2, <2>1, <3>2
    <3> QED
      BY <3>1, <3>2
  <2> QED
    BY <1>2, <2>1, <2>2
<1>3. ASSUME NEW r \in Request, NEW t \in Token, MintEnrollment(r, t)
      PROVE  ExclusiveInv'
  BY <1>1, <1>3 DEF MintEnrollment, historyVars, Writing
<1>4. ASSUME NEW r \in Request, UNCHANGED <<device, kind, subject, revoked>>, Return(r)
      PROVE  ExclusiveInv'
  BY <1>1, <1>4 DEF Return, Writing
<1>5. ASSUME NEW r \in Request, NEW d \in Device, NEW t \in Token,
             RegisterConsume(r, t, d)
      PROVE  ExclusiveInv'
  <2>1. /\ Writers(d) = {}
        /\ Writers(d)' = {r}
        /\ TokensOf(d)' = {}
        /\ device'[d] = "trusted"
    BY <1>5 DEF RegisterConsume, Begin, Writing, Consumable
  <2>2. \A e \in Device \ {d} : /\ TokensOf(e)' = TokensOf(e)
                                /\ LiveTokens(e)' = LiveTokens(e)
    BY <1>5 DEF RegisterConsume, Consumable
  <2> QED
    BY <1>2, <1>5, <2>1, <2>2 DEF RegisterConsume, Begin, Writing
<1>6. ASSUME NEW r \in Request, NEW d \in Device, RevokeRow(r, d)
      PROVE  ExclusiveInv'
  <2>1. Writers(d)' = Writers(d) \cup {r}
    BY <1>6 DEF RevokeRow, Begin, Writing
  <2>2. d \notin contended' => Exclusive(d)'
    BY <1>6, <2>1 DEF RevokeRow, Begin, Writing, tokenVars
  <2> QED
    BY <1>2, <1>6, <2>2 DEF RevokeRow, Begin, Writing, tokenVars
<1>7. ASSUME NEW r \in Request, NEW d \in Device, RotateGet(r, d)
      PROVE  ExclusiveInv'
  <2>1. Writers(d)' = Writers(d) \cup {r}
    BY <1>7 DEF RotateGet, Begin, Writing
  <2>2. d \notin contended' => Exclusive(d)'
    BY <1>7, <2>1 DEF RotateGet, Begin, Writing, tokenVars
  <2> QED
    BY <1>2, <1>7, <2>2 DEF RotateGet, Begin, Writing, tokenVars
<1>8. ASSUME NEW r \in Request, NEW d \in Device, DeleteTokens(r, d)
      PROVE  ExclusiveInv'
  <2>1. Writers(d)' = Writers(d) \cup {r} /\ LiveTokens(d)' = {}
    BY <1>8 DEF DeleteTokens, RevokeSubject, Begin, Writing
  <2>2. d \notin contended' => Exclusive(d)'
    BY <1>8, <2>1 DEF DeleteTokens, RevokeSubject, Begin, Writing
  <2>3. \A e \in Device \ {d} : /\ TokensOf(e)' = TokensOf(e)
                                /\ LiveTokens(e)' = LiveTokens(e)
    BY <1>8 DEF DeleteTokens, RevokeSubject
  <2> QED
    BY <1>2, <1>8, <2>2, <2>3 DEF DeleteTokens, RevokeSubject, Begin, Writing
<1>9. ASSUME NEW r \in Request, RevokeTokens(r) PROVE ExclusiveInv'
  BY <1>1, <1>9 DEF RevokeTokens, RevokeSubject, GoOn, historyVars, Writing, AuditAction
<1>10. ASSUME NEW r \in Request, RotateRevoke(r) PROVE ExclusiveInv'
  <2> DEFINE d == subj[r]
  <2>1. d \in Device /\ r \in Writers(d) /\ device[d] # "unborn"
    BY <1>10 DEF RotateRevoke, GoOn, Writing
  <2>2. LiveTokens(d)' = {} /\ \A e \in Device : Writers(e)' = Writers(e)
    BY <1>10, <2>1 DEF RotateRevoke, RevokeSubject, GoOn, Writing, historyVars
  <2>3. d \notin contended' => Exclusive(d)'
    BY <1>10, <2>1, <2>2 DEF RotateRevoke, RevokeSubject, GoOn, historyVars
  <2>4. \A e \in Device \ {d} : /\ TokensOf(e)' = TokensOf(e)
                                /\ LiveTokens(e)' = LiveTokens(e)
    BY <1>10, <2>1 DEF RotateRevoke, RevokeSubject
  <2> QED
    BY <1>2, <1>10, <2>1, <2>3, <2>4 DEF RotateRevoke, GoOn, historyVars
<1>11. ASSUME NEW r \in Request, NEW t \in Token, NEW d \in Device,
              r \in Writers(d), pc[r] \in {"register.issue", "rotate.issue"},
              CreateDeviceToken(t, d),
              UNCHANGED <<device, contended>>, pc'[r] \notin Writing,
              \A q \in Request \ {r} : pc'[q] = pc[q] /\ subj'[q] = subj[q]
       PROVE  ExclusiveInv'
  <2>1. device[d] # "unborn" /\ subject[t] # d
    BY <1>11, DeviceAssumption DEF CreateDeviceToken, EnrollmentInv
  <2>2. LiveTokens(d)' \subseteq LiveTokens(d) \cup {t}
    BY <1>11 DEF CreateDeviceToken
  <2>3. d \notin contended => Exclusive(d)'
    BY <1>11, <2>1, <2>2 DEF CreateDeviceToken
  <2>4. \A e \in Device \ {d} : /\ TokensOf(e)' = TokensOf(e)
                                /\ LiveTokens(e)' = LiveTokens(e)
    BY <1>11 DEF CreateDeviceToken
  <2> QED
    BY <1>2, <1>11, <2>1, <2>3, <2>4
<1>12. ASSUME NEW r \in Request, NEW t \in Token, RegisterIssue(r, t) PROVE ExclusiveInv'
  BY <1>11, <1>12 DEF RegisterIssue, Return, Writing
<1>13. ASSUME NEW r \in Request, NEW t \in Token, RotateIssue(r, t) PROVE ExclusiveInv'
  BY <1>11, <1>13 DEF RotateIssue, GoOn, historyVars, Writing, AuditAction
<1>14. ASSUME NEW r \in Request, DeleteRow(r) PROVE ExclusiveInv'
  <2> DEFINE d == subj[r]
  <2>1. d \in Device /\ r \in Writers(d)
    BY <1>14 DEF DeleteRow, GoOn, Writing
  <2>2. d \notin contended => Writers(d)' = {} /\ LiveTokens(d)' = {}
    BY <1>14, <2>1 DEF DeleteRow, GoOn, tokenVars, historyVars, Writing, AuditAction
  <2>3. d \notin contended' => Exclusive(d)'
    BY <1>14, <2>1, <2>2 DEF DeleteRow, GoOn, historyVars
  <2> QED
    BY <1>2, <1>14, <2>1, <2>3 DEF DeleteRow, GoOn, tokenVars, historyVars
<1>15. CASE Tick \/ UNCHANGED vars
  BY <1>15 DEF Tick, vars, tokenVars, handlerVars, historyVars
<1> QED
  BY <1>3, <1>4, <1>5, <1>6, <1>7, <1>8, <1>9, <1>10, <1>12, <1>13, <1>14, <1>15
     DEF Next, Handler, DeleteMissing, AppendAudit, Abort, tokenVars

\* ExclusiveInv holds throughout.
LEMMA ExclusiveInvariant == Spec => []ExclusiveInv
<1>1. Init => ExclusiveInv
  BY DEF Init, ExclusiveInv, Exclusive, Writers, LiveTokens, TokensOf, Writing
<1>2. TypeOK /\ EnrollmentInv /\ ExclusiveInv /\ [Next]_vars => ExclusiveInv'
  BY ExclusiveStep
<1> QED
  BY <1>1, <1>2, TypeCorrect, EnrollmentInvariant, PTL DEF Spec

\* A device on which no two handlers were in flight at once has at most one
\* token that authenticates, whichever calls failed on the way.
THEOREM OneCredentialSafe == Spec => []OneCredentialUnlessContended
<1>1. ExclusiveInv => OneCredentialUnlessContended
  BY DEF ExclusiveInv, Exclusive, OneCredentialUnlessContended
<1> QED
  BY <1>1, ExclusiveInvariant, PTL

\* Such a device, once deleted, has none.
THEOREM DeletedSafe == Spec => []DeletedIsLockedOutUnlessContended
<1>1. ExclusiveInv => DeletedIsLockedOutUnlessContended
  BY DEF ExclusiveInv, Exclusive, DeletedIsLockedOutUnlessContended
<1> QED
  BY <1>1, ExclusiveInvariant, PTL

-----------------------------------------------------------------------------
(* The audit log. *)

\* AuditIsTruthful becomes inductive with what a handler that owes an append
\* already knows to be true.
Owed(r) ==
  /\ pc[r] \in AuditAction => Shown(pc[r], subj[r])
  /\ pc[r] = "revoke.tokens" => device[subj[r]] \in {"revoked", "deleted"}

AuditInv == AuditIsTruthful /\ \A r \in Request : Owed(r)

\* AuditInv is inductive: the step.
LEMMA AuditStep ==
  ASSUME TypeOK, EnrollmentInv, AuditInv, [Next]_vars
  PROVE  AuditInv'
\* What an event shows is shown from then on.
<1>1. ASSUME NEW a, NEW s, Shown(a, s) PROVE Shown(a, s)'
  BY <1>1, Growth DEF Shown, Gone, Restored
<1>2. ASSUME UNCHANGED audit PROVE AuditIsTruthful'
  BY <1>1, <1>2 DEF AuditInv, AuditIsTruthful
\* Only the handler that takes the step has to be looked at.
<1>3. ASSUME NEW r \in Request, Owed(r)',
             \A q \in Request \ {r} : pc'[q] = pc[q] /\ subj'[q] = subj[q]
      PROVE  \A q \in Request : Owed(q)'
  <2> SUFFICES ASSUME NEW q \in Request \ {r} PROVE Owed(q)'
    BY <1>3
  <2>1. Owed(q)
    BY DEF AuditInv
  <2>2. pc[q] = "revoke.tokens" => subj[q] \in Device
    BY DEF TypeOK, Writing
  <2> QED
    BY <1>1, <1>3, <2>1, <2>2, Growth DEF Owed, Gone
<1>4. ASSUME UNCHANGED <<pc, subj>> PROVE \A q \in Request : Owed(q)'
  <2>1. \A q \in Request : pc[q] = "revoke.tokens" => subj[q] \in Device
    BY DEF TypeOK, Writing
  <2> QED
    BY <1>1, <1>4, <2>1, Growth DEF Owed, Gone, AuditInv
<1>5. ASSUME NEW r \in Request, NEW t \in Token, MintEnrollment(r, t) PROVE AuditInv'
  <2>1. Owed(r)'
    BY <1>5 DEF MintEnrollment, Owed, Shown, TypeOK
  <2> QED
    BY <1>2, <1>3, <1>5, <2>1 DEF MintEnrollment, AuditInv, TypeOK
<1>6. ASSUME NEW r \in Request, NEW d \in Device,
             NEW l \in {"register.issue", "rotate.revoke", "delete.row"},
             Begin(r, d, l), UNCHANGED audit
      PROVE  AuditInv'
  <2>1. Owed(r)'
    BY <1>6 DEF Begin, Owed, AuditAction, TypeOK
  <2> QED
    BY <1>2, <1>3, <1>6, <2>1 DEF Begin, AuditInv, TypeOK
<1>7. ASSUME NEW r \in Request, NEW d \in Device, RevokeRow(r, d) PROVE AuditInv'
  <2>1. Owed(r)'
    BY <1>7 DEF RevokeRow, Begin, Owed, AuditAction, TypeOK
  <2> QED
    BY <1>2, <1>3, <1>7, <2>1 DEF RevokeRow, Begin, AuditInv, TypeOK
<1>8. ASSUME NEW r \in Request, RevokeTokens(r) PROVE AuditInv'
  <2>1. subj[r] \in Device /\ device[subj[r]] \in {"revoked", "deleted"}
    BY <1>8 DEF RevokeTokens, GoOn, AuditInv, Owed, TypeOK, Writing
  <2>2. Owed(r)'
    BY <1>8, <2>1 DEF RevokeTokens, GoOn, Owed, Shown, TypeOK
  <2> QED
    BY <1>2, <1>3, <1>8, <2>2 DEF RevokeTokens, GoOn, AuditInv, TypeOK
<1>9. ASSUME NEW r \in Request, RotateRevoke(r) PROVE AuditInv'
  <2>1. Owed(r)'
    BY <1>9 DEF RotateRevoke, GoOn, Owed, AuditAction, TypeOK
  <2> QED
    BY <1>2, <1>3, <1>9, <2>1 DEF RotateRevoke, GoOn, AuditInv, TypeOK
<1>10. ASSUME NEW r \in Request, NEW t \in Token, RotateIssue(r, t) PROVE AuditInv'
  <2>1. subj[r] \in Device
    BY <1>10 DEF RotateIssue, GoOn, TypeOK, Writing
  <2>2. t \in TokensOf(subj[r])'
    BY <1>10, <2>1 DEF RotateIssue, GoOn, CreateDeviceToken, TokensOf, historyVars, TypeOK
  <2>3. Owed(r)'
    BY <1>10, <2>1, <2>2 DEF RotateIssue, GoOn, Owed, Shown, TypeOK
  <2> QED
    BY <1>2, <1>3, <1>10, <2>3 DEF RotateIssue, GoOn, AuditInv, TypeOK
<1>11. ASSUME NEW r \in Request, DeleteRow(r) PROVE AuditInv'
  <2>1. subj[r] \in Device
    BY <1>11 DEF DeleteRow, GoOn, TypeOK, Writing
  <2>2. Owed(r)'
    BY <1>11, <2>1 DEF DeleteRow, GoOn, Owed, Shown, TypeOK
  <2> QED
    BY <1>2, <1>3, <1>11, <2>2 DEF DeleteRow, GoOn, AuditInv, TypeOK
<1>12. ASSUME NEW r \in Request, Return(r), UNCHANGED audit PROVE AuditInv'
  <2>1. Owed(r)'
    BY <1>12 DEF Return, Owed, AuditAction, TypeOK
  <2> QED
    BY <1>2, <1>3, <1>12, <2>1 DEF Return, AuditInv, TypeOK
<1>13. ASSUME NEW r \in Request, AppendAudit(r) PROVE AuditInv'
  <2>1. ASSUME NEW e \in audit' PROVE Shown(e[1], e[2])'
    <3>1. e \in audit \/ e = <<pc[r], subj[r]>>
      BY <1>13, <2>1 DEF AppendAudit
    <3>2. Shown(e[1], e[2])
      BY <1>13, <3>1 DEF AppendAudit, AuditInv, AuditIsTruthful, Owed
    <3> QED
      BY <1>1, <3>2
  <2>2. AuditIsTruthful'
    BY <2>1 DEF AuditIsTruthful
  <2>3. Owed(r)'
    BY <1>13 DEF AppendAudit, Return, Owed, AuditAction, TypeOK
  <2> QED
    BY <1>3, <1>13, <2>2, <2>3 DEF AppendAudit, Return, AuditInv, TypeOK
<1>14. CASE Tick \/ UNCHANGED vars
  BY <1>2, <1>4, <1>14 DEF Tick, vars, handlerVars, AuditInv
<1> QED
  BY <1>5, <1>6, <1>7, <1>8, <1>9, <1>10, <1>11, <1>12, <1>13, <1>14
     DEF Next, Handler, RegisterConsume, RegisterIssue, RotateGet, DeleteTokens,
         DeleteMissing, Abort

\* An audit event is there only when the rows show its effect.
THEOREM AuditSafe == Spec => []AuditIsTruthful
<1>1. Init => AuditInv
  BY DEF Init, AuditInv, AuditIsTruthful, Owed, AuditAction
<1>2. TypeOK /\ EnrollmentInv /\ AuditInv /\ [Next]_vars => AuditInv'
  BY AuditStep
<1>3. AuditInv => AuditIsTruthful
  BY DEF AuditInv
<1> QED
  BY <1>1, <1>2, <1>3, TypeCorrect, EnrollmentInvariant, PTL DEF Spec

=============================================================================
