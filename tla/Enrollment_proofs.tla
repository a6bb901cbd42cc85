--------------------------- MODULE Enrollment_proofs ---------------------------
(***************************************************************************)
(* Theorems about Enrollment: a register command replaces no token that      *)
(* works, one machine is one device, and a page says what is true of its    *)
(* own ticket.                                                              *)
(*                                                                         *)
(* None of the three is inductive. What a register command knows at its     *)
(* check, that the token on disk is dead, must stay true up to its save:    *)
(* tokens that die stay dead, a new one is not on any disk, and a command   *)
(* that another one comes beside no longer knows it (RunInv). And a device  *)
(* that is still trusted, and that nothing left behind, must be one that    *)
(* the machine holds, or is about to save, the token of (WitnessInv).       *)
(***************************************************************************)
EXTENDS Enrollment, TLAPS

-----------------------------------------------------------------------------
(* Fresh ids. *)

LEMMA FreshMember == ASSUME NEW S, NEW x \in Fresh(S) PROVE x \in S
<1>1. S # {} /\ x = CHOOSE y \in S : TRUE
  BY DEF Fresh
<1> QED BY <1>1

LEMMA FreshKey == ASSUME NEW k \in FreshKeys PROVE k \in Key /\ keyOf[k] = Nobody
BY FreshMember DEF FreshKeys

LEMMA FreshRow == ASSUME NEW d \in FreshRows PROVE d \in Row /\ row[d] = "unborn"
BY FreshMember DEF FreshRows

\* A step, by its actors.
OperatorStep ==
  \/ \E t \in Ticket : MintOnPage(t) \/ MintByApi(t) \/ Poll(t) \/ Lapse(t)
  \/ ServerRestarts \/ \E minted \in SUBSET page : SessionEnds(minted)
  \/ \E d \in Row : \/ Revoke(d) \/ RevokeStops(d) \/ Delete(d) \/ StopsShort(d)
                    \/ \E k \in FreshKeys : Rotate(d, k)

MachineStep ==
  \/ MachineSyncs \/ ForgetsKey \/ LoginElsewhere \/ LoginHere
  \/ \E r \in Run :
       \/ \E t \in Ticket : \/ ExchangeBegins(r, t) \/ ExchangeDenied(r, t)
                            \/ ExchangeForced(r, t) \/ ExchangeMisled(r, t)
       \/ ExchangeRefuses(r) \/ ExchangeFails(r) \/ SavesKey(r)
       \/ \E d \in FreshRows : ExchangeLost(r, d) \/ \E k \in FreshKeys : ExchangePost(r, d, k)
       \/ \E k \in Key, forced \in BOOLEAN : AdoptBegins(r, k, forced)

LEMMA Steps == EnrollNext => OperatorStep \/ MachineStep
BY DEF EnrollNext, OperatorStep, MachineStep

-----------------------------------------------------------------------------
(* Types. *)

LEMMA MishapType == ASSUME EnrollTypeOK, Mishap PROVE mishaps' \in 0 .. MaxMishaps
BY MishapsAssumption DEF EnrollTypeOK, Mishap

LEMMA EnrollInitType == EnrollInit => EnrollTypeOK
<1> SUFFICES ASSUME EnrollInit PROVE EnrollTypeOK OBVIOUS
<1>1. mishaps \in 0 .. MaxMishaps
  <2>1. mishaps = 0
    BY DEF EnrollInit
  <2> QED BY <2>1, MishapsAssumption
<1>2. run \in [Run -> Step] /\ \A r \in Run : run[r].at = "idle"
  BY DEF EnrollInit, Idle, Step
<1> QED BY <1>1, <1>2 DEF EnrollInit, EnrollTypeOK

LEMMA OperatorStepType == ASSUME EnrollTypeOK, OperatorStep PROVE EnrollTypeOK'
<1>1. ASSUME NEW t \in Ticket, MintOnPage(t) PROVE EnrollTypeOK'
  BY <1>1 DEF MintOnPage, EnrollTypeOK, keyVars, machineVars
<1>2. ASSUME NEW t \in Ticket, MintByApi(t) PROVE EnrollTypeOK'
  BY <1>2 DEF MintByApi, EnrollTypeOK, keyVars, pageVars, machineVars
<1>3. ASSUME NEW t \in Ticket, Poll(t) PROVE EnrollTypeOK'
  <2>1. t \in Page /\ Verdict(t) \in {"waiting", "enrolled", "complete", "expired"}
    BY <1>3 DEF Poll, EnrollTypeOK, Verdict
  <2> QED BY <1>3, <2>1 DEF Poll, EnrollTypeOK, ticketVars, keyVars, machineVars
<1>4. ASSUME NEW t \in Ticket, Lapse(t) PROVE EnrollTypeOK'
  BY <1>4 DEF Lapse, EnrollTypeOK, keyVars, pageVars, machineVars
<1>5. ASSUME ServerRestarts \/ \E minted \in SUBSET page : SessionEnds(minted)
      PROVE  EnrollTypeOK'
  BY <1>5, MishapType
     DEF ServerRestarts, SessionEnds, EnrollTypeOK, ticketVars, keyVars, machineVars
<1>6. ASSUME NEW d \in Row, Revoke(d) \/ RevokeStops(d) PROVE EnrollTypeOK'
  BY <1>6, MishapType
     DEF Revoke, RevokeStops, EnrollTypeOK, ticketVars, keyVars, pageVars, machineVars
<1>7. ASSUME NEW d \in Row, Delete(d) PROVE EnrollTypeOK'
  BY <1>7, MishapType DEF Delete, EnrollTypeOK, ticketVars, pageVars, machineVars
<1>8. ASSUME NEW d \in Row, NEW k \in FreshKeys, Rotate(d, k) PROVE EnrollTypeOK'
  BY <1>8, FreshKey, MishapType DEF Rotate, EnrollTypeOK, ticketVars, pageVars, machineVars
<1>9. ASSUME NEW d \in Row, StopsShort(d) PROVE EnrollTypeOK'
  BY <1>9, MishapType DEF StopsShort, EnrollTypeOK, ticketVars, pageVars
<1> QED BY <1>1, <1>2, <1>3, <1>4, <1>5, <1>6, <1>7, <1>8, <1>9 DEF OperatorStep

\* What a machine's step does to the runs and to the token on disk.
LEMMA StartType ==
  ASSUME EnrollTypeOK, NEW r \in Run, NEW step \in Step, Starts(r, step), step.at # "idle",
         step.at = "post" => step.with \in Ticket, step.at = "save" => step.with \in Key
  PROVE  /\ run' \in [Run -> Step]
         /\ run[r] = Idle /\ run'[r].at = step.at /\ run'[r].with = step.with
         /\ ~run'[r].blind => ~step.blind /\ Busy = {}
         /\ \A q \in Run \ {r} : /\ run'[q].at = run[q].at /\ run'[q].with = run[q].with
                                 /\ run[q] = Idle => run'[q] = Idle
                                 /\ run[q] # Idle => run'[q].blind
         /\ \A q \in Run : /\ run'[q].at = "post" => run'[q].with \in Ticket
                           /\ run'[q].at = "save" => run'[q].with \in Key
<1> DEFINE new == [step EXCEPT !.blind = step.blind \/ Busy # {}]
           beside(q) == [run[q] EXCEPT !.blind = TRUE]
<1>1. /\ new \in Step /\ new.at = step.at /\ new.with = step.with
      /\ new.blind = (step.blind \/ Busy # {})
  BY DEF Step
<1>2. \A q \in Run : /\ beside(q) \in Step /\ beside(q).at = run[q].at
                     /\ beside(q).with = run[q].with /\ beside(q).blind
  BY DEF EnrollTypeOK, Step
<1>3. run' = [q \in Run |-> IF q = r THEN new ELSE IF q \in Busy THEN beside(q) ELSE run[q]]
  BY DEF Starts
<1> HIDE DEF new, beside
<1>4. run[r] = Idle
  BY DEF Starts, Busy
<1>5. run'[r] = new /\ \A q \in Run \ {r} : run'[q] = IF run[q] # Idle THEN beside(q) ELSE run[q]
  BY <1>3 DEF Busy
<1>6. run' \in [Run -> Step]
  BY <1>1, <1>2, <1>3 DEF EnrollTypeOK
<1>7. ASSUME NEW q \in Run \ {r}
      PROVE  /\ run'[q].at = run[q].at /\ run'[q].with = run[q].with
             /\ run[q] = Idle => run'[q] = Idle
             /\ run[q] # Idle => run'[q].blind
  <2>1. CASE run[q] = Idle
    BY <1>5, <2>1
  <2>2. CASE run[q] # Idle
    <3>1. run'[q] = beside(q)
      BY <1>5, <2>2
    <3> QED BY <1>2, <2>2, <3>1
  <2> QED BY <2>1, <2>2
<1>8. ASSUME NEW q \in Run
      PROVE  /\ run'[q].at = "post" => run'[q].with \in Ticket
             /\ run'[q].at = "save" => run'[q].with \in Key
  <2>1. CASE q = r
    BY <1>1, <1>5, <2>1
  <2>2. CASE q # r
    BY <1>7, <2>2 DEF EnrollTypeOK
  <2> QED BY <2>1, <2>2
<1>9. /\ run'[r].at = step.at /\ run'[r].with = step.with
      /\ ~run'[r].blind => ~step.blind /\ Busy = {}
  BY <1>1, <1>5
<1> QED BY <1>4, <1>6, <1>7, <1>8, <1>9

LEMMA EndType ==
  ASSUME EnrollTypeOK, NEW r \in Run, Ends(r)
  PROVE  /\ run' \in [Run -> Step]
         /\ \A q \in Run : /\ run'[q].at = "post" => run'[q].with \in Ticket
                           /\ run'[q].at = "save" => run'[q].with \in Key
BY DEF EnrollTypeOK, Ends, Idle, Step

LEMMA AdmitType ==
  ASSUME EnrollTypeOK, NEW r \in Run, NEW d \in Row, Admits(r, d)
  PROVE  /\ run[r].with \in Ticket
         /\ ticket' \in [Ticket -> {"none", "open", "spent"}]
         /\ bornOf' \in [Ticket -> Row \cup {Nobody}]
         /\ row' \in [Row -> {"unborn", "trusted", "revoked", "deleted"}]
BY DEF EnrollTypeOK, Admits

\* The run that posted is at its save, with its new token.
LEMMA PostedRun ==
  ASSUME EnrollTypeOK, NEW r \in Run, NEW d \in Row, NEW k \in Key, ExchangePost(r, d, k)
  PROVE  /\ run' \in [Run -> Step]
         /\ run'[r].at = "save" /\ run'[r].with = k /\ run'[r].blind = run[r].blind
         /\ \A q \in Run \ {r} : run'[q] = run[q]
<1> DEFINE t == [run[r] EXCEPT !.at = "save", !.with = k]
<1>1. run' = [run EXCEPT ![r] = t]
  BY DEF ExchangePost, EnrollTypeOK, Step
<1>2. t \in Step /\ t.at = "save" /\ t.with = k /\ t.blind = run[r].blind
  BY DEF EnrollTypeOK, Step
<1> HIDE DEF t
<1> QED BY <1>1, <1>2 DEF EnrollTypeOK

LEMMA MachineSyncType ==
  ASSUME EnrollTypeOK, NEW k, SyncWithKey(k), keyOf[k] # Nobody
  PROVE  synced' \subseteq Row
BY DEF EnrollTypeOK, SyncWithKey

\* Every token that is live, handed out, on disk or about to be is some device's.
KeysAreBorn ==
  /\ held # Nobody => keyOf[held] # Nobody
  /\ \A k \in live \cup handed : keyOf[k] # Nobody
  /\ \A r \in Run : run[r].at = "save" => keyOf[run[r].with] # Nobody

LEMMA MachineStepType == ASSUME EnrollTypeOK, KeysAreBorn, MachineStep PROVE EnrollTypeOK'
<1>1. CASE MachineSyncs
  <2>1. synced' \subseteq Row
    BY <1>1, MachineSyncType DEF MachineSyncs, KeysAreBorn, SyncWithKey
  <2> QED BY <1>1, <2>1 DEF MachineSyncs, EnrollTypeOK, ticketVars, keyVars, pageVars, machineVars
<1>2. CASE ForgetsKey \/ LoginElsewhere \/ LoginHere
  BY <1>2, MishapType
     DEF ForgetsKey, LoginElsewhere, LoginHere, DeviceOf, EnrollTypeOK, ticketVars, keyVars,
         pageVars
<1>3. ASSUME NEW r \in Run, NEW t \in Ticket, ExchangeBegins(r, t) PROVE EnrollTypeOK'
  <2> DEFINE step == [at |-> "post", with |-> t, blind |-> FALSE]
  <2>1. step \in Step /\ step.at = "post" /\ step.with = t /\ Starts(r, step)
    BY <1>3 DEF ExchangeBegins, Step
  <2> HIDE DEF step
  <2> QED BY <1>3, <2>1, StartType
          DEF ExchangeBegins, EnrollTypeOK, ticketVars, keyVars, pageVars, credential
<1>4. ASSUME NEW r \in Run, NEW t \in Ticket,
             ExchangeDenied(r, t) \/ ExchangeForced(r, t) \/ ExchangeMisled(r, t)
      PROVE  EnrollTypeOK'
  <2> DEFINE step == [at |-> "post", with |-> t, blind |-> TRUE]
  <2>1. step \in Step /\ step.at = "post" /\ step.with = t /\ Starts(r, step)
    BY <1>4 DEF ExchangeDenied, ExchangeForced, ExchangeMisled, Step
  <2>2. mishaps' \in 0 .. MaxMishaps
    BY <1>4, MishapType DEF ExchangeDenied, ExchangeForced, ExchangeMisled, EnrollTypeOK
  <2> HIDE DEF step
  <2>3. /\ run' \in [Run -> Step]
        /\ \A q \in Run : /\ run'[q].at = "post" => run'[q].with \in Ticket
                          /\ run'[q].at = "save" => run'[q].with \in Key
    BY <2>1, StartType
  <2>4. UNCHANGED <<ticketVars, row, synced, keyVars, pageVars, credential, left>>
    BY <1>4 DEF ExchangeDenied, ExchangeForced, ExchangeMisled
  <2> QED BY <2>2, <2>3, <2>4 DEF EnrollTypeOK, ticketVars, keyVars, pageVars, credential
<1>5. ASSUME NEW r \in Run, ExchangeRefuses(r) PROVE EnrollTypeOK'
  <2>1. synced' \subseteq Row
    BY <1>5, MachineSyncType DEF ExchangeRefuses, KeysAreBorn, SyncWithKey
  <2> QED BY <1>5, <2>1 DEF ExchangeRefuses, EnrollTypeOK, ticketVars, keyVars, pageVars, machineVars
<1>6. ASSUME NEW r \in Run, ExchangeFails(r) PROVE EnrollTypeOK'
  BY <1>6, EndType DEF ExchangeFails, EnrollTypeOK, ticketVars, keyVars, pageVars, credential
<1>7. ASSUME NEW r \in Run, SavesKey(r) PROVE EnrollTypeOK'
  <2>1. held' \in Key /\ left' \subseteq Row
    BY <1>7 DEF SavesKey, EnrollTypeOK, DeviceOf
  <2> QED BY <1>7, <2>1, EndType DEF SavesKey, EnrollTypeOK, ticketVars, keyVars, pageVars
<1>8. ASSUME NEW r \in Run, NEW d \in FreshRows, ExchangeLost(r, d) PROVE EnrollTypeOK'
  BY <1>8, FreshRow, AdmitType, EndType, MishapType
     DEF ExchangeLost, EnrollTypeOK, keyVars, pageVars, credential
<1>9. ASSUME NEW r \in Run, NEW d \in FreshRows, NEW k \in FreshKeys, ExchangePost(r, d, k)
      PROVE  EnrollTypeOK'
  <2>1. k \in Key /\ d \in Row
    BY FreshKey, FreshRow
  <2>2. /\ run' \in [Run -> Step]
        /\ \A q \in Run : /\ run'[q].at = "post" => run'[q].with \in Ticket
                          /\ run'[q].at = "save" => run'[q].with \in Key
    BY <1>9, <2>1, PostedRun DEF EnrollTypeOK
  <2>3. keyOf' \in [Key -> Row \cup {Nobody}] /\ live' \subseteq Key
    BY <1>9, <2>1 DEF ExchangePost, EnrollTypeOK
  <2> QED BY <1>9, <2>1, <2>2, <2>3, AdmitType DEF ExchangePost, EnrollTypeOK, pageVars, credential
<1>10. ASSUME NEW r \in Run, NEW k \in Key, NEW forced \in BOOLEAN, AdoptBegins(r, k, forced)
       PROVE  EnrollTypeOK'
  <2> DEFINE step == [at |-> "save", with |-> k, blind |-> held # Nobody]
  <2>1. step \in Step /\ step.at = "save" /\ step.with = k /\ Starts(r, step)
    BY <1>10 DEF AdoptBegins, Step
  <2>2. synced' \subseteq Row
    BY <1>10, MachineSyncType DEF AdoptBegins, KeysAreBorn
  <2> HIDE DEF step
  <2> QED BY <1>10, <2>1, <2>2, StartType
          DEF AdoptBegins, EnrollTypeOK, ticketVars, keyVars, pageVars, credential
<1>11. ASSUME NEW r \in Run,
              \E t \in Ticket : \/ ExchangeBegins(r, t) \/ ExchangeDenied(r, t)
                                \/ ExchangeForced(r, t) \/ ExchangeMisled(r, t)
       PROVE  EnrollTypeOK'
  BY <1>3, <1>4, <1>11
<1>12. ASSUME NEW r \in Run,
              \E d \in FreshRows : ExchangeLost(r, d) \/ \E k \in FreshKeys : ExchangePost(r, d, k)
       PROVE  EnrollTypeOK'
  BY <1>8, <1>9, <1>12
<1> QED BY <1>1, <1>2, <1>5, <1>6, <1>7, <1>10, <1>11, <1>12 DEF MachineStep

-----------------------------------------------------------------------------
(* Register commands. *)

\* A command that knows the token on disk for dead is the only one, and is right.
RunInv ==
  /\ EnrollTypeOK /\ KeysAreBorn
  /\ \A r \in Run : run[r] # Idle /\ ~run[r].blind =>
       held \notin live /\ \A q \in Run : run[q] # Idle => q = r

\* A step that starts, ends and saves nothing, and makes no token.
LEMMA QuietStep ==
  ASSUME RunInv, EnrollTypeOK', run' = run, held' = held,
         keyOf' = keyOf, live' \subseteq live, handed' = handed
  PROVE  RunInv'
BY DEF RunInv, KeysAreBorn

\* A command that starts.
LEMMA StartStep ==
  ASSUME RunInv, EnrollTypeOK', NEW r \in Run, NEW step \in Step, Starts(r, step),
         step.at # "idle", step.at = "post" => step.with \in Ticket,
         step.at = "save" => step.with \in Key /\ keyOf[step.with] # Nobody,
         held' = held, keyOf' = keyOf, live' = live, handed' = handed,
         ~step.blind => held \notin live
  PROVE  RunInv'
<1>0. EnrollTypeOK
  BY DEF RunInv
<1>1. /\ run'[r].at = step.at /\ run'[r].with = step.with
      /\ ~run'[r].blind => ~step.blind /\ Busy = {}
      /\ \A q \in Run \ {r} : /\ run'[q].at = run[q].at /\ run'[q].with = run[q].with
                              /\ run[q] = Idle => run'[q] = Idle
                              /\ run[q] # Idle => run'[q].blind
  BY <1>0, StartType
<1>2. KeysAreBorn'
  BY <1>1 DEF RunInv, KeysAreBorn
<1>3. ASSUME NEW q \in Run, run'[q] # Idle, ~run'[q].blind
      PROVE  held' \notin live' /\ \A p \in Run : run'[p] # Idle => p = q
  <2>1. q = r
    BY <1>1, <1>3
  <2>2. Busy = {} /\ held \notin live
    BY <1>1, <1>3, <2>1
  <2>3. \A p \in Run \ {r} : run'[p] = Idle
    BY <1>1, <2>2 DEF Busy
  <2> QED BY <2>1, <2>2, <2>3
<1> QED BY <1>2, <1>3 DEF RunInv

LEMMA IdleIsIdle == Idle.at = "idle" /\ ~Idle.blind
BY DEF Idle

\* A command that ends.
LEMMA EndStep ==
  ASSUME RunInv, EnrollTypeOK', NEW r \in Run, run[r].at # "idle", Ends(r),
         held' = held \/ (run[r].at = "save" /\ held' = run[r].with),
         keyOf' = keyOf, live' = live, handed' = handed
  PROVE  RunInv'
<1>1. run' = [run EXCEPT ![r] = Idle] /\ run \in [Run -> Step]
  BY DEF Ends, RunInv, EnrollTypeOK
<1>2. run[r] # Idle
  BY IdleIsIdle
<1>3. \A q \in Run : run'[q] # Idle => q # r /\ run'[q] = run[q]
  BY <1>1
<1>4. KeysAreBorn'
  <2>1. held' # Nobody => keyOf'[held'] # Nobody
    BY DEF RunInv, KeysAreBorn
  <2>2. \A q \in Run : run'[q].at = "save" => keyOf'[run'[q].with] # Nobody
    BY <1>1, IdleIsIdle DEF RunInv, KeysAreBorn
  <2> QED BY <2>1, <2>2 DEF RunInv, KeysAreBorn
<1>5. \A q \in Run : run'[q] # Idle => run'[q].blind
  BY <1>2, <1>3 DEF RunInv
<1> QED BY <1>4, <1>5 DEF RunInv

\* A token that is made is on no disk.
LEMMA NewKey ==
  ASSUME RunInv, NEW k \in Key, NEW d \in Row, keyOf[k] = Nobody,
         keyOf' = [keyOf EXCEPT ![k] = d]
  PROVE  /\ k \notin live /\ k # held
         /\ \A q \in Key : keyOf[q] # Nobody => keyOf'[q] = keyOf[q]
         /\ keyOf'[k] = d /\ d # Nobody
BY NobodyAssumption DEF RunInv, KeysAreBorn, EnrollTypeOK

LEMMA RunInit == EnrollInit => RunInv
<1> SUFFICES ASSUME EnrollInit PROVE RunInv OBVIOUS
<1>1. \A r \in Run : run[r] = Idle
  BY DEF EnrollInit
<1> QED BY <1>1, EnrollInitType, IdleIsIdle DEF RunInv, KeysAreBorn, EnrollInit

LEMMA RunOperator == ASSUME RunInv, OperatorStep PROVE RunInv'
<1>0. EnrollTypeOK /\ EnrollTypeOK'
  BY OperatorStepType DEF RunInv
<1>1. ASSUME NEW t \in Ticket, MintOnPage(t) \/ MintByApi(t) \/ Poll(t) \/ Lapse(t) PROVE RunInv'
  BY <1>0, <1>1, QuietStep DEF MintOnPage, MintByApi, Poll, Lapse, keyVars, machineVars
<1>2. ASSUME ServerRestarts \/ \E minted \in SUBSET page : SessionEnds(minted) PROVE RunInv'
  BY <1>0, <1>2, QuietStep DEF ServerRestarts, SessionEnds, keyVars, machineVars
<1>3. ASSUME NEW d \in Row, Revoke(d) \/ RevokeStops(d) \/ Delete(d) \/ StopsShort(d)
      PROVE  RunInv'
  BY <1>0, <1>3, QuietStep DEF Revoke, RevokeStops, Delete, StopsShort, keyVars, machineVars
<1>4. ASSUME NEW d \in Row, NEW k \in FreshKeys, Rotate(d, k) PROVE RunInv'
  <2>1. /\ k \in Key /\ keyOf[k] = Nobody /\ keyOf' = [keyOf EXCEPT ![k] = d]
        /\ live' = (live \ KeysOf(d)) \cup {k} /\ handed' = handed \cup {k}
        /\ run' = run /\ held' = held
    BY <1>4, FreshKey DEF Rotate
  <2>2. /\ k \notin live /\ k # held /\ keyOf'[k] # Nobody
        /\ \A q \in Key : keyOf[q] # Nobody => keyOf'[q] = keyOf[q]
    BY <2>1, NewKey
  <2>3. KeysAreBorn'
    BY <1>0, <2>1, <2>2 DEF RunInv, KeysAreBorn, EnrollTypeOK
  <2>4. held \notin live => held' \notin live'
    BY <2>1, <2>2
  <2> QED BY <1>0, <2>1, <2>3, <2>4 DEF RunInv
<1> QED BY <1>1, <1>2, <1>3, <1>4 DEF OperatorStep

LEMMA RunMachine == ASSUME RunInv, MachineStep PROVE RunInv'
<1>0. EnrollTypeOK /\ EnrollTypeOK'
  BY MachineStepType DEF RunInv
<1>1. CASE MachineSyncs \/ \E r \in Run : ExchangeRefuses(r)
  BY <1>0, <1>1, QuietStep DEF MachineSyncs, ExchangeRefuses, keyVars, machineVars
<1>11. CASE LoginElsewhere \/ LoginHere
  BY <1>0, <1>11, QuietStep DEF LoginElsewhere, LoginHere, keyVars
<1>2. CASE ForgetsKey
  <2>1. /\ held' = Nobody /\ run' = run
        /\ keyOf' = keyOf /\ live' = live /\ handed' = handed
    BY <1>2 DEF ForgetsKey, keyVars
  <2>2. Nobody \notin live
    BY <1>0, NobodyAssumption DEF EnrollTypeOK
  <2> QED BY <1>0, <2>1, <2>2 DEF RunInv, KeysAreBorn
<1>3. ASSUME NEW r \in Run, NEW t \in Ticket, ExchangeBegins(r, t) PROVE RunInv'
  <2> DEFINE step == [at |-> "post", with |-> t, blind |-> FALSE]
  <2>1. step \in Step /\ step.at = "post" /\ step.with = t /\ ~step.blind /\ Starts(r, step)
    BY <1>3 DEF ExchangeBegins, Step
  <2> HIDE DEF step
  <2> QED BY <1>0, <1>3, <2>1, StartStep DEF ExchangeBegins, keyVars, credential
<1>4. ASSUME NEW r \in Run, NEW t \in Ticket,
             ExchangeDenied(r, t) \/ ExchangeForced(r, t) \/ ExchangeMisled(r, t)
      PROVE  RunInv'
  <2> DEFINE step == [at |-> "post", with |-> t, blind |-> TRUE]
  <2>1. step \in Step /\ step.at = "post" /\ step.with = t /\ step.blind /\ Starts(r, step)
    BY <1>4 DEF ExchangeDenied, ExchangeForced, ExchangeMisled, Step
  <2>2. UNCHANGED <<keyVars, credential>>
    BY <1>4 DEF ExchangeDenied, ExchangeForced, ExchangeMisled
  <2> HIDE DEF step
  <2> QED BY <1>0, <2>1, <2>2, StartStep DEF keyVars, credential
<1>5. ASSUME NEW r \in Run, ExchangeFails(r) \/ SavesKey(r) PROVE RunInv'
  BY <1>0, <1>5, EndStep DEF ExchangeFails, SavesKey, keyVars, credential
<1>6. ASSUME NEW r \in Run, NEW d \in FreshRows, ExchangeLost(r, d) PROVE RunInv'
  BY <1>0, <1>6, EndStep DEF ExchangeLost, Admits, keyVars, credential
<1>7. ASSUME NEW r \in Run, NEW d \in FreshRows, NEW k \in FreshKeys, ExchangePost(r, d, k)
      PROVE  RunInv'
  <2>0. d \in Row /\ k \in Key /\ keyOf[k] = Nobody
    BY FreshKey, FreshRow
  <2>1. /\ keyOf' = [keyOf EXCEPT ![k] = d]
        /\ live' = live \cup {k} /\ handed' = handed
        /\ held' = held /\ run[r].at = "post"
    BY <1>7 DEF ExchangePost, Admits, credential
  <2>2. /\ k \notin live /\ k # held /\ keyOf'[k] # Nobody
        /\ \A q \in Key : keyOf[q] # Nobody => keyOf'[q] = keyOf[q]
    BY <2>0, <2>1, NewKey
  <2>3. /\ run'[r].at = "save" /\ run'[r].with = k /\ run'[r].blind = run[r].blind
        /\ \A q \in Run \ {r} : run'[q] = run[q]
    BY <1>0, <1>7, <2>0, PostedRun
  <2>4. KeysAreBorn'
    BY <1>0, <2>1, <2>2, <2>3 DEF RunInv, KeysAreBorn, EnrollTypeOK
  <2>5. run[r] # Idle /\ run'[r] # Idle
    BY <2>1, <2>3, IdleIsIdle
  <2>6. held \notin live => held' \notin live'
    BY <2>1, <2>2
  <2>7. \A q \in Run : run'[q] # Idle /\ ~run'[q].blind =>
          held' \notin live' /\ \A p \in Run : run'[p] # Idle => p = q
    BY <2>3, <2>5, <2>6 DEF RunInv
  <2> QED BY <1>0, <2>4, <2>7 DEF RunInv
<1>8. ASSUME NEW r \in Run, NEW k \in Key, NEW forced \in BOOLEAN, AdoptBegins(r, k, forced)
      PROVE  RunInv'
  <2> DEFINE step == [at |-> "save", with |-> k, blind |-> held # Nobody]
  <2>1. /\ step \in Step /\ step.at = "save" /\ step.with = k /\ step.blind = (held # Nobody)
        /\ Starts(r, step)
    BY <1>8 DEF AdoptBegins, Step
  <2> HIDE DEF step
  <2>2. keyOf[k] # Nobody
    BY <1>8 DEF AdoptBegins, RunInv, KeysAreBorn
  <2>3. ~step.blind => held \notin live
    BY <1>0, <2>1, NobodyAssumption DEF EnrollTypeOK
  <2>4. held' = held /\ keyOf' = keyOf /\ live' = live /\ handed' = handed
    BY <1>8 DEF AdoptBegins, keyVars, credential
  <2> QED BY <1>0, <2>1, <2>2, <2>3, <2>4, StartStep
<1>9. ASSUME NEW r \in Run,
             \E t \in Ticket : \/ ExchangeBegins(r, t) \/ ExchangeDenied(r, t)
                               \/ ExchangeForced(r, t) \/ ExchangeMisled(r, t)
      PROVE  RunInv'
  BY <1>3, <1>4, <1>9
<1>10. ASSUME NEW r \in Run,
              \E d \in FreshRows : ExchangeLost(r, d) \/ \E k \in FreshKeys : ExchangePost(r, d, k)
       PROVE  RunInv'
  BY <1>6, <1>7, <1>10
<1> QED BY <1>1, <1>2, <1>5, <1>8, <1>9, <1>10, <1>11 DEF MachineStep

LEMMA RunStep == RunInv /\ [EnrollNext]_enrollVars => RunInv'
<1> SUFFICES ASSUME RunInv, [EnrollNext]_enrollVars PROVE RunInv' OBVIOUS
<1>1. CASE UNCHANGED enrollVars
  BY <1>1 DEF enrollVars, ticketVars, keyVars, pageVars, machineVars, RunInv, KeysAreBorn,
              EnrollTypeOK
<1> QED BY <1>1, Steps, RunOperator, RunMachine

LEMMA RunInvHolds == EnrollSpec => []RunInv
BY RunInit, RunStep, PTL DEF EnrollSpec

\* The variables of enrollment have their types.
THEOREM EnrollTypeCorrect == EnrollSpec => []EnrollTypeOK
<1>1. RunInv => EnrollTypeOK
  BY DEF RunInv
<1> QED BY <1>1, RunInvHolds, PTL

\* The token on disk changes at a save, or is forgotten.
LEMMA HeldChanges ==
  ASSUME [EnrollNext]_enrollVars, held' # held
  PROVE  held' = Nobody \/ \E r \in Run : SavesKey(r)
<1>1. CASE OperatorStep
  BY <1>1 DEF OperatorStep, MintOnPage, MintByApi, Poll, Lapse, ServerRestarts, SessionEnds,
              Revoke, RevokeStops, Delete, StopsShort, Rotate, machineVars
<1>2. CASE MachineStep
  <2>1. CASE MachineSyncs \/ ForgetsKey \/ LoginElsewhere \/ LoginHere
    BY <2>1 DEF MachineSyncs, ForgetsKey, LoginElsewhere, LoginHere, machineVars
  <2>2. ASSUME NEW r \in Run,
               \/ \E t \in Ticket : \/ ExchangeBegins(r, t) \/ ExchangeDenied(r, t)
                                    \/ ExchangeForced(r, t) \/ ExchangeMisled(r, t)
               \/ ExchangeRefuses(r) \/ ExchangeFails(r)
               \/ \E d \in FreshRows : ExchangeLost(r, d) \/ \E k \in FreshKeys : ExchangePost(r, d, k)
               \/ \E k \in Key, forced \in BOOLEAN : AdoptBegins(r, k, forced)
        PROVE  FALSE
    BY <2>2 DEF ExchangeBegins, ExchangeDenied, ExchangeForced, ExchangeMisled, ExchangeRefuses,
                ExchangeFails, ExchangeLost, ExchangePost, AdoptBegins, machineVars, credential
  <2> QED BY <1>2, <2>1, <2>2 DEF MachineStep
<1>3. CASE UNCHANGED enrollVars
  BY <1>3 DEF enrollVars, machineVars
<1> QED BY <1>1, <1>2, <1>3, Steps

LEMMA KeepsStep ==
  ASSUME RunInv, [EnrollNext]_enrollVars, held' # held, held \in live
  PROVE  held' = Nobody \/ \E r \in Run : run[r].blind /\ run[r].with = held'
<1>1. CASE held' = Nobody
  BY <1>1
<1>2. ASSUME NEW r \in Run, SavesKey(r) PROVE run[r].blind /\ run[r].with = held'
  <2>1. run[r] # Idle /\ held' = run[r].with
    BY <1>2, IdleIsIdle DEF SavesKey
  <2> QED BY <2>1 DEF RunInv
<1> QED BY <1>1, <1>2, HeldChanges

\* No register that was told that the token on disk is dead replaces one that works,
\* whatever operators and failures do between its check and its save: only one that
\* went on blindly does (--force, misled by a login, a 401 for a lookup that failed,
\* or beside another).
THEOREM WorkingTokenKept == EnrollSpec => RegisterKeepsWorkingToken
<1> DEFINE Kept == held' # held /\ held \in live =>
                     held' = Nobody \/ \E r \in Run : run[r].blind /\ run[r].with = held'
<1>1. RunInv /\ [EnrollNext]_enrollVars => [Kept]_enrollVars
  BY KeepsStep
<1> QED BY <1>1, RunInvHolds, PTL DEF EnrollSpec, RegisterKeepsWorkingToken

-----------------------------------------------------------------------------
(* One machine, one device. *)

\* The machine has a token of d, or is about to save one.
Witness(k, d) ==
  /\ k \in live /\ keyOf[k] = d
  /\ held = k \/ \E r \in Run : run[r].at = "save" /\ run[r].with = k

WitnessInv == \A d \in Row \ left : row[d] = "trusted" => \E k \in Key : Witness(k, d)

\* A step that keeps the machine's tokens, and trusts no new device.
LEMMA SameMachine ==
  ASSUME WitnessInv, held' = held, left \subseteq left',
         \A r \in Run : run[r].at = "save" => run'[r].at = "save" /\ run'[r].with = run[r].with,
         \A d \in Row \ left' : row'[d] = "trusted" => row[d] = "trusted",
         \A d \in Row \ left', k \in Key :
           row'[d] = "trusted" /\ k \in live /\ keyOf[k] = d => k \in live' /\ keyOf'[k] = d
  PROVE  WitnessInv'
<1> SUFFICES ASSUME NEW d \in Row \ left', row'[d] = "trusted"
             PROVE  \E k \in Key : Witness(k, d)'
  BY DEF WitnessInv
<1>1. PICK k \in Key : Witness(k, d)
  BY DEF WitnessInv
<1>2. Witness(k, d)'
  BY <1>1 DEF Witness
<1> QED BY <1>2

LEMMA WitnessOperator == ASSUME RunInv, WitnessInv, OperatorStep PROVE WitnessInv'
<1>1. ASSUME NEW t \in Ticket, MintOnPage(t) \/ MintByApi(t) \/ Poll(t) \/ Lapse(t) PROVE WitnessInv'
  BY <1>1, SameMachine DEF MintOnPage, MintByApi, Poll, Lapse, keyVars, machineVars
<1>2. ASSUME ServerRestarts \/ \E minted \in SUBSET page : SessionEnds(minted) PROVE WitnessInv'
  BY <1>2, SameMachine DEF ServerRestarts, SessionEnds, keyVars, machineVars
<1>3. ASSUME NEW d \in Row, Revoke(d) \/ RevokeStops(d) \/ Delete(d) PROVE WitnessInv'
  <2>1. /\ run' = run /\ held' = held /\ left' = left
        /\ keyOf' = keyOf /\ live \ KeysOf(d) \subseteq live'
    BY <1>3 DEF Revoke, RevokeStops, Delete, keyVars, machineVars
  <2>2. \A e \in Row : row'[e] = "trusted" => row[e] = "trusted" /\ e # d
    BY <1>3 DEF Revoke, RevokeStops, Delete, RunInv, EnrollTypeOK
  <2> QED BY <2>1, <2>2, SameMachine DEF KeysOf
<1>4. ASSUME NEW d \in Row, NEW k \in FreshKeys, Rotate(d, k) PROVE WitnessInv'
  <2>1. /\ k \in Key /\ keyOf[k] = Nobody /\ keyOf' = [keyOf EXCEPT ![k] = d]
        /\ live' = (live \ KeysOf(d)) \cup {k} /\ row' = row /\ left' = left \cup {d}
        /\ run' = run /\ held' = held
    BY <1>4, FreshKey DEF Rotate
  <2>2. \A e \in Row \ left', q \in Key :
          q \in live /\ keyOf[q] = e => q \in live' /\ keyOf'[q] = e
    <3>1. k \notin live
      BY <2>1 DEF RunInv, KeysAreBorn
    <3> QED BY <2>1, <3>1 DEF KeysOf, RunInv, EnrollTypeOK
  <2> QED BY <2>1, <2>2, SameMachine
<1>5. ASSUME NEW d \in Row, StopsShort(d) PROVE WitnessInv'
  <2>1. /\ keyOf' = keyOf /\ live' = live \ KeysOf(d) /\ row' = row /\ left' = left \cup {d}
        /\ run' = run /\ held' = held
    BY <1>5 DEF StopsShort
  <2> QED BY <2>1, SameMachine DEF KeysOf
<1> QED BY <1>1, <1>2, <1>3, <1>4, <1>5 DEF OperatorStep

LEMMA WitnessMachine == ASSUME RunInv, WitnessInv, MachineStep PROVE WitnessInv'
<1>0. EnrollTypeOK
  BY DEF RunInv
<1>1. CASE MachineSyncs \/ \E r \in Run : ExchangeRefuses(r)
  BY <1>1, SameMachine DEF MachineSyncs, ExchangeRefuses, keyVars, machineVars
<1>2. CASE LoginElsewhere \/ LoginHere
  BY <1>2, SameMachine DEF LoginElsewhere, LoginHere, keyVars
<1>3. CASE ForgetsKey
  <2>1. /\ run' = run /\ row' = row /\ keyOf' = keyOf /\ live' = live
        /\ left' = left \cup DeviceOf(held)
    BY <1>3 DEF ForgetsKey, keyVars
  <2> SUFFICES ASSUME NEW d \in Row \ left', row'[d] = "trusted"
               PROVE  \E k \in Key : Witness(k, d)'
    BY DEF WitnessInv
  <2>2. PICK k \in Key : Witness(k, d)
    BY <2>1 DEF WitnessInv
  <2>3. held # k
    BY <2>1, <2>2 DEF Witness, DeviceOf
  <2>4. Witness(k, d)'
    BY <2>1, <2>2, <2>3 DEF Witness
  <2> QED BY <2>4
<1>4. ASSUME NEW r \in Run, NEW step \in Step, Starts(r, step), step.at # "idle",
             step.at = "post" => step.with \in Ticket, step.at = "save" => step.with \in Key,
             held' = held, row' = row, left' = left, keyOf' = keyOf, live' = live
      PROVE  WitnessInv'
  <2>1. /\ run[r] = Idle
        /\ \A q \in Run \ {r} : run'[q].at = run[q].at /\ run'[q].with = run[q].with
    BY <1>0, <1>4, StartType
  <2>2. \A q \in Run : run[q].at = "save" => run'[q].at = "save" /\ run'[q].with = run[q].with
    BY <2>1, IdleIsIdle
  <2> QED BY <1>4, <2>2, SameMachine
<1>5. ASSUME NEW r \in Run, NEW t \in Ticket,
             \/ ExchangeBegins(r, t) \/ ExchangeDenied(r, t)
             \/ ExchangeForced(r, t) \/ ExchangeMisled(r, t)
      PROVE  WitnessInv'
  <2>1. PICK b \in BOOLEAN : Starts(r, [at |-> "post", with |-> t, blind |-> b])
    BY <1>5 DEF ExchangeBegins, ExchangeDenied, ExchangeForced, ExchangeMisled
  <2>2. [at |-> "post", with |-> t, blind |-> b] \in Step
    BY DEF Step
  <2>3. held' = held /\ row' = row /\ left' = left /\ keyOf' = keyOf /\ live' = live
    BY <1>5 DEF ExchangeBegins, ExchangeDenied, ExchangeForced, ExchangeMisled, keyVars, credential
  <2> QED BY <1>4, <2>1, <2>2, <2>3
<1>6. ASSUME NEW r \in Run, ExchangeFails(r) PROVE WitnessInv'
  <2>1. /\ run' = [run EXCEPT ![r] = Idle] /\ run[r].at = "post" /\ held' = held /\ row' = row
        /\ left' = left /\ keyOf' = keyOf /\ live' = live
    BY <1>6 DEF ExchangeFails, Ends, keyVars, credential
  <2>2. \A q \in Run : run[q].at = "save" => run'[q] = run[q]
    BY <1>0, <2>1 DEF EnrollTypeOK
  <2> QED BY <2>1, <2>2, SameMachine
<1>7. ASSUME NEW r \in Run, SavesKey(r) PROVE WitnessInv'
  <2> DEFINE w == run[r].with
  <2>1. /\ run[r].at = "save" /\ held' = w /\ row' = row /\ keyOf' = keyOf /\ live' = live
        /\ run' = [run EXCEPT ![r] = Idle] /\ w \in Key
        /\ left' = (left \cup IF run[r].blind THEN DeviceOf(held) ELSE {}) \ DeviceOf(w)
    BY <1>0, <1>7 DEF SavesKey, Ends, keyVars, EnrollTypeOK
  <2> SUFFICES ASSUME NEW d \in Row \ left', row'[d] = "trusted"
               PROVE  \E k \in Key : Witness(k, d)'
    BY DEF WitnessInv
  <2> HIDE DEF w
  <2>2. CASE d \in DeviceOf(w)
    <3>1. PICK k \in Key : k = w
      BY <2>1
    <3>2. Witness(k, d)'
      BY <2>1, <2>2, <3>1 DEF Witness, DeviceOf
    <3> QED BY <3>2
  <2>3. CASE d \notin DeviceOf(w)
    <3>1. d \notin left /\ (run[r].blind => d \notin DeviceOf(held))
      BY <2>1, <2>3
    <3>2. PICK k \in Key : Witness(k, d)
      BY <2>1, <3>1 DEF WitnessInv
    <3>3. k # held
      <4>1. CASE run[r].blind
        BY <3>1, <3>2, <4>1 DEF Witness, DeviceOf
      <4>2. CASE ~run[r].blind
        BY <2>1, <3>2, <4>2, IdleIsIdle DEF RunInv, Witness
      <4> QED BY <4>1, <4>2
    <3>4. k # w
      BY <2>3, <3>2 DEF Witness, DeviceOf
    <3>5. PICK q \in Run : run[q].at = "save" /\ run[q].with = k
      BY <3>2, <3>3 DEF Witness
    <3>6. q # r
      BY <3>4, <3>5 DEF w
    <3>7. run'[q] = run[q]
      BY <1>0, <2>1, <3>6 DEF EnrollTypeOK
    <3>8. Witness(k, d)'
      BY <2>1, <3>2, <3>5, <3>7 DEF Witness
    <3> QED BY <3>8
  <2> QED BY <2>2, <2>3
<1>8. ASSUME NEW r \in Run, NEW e \in FreshRows, ExchangeLost(r, e) PROVE WitnessInv'
  <2>1. /\ run' = [run EXCEPT ![r] = Idle] /\ run[r].at = "post" /\ held' = held
        /\ row' = [row EXCEPT ![e] = "trusted"] /\ e \in Row
        /\ left' = left \cup {e} /\ keyOf' = keyOf /\ live' = live
    BY <1>8, FreshRow DEF ExchangeLost, Admits, Ends, keyVars, credential
  <2>2. \A q \in Run : run[q].at = "save" => run'[q] = run[q]
    BY <1>0, <2>1 DEF EnrollTypeOK
  <2>3. \A d \in Row \ left' : row'[d] = row[d]
    BY <1>0, <2>1 DEF EnrollTypeOK
  <2> QED BY <2>1, <2>2, <2>3, SameMachine
<1>9. ASSUME NEW r \in Run, NEW e \in FreshRows, NEW k \in FreshKeys, ExchangePost(r, e, k)
      PROVE  WitnessInv'
  <2>0. e \in Row /\ k \in Key /\ keyOf[k] = Nobody
    BY FreshKey, FreshRow
  <2>1. /\ keyOf' = [keyOf EXCEPT ![k] = e] /\ live' = live \cup {k}
        /\ row' = [row EXCEPT ![e] = "trusted"] /\ left' = left /\ held' = held
        /\ run[r].at = "post"
    BY <1>9 DEF ExchangePost, Admits, credential
  <2>2. /\ run'[r].at = "save" /\ run'[r].with = k
        /\ \A q \in Run \ {r} : run'[q] = run[q]
    BY <1>0, <1>9, <2>0, PostedRun
  <2>3. k \notin live /\ keyOf'[k] = e /\ \A q \in Key \ {k} : keyOf'[q] = keyOf[q]
    BY <1>0, <2>0, <2>1, NewKey DEF EnrollTypeOK
  <2> SUFFICES ASSUME NEW d \in Row \ left', row'[d] = "trusted"
               PROVE  \E q \in Key : Witness(q, d)'
    BY DEF WitnessInv
  <2>4. CASE d = e
    <3>1. Witness(k, d)'
      BY <2>1, <2>2, <2>3, <2>4 DEF Witness
    <3> QED BY <2>0, <3>1
  <2>5. CASE d # e
    <3>1. row[d] = "trusted"
      BY <1>0, <2>0, <2>1, <2>5 DEF EnrollTypeOK
    <3>2. PICK q \in Key : Witness(q, d)
      BY <2>1, <3>1 DEF WitnessInv
    <3>3. q # k /\ q \in live' /\ keyOf'[q] = d
      BY <2>1, <2>3, <3>2 DEF Witness
    <3>4. \A p \in Run : run[p].at = "save" => run'[p] = run[p]
      BY <2>1, <2>2
    <3>5. Witness(q, d)'
      BY <2>1, <3>2, <3>3, <3>4 DEF Witness
    <3> QED BY <3>5
  <2> QED BY <2>4, <2>5
<1>10. ASSUME NEW r \in Run, NEW k \in Key, NEW forced \in BOOLEAN, AdoptBegins(r, k, forced)
       PROVE  WitnessInv'
  <2>1. [at |-> "save", with |-> k, blind |-> held # Nobody] \in Step
    BY DEF Step
  <2> QED BY <1>4, <1>10, <2>1 DEF AdoptBegins, keyVars, credential
<1>11. ASSUME NEW r \in Run,
              \E t \in Ticket : \/ ExchangeBegins(r, t) \/ ExchangeDenied(r, t)
                                \/ ExchangeForced(r, t) \/ ExchangeMisled(r, t)
       PROVE  WitnessInv'
  BY <1>5, <1>11
<1>12. ASSUME NEW r \in Run,
              \E e \in FreshRows : ExchangeLost(r, e) \/ \E k \in FreshKeys : ExchangePost(r, e, k)
       PROVE  WitnessInv'
  BY <1>8, <1>9, <1>12
<1> QED BY <1>1, <1>2, <1>3, <1>6, <1>7, <1>10, <1>11, <1>12 DEF MachineStep

LEMMA WitnessInit == EnrollInit => WitnessInv
BY DEF EnrollInit, WitnessInv

LEMMA WitnessStep == RunInv /\ WitnessInv /\ [EnrollNext]_enrollVars => WitnessInv'
<1> SUFFICES ASSUME RunInv, WitnessInv, [EnrollNext]_enrollVars PROVE WitnessInv' OBVIOUS
<1>1. CASE UNCHANGED enrollVars
  BY <1>1 DEF enrollVars, keyVars, machineVars, WitnessInv, Witness
<1> QED BY <1>1, Steps, WitnessOperator, WitnessMachine

\* With no command under way, the machine has one token, and that is of one device.
LEMMA OneDevice == WitnessInv => OneDeviceUnlessLeft
<1> SUFFICES ASSUME WitnessInv, Busy = {},
                    NEW d \in Row \ left, NEW e \in Row \ left,
                    row[d] = "trusted", row[e] = "trusted"
             PROVE  d = e
  BY DEF OneDeviceUnlessLeft
<1>1. \A r \in Run : run[r].at = "idle"
  BY IdleIsIdle DEF Busy
<1>2. keyOf[held] = d
  BY <1>1 DEF WitnessInv, Witness
<1>3. keyOf[held] = e
  BY <1>1 DEF WitnessInv, Witness
<1> QED BY <1>2, <1>3

\* When no command is under way, all trusted devices but one are devices that something
\* left behind: an answer that was lost, a rotate or a delete that stopped, a command
\* that went on blindly, an adoption or an uninstall.
THEOREM OneDeviceSafe == EnrollSpec => []OneDeviceUnlessLeft
<1>1. EnrollSpec => []WitnessInv
  BY RunInvHolds, WitnessInit, WitnessStep, PTL DEF EnrollSpec
<1> QED BY <1>1, OneDevice, PTL

-----------------------------------------------------------------------------
(* The page. *)

\* A page says nothing until its ticket is minted, and enrolled only of one that is spent.
PageInv ==
  \A t \in Page : /\ ticket[t] = "none" => shown[t] = "nothing"
                  /\ shown[t] = "enrolled" => ticket[t] = "spent"

\* Tickets are minted, then spent, and pages say what the polls find.
LEMMA HowShown ==
  ASSUME RunInv, [EnrollNext]_enrollVars
  PROVE  \/ /\ shown' = shown
            /\ \A t \in Page : /\ ticket[t] = "spent" => ticket'[t] = "spent"
                               /\ ticket'[t] = "none" => ticket[t] = "none"
         \/ \E t \in Page : MintOnPage(t) \/ Poll(t)
<1>0. EnrollTypeOK /\ Page \subseteq Ticket
  BY PageAssumption DEF RunInv
<1>1. CASE OperatorStep
  <2>1. ASSUME NEW t \in Ticket, MintByApi(t) \/ Lapse(t) PROVE shown' = shown /\
          \A x \in Page : ticket'[x] = ticket[x]
    BY <1>0, <2>1 DEF MintByApi, Lapse, EnrollTypeOK, pageVars
  <2>2. ASSUME NEW t \in Ticket, MintOnPage(t) \/ Poll(t) PROVE t \in Page
    BY <1>0, <2>2 DEF MintOnPage, Poll, EnrollTypeOK
  <2>3. CASE \/ ServerRestarts \/ \E minted \in SUBSET page : SessionEnds(minted)
             \/ \E d \in Row : \/ Revoke(d) \/ RevokeStops(d) \/ Delete(d) \/ StopsShort(d)
                               \/ \E k \in FreshKeys : Rotate(d, k)
    BY <2>3 DEF ServerRestarts, SessionEnds, Revoke, RevokeStops, Delete, StopsShort, Rotate,
                pageVars, ticketVars
  <2> QED BY <1>1, <2>1, <2>2, <2>3 DEF OperatorStep
<1>2. CASE MachineStep
  <2>1. ASSUME NEW r \in Run, NEW d \in FreshRows,
               ExchangeLost(r, d) \/ \E k \in FreshKeys : ExchangePost(r, d, k)
        PROVE  /\ shown' = shown
               /\ \A t \in Page : /\ ticket[t] = "spent" => ticket'[t] = "spent"
                                  /\ ticket'[t] = "none" => ticket[t] = "none"
    <3>1. shown' = shown /\ Admits(r, d)
      BY <2>1 DEF ExchangeLost, ExchangePost, pageVars
    <3>2. ticket' = [ticket EXCEPT ![run[r].with] = "spent"]
      BY <3>1 DEF Admits
    <3> QED BY <1>0, <3>1, <3>2 DEF EnrollTypeOK
  <2>2. CASE \/ MachineSyncs \/ ForgetsKey \/ LoginElsewhere \/ LoginHere
             \/ \E r \in Run :
                  \/ \E t \in Ticket : \/ ExchangeBegins(r, t) \/ ExchangeDenied(r, t)
                                       \/ ExchangeForced(r, t) \/ ExchangeMisled(r, t)
                  \/ ExchangeRefuses(r) \/ ExchangeFails(r) \/ SavesKey(r)
                  \/ \E k \in Key, forced \in BOOLEAN : AdoptBegins(r, k, forced)
    BY <2>2 DEF MachineSyncs, ForgetsKey, LoginElsewhere, LoginHere, ExchangeBegins,
                ExchangeDenied, ExchangeForced, ExchangeMisled, ExchangeRefuses, ExchangeFails, SavesKey,
                AdoptBegins, pageVars, ticketVars, credential
  <2> QED BY <1>2, <2>1, <2>2 DEF MachineStep
<1>3. CASE UNCHANGED enrollVars
  BY <1>3 DEF enrollVars, pageVars, ticketVars
<1> QED BY <1>1, <1>2, <1>3, Steps

\* A poll moves a page forward, to what is true.
LEMMA PollTells ==
  ASSUME RunInv, PageInv, NEW t \in Page, Poll(t)
  PROVE  /\ shown' = [shown EXCEPT ![t] = Verdict(t)] /\ ticket' = ticket
         /\ Verdict(t) = "enrolled" => ticket[t] = "spent"
         /\ Verdict(t) # shown[t] =>
              /\ Progress[Verdict(t)] > Progress[shown[t]]
              /\ Verdict(t) = "complete" => \E d \in synced : bornOf[t] = d
              /\ Verdict(t) = "expired" => t \in lapsed
<1>1. shown[t] \in {"waiting", "enrolled"} /\ shown' = [shown EXCEPT ![t] = Verdict(t)]
      /\ ticket' = ticket
  BY DEF Poll, ticketVars
<1>2. /\ Progress["waiting"] = 1 /\ Progress["enrolled"] = 2
      /\ Progress["complete"] = 3 /\ Progress["expired"] = 3
  BY DEF Progress
<1>3. CASE t \in lapsed
  BY <1>1, <1>2, <1>3 DEF Verdict
<1>4. CASE t \notin lapsed /\ ticket[t] # "spent"
  BY <1>1, <1>2, <1>4 DEF Verdict, PageInv
<1>5. CASE t \notin lapsed /\ ticket[t] = "spent"
  BY <1>1, <1>2, <1>5 DEF Verdict
<1> QED BY <1>1, <1>3, <1>4, <1>5

LEMMA PageStep == RunInv /\ PageInv /\ [EnrollNext]_enrollVars => PageInv'
<1> SUFFICES ASSUME RunInv, PageInv, [EnrollNext]_enrollVars PROVE PageInv' OBVIOUS
<1>0. EnrollTypeOK /\ Page \subseteq Ticket
  BY PageAssumption DEF RunInv
<1>1. ASSUME NEW t \in Page, MintOnPage(t) PROVE PageInv'
  BY <1>0, <1>1 DEF MintOnPage, PageInv, EnrollTypeOK
<1>2. ASSUME NEW t \in Page, Poll(t) PROVE PageInv'
  <2>1. ticket[t] # "none"
    BY <1>2 DEF Poll, PageInv
  <2> QED BY <1>0, <1>2, <2>1, PollTells DEF PageInv, EnrollTypeOK
<1>3. CASE /\ shown' = shown
           /\ \A t \in Page : /\ ticket[t] = "spent" => ticket'[t] = "spent"
                              /\ ticket'[t] = "none" => ticket[t] = "none"
  <2> SUFFICES ASSUME NEW t \in Page
               PROVE  /\ ticket'[t] = "none" => shown'[t] = "nothing"
                      /\ shown'[t] = "enrolled" => ticket'[t] = "spent"
    BY DEF PageInv
  <2> QED BY <1>3 DEF PageInv
<1> QED BY <1>1, <1>2, <1>3, HowShown

\* A page moves forward only, and says of its machine only what is true of the one
\* that spent its ticket.
THEOREM PageTruthful == EnrollSpec => PageTellsItsTruth
<1> DEFINE Truth(t) == /\ Progress[shown'[t]] > Progress[shown[t]]
                       /\ shown'[t] = "enrolled" => ticket[t] = "spent"
                       /\ shown'[t] = "complete" => \E d \in synced : bornOf[t] = d
                       /\ shown'[t] = "expired" => t \in lapsed
           Told == \A t \in Page : shown'[t] # shown[t] => Truth(t)
<1>1. EnrollInit => PageInv
  BY PageAssumption DEF EnrollInit, PageInv
<1>2. RunInv /\ PageInv /\ [EnrollNext]_enrollVars => [Told]_enrollVars
  <2> SUFFICES ASSUME RunInv, PageInv, [EnrollNext]_enrollVars,
                      NEW t \in Page, shown'[t] # shown[t]
               PROVE  Truth(t)
    OBVIOUS
  <2>0. shown \in [Page -> {"nothing", "waiting", "enrolled", "complete", "expired"}]
    BY DEF RunInv, EnrollTypeOK
  <2>1. PICK x \in Page : MintOnPage(x) \/ Poll(x)
    BY HowShown
  <2>2. CASE MintOnPage(x)
    <3>1. x = t /\ shown'[t] = "waiting" /\ shown[t] = "nothing"
      BY <2>0, <2>2 DEF MintOnPage, PageInv
    <3>2. Progress["waiting"] = 1 /\ Progress["nothing"] = 0
      BY DEF Progress
    <3> QED BY <3>1, <3>2
  <2>3. CASE Poll(x)
    <3>1. x = t /\ shown'[t] = Verdict(t)
      BY <2>0, <2>3, PollTells
    <3> QED BY <2>3, <3>1, PollTells
  <2> QED BY <2>1, <2>2, <2>3
<1> QED BY <1>1, <1>2, RunInvHolds, PageStep, PTL DEF EnrollSpec, PageTellsItsTruth

-----------------------------------------------------------------------------
(* Tickets. *)

\* Only a ticket that was issued lapses, and a ticket that admitted a device is
\* spent, and its device's row is taken for good.
TicketInv ==
  \A t \in Ticket :
    /\ t \in lapsed => ticket[t] # "none"
    /\ bornOf[t] # Nobody => ticket[t] = "spent" /\ row[bornOf[t]] # "unborn"

\* A step of enrollment is, to the tickets, a step of OneTimeEnrollment or nothing.
LEMMA TicketStep ==
  ASSUME EnrollTypeOK, TicketInv, [EnrollNext]_enrollVars
  PROVE  TicketInv' /\ [OneTime!Next]_(OneTime!ticketVars)
<1> DEFINE State(t) == IF ticket[t] = "none" THEN "unissued"
                       ELSE IF ticket[t] = "spent" THEN "spent"
                       ELSE IF t \in lapsed THEN "lapsed" ELSE "open"
           state == [t \in Ticket |-> State(t)]
           admits == {p \in Ticket \X Row : bornOf[p[1]] = p[2]}
           Goal == TicketInv' /\ [OneTime!Next]_(OneTime!ticketVars)
<1> USE DEF EnrollTypeOK, TicketInv
<1>0. ASSUME state' = state, admits' = admits PROVE [OneTime!Next]_(OneTime!ticketVars)
  BY <1>0 DEF OneTime!ticketVars
<1>1. ASSUME UNCHANGED ticketVars, \A d \in Row : row[d] # "unborn" => row'[d] # "unborn"
      PROVE  Goal
  <2>1. TicketInv'
    BY <1>1 DEF ticketVars
  <2>2. state' = state /\ admits' = admits
    BY <1>1 DEF ticketVars
  <2> QED BY <1>0, <2>1, <2>2
<1>2. ASSUME NEW t \in Ticket, MintOnPage(t) \/ MintByApi(t) PROVE Goal
  <2>1. /\ ticket[t] = "none" /\ ticket' = [ticket EXCEPT ![t] = "open"]
        /\ lapsed' = lapsed /\ bornOf' = bornOf /\ row' = row
    BY <1>2 DEF MintOnPage, MintByApi
  <2>2. TicketInv'
    BY <2>1
  <2>3. state[t] = "unissued" /\ state' = [state EXCEPT ![t] = "open"] /\ admits' = admits
    BY <2>1
  <2> QED BY <2>2, <2>3 DEF OneTime!Next, OneTime!Issue
<1>3. ASSUME NEW t \in Ticket, Lapse(t) PROVE Goal
  <2>1. /\ ticket[t] # "none" /\ lapsed' = lapsed \cup {t}
        /\ ticket' = ticket /\ bornOf' = bornOf /\ row' = row
    BY <1>3 DEF Lapse
  <2>2. TicketInv'
    BY <2>1
  <2> DEFINE T == {u \in {t} : state[u] = "open"}
  <2>3. /\ T \in SUBSET Ticket /\ \A u \in T : state[u] = "open"
        /\ state' = [u \in Ticket |-> IF u \in T THEN "lapsed" ELSE state[u]]
        /\ admits' = admits
    BY <2>1
  <2> QED BY <2>2, <2>3 DEF OneTime!Next, OneTime!Lapse
<1>4. ASSUME NEW r \in Run, NEW d \in FreshRows, Admits(r, d), lapsed' = lapsed PROVE Goal
  <2> DEFINE t == run[r].with
  <2>1. /\ t \in Ticket /\ d \in Row /\ row[d] = "unborn"
        /\ ticket[t] = "open" /\ t \notin lapsed
        /\ ticket' = [ticket EXCEPT ![t] = "spent"]
        /\ bornOf' = [bornOf EXCEPT ![t] = d] /\ row' = [row EXCEPT ![d] = "trusted"]
    BY <1>4, FreshRow DEF Admits
  <2> HIDE DEF t
  <2>2. TicketInv'
    BY <1>4, <2>1
  <2>3. bornOf[t] = Nobody /\ d # Nobody /\ \A u \in Ticket : bornOf[u] # d
    BY <2>1, NobodyAssumption
  <2>4. state[t] = "open" /\ state' = [state EXCEPT ![t] = "spent"]
    BY <1>4, <2>1
  <2>5. admits' = admits \cup {<<t, d>>}
    BY <2>1, <2>3, NobodyAssumption
  <2>6. d \notin OneTime!Admitted
    BY <2>3 DEF OneTime!Admitted
  <2>7. OneTime!Redeem(t, d)
    BY <2>4, <2>5, <2>6 DEF OneTime!Redeem
  <2> QED BY <2>1, <2>2, <2>7 DEF OneTime!Next
<1>5. CASE OperatorStep
  <2>1. ASSUME NEW t \in Ticket, Poll(t) PROVE Goal
    BY <1>1, <2>1 DEF Poll
  <2>2. CASE ServerRestarts \/ \E minted \in SUBSET page : SessionEnds(minted)
    BY <1>1, <2>2 DEF ServerRestarts, SessionEnds
  <2>3. ASSUME NEW d \in Row, \/ Revoke(d) \/ RevokeStops(d) \/ Delete(d) \/ StopsShort(d)
                              \/ \E k \in FreshKeys : Rotate(d, k)
        PROVE  Goal
    BY <1>1, <2>3 DEF Revoke, RevokeStops, Delete, StopsShort, Rotate
  <2> QED BY <1>2, <1>3, <1>5, <2>1, <2>2, <2>3 DEF OperatorStep
<1>6. CASE MachineStep
  <2>1. CASE MachineSyncs \/ ForgetsKey \/ LoginElsewhere \/ LoginHere
    BY <1>1, <2>1 DEF MachineSyncs, ForgetsKey, LoginElsewhere, LoginHere
  <2>2. ASSUME NEW r \in Run,
               \/ \E t \in Ticket : \/ ExchangeBegins(r, t) \/ ExchangeDenied(r, t)
                                    \/ ExchangeForced(r, t) \/ ExchangeMisled(r, t)
               \/ ExchangeRefuses(r) \/ ExchangeFails(r) \/ SavesKey(r)
               \/ \E k \in Key, forced \in BOOLEAN : AdoptBegins(r, k, forced)
        PROVE  Goal
    BY <1>1, <2>2 DEF ExchangeBegins, ExchangeDenied, ExchangeForced, ExchangeMisled, ExchangeRefuses,
                      ExchangeFails, SavesKey, AdoptBegins
  <2>3. ASSUME NEW r \in Run, NEW d \in FreshRows,
               ExchangeLost(r, d) \/ \E k \in FreshKeys : ExchangePost(r, d, k)
        PROVE  Goal
    BY <1>4, <2>3 DEF ExchangeLost, ExchangePost
  <2> QED BY <1>6, <2>1, <2>2, <2>3 DEF MachineStep
<1>7. CASE UNCHANGED enrollVars
  BY <1>1, <1>7 DEF enrollVars
<1> QED BY <1>5, <1>6, <1>7, Steps

\* Enrollment implements OneTimeEnrollment: however many machines and commands try
\* a ticket, and whatever is lost, it admits one device, once, before it lapses.
THEOREM TicketsRefined == EnrollSpec => TicketsAdmitOnce
<1>1. EnrollInit => TicketInv /\ OneTime!Init
  <2> SUFFICES ASSUME EnrollInit PROVE TicketInv /\ OneTime!Init OBVIOUS
  <2>1. TicketInv
    BY DEF EnrollInit, TicketInv
  <2>2. {p \in Ticket \X Row : bornOf[p[1]] = p[2]} = {}
    BY NobodyAssumption DEF EnrollInit
  <2>3. OneTime!Init
    BY <2>2 DEF EnrollInit, OneTime!Init
  <2> QED BY <2>1, <2>3
<1>2. EnrollTypeOK /\ TicketInv /\ [EnrollNext]_enrollVars
        => TicketInv' /\ [OneTime!Next]_(OneTime!ticketVars)
  BY TicketStep
<1> QED BY <1>1, <1>2, EnrollTypeCorrect, PTL DEF EnrollSpec, TicketsAdmitOnce, OneTime!Spec

\* What the abstract specification comes to, of any states and admissions.
PairsOff(S, A) ==
  /\ \A t \in Ticket : S[t] = "spent" <=> \E d \in Row : <<t, d>> \in A
  /\ \A t, u \in Ticket, d, e \in Row : <<t, d>> \in A /\ <<u, e>> \in A => (t = u <=> d = e)

\* Its one step that admits leaves tickets and devices paired off.
LEMMA RedeemedPairsOff ==
  ASSUME NEW S, DOMAIN S = Ticket, NEW A, PairsOff(S, A),
         NEW w \in Ticket, S[w] = "open",
         NEW n \in Row, \A t \in Ticket : <<t, n>> \notin A
  PROVE  PairsOff([S EXCEPT ![w] = "spent"], A \cup {<<w, n>>})
<1>1. \A d \in Row : <<w, d>> \notin A
  BY DEF PairsOff
<1>2. \A t \in Ticket, d \in Row : <<t, d>> \in A \cup {<<w, n>>} <=> <<t, d>> \in A \/ (t = w /\ d = n)
  OBVIOUS
<1>3. \A t \in Ticket : [S EXCEPT ![w] = "spent"][t] = IF t = w THEN "spent" ELSE S[t]
  BY Zenon
<1> QED BY <1>1, <1>2, <1>3 DEF PairsOff

\* The others change no ticket into a spent one or back.
LEMMA StillPairsOff ==
  ASSUME NEW S, NEW A, PairsOff(S, A), NEW S2,
         \A t \in Ticket : S2[t] = "spent" <=> S[t] = "spent"
  PROVE  PairsOff(S2, A)
BY DEF PairsOff

\* Every spent ticket stands for one device, and every device that was enrolled for
\* one ticket, at all times.
THEOREM TicketsPairedOff == EnrollSpec => []OneTime!PairedOff
<1> DEFINE S == [t \in Ticket |->
                   IF ticket[t] = "none" THEN "unissued"
                   ELSE IF ticket[t] = "spent" THEN "spent"
                   ELSE IF t \in lapsed THEN "lapsed" ELSE "open"]
           A == {p \in Ticket \X Row : bornOf[p[1]] = p[2]}
<1>1. OneTime!PairedOff <=> PairsOff(S, A)
  BY DEF OneTime!PairedOff, PairsOff
<1>2. OneTime!Init => PairsOff(S, A)
  BY DEF OneTime!Init, PairsOff
<1>3. PairsOff(S, A) /\ [OneTime!Next]_(OneTime!ticketVars) => PairsOff(S', A')
  <2> SUFFICES ASSUME PairsOff(S, A), [OneTime!Next]_(OneTime!ticketVars)
               PROVE  PairsOff(S', A')
    OBVIOUS
  <2>1. DOMAIN S = Ticket
    OBVIOUS
  <2>2. ASSUME NEW t \in Ticket, OneTime!Issue(t) PROVE PairsOff(S', A')
    <3>1. S[t] = "unissued" /\ S' = [S EXCEPT ![t] = "open"] /\ A' = A
      BY <2>2 DEF OneTime!Issue
    <3> HIDE DEF S, A
    <3>2. \A u \in Ticket : S'[u] = "spent" <=> S[u] = "spent"
      BY <2>1, <3>1
    <3> QED BY <3>1, <3>2, StillPairsOff
  <2>3. ASSUME NEW t \in Ticket, NEW d \in Row, OneTime!Redeem(t, d) PROVE PairsOff(S', A')
    <3>1. /\ S[t] = "open" /\ S' = [S EXCEPT ![t] = "spent"] /\ A' = A \cup {<<t, d>>}
          /\ \A u \in Ticket : <<u, d>> \notin A
      BY <2>3 DEF OneTime!Redeem, OneTime!Admitted
    <3> HIDE DEF S, A
    <3> QED BY <2>1, <3>1, RedeemedPairsOff
  <2>4. ASSUME NEW T \in SUBSET Ticket, OneTime!Lapse(T) PROVE PairsOff(S', A')
    <3>1. /\ \A t \in T : S[t] = "open"
          /\ S' = [t \in Ticket |-> IF t \in T THEN "lapsed" ELSE S[t]] /\ A' = A
      BY <2>4 DEF OneTime!Lapse
    <3> HIDE DEF S, A
    <3>2. \A t \in Ticket : S'[t] = "spent" <=> S[t] = "spent"
      BY <3>1
    <3> QED BY <3>1, <3>2, StillPairsOff
  <2>5. CASE S' = S /\ A' = A
    <3> HIDE DEF S, A
    <3> QED BY <2>5
  <2>6. [OneTime!Next]_(OneTime!ticketVars) =>
          \/ \E t \in Ticket : OneTime!Issue(t)
          \/ \E t \in Ticket, d \in Row : OneTime!Redeem(t, d)
          \/ \E T \in SUBSET Ticket : OneTime!Lapse(T)
          \/ S' = S /\ A' = A
    BY DEF OneTime!Next, OneTime!ticketVars
  <2> QED BY <2>2, <2>3, <2>4, <2>5, <2>6
<1>4. PairsOff(S, A)' <=> PairsOff(S', A')
  BY DEF PairsOff
<1> HIDE DEF S, A
<1>5. PairsOff(S, A) /\ [OneTime!Next]_(OneTime!ticketVars) => PairsOff(S, A)'
  BY <1>3, <1>4
<1> QED BY <1>1, <1>2, <1>5, TicketsRefined, PTL DEF TicketsAdmitOnce, OneTime!Spec

=============================================================================
