-------------------------- MODULE AliasDelivery_proofs --------------------------
(***************************************************************************)
(* Theorems about AliasDelivery, for any aliases, groups, devices, number  *)
(* of syncs and edits in flight and limit.                                 *)
(***************************************************************************)
EXTENDS AliasDelivery, TLAPS

-----------------------------------------------------------------------------
(* Referential integrity. *)

\* The types the rows and the join tables have.
RowType ==
  /\ alias \in [Alias -> {"none", "on", "off", "deleted"}]
  /\ profile \in [Profile -> {"none", "row", "deleted"}]
  /\ device \in [Device -> {"none", "row", "deleted"}]

IntegrityInv == RowType /\ NothingDangles

\* Operators' writes keep both: every row written names rows that are there, and
\* every row deleted takes what names it along.
LEMMA OperatorIntegrity == ASSUME IntegrityInv, Operator PROVE IntegrityInv'
<1> USE DEF IntegrityInv, RowType, NothingDangles, AliasRows, ProfileRows, DeviceRows
<1>1. ASSUME NEW a \in Alias, NEW on \in {"on", "off"}, NEW P \in SUBSET Profile,
             NEW D \in SUBSET Device, CreateAlias(a, on, P, D) \/ UpdateAlias(a, on, P, D)
      PROVE  IntegrityInv'
  BY <1>1 DEF CreateAlias, UpdateAlias, SetTargeting
<1>2. ASSUME NEW a \in Alias, DeleteAlias(a) PROVE IntegrityInv'
  BY <1>2 DEF DeleteAlias
<1>3. ASSUME NEW p \in Profile, CreateProfile(p) PROVE IntegrityInv'
  BY <1>3 DEF CreateProfile, joins
<1>4. ASSUME NEW p \in Profile, DeleteProfile(p) PROVE IntegrityInv'
  BY <1>4 DEF DeleteProfile
<1>5. ASSUME NEW d \in Device, NEW P \in SUBSET Profile, EnrollDevice(d, P) PROVE IntegrityInv'
  BY <1>5 DEF EnrollDevice
<1>6. ASSUME NEW d \in Device, NEW P \in SUBSET Profile, UpdateDevice(d, P) PROVE IntegrityInv'
  BY <1>6 DEF UpdateDevice, rows
<1>7. ASSUME NEW d \in Device, DeleteDevice(d) PROVE IntegrityInv'
  BY <1>7 DEF DeleteDevice
<1> QED
  BY <1>1, <1>2, <1>3, <1>4, <1>5, <1>6, <1>7 DEF Operator

\* The steps of a handler that write no alias.
Reads(r) ==
  \/ \E d \in Device : SyncDevice(r, d)
  \/ SyncProfiles(r) \/ SyncList(r)
  \/ \E a \in Alias : SyncAliasProfiles(r, a)
  \/ SyncAliasPins(r)
  \/ \E a \in Alias : EditGet(r, a)
  \/ EditPins(r)
  \/ Return(r)

LEMMA ReadsRead == ASSUME NEW r \in Request, Reads(r) PROVE UNCHANGED <<rows, joins, synced>>
BY DEF Reads, SyncDevice, SyncProfiles, SyncList, SyncAliasProfiles, SyncAliasPins, EditGet,
   EditPins, Return

\* A handler that writes, a sync's touch or the edit form, keeps them too.
LEMMA HandlerIntegrity == ASSUME IntegrityInv, NEW r \in Request, Handler(r) PROVE IntegrityInv'
<1> USE DEF IntegrityInv, RowType, NothingDangles, AliasRows, ProfileRows, DeviceRows
<1>1. CASE Reads(r)
  BY <1>1, ReadsRead DEF rows, joins
<1>2. CASE SyncTouch(r)
  BY <1>2 DEF SyncTouch, rows, joins
<1>3. ASSUME NEW P \in SUBSET Profile, EditWrite(r, P) PROVE IntegrityInv'
  BY <1>3 DEF EditWrite, SetTargeting
<1> QED
  BY <1>1, <1>2, <1>3 DEF Handler, Reads

\* IntegrityInv holds throughout.
LEMMA IntegrityInvariant == Spec => []IntegrityInv
<1>1. Init => IntegrityInv
  BY DEF Init, IntegrityInv, RowType, NothingDangles
<1>2. IntegrityInv /\ [Next]_vars => IntegrityInv'
  <2>1. ASSUME IntegrityInv, UNCHANGED vars PROVE IntegrityInv'
    BY <2>1 DEF IntegrityInv, RowType, NothingDangles, AliasRows, ProfileRows, DeviceRows,
       vars, rows, joins
  <2> QED
    BY <2>1, OperatorIntegrity, HandlerIntegrity DEF Next
<1> QED
  BY <1>1, <1>2, PTL DEF Spec

\* No join row and no last_sync_at outlives what it refers to, whatever is
\* deleted while whatever is edited or synced.
THEOREM Integrity == Spec => []NothingDangles
<1>1. IntegrityInv => NothingDangles
  BY DEF IntegrityInv
<1> QED
  BY <1>1, IntegrityInvariant, PTL

-----------------------------------------------------------------------------
(* Deletions. *)

\* Deleting a group opens an alias to a device only by taking the last group the
\* alias was aimed at.
LEMMA GroupDeletion ==
  ASSUME RowType, NEW p \in Profile, DeleteProfile(p), NEW a \in Alias, NEW d \in Device,
         AppliesTo(a, d)', ~AppliesTo(a, d)
  PROVE  /\ GroupsOf(a) \cap ProfileRows' = {}
         /\ TargetsDevice(PinsOf(a), d)
<1>1. /\ alias' = alias /\ PinsOf(a)' = PinsOf(a)
      /\ GroupsOf(a)' = GroupsOf(a) \ {p} /\ Membership(d)' = Membership(d) \ {p}
      /\ p \notin ProfileRows'
  BY DEF RowType, DeleteProfile, PinsOf, GroupsOf, Membership, ProfileRows
<1>2. TargetsDevice(PinsOf(a), d) /\ ~TargetsProfiles(GroupsOf(a), Membership(d))
  BY <1>1 DEF AppliesTo
<1>3. GroupsOf(a) \ {p} = {}
  BY <1>1, <1>2 DEF AppliesTo, TargetsProfiles
<1> QED
  BY <1>1, <1>2, <1>3

\* Deleting a device opens one only by taking the last pin.
LEMMA DeviceDeletion ==
  ASSUME RowType, NEW e \in Device, DeleteDevice(e), NEW a \in Alias, NEW d \in Device,
         AppliesTo(a, d)', ~AppliesTo(a, d)
  PROVE  /\ TargetsProfiles(GroupsOf(a), Membership(d))
         /\ TargetsDevice(PinsOf(a), d) \/ PinsOf(a) \cap DeviceRows' = {}
<1>1. /\ alias' = alias /\ GroupsOf(a)' = GroupsOf(a)
      /\ PinsOf(a)' = PinsOf(a) \ {e} /\ Membership(d)' \subseteq Membership(d)
      /\ e \notin DeviceRows'
  BY DEF RowType, DeleteDevice, PinsOf, GroupsOf, Membership, DeviceRows
<1>2. TargetsProfiles(GroupsOf(a), Membership(d))
  BY <1>1 DEF AppliesTo, TargetsProfiles
<1>3. d \in PinsOf(a) \/ PinsOf(a) \ {e} = {}
  BY <1>1 DEF AppliesTo, TargetsDevice
<1> QED
  BY <1>1, <1>2, <1>3 DEF TargetsDevice

\* No other step takes a group or a device away.
LEMMA NothingElseDeletes ==
  ASSUME Next,
         ProfileRows' \subseteq ProfileRows, DeviceRows' \subseteq DeviceRows,
         <<ProfileRows, DeviceRows>> # <<ProfileRows, DeviceRows>>', RowType
  PROVE  (\E p \in Profile : DeleteProfile(p)) \/ (\E d \in Device : DeleteDevice(d))
<1> USE DEF ProfileRows, DeviceRows
<1>1. ASSUME NEW a \in Alias, NEW on \in {"on", "off"}, NEW P \in SUBSET Profile,
             NEW D \in SUBSET Device, CreateAlias(a, on, P, D) \/ UpdateAlias(a, on, P, D)
      PROVE  FALSE
  BY <1>1 DEF CreateAlias, UpdateAlias
<1>2. ASSUME NEW a \in Alias, DeleteAlias(a) PROVE FALSE
  BY <1>2 DEF DeleteAlias
<1>3. ASSUME NEW p \in Profile, CreateProfile(p) PROVE FALSE
  <2>1. p \in ProfileRows' /\ p \notin ProfileRows
    BY <1>3 DEF CreateProfile, RowType
  <2> QED
    BY <2>1
<1>4. ASSUME NEW d \in Device, NEW P \in SUBSET Profile, EnrollDevice(d, P) PROVE FALSE
  <2>1. d \in DeviceRows' /\ d \notin DeviceRows
    BY <1>4 DEF EnrollDevice, RowType
  <2> QED
    BY <2>1
<1>5. ASSUME NEW d \in Device, NEW P \in SUBSET Profile, UpdateDevice(d, P) PROVE FALSE
  BY <1>5 DEF UpdateDevice, rows
<1>6. ASSUME NEW r \in Request, Handler(r) PROVE FALSE
  <2>1. UNCHANGED <<profile, device>>
    <3>1. CASE Reads(r)
      BY <3>1, ReadsRead DEF rows
    <3>2. CASE SyncTouch(r) \/ \E P \in SUBSET Profile : EditWrite(r, P)
      BY <3>2 DEF SyncTouch, EditWrite, rows
    <3> QED
      BY <1>6, <3>1, <3>2 DEF Handler, Reads
  <2> QED
    BY <2>1
<1> QED
  BY <1>1, <1>2, <1>3, <1>4, <1>5, <1>6 DEF Next, Operator

\* A deletion gives an alias to no new device but through a list of targets that
\* lost its last one (domain/alias.go: an empty list targets everything).
THEOREM DeletionsNarrow == Spec => DeletionNarrowsUnlessLastTarget
<1> DEFINE Narrows ==
  \A a \in Alias, d \in Device :
       /\ ProfileRows' \subseteq ProfileRows /\ DeviceRows' \subseteq DeviceRows
       /\ <<ProfileRows, DeviceRows>> # <<ProfileRows, DeviceRows>>'
       /\ AppliesTo(a, d)' /\ ~AppliesTo(a, d)
       => /\ \/ TargetsProfiles(GroupsOf(a), Membership(d))
             \/ GroupsOf(a) \cap ProfileRows' = {}
          /\ \/ TargetsDevice(PinsOf(a), d)
             \/ PinsOf(a) \cap DeviceRows' = {}
<1>1. ASSUME IntegrityInv, Next PROVE Narrows
  BY <1>1, GroupDeletion, DeviceDeletion, NothingElseDeletes DEF IntegrityInv
<1>2. IntegrityInv /\ [Next]_vars => [Narrows]_vars
  BY <1>1
<1> QED
  BY <1>2, IntegrityInvariant, PTL DEF Spec, DeletionNarrowsUnlessLastTarget

-----------------------------------------------------------------------------
(* Typing. *)

\* What a handler's locals may be.
Local == [pc : PC, dev : Device \cup {None}, groups : SUBSET Profile,
          left : SUBSET Alias, cur : Alias \cup {None}, curOn : BOOLEAN,
          curGroups : SUBSET Profile, curPins : SUBSET Device, served : SUBSET Alias]

\* An alias is at hand wherever a step needs one.
AtHand(r) == req[r].pc \in {"sync.pins", "edit.pins", "edit.write"} => req[r].cur \in Alias

LocalType == req \in [Request -> Local]
HandlerType == LocalType /\ \A r \in Request : AtHand(r)

HistoryType ==
  touched \in [Request -> SUBSET Alias] /\ deserved \in [Request -> SUBSET Alias]

LEMMA IdleType == Idle \in Local
BY DEF Idle, Local, PC

\* Operators' writes leave the handlers alone.
LEMMA OperatorLeavesHandlers == ASSUME Operator PROVE UNCHANGED req
BY DEF Operator, CreateAlias, UpdateAlias, DeleteAlias, CreateProfile, DeleteProfile,
   EnrollDevice, UpdateDevice, DeleteDevice

\* A step of r leaves the locals of others alone and its own in order.
StepOf(r) == LocalType' /\ \A s \in Request \ {r} : req'[s] = req[s]

LEMMA OwnStep ==
  ASSUME LocalType, NEW r \in Request, NEW l \in Local, req' = [req EXCEPT ![r] = l]
  PROVE  StepOf(r) /\ req'[r] = l
BY DEF LocalType, StepOf

(* What each step of a handler does to its locals. *)

LEMMA SyncDeviceLocals ==
  ASSUME HandlerType, NEW r \in Request, NEW d \in Device, SyncDevice(r, d)
  PROVE  /\ StepOf(r)
         /\ req'[r].pc = "sync.profiles" /\ req'[r].dev = d
         /\ req'[r].groups = req[r].groups /\ req'[r].left = req[r].left /\ req'[r].cur = req[r].cur
         /\ req'[r].curOn = req[r].curOn /\ req'[r].curGroups = req[r].curGroups /\ req'[r].curPins = req[r].curPins
         /\ req'[r].served = req[r].served
<1> DEFINE l == [req[r] EXCEPT !.pc = "sync.profiles", !.dev = d]
<1>1. req[r] \in Local
  BY DEF HandlerType, LocalType
<1>2. l \in Local
  BY <1>1 DEF HandlerType, AtHand, Local, PC
<1>3. req' = [req EXCEPT ![r] = l]
  BY <1>1 DEF SyncDevice, HandlerType, LocalType, Local
<1>4. /\ l.pc = "sync.profiles"
      /\ l.dev = d
      /\ l.groups = req[r].groups /\ l.left = req[r].left /\ l.cur = req[r].cur /\ l.curOn = req[r].curOn /\ l.curGroups = req[r].curGroups /\ l.curPins = req[r].curPins /\ l.served = req[r].served
  BY <1>1 DEF Local
<1>5. StepOf(r) /\ req'[r] = l
  BY <1>2, <1>3, OwnStep DEF HandlerType
<1> HIDE DEF l
<1> QED
  BY <1>4, <1>5

LEMMA SyncProfilesLocals ==
  ASSUME HandlerType, NEW r \in Request, SyncProfiles(r)
  PROVE  /\ StepOf(r)
         /\ req'[r].pc = "sync.list" /\ req'[r].groups = Membership(req[r].dev)
         /\ req'[r].dev = req[r].dev /\ req'[r].left = req[r].left /\ req'[r].cur = req[r].cur
         /\ req'[r].curOn = req[r].curOn /\ req'[r].curGroups = req[r].curGroups /\ req'[r].curPins = req[r].curPins
         /\ req'[r].served = req[r].served
<1> DEFINE l == [req[r] EXCEPT !.pc = "sync.list", !.groups = Membership(req[r].dev)]
<1>1. req[r] \in Local
  BY DEF HandlerType, LocalType
<1>2. l \in Local
  BY <1>1 DEF HandlerType, AtHand, Local, PC, Membership
<1>3. req' = [req EXCEPT ![r] = l]
  BY <1>1 DEF SyncProfiles, HandlerType, LocalType, Local
<1>4. /\ l.pc = "sync.list"
      /\ l.groups = Membership(req[r].dev)
      /\ l.dev = req[r].dev /\ l.left = req[r].left /\ l.cur = req[r].cur /\ l.curOn = req[r].curOn /\ l.curGroups = req[r].curGroups /\ l.curPins = req[r].curPins /\ l.served = req[r].served
  BY <1>1 DEF Local
<1>5. StepOf(r) /\ req'[r] = l
  BY <1>2, <1>3, OwnStep DEF HandlerType
<1> HIDE DEF l
<1> QED
  BY <1>4, <1>5

LEMMA SyncListLocals ==
  ASSUME HandlerType, NEW r \in Request, SyncList(r)
  PROVE  /\ StepOf(r)
         /\ req'[r].pc = "sync.alias" /\ req'[r].left = {a \in Alias : alias[a] = "on"}
         /\ req'[r].dev = req[r].dev /\ req'[r].groups = req[r].groups /\ req'[r].cur = req[r].cur
         /\ req'[r].curOn = req[r].curOn /\ req'[r].curGroups = req[r].curGroups /\ req'[r].curPins = req[r].curPins
         /\ req'[r].served = req[r].served
<1> DEFINE l == [req[r] EXCEPT !.pc = "sync.alias", !.left = {a \in Alias : alias[a] = "on"}]
<1>1. req[r] \in Local
  BY DEF HandlerType, LocalType
<1>2. l \in Local
  BY <1>1 DEF HandlerType, AtHand, Local, PC
<1>3. req' = [req EXCEPT ![r] = l]
  BY <1>1 DEF SyncList, HandlerType, LocalType, Local
<1>4. /\ l.pc = "sync.alias"
      /\ l.left = {a \in Alias : alias[a] = "on"}
      /\ l.dev = req[r].dev /\ l.groups = req[r].groups /\ l.cur = req[r].cur /\ l.curOn = req[r].curOn /\ l.curGroups = req[r].curGroups /\ l.curPins = req[r].curPins /\ l.served = req[r].served
  BY <1>1 DEF Local
<1>5. StepOf(r) /\ req'[r] = l
  BY <1>2, <1>3, OwnStep DEF HandlerType
<1> HIDE DEF l
<1> QED
  BY <1>4, <1>5

LEMMA SyncAliasProfilesLocals ==
  ASSUME HandlerType, NEW r \in Request, NEW a \in Alias, SyncAliasProfiles(r, a)
  PROVE  /\ StepOf(r)
         /\ req'[r].pc = "sync.pins" /\ req'[r].left = req[r].left \ {a}
         /\ req'[r].cur = a
         /\ req'[r].curGroups = GroupsOf(a)
         /\ req'[r].dev = req[r].dev /\ req'[r].groups = req[r].groups /\ req'[r].curOn = req[r].curOn
         /\ req'[r].curPins = req[r].curPins /\ req'[r].served = req[r].served
<1> DEFINE l == [req[r] EXCEPT !.pc = "sync.pins", !.left = req[r].left \ {a}, !.cur = a, !.curGroups = GroupsOf(a)]
<1>1. req[r] \in Local
  BY DEF HandlerType, LocalType
<1>2. l \in Local
  BY <1>1 DEF HandlerType, AtHand, Local, PC, GroupsOf
<1>3. req' = [req EXCEPT ![r] = l]
  BY <1>1 DEF SyncAliasProfiles, HandlerType, LocalType, Local
<1>4. /\ l.pc = "sync.pins"
      /\ l.left = req[r].left \ {a}
      /\ l.cur = a
      /\ l.curGroups = GroupsOf(a)
      /\ l.dev = req[r].dev /\ l.groups = req[r].groups /\ l.curOn = req[r].curOn /\ l.curPins = req[r].curPins /\ l.served = req[r].served
  BY <1>1 DEF Local
<1>5. StepOf(r) /\ req'[r] = l
  BY <1>2, <1>3, OwnStep DEF HandlerType
<1> HIDE DEF l
<1> QED
  BY <1>4, <1>5

\* What a sync has served once it has decided on the alias at hand.
Decided(r) ==
  IF /\ TargetsProfiles(req[r].curGroups, req[r].groups)
     /\ TargetsDevice(PinsOf(req[r].cur), req[r].dev)
  THEN req[r].served \cup {req[r].cur}
  ELSE req[r].served

LEMMA SyncAliasPinsLocals ==
  ASSUME HandlerType, NEW r \in Request, SyncAliasPins(r)
  PROVE  /\ StepOf(r)
         /\ req'[r].pc = "sync.alias" /\ req'[r].cur = None
         /\ req'[r].curGroups = {}
         /\ req'[r].served = Decided(r)
         /\ req'[r].dev = req[r].dev /\ req'[r].groups = req[r].groups /\ req'[r].left = req[r].left
         /\ req'[r].curOn = req[r].curOn /\ req'[r].curPins = req[r].curPins
<1> DEFINE l == [req[r] EXCEPT !.pc = "sync.alias", !.cur = None, !.curGroups = {}, !.served = Decided(r)]
<1>1. req[r] \in Local
  BY DEF HandlerType, LocalType
<1>2. l \in Local
  BY <1>1 DEF HandlerType, AtHand, Local, PC, SyncAliasPins, Decided
<1>3. req' = [req EXCEPT ![r] = l]
  BY <1>1 DEF SyncAliasPins, Decided, HandlerType, LocalType, Local
<1>4. /\ l.pc = "sync.alias"
      /\ l.cur = None
      /\ l.curGroups = {}
      /\ l.served = Decided(r)
      /\ l.dev = req[r].dev /\ l.groups = req[r].groups /\ l.left = req[r].left /\ l.curOn = req[r].curOn /\ l.curPins = req[r].curPins
  BY <1>1 DEF Local
<1>5. StepOf(r) /\ req'[r] = l
  BY <1>2, <1>3, OwnStep DEF HandlerType
<1> HIDE DEF l
<1> QED
  BY <1>4, <1>5

LEMMA SyncTouchLocals ==
  ASSUME HandlerType, NEW r \in Request, SyncTouch(r)
  PROVE  /\ StepOf(r)
         /\ req'[r].pc = "sync.answer"
         /\ req'[r].dev = req[r].dev /\ req'[r].groups = req[r].groups /\ req'[r].left = req[r].left
         /\ req'[r].cur = req[r].cur /\ req'[r].curOn = req[r].curOn /\ req'[r].curGroups = req[r].curGroups
         /\ req'[r].curPins = req[r].curPins /\ req'[r].served = req[r].served
<1> DEFINE l == [req[r] EXCEPT !.pc = "sync.answer"]
<1>1. req[r] \in Local
  BY DEF HandlerType, LocalType
<1>2. l \in Local
  BY <1>1 DEF HandlerType, AtHand, Local, PC
<1>3. req' = [req EXCEPT ![r] = l]
  BY <1>1 DEF SyncTouch, HandlerType, LocalType, Local
<1>4. /\ l.pc = "sync.answer"
      /\ l.dev = req[r].dev /\ l.groups = req[r].groups /\ l.left = req[r].left /\ l.cur = req[r].cur /\ l.curOn = req[r].curOn /\ l.curGroups = req[r].curGroups /\ l.curPins = req[r].curPins /\ l.served = req[r].served
  BY <1>1 DEF Local
<1>5. StepOf(r) /\ req'[r] = l
  BY <1>2, <1>3, OwnStep DEF HandlerType
<1> HIDE DEF l
<1> QED
  BY <1>4, <1>5

LEMMA EditGetLocals ==
  ASSUME HandlerType, NEW r \in Request, NEW a \in Alias, EditGet(r, a)
  PROVE  /\ StepOf(r)
         /\ req'[r].pc = "edit.pins" /\ req'[r].cur = a
         /\ req'[r].curOn = (alias[a] = "on")
         /\ req'[r].dev = req[r].dev /\ req'[r].groups = req[r].groups /\ req'[r].left = req[r].left
         /\ req'[r].curGroups = req[r].curGroups /\ req'[r].curPins = req[r].curPins /\ req'[r].served = req[r].served
<1> DEFINE l == [req[r] EXCEPT !.pc = "edit.pins", !.cur = a, !.curOn = (alias[a] = "on")]
<1>1. req[r] \in Local
  BY DEF HandlerType, LocalType
<1>2. l \in Local
  BY <1>1 DEF HandlerType, AtHand, Local, PC
<1>3. req' = [req EXCEPT ![r] = l]
  BY <1>1 DEF EditGet, HandlerType, LocalType, Local
<1>4. /\ l.pc = "edit.pins"
      /\ l.cur = a
      /\ l.curOn = (alias[a] = "on")
      /\ l.dev = req[r].dev /\ l.groups = req[r].groups /\ l.left = req[r].left /\ l.curGroups = req[r].curGroups /\ l.curPins = req[r].curPins /\ l.served = req[r].served
  BY <1>1 DEF Local
<1>5. StepOf(r) /\ req'[r] = l
  BY <1>2, <1>3, OwnStep DEF HandlerType
<1> HIDE DEF l
<1> QED
  BY <1>4, <1>5

LEMMA EditPinsLocals ==
  ASSUME HandlerType, NEW r \in Request, EditPins(r)
  PROVE  /\ StepOf(r)
         /\ req'[r].pc = "edit.write" /\ req'[r].curPins = PinsOf(req[r].cur)
         /\ req'[r].dev = req[r].dev /\ req'[r].groups = req[r].groups /\ req'[r].left = req[r].left
         /\ req'[r].cur = req[r].cur /\ req'[r].curOn = req[r].curOn /\ req'[r].curGroups = req[r].curGroups
         /\ req'[r].served = req[r].served
<1> DEFINE l == [req[r] EXCEPT !.pc = "edit.write", !.curPins = PinsOf(req[r].cur)]
<1>1. req[r] \in Local
  BY DEF HandlerType, LocalType
<1>2. l \in Local
  BY <1>1 DEF HandlerType, AtHand, Local, PC, PinsOf
<1>3. req' = [req EXCEPT ![r] = l]
  BY <1>1 DEF EditPins, HandlerType, LocalType, Local
<1>4. /\ l.pc = "edit.write"
      /\ l.curPins = PinsOf(req[r].cur)
      /\ l.dev = req[r].dev /\ l.groups = req[r].groups /\ l.left = req[r].left /\ l.cur = req[r].cur /\ l.curOn = req[r].curOn /\ l.curGroups = req[r].curGroups /\ l.served = req[r].served
  BY <1>1 DEF Local
<1>5. StepOf(r) /\ req'[r] = l
  BY <1>2, <1>3, OwnStep DEF HandlerType
<1> HIDE DEF l
<1> QED
  BY <1>4, <1>5

LEMMA IdleLocals ==
  ASSUME HandlerType, NEW r \in Request, Return(r) \/ \E P \in SUBSET Profile : EditWrite(r, P)
  PROVE  StepOf(r) /\ req'[r] = Idle
BY IdleType, OwnStep DEF Return, EditWrite, HandlerType

\* So every step keeps the type of the locals.
LEMMA HandlerLocal == ASSUME HandlerType, NEW r \in Request, Handler(r) PROVE HandlerType'
<1> SUFFICES StepOf(r) /\ AtHand(r)'
  BY DEF HandlerType, StepOf, AtHand
<1> USE DEF AtHand
<1>1. ASSUME NEW d \in Device, SyncDevice(r, d) PROVE StepOf(r) /\ AtHand(r)'
  BY <1>1, SyncDeviceLocals
<1>2. CASE SyncProfiles(r)
  BY <1>2, SyncProfilesLocals
<1>3. CASE SyncList(r)
  BY <1>3, SyncListLocals
<1>4. ASSUME NEW a \in Alias, SyncAliasProfiles(r, a) PROVE StepOf(r) /\ AtHand(r)'
  BY <1>4, SyncAliasProfilesLocals
<1>5. CASE SyncAliasPins(r)
  BY <1>5, SyncAliasPinsLocals
<1>6. CASE SyncTouch(r)
  BY <1>6, SyncTouchLocals
<1>7. ASSUME NEW a \in Alias, EditGet(r, a) PROVE StepOf(r) /\ AtHand(r)'
  BY <1>7, EditGetLocals
<1>8. CASE EditPins(r)
  BY <1>8, EditPinsLocals DEF EditPins, HandlerType
<1>9. CASE Return(r) \/ \E P \in SUBSET Profile : EditWrite(r, P)
  BY <1>9, IdleLocals DEF Idle
<1> QED
  BY <1>1, <1>2, <1>3, <1>4, <1>5, <1>6, <1>7, <1>8, <1>9 DEF Handler

\* What a write remembers has its type.
LEMMA WroteType ==
  ASSUME HistoryType, NEW A \in SUBSET Alias, NEW D, Wrote(A, D)
  PROVE  HistoryType'
BY DEF HistoryType, Wrote

LEMMA OperatorHistory == ASSUME HistoryType, Operator PROVE HistoryType'
<1>1. ASSUME NEW a \in Alias, NEW on \in {"on", "off"}, NEW P \in SUBSET Profile,
             NEW D \in SUBSET Device, CreateAlias(a, on, P, D) \/ UpdateAlias(a, on, P, D)
      PROVE  HistoryType'
  BY <1>1, WroteType DEF CreateAlias, UpdateAlias
<1>2. ASSUME NEW a \in Alias, DeleteAlias(a) PROVE HistoryType'
  BY <1>2, WroteType DEF DeleteAlias
<1>3. ASSUME NEW p \in Profile, CreateProfile(p) PROVE HistoryType'
  BY <1>3 DEF CreateProfile, history, HistoryType
<1>4. ASSUME NEW p \in Profile, DeleteProfile(p) PROVE HistoryType'
  BY <1>4, WroteType DEF DeleteProfile
<1>5. ASSUME NEW d \in Device, NEW P \in SUBSET Profile, EnrollDevice(d, P) PROVE HistoryType'
  BY <1>5 DEF EnrollDevice, history, HistoryType
<1>6. ASSUME NEW d \in Device, NEW P \in SUBSET Profile, UpdateDevice(d, P) PROVE HistoryType'
  BY <1>6, WroteType DEF UpdateDevice
<1>7. ASSUME NEW d \in Device, DeleteDevice(d) PROVE HistoryType'
  BY <1>7, WroteType DEF DeleteDevice
<1> QED
  BY <1>1, <1>2, <1>3, <1>4, <1>5, <1>6, <1>7 DEF Operator

LEMMA HandlerHistory ==
  ASSUME HistoryType, HandlerType, NEW r \in Request, Handler(r)
  PROVE  HistoryType'
<1>1. ASSUME NEW d \in Device, SyncDevice(r, d) PROVE HistoryType'
  BY <1>1 DEF SyncDevice, HistoryType
<1>2. ASSUME NEW P \in SUBSET Profile, EditWrite(r, P) PROVE HistoryType'
  <2>1. {req[r].cur} \in SUBSET Alias
    BY <1>2 DEF EditWrite, HandlerType, AtHand
  <2> QED
    BY <1>2, <2>1, WroteType DEF EditWrite
<1>3. CASE Return(r)
  BY <1>3 DEF Return, HistoryType
<1>4. CASE UNCHANGED history
  BY <1>4 DEF history, HistoryType
<1> QED
  BY <1>1, <1>2, <1>3, <1>4 DEF Handler, SyncProfiles, SyncList, SyncAliasProfiles,
     SyncAliasPins, SyncTouch, EditGet, EditPins

LocalsInv == HandlerType /\ HistoryType

\* The locals and the history keep their types throughout.
LEMMA LocalsInvariant == Spec => []LocalsInv
<1>1. Init => LocalsInv
  BY IdleType DEF Init, LocalsInv, HandlerType, LocalType, AtHand, HistoryType, Idle
<1>2. LocalsInv /\ [Next]_vars => LocalsInv'
  <2>1. ASSUME LocalsInv, UNCHANGED vars PROVE LocalsInv'
    BY <2>1 DEF LocalsInv, HandlerType, LocalType, AtHand, HistoryType, vars, history
  <2>2. ASSUME LocalsInv, Operator PROVE LocalsInv'
    BY <2>2, OperatorLeavesHandlers, OperatorHistory
    DEF LocalsInv, HandlerType, LocalType, AtHand
  <2> QED
    BY <2>1, <2>2, HandlerLocal, HandlerHistory DEF LocalsInv, Next
<1> QED
  BY <1>1, <1>2, PTL DEF Spec

\* Every variable keeps its type.
THEOREM TypeCorrect == Spec => []TypeOK
<1>1. IntegrityInv /\ LocalsInv => TypeOK
  BY DEF IntegrityInv, RowType, NothingDangles, AliasRows, ProfileRows, DeviceRows,
     LocalsInv, HandlerType, LocalType, Local, HistoryType, TypeOK
<1> QED
  BY <1>1, IntegrityInvariant, LocalsInvariant, PTL

-----------------------------------------------------------------------------
(* What a handler has read, and what has become of it. *)

Syncing == {"sync.profiles", "sync.list", "sync.alias", "sync.pins", "sync.answer"}
Editing == {"edit.pins", "edit.write"}

\* What the sync of request r has read that concerns alias a, which nobody
\* wrote since: the groups of its device, whether a is on, the groups of a; and
\* once it is past a, it serves a if and only if a applies.
SyncRead(r, a) ==
  /\ req[r].pc \in {"sync.list", "sync.alias", "sync.pins"} =>
       req[r].groups = Membership(req[r].dev)
  /\ req[r].pc \in {"sync.alias", "sync.pins"} /\ a \in req[r].left =>
       alias[a] = "on" /\ a \notin req[r].served
  /\ req[r].pc = "sync.pins" /\ a = req[r].cur =>
       /\ alias[a] = "on" /\ req[r].curGroups = GroupsOf(a)
       /\ a \notin req[r].served /\ a \notin req[r].left
  /\ \/ req[r].pc = "sync.alias" /\ a \notin req[r].left
     \/ req[r].pc = "sync.pins" /\ a \notin req[r].left \cup {req[r].cur}
     \/ req[r].pc = "sync.answer"
     => (a \in req[r].served <=> AppliesTo(a, req[r].dev))

\* What the edit form of request r has read of its alias a.
EditRead(r, a) ==
  /\ req[r].pc \in Editing /\ a = req[r].cur =>
       alias[a] \in {"on", "off"} /\ (req[r].curOn <=> alias[a] = "on")
  /\ req[r].pc = "edit.write" /\ a = req[r].cur => req[r].curPins = PinsOf(a)

ReadInv(r) ==
  /\ req[r].pc = "idle" => req[r] = Idle
  /\ req[r].pc \in {"sync.profiles", "sync.list"} => req[r].served = {}
  /\ req[r].pc \in Syncing => req[r].dev \in Device /\ device[req[r].dev] # "none"
  /\ \A a \in Alias \ touched[r] : SyncRead(r, a) /\ EditRead(r, a)

\* A write leaves to request r what it has read of the aliases it does not
\* remember as written: their rows and targeting, and its device's groups.
Spares(r) ==
  /\ \A d \in Device : device[d] # "none" => device'[d] # "none"
  /\ req[r].pc # "idle" =>
       \A a \in Alias \ touched'[r] :
         /\ a \notin touched[r]
         /\ alias'[a] = alias[a]
         /\ GroupsOf(a)' = GroupsOf(a) /\ PinsOf(a)' = PinsOf(a)
         /\ req[r].pc \in Syncing => Membership(req[r].dev)' = Membership(req[r].dev)

LEMMA SparedRead ==
  ASSUME NEW r \in Request, ReadInv(r), Spares(r), req'[r] = req[r]
  PROVE  ReadInv(r)'
<1>1. ASSUME NEW a \in Alias \ touched'[r], req[r].pc # "idle"
      PROVE  SyncRead(r, a)' /\ EditRead(r, a)'
  <2>1. /\ a \notin touched[r] /\ alias'[a] = alias[a]
        /\ GroupsOf(a)' = GroupsOf(a) /\ PinsOf(a)' = PinsOf(a)
        /\ req[r].pc \in Syncing => Membership(req[r].dev)' = Membership(req[r].dev)
    BY <1>1 DEF Spares
  <2>2. SyncRead(r, a) /\ EditRead(r, a)
    BY <1>1, <2>1 DEF ReadInv
  <2>3. req[r].pc \in Syncing => (AppliesTo(a, req[r].dev)' <=> AppliesTo(a, req[r].dev))
    BY <2>1 DEF AppliesTo
  <2>4. SyncRead(r, a)'
    BY <2>1, <2>2, <2>3 DEF SyncRead, Syncing
  <2>5. EditRead(r, a)'
    BY <2>1, <2>2 DEF EditRead
  <2> QED
    BY <2>4, <2>5
<1>2. ASSUME NEW a \in Alias, req[r].pc = "idle" PROVE SyncRead(r, a)' /\ EditRead(r, a)'
  BY <1>2 DEF SyncRead, EditRead, Editing
<1>3. /\ req'[r].pc = "idle" => req'[r] = Idle
      /\ req'[r].pc \in {"sync.profiles", "sync.list"} => req'[r].served = {}
      /\ req'[r].pc \in Syncing => req'[r].dev \in Device /\ device'[req'[r].dev] # "none"
  BY DEF ReadInv, Spares
<1> QED
  BY <1>1, <1>2, <1>3 DEF ReadInv

\* What Wrote remembers for a request that is not about to be idle.
LEMMA WroteTouched ==
  ASSUME NEW r \in Request, NEW A \in SUBSET Alias, NEW D, Wrote(A, D), req'[r] = req[r],
         req[r].pc # "idle"
  PROVE  touched'[r] = IF req[r].dev \in D THEN Alias ELSE touched[r] \cup A
BY DEF Wrote

\* A write spares the requests that remember what it wrote.
LEMMA WroteSpares ==
  ASSUME NEW r \in Request, NEW A \in SUBSET Alias, NEW D, Wrote(A, D), req'[r] = req[r],
         req[r].pc \in Syncing => req[r].dev \in Device,
         \A d \in Device : device[d] # "none" => device'[d] # "none",
         \A a \in Alias \ A : /\ alias'[a] = alias[a]
                              /\ GroupsOf(a)' = GroupsOf(a) /\ PinsOf(a)' = PinsOf(a),
         \A d \in Device \ D : Membership(d)' = Membership(d)
  PROVE  Spares(r)
<1> SUFFICES ASSUME req[r].pc # "idle", NEW a \in Alias \ touched'[r]
             PROVE  /\ a \notin touched[r] /\ a \notin A
                    /\ req[r].dev \notin D
  BY DEF Spares
<1>1. touched'[r] = IF req[r].dev \in D THEN Alias ELSE touched[r] \cup A
  BY WroteTouched
<1> QED
  BY <1>1

\* Every operator's write spares every request.
LEMMA OperatorSpares ==
  ASSUME RowType, NEW r \in Request, ReadInv(r), Operator
  PROVE  Spares(r)
<1>0. req'[r] = req[r] /\ (req[r].pc \in Syncing => req[r].dev \in Device)
  BY OperatorLeavesHandlers DEF ReadInv
<1>1. ASSUME NEW a \in Alias, NEW on \in {"on", "off"}, NEW P \in SUBSET Profile,
             NEW D \in SUBSET Device, CreateAlias(a, on, P, D) \/ UpdateAlias(a, on, P, D)
      PROVE  Spares(r)
  <2>1. /\ \A b \in Alias \ {a} : alias'[b] = alias[b] /\ GroupsOf(b)' = GroupsOf(b)
                                  /\ PinsOf(b)' = PinsOf(b)
        /\ \A d \in Device : Membership(d)' = Membership(d)
        /\ device' = device /\ Wrote({a}, {})
    BY <1>1 DEF CreateAlias, UpdateAlias, SetTargeting, RowType, GroupsOf, PinsOf, Membership
  <2> QED
    BY <1>0, <2>1, WroteSpares
<1>2. ASSUME NEW a \in Alias, DeleteAlias(a) PROVE Spares(r)
  <2>1. /\ \A b \in Alias \ {a} : alias'[b] = alias[b] /\ GroupsOf(b)' = GroupsOf(b)
                                  /\ PinsOf(b)' = PinsOf(b)
        /\ \A d \in Device : Membership(d)' = Membership(d)
        /\ device' = device /\ Wrote({a}, {})
    BY <1>2 DEF DeleteAlias, RowType, GroupsOf, PinsOf, Membership
  <2> QED
    BY <1>0, <2>1, WroteSpares
<1>3. ASSUME NEW p \in Profile, CreateProfile(p) PROVE Spares(r)
  BY <1>3 DEF CreateProfile, joins, history, Spares, GroupsOf, PinsOf, Membership
<1>4. ASSUME NEW p \in Profile, DeleteProfile(p) PROVE Spares(r)
  <2> DEFINE A == {a \in Alias : p \in GroupsOf(a)}
             D == {d \in Device : p \in Membership(d)}
  <2>1. /\ alias' = alias /\ device' = device /\ Wrote(A, D)
        /\ \A b \in Alias : PinsOf(b)' = PinsOf(b)
    BY <1>4 DEF DeleteProfile, PinsOf
  <2>2. \A b \in Alias \ A : GroupsOf(b)' = GroupsOf(b)
    BY <1>4 DEF DeleteProfile, GroupsOf
  <2>3. \A d \in Device \ D : Membership(d)' = Membership(d)
    BY <1>4 DEF DeleteProfile, Membership
  <2>4. A \in SUBSET Alias
    OBVIOUS
  <2> HIDE DEF A, D
  <2> QED
    BY <1>0, <2>1, <2>2, <2>3, <2>4, WroteSpares
<1>5. ASSUME NEW d \in Device, NEW P \in SUBSET Profile, EnrollDevice(d, P) PROVE Spares(r)
  <2>1. \A e \in Device \ {d} : device'[e] = device[e] /\ Membership(e)' = Membership(e)
    BY <1>5 DEF EnrollDevice, RowType, Membership
  <2>2. device[d] = "none" /\ device'[d] = "row"
    BY <1>5 DEF EnrollDevice, RowType
  <2>3. alias' = alias /\ touched' = touched
        /\ \A b \in Alias : GroupsOf(b)' = GroupsOf(b) /\ PinsOf(b)' = PinsOf(b)
    BY <1>5 DEF EnrollDevice, history, GroupsOf, PinsOf
  <2> QED
    <3>1. req[r].pc \in Syncing => req[r].dev \in Device \ {d}
      BY <2>2 DEF ReadInv
    <3>2. req[r].pc \in Syncing => Membership(req[r].dev)' = Membership(req[r].dev)
      BY <1>0, <2>1, <3>1
    <3>3. \A e \in Device : device[e] # "none" => device'[e] # "none"
      BY <2>1, <2>2
    <3> QED
      BY <2>3, <3>2, <3>3 DEF Spares
<1>6. ASSUME NEW d \in Device, NEW P \in SUBSET Profile, UpdateDevice(d, P) PROVE Spares(r)
  <2>1. /\ alias' = alias /\ device' = device /\ Wrote({}, {d})
        /\ \A b \in Alias : GroupsOf(b)' = GroupsOf(b) /\ PinsOf(b)' = PinsOf(b)
        /\ \A e \in Device \ {d} : Membership(e)' = Membership(e)
    BY <1>6 DEF UpdateDevice, rows, GroupsOf, PinsOf, Membership
  <2> QED
    BY <1>0, <2>1, WroteSpares
<1>7. ASSUME NEW d \in Device, DeleteDevice(d) PROVE Spares(r)
  <2> DEFINE A == {a \in Alias : d \in PinsOf(a)}
  <2>1. /\ alias' = alias /\ Wrote(A, {d})
        /\ \A b \in Alias : GroupsOf(b)' = GroupsOf(b)
        /\ \A e \in Device \ {d} : Membership(e)' = Membership(e)
    BY <1>7 DEF DeleteDevice, GroupsOf, Membership
  <2>2. \A b \in Alias \ A : PinsOf(b)' = PinsOf(b)
    BY <1>7 DEF DeleteDevice, PinsOf
  <2>3. \A e \in Device : device[e] # "none" => device'[e] # "none"
    BY <1>7 DEF DeleteDevice, RowType
  <2>4. A \in SUBSET Alias
    OBVIOUS
  <2> HIDE DEF A
  <2> QED
    BY <1>0, <2>1, <2>2, <2>3, <2>4, WroteSpares
<1> QED
  BY <1>1, <1>2, <1>3, <1>4, <1>5, <1>6, <1>7 DEF Operator

\* A step of a request that writes no alias spares the others.
LEMMA ReadsSpare ==
  ASSUME LocalsInv, NEW r \in Request, Reads(r) \/ SyncTouch(r), NEW s \in Request \ {r}
  PROVE  Spares(s) /\ req'[s] = req[s]
<1>1. req'[s] = req[s]
  BY SyncDeviceLocals, SyncProfilesLocals, SyncListLocals, SyncAliasProfilesLocals,
     SyncAliasPinsLocals, SyncTouchLocals, EditGetLocals, EditPinsLocals, IdleLocals
  DEF Reads, StepOf, LocalsInv
<1>2. UNCHANGED <<rows, joins>>
  BY ReadsRead DEF SyncTouch
<1>3. touched'[s] = touched[s]
  BY DEF Reads, SyncDevice, SyncProfiles, SyncList, SyncAliasProfiles, SyncAliasPins, SyncTouch,
     EditGet, EditPins, Return, history, LocalsInv, HistoryType
<1> QED
  BY <1>1, <1>2, <1>3 DEF Spares, rows, joins, GroupsOf, PinsOf, Membership

\* The write of the edit form spares the others too.
LEMMA EditWriteSpares ==
  ASSUME RowType, HandlerType, NEW r \in Request, NEW P \in SUBSET Profile, EditWrite(r, P),
         NEW s \in Request \ {r}, ReadInv(s)
  PROVE  Spares(s) /\ req'[s] = req[s]
<1> DEFINE A == {req[r].cur}
<1>1. req'[s] = req[s]
  BY IdleLocals DEF StepOf
<1>2. A \in SUBSET Alias /\ Wrote(A, {}) /\ device' = device
  BY DEF EditWrite, HandlerType, AtHand
<1>3. /\ \A b \in Alias \ A : alias'[b] = alias[b] /\ GroupsOf(b)' = GroupsOf(b)
                              /\ PinsOf(b)' = PinsOf(b)
      /\ \A d \in Device : Membership(d)' = Membership(d)
  BY DEF EditWrite, SetTargeting, RowType, GroupsOf, PinsOf, Membership
<1>4. req[s].pc \in Syncing => req[s].dev \in Device
  BY DEF ReadInv
<1> HIDE DEF A
<1> QED
  BY <1>1, <1>2, <1>3, <1>4, WroteSpares

\* A step that only reads leaves what concerns the request's device as it is.
LEMMA ReadsFrame ==
  ASSUME NEW r \in Request, Reads(r) \/ SyncTouch(r), req'[r].dev = req[r].dev
  PROVE  /\ Membership(req[r].dev)' = Membership(req[r].dev)
         /\ \A a \in Alias : AppliesTo(a, req[r].dev)' <=> AppliesTo(a, req[r].dev)
<1>1. UNCHANGED <<alias, aliasProfiles, aliasDevices, deviceProfiles>>
  BY ReadsRead DEF SyncTouch, rows, joins
<1>2. /\ Membership(req[r].dev)' = Membership(req[r].dev)
      /\ \A a \in Alias : GroupsOf(a)' = GroupsOf(a) /\ PinsOf(a)' = PinsOf(a)
  BY <1>1 DEF GroupsOf, PinsOf, Membership
<1>3. \A a \in Alias : AppliesTo(a, req[r].dev)' <=> AppliesTo(a, req[r].dev)
  BY <1>1, <1>2 DEF AppliesTo
<1> QED
  BY <1>2, <1>3

\* Each step of a request that reads adds to what it has read what is so.
LEMMA ReadsAdd ==
  ASSUME LocalsInv, NEW r \in Request, Reads(r) \/ SyncTouch(r), ReadInv(r)
  PROVE  ReadInv(r)'
<1> USE DEF Syncing, Editing
<1>0. /\ UNCHANGED <<alias, device>> /\ HandlerType
      /\ \A a \in Alias : GroupsOf(a)' = GroupsOf(a) /\ PinsOf(a)' = PinsOf(a)
  BY ReadsRead DEF SyncTouch, rows, joins, GroupsOf, PinsOf, LocalsInv
<1>1. ASSUME NEW d \in Device, SyncDevice(r, d) PROVE ReadInv(r)'
  <2>1. /\ req'[r].pc = "sync.profiles" /\ req'[r].dev = d /\ req'[r].served = {}
        /\ device[d] = "row"
    <3>1. req[r] = Idle /\ device[d] = "row"
      BY <1>1 DEF SyncDevice, DeviceRows, ReadInv
    <3>2. /\ req'[r].pc = "sync.profiles" /\ req'[r].dev = d
          /\ req'[r].served = req[r].served
      BY <1>0, <1>1, SyncDeviceLocals
    <3> QED
      BY <3>1, <3>2 DEF Idle
  <2> QED
    BY <1>0, <2>1 DEF ReadInv, SyncRead, EditRead
<1>2. CASE SyncProfiles(r)
  <2>1. req'[r].dev = req[r].dev /\ touched' = touched /\ req[r].pc = "sync.profiles"
    BY <1>0, <1>2, SyncProfilesLocals DEF SyncProfiles, history
  <2>2. Membership(req[r].dev)' = Membership(req[r].dev)
    BY <2>1, ReadsFrame
  <2>3. req'[r].pc = "sync.list" /\ req'[r].groups = Membership(req[r].dev)
        /\ req'[r].served = req[r].served
    BY <1>0, <1>2, SyncProfilesLocals
  <2> QED
    BY <1>0, <2>1, <2>2, <2>3 DEF ReadInv, SyncRead, EditRead
<1>3. CASE SyncList(r)
  <2>1. req'[r].dev = req[r].dev /\ touched' = touched /\ req[r].pc = "sync.list"
    BY <1>0, <1>3, SyncListLocals DEF SyncList, history
  <2>2. /\ Membership(req[r].dev)' = Membership(req[r].dev)
        /\ \A a \in Alias : AppliesTo(a, req[r].dev)' <=> AppliesTo(a, req[r].dev)
    BY <2>1, ReadsFrame
  <2>3. /\ req'[r].pc = "sync.alias" /\ req'[r].left = {a \in Alias : alias[a] = "on"}
        /\ req'[r].served = {} /\ req'[r].groups = req[r].groups
    BY <1>0, <1>3, <2>1, SyncListLocals DEF ReadInv
  <2>4. \A a \in Alias : alias[a] # "on" => ~AppliesTo(a, req[r].dev)
    BY DEF AppliesTo
  <2> QED
    BY <1>0, <2>1, <2>2, <2>3, <2>4 DEF ReadInv, SyncRead, EditRead
<1>4. ASSUME NEW a \in Alias, SyncAliasProfiles(r, a) PROVE ReadInv(r)'
  <2>1. /\ req'[r].dev = req[r].dev /\ touched' = touched /\ req[r].pc = "sync.alias"
        /\ a \in req[r].left
    BY <1>0, <1>4, SyncAliasProfilesLocals DEF SyncAliasProfiles, history
  <2>2. /\ Membership(req[r].dev)' = Membership(req[r].dev)
        /\ \A b \in Alias : AppliesTo(b, req[r].dev)' <=> AppliesTo(b, req[r].dev)
    BY <1>4, <2>1, ReadsFrame
  <2>3. /\ req'[r].pc = "sync.pins" /\ req'[r].left = req[r].left \ {a} /\ req'[r].cur = a
        /\ req'[r].curGroups = GroupsOf(a) /\ req'[r].served = req[r].served
        /\ req'[r].groups = req[r].groups
    BY <1>0, <1>4, SyncAliasProfilesLocals
  <2>4. ASSUME NEW b \in Alias \ touched'[r] PROVE SyncRead(r, b)' /\ EditRead(r, b)'
    <3>1. SyncRead(r, b)
      BY <2>1 DEF ReadInv
    <3> QED
      BY <1>0, <2>1, <2>2, <2>3, <3>1 DEF SyncRead, EditRead
  <2> QED
    BY <1>0, <2>1, <2>3, <2>4 DEF ReadInv
<1>5. CASE SyncAliasPins(r)
  <2>1. /\ req'[r].dev = req[r].dev /\ touched' = touched /\ req[r].pc = "sync.pins"
        /\ req[r].cur \in Alias
    BY <1>0, <1>5, SyncAliasPinsLocals DEF SyncAliasPins, history, HandlerType, AtHand
  <2>2. /\ Membership(req[r].dev)' = Membership(req[r].dev)
        /\ \A a \in Alias : AppliesTo(a, req[r].dev)' <=> AppliesTo(a, req[r].dev)
    BY <2>1, ReadsFrame
  <2>3. /\ req'[r].pc = "sync.alias" /\ req'[r].left = req[r].left
        /\ req'[r].groups = req[r].groups /\ req'[r].served = Decided(r)
    BY <1>0, <1>5, SyncAliasPinsLocals
  <2>4. ASSUME NEW a \in Alias \ touched'[r] PROVE SyncRead(r, a)' /\ EditRead(r, a)'
    <3>1. SyncRead(r, a)
      BY <2>1 DEF ReadInv
    <3>2. CASE a = req[r].cur
      <4>1. /\ alias[a] = "on" /\ req[r].curGroups = GroupsOf(a)
            /\ req[r].groups = Membership(req[r].dev)
            /\ a \notin req[r].served /\ a \notin req[r].left
        BY <2>1, <3>1, <3>2 DEF SyncRead
      <4>2. a \in Decided(r) <=> AppliesTo(a, req[r].dev)
        BY <3>2, <4>1 DEF Decided, AppliesTo
      <4> QED
        BY <1>0, <2>1, <2>2, <2>3, <4>1, <4>2 DEF SyncRead, EditRead
    <3>3. CASE a # req[r].cur
      <4>1. a \in Decided(r) <=> a \in req[r].served
        BY <3>3 DEF Decided
      <4> QED
        BY <1>0, <2>1, <2>2, <2>3, <3>1, <3>3, <4>1 DEF SyncRead, EditRead
    <3> QED
      BY <3>2, <3>3
  <2> QED
    BY <1>0, <2>1, <2>3, <2>4 DEF ReadInv
<1>6. CASE SyncTouch(r)
  <2>1. /\ req'[r].dev = req[r].dev /\ touched' = touched /\ req[r].pc = "sync.alias"
        /\ req[r].left = {}
    BY <1>0, <1>6, SyncTouchLocals DEF SyncTouch, history
  <2>2. \A a \in Alias : AppliesTo(a, req[r].dev)' <=> AppliesTo(a, req[r].dev)
    BY <2>1, ReadsFrame
  <2>3. req'[r].pc = "sync.answer" /\ req'[r].served = req[r].served
    BY <1>0, <1>6, SyncTouchLocals
  <2> QED
    BY <1>0, <2>1, <2>2, <2>3 DEF ReadInv, SyncRead, EditRead
<1>7. ASSUME NEW a \in Alias, EditGet(r, a) PROVE ReadInv(r)'
  <2>1. /\ req'[r].pc = "edit.pins" /\ req'[r].cur = a /\ req'[r].curOn = (alias[a] = "on")
        /\ alias[a] \in {"on", "off"}
    BY <1>0, <1>7, EditGetLocals DEF EditGet, AliasRows
  <2> QED
    BY <1>0, <2>1 DEF ReadInv, SyncRead, EditRead
<1>8. CASE EditPins(r)
  <2>1. /\ req[r].pc = "edit.pins" /\ req'[r].pc = "edit.write" /\ req'[r].cur = req[r].cur
        /\ req'[r].curOn = req[r].curOn /\ req'[r].curPins = PinsOf(req[r].cur)
        /\ touched' = touched
    BY <1>0, <1>8, EditPinsLocals DEF EditPins, history
  <2>2. ASSUME NEW a \in Alias \ touched'[r] PROVE SyncRead(r, a)' /\ EditRead(r, a)'
    <3>1. EditRead(r, a)
      BY <2>1 DEF ReadInv
    <3> QED
      BY <1>0, <2>1, <3>1 DEF SyncRead, EditRead
  <2> QED
    BY <2>1, <2>2 DEF ReadInv
<1>9. CASE Return(r)
  <2>1. req'[r] = Idle /\ Idle.pc = "idle"
    BY <1>0, <1>9, IdleLocals DEF Idle
  <2> QED
    BY <2>1 DEF ReadInv, SyncRead, EditRead
<1> QED
  BY <1>1, <1>2, <1>3, <1>4, <1>5, <1>6, <1>7, <1>8, <1>9 DEF Reads

\* ReadInv is inductive, for every request.
LEMMA ReadStep ==
  ASSUME RowType, LocalsInv, \A r \in Request : ReadInv(r), [Next]_vars, NEW s \in Request
  PROVE  ReadInv(s)'
<1>1. CASE Operator
  BY <1>1, OperatorSpares, OperatorLeavesHandlers, SparedRead
<1>2. ASSUME NEW r \in Request, Reads(r) \/ SyncTouch(r) PROVE ReadInv(s)'
  <2>1. CASE s = r
    BY <1>2, <2>1, ReadsAdd
  <2>2. CASE s # r
    BY <1>2, <2>2, ReadsSpare, SparedRead
  <2> QED
    BY <2>1, <2>2
<1>3. ASSUME NEW r \in Request, NEW P \in SUBSET Profile, EditWrite(r, P) PROVE ReadInv(s)'
  <2>1. CASE s = r
    <3>1. req'[s] = Idle /\ Idle.pc = "idle"
      BY <1>3, <2>1, IdleLocals DEF LocalsInv, Idle
    <3> QED
      BY <3>1 DEF ReadInv, SyncRead, EditRead, Syncing, Editing
  <2>2. CASE s # r
    BY <1>3, <2>2, EditWriteSpares, SparedRead DEF LocalsInv
  <2> QED
    BY <2>1, <2>2
<1>4. CASE UNCHANGED vars
  <2>1. Spares(s) /\ req'[s] = req[s]
    BY <1>4 DEF vars, rows, joins, history, Spares, GroupsOf, PinsOf, Membership
  <2> QED
    BY <2>1, SparedRead
<1> QED
  BY <1>1, <1>2, <1>3, <1>4 DEF Next, Handler, Reads

\* ReadInv holds throughout.
LEMMA ReadInvariant == Spec => [](\A r \in Request : ReadInv(r))
<1>1. Init => \A r \in Request : ReadInv(r)
  BY DEF Init, ReadInv, SyncRead, EditRead, Idle, Syncing, Editing
<1>2. /\ IntegrityInv /\ LocalsInv /\ (\A r \in Request : ReadInv(r))
      /\ [Next]_vars
      => (\A r \in Request : ReadInv(r))'
  BY ReadStep DEF IntegrityInv
<1> QED
  BY <1>1, <1>2, IntegrityInvariant, LocalsInvariant, PTL DEF Spec

\* Whatever is written beside a sync, each alias nobody wrote is served to the
\* device exactly if it applies to it (handleSync, domain.Resolve).
THEOREM StableServed == Spec => []StableAliasesServedExactly
<1>1. (\A r \in Request : ReadInv(r)) => StableAliasesServedExactly
  BY DEF ReadInv, SyncRead, StableAliasesServedExactly
<1> QED
  BY <1>1, ReadInvariant, PTL

\* Only the edit form's write, and its end without one, take a request from
\* before the write to idle.
LEMMA EditEnds ==
  ASSUME LocalsInv, Next, NEW r \in Request, req[r].pc = "edit.write", req'[r].pc = "idle"
  PROVE  Return(r) \/ \E P \in SUBSET Profile : EditWrite(r, P)
<1>1. CASE Operator
  BY <1>1, OperatorLeavesHandlers
<1>2. ASSUME NEW s \in Request, Handler(s), s # r PROVE FALSE
  <2>1. StepOf(s)
    BY <1>2, SyncDeviceLocals, SyncProfilesLocals, SyncListLocals, SyncAliasProfilesLocals,
       SyncAliasPinsLocals, SyncTouchLocals, EditGetLocals, EditPinsLocals, IdleLocals
    DEF Handler, LocalsInv
  <2> QED
    BY <1>2, <2>1 DEF StepOf
<1>3. CASE Handler(r)
  BY <1>3 DEF Handler, SyncDevice, SyncProfiles, SyncList, SyncAliasProfiles, SyncAliasPins,
     SyncTouch, EditGet, EditPins
<1> QED
  BY <1>1, <1>2, <1>3 DEF Next

\* The web's edit form leaves what it does not show as it was, unless somebody
\* wrote the alias meanwhile (handleAliasesUpdate).
THEOREM EditSafe == Spec => EditKeepsWhatTheFormHides
<1> DEFINE Keeps ==
  \A r \in Request, a \in AliasRows :
       /\ req[r].pc = "edit.write" /\ req'[r].pc = "idle"
       /\ req[r].cur = a /\ a \notin touched[r]
       => alias'[a] = alias[a] /\ PinsOf(a)' = PinsOf(a)
<1>1. ASSUME RowType, LocalsInv, \A r \in Request : ReadInv(r), Next PROVE Keeps
  <2> SUFFICES ASSUME NEW r \in Request, NEW a \in AliasRows,
                      req[r].pc = "edit.write", req'[r].pc = "idle",
                      req[r].cur = a, a \notin touched[r]
               PROVE  alias'[a] = alias[a] /\ PinsOf(a)' = PinsOf(a)
    OBVIOUS
  <2>1. /\ req[r].curPins = PinsOf(a) /\ (req[r].curOn <=> alias[a] = "on")
        /\ alias[a] \in {"on", "off"}
    BY <1>1 DEF ReadInv, EditRead, Editing, AliasRows
  <2>2. CASE Return(r)
    BY <2>2 DEF Return, rows, joins, PinsOf
  <2>3. ASSUME NEW P \in SUBSET Profile, EditWrite(r, P)
        PROVE  alias'[a] = alias[a] /\ PinsOf(a)' = PinsOf(a)
    <3>1. alias'[a] = alias[a]
      BY <1>1, <2>1, <2>3 DEF EditWrite, RowType
    <3>2. aliasDevices' = {e \in aliasDevices : e[1] # a} \cup ({a} \X PinsOf(a))
      BY <2>1, <2>3 DEF EditWrite, SetTargeting
    <3>3. PinsOf(a)' = PinsOf(a)
      BY <3>2 DEF PinsOf
    <3> QED
      BY <3>1, <3>3
  <2> QED
    BY <1>1, <2>2, <2>3, EditEnds
<1>2. /\ IntegrityInv /\ LocalsInv /\ (\A r \in Request : ReadInv(r))
      /\ [Next]_vars
      => [Keeps]_vars
  BY <1>1 DEF IntegrityInv
<1> QED
  BY <1>2, IntegrityInvariant, LocalsInvariant, ReadInvariant, PTL
  DEF Spec, EditKeepsWhatTheFormHides

=============================================================================
