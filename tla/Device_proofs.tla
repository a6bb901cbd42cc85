----------------------------- MODULE Device_proofs -----------------------------
(***************************************************************************)
(* Theorems about the commands, ClientSync, for any contents, processes    *)
(* and events outside the program's control; and that Device, in which the *)
(* parts of the client stand side by side, does what each of them does on  *)
(* its own.                                                                *)
(***************************************************************************)
EXTENDS Device, ShellAliases_proofs, RcBlock_proofs, Enrollment_proofs, TLAPS

-----------------------------------------------------------------------------
(* The commands: typing. *)

\* What TypeOK says of the locals, and of the files and the rest.
LocalType ==
  /\ pc \in [Process -> PC] /\ initing \subseteq Process
  /\ res \in [Process -> Content \cup {None}] /\ prev \in [Process -> State]
  /\ \A p \in Process : pc[p] \in {"sync.load", "sync.decide", "sync.save"} => res[p] # None

FileType ==
  /\ content \in Content /\ config \in {"none", "file", "server"} /\ creds \in BOOLEAN
  /\ out \in Content \cup {Edited, None} /\ st \in State /\ rc \in BOOLEAN
  /\ events \in 0 .. MaxEvents /\ disturbed \in BOOLEAN

LEMMA TypeParts == (TypeOK <=> LocalType /\ FileType) /\ (TypeOK' <=> LocalType' /\ FileType')
BY DEF TypeOK, LocalType, FileType

LEMMA ZeroType == ZeroState \in State
BY DEF ZeroState, State

\* A command that ends leaves the locals in order ...
LEMMA ReturnType == ASSUME LocalType, NEW p \in Process, Return(p) PROVE LocalType'
BY ZeroType DEF LocalType, Return, PC

\* ... and so does an init whose sync is done.
LEMMA SyncDoneType == ASSUME LocalType, NEW p \in Process, SyncDone(p) PROVE LocalType'
<1>1. CASE p \in initing
  BY <1>1, ZeroType DEF LocalType, SyncDone, PC
<1>2. CASE p \notin initing
  BY <1>2, ReturnType DEF SyncDone
<1> QED
  BY <1>1, <1>2

\* The steps of a sync keep the types, and what a sync works on is resolved.
LEMMA SyncType == ASSUME TypeOK, NEW p \in Process, Sync(p) PROVE TypeOK'
<1> USE TypeParts, ValueAssumption
<1>1. CASE SyncResolve(p)
  BY <1>1 DEF SyncResolve, Begin, files, LocalType, FileType, PC
<1>2. CASE SyncLoad(p)
  BY <1>2 DEF SyncLoad, files, LocalType, FileType, PC
<1>3. CASE SyncSkip(p)
  BY <1>3, SyncDoneType DEF SyncSkip, files, FileType
<1>4. CASE SyncApply(p)
  BY <1>4 DEF SyncApply, LocalType, FileType, PC
<1>5. CASE SyncSave(p)
  <2>1. st' \in State
    BY <1>5 DEF SyncSave, LocalType, State
  <2> QED
    BY <1>5, <2>1, SyncDoneType DEF SyncSave, FileType
<1> QED
  BY <1>1, <1>2, <1>3, <1>4, <1>5 DEF Sync

\* The steps of init, register and uninstall keep them.
LEMMA CommandType ==
  ASSUME TypeOK, NEW p \in Process, InitCommand(p) \/ RegisterCommand(p) \/ Uninstall(p)
  PROVE  TypeOK'
<1> USE TypeParts, ValueAssumption
<1>1. CASE InitBegin(p) \/ InitSkippingSync(p)
  BY <1>1 DEF InitBegin, InitSkippingSync, InitConfig, Begin, LocalType, FileType, PC
<1>2. CASE InitDecline(p)
  BY <1>2, ReturnType DEF InitDecline, files, FileType
<1>3. CASE InitSave(p)
  <2>1. st' \in State
    BY <1>3 DEF InitSave, LocalType, State
  <2> QED
    BY <1>3, <2>1, ReturnType DEF InitSave, FileType
<1>4. CASE InitAdd(p) \/ InitLoad(p)
  BY <1>4 DEF InitAdd, InitLoad, files, LocalType, FileType, PC
<1>5. CASE RegisterSave(p)
  BY <1>5 DEF RegisterSave, Begin, LocalType, FileType, PC
<1>6. CASE RegisterConfig(p)
  BY <1>6, ReturnType DEF RegisterConfig, FileType
<1>7. CASE UninstallLoad(p)
  BY <1>7 DEF UninstallLoad, Begin, files, LocalType, FileType, PC
<1>8. CASE UninstallOutput(p) \/ UninstallCreds(p) \/ UninstallBlock(p)
  BY <1>8 DEF UninstallOutput, UninstallCreds, UninstallBlock, LocalType, FileType, PC
<1>9. CASE UninstallState(p)
  BY <1>9, ReturnType, ZeroType DEF UninstallState, FileType
<1> QED
  BY <1>1, <1>2, <1>3, <1>4, <1>5, <1>6, <1>7, <1>8, <1>9
  DEF InitCommand, RegisterCommand, Uninstall

\* So does what the program does not control.
LEMMA EventType ==
  ASSUME TypeOK,
         SourceChanges \/ OutputTampered \/ StateDamaged \/ \E p \in Process : Interrupt(p)
  PROVE  TypeOK'
<1> USE TypeParts, EventAssumption DEF Event, FileType
<1>1. CASE SourceChanges \/ OutputTampered \/ StateDamaged
  <2>1. LocalType'
    BY <1>1 DEF SourceChanges, OutputTampered, StateDamaged, locals, LocalType
  <2>2. FileType'
    <3>1. CASE SourceChanges
      BY <3>1 DEF SourceChanges, files
    <3>2. CASE OutputTampered
      BY <3>2 DEF OutputTampered
    <3>3. CASE StateDamaged
      BY <3>3, ZeroType DEF StateDamaged
    <3> QED
      BY <1>1, <3>1, <3>2, <3>3
  <2> QED
    BY <2>1, <2>2
<1>2. ASSUME NEW p \in Process, Interrupt(p) PROVE TypeOK'
  BY <1>2, ReturnType DEF Interrupt, files
<1> QED
  BY <1>1, <1>2

\* Every variable keeps its type.
THEOREM TypeCorrect == Spec => []TypeOK
<1>1. Init => TypeOK
  <2>1. Init => LocalType
    BY ZeroType DEF Init, LocalType, PC
  <2>2. Init => FileType
    <3>1. Init => events \in 0 .. MaxEvents
      BY EventAssumption DEF Init
    <3> QED
      BY <3>1, ZeroType DEF Init, FileType
  <2> QED
    BY <2>1, <2>2, TypeParts
<1>2. TypeOK /\ [Next]_vars => TypeOK'
  <2>1. ASSUME TypeOK, UNCHANGED vars PROVE TypeOK'
    BY <2>1 DEF TypeOK, vars, files, locals
  <2>2. ASSUME TypeOK, Next PROVE TypeOK'
    <3>1. CASE \E p \in Process : Sync(p) \/ Interrupt(p)
      BY <2>2, <3>1, SyncType, EventType
    <3>2. CASE \E p \in Process : InitCommand(p) \/ RegisterCommand(p) \/ Uninstall(p)
      BY <2>2, <3>2, CommandType
    <3> QED
      BY <2>2, <3>1, <3>2, EventType DEF Next
  <2> QED
    BY <2>1, <2>2
<1> QED
  BY <1>1, <1>2, PTL DEF Spec

-----------------------------------------------------------------------------
(* One command at a time. *)

\* The labels of a command that has loaded the record of the block, and has
\* still to act on it.
Loaded == {"sync.decide", "sync.save", "init.save", "un.output", "un.creds", "un.block"}

Recording == {"init.load", "init.save"}

\* While commands have not overlapped: one is in flight at most, what it loaded
\* is still so, a block is on record or about to be, an uninstall that is done
\* with the rc file has left no block, and a registration that has yet to write
\* config.yaml has its token on disk.
CommandInv ==
  /\ \A p, q \in Process : pc[p] # "idle" /\ pc[q] # "idle" => p = q
  /\ \A p \in Process : pc[p] \in Loaded => prev[p].boot = st.boot
  /\ rc => st.boot \/ \E p \in Process : pc[p] \in Recording
  /\ \A p \in Process : pc[p] = "un.state" => ~rc
  /\ \A p \in Process : pc[p] = "register.config" => creds

AloneInv == ~disturbed => CommandInv

\* The steps of a sync keep AloneInv.
LEMMA SyncAlone == ASSUME TypeOK, AloneInv, NEW p \in Process, Sync(p) PROVE AloneInv'
<1> USE DEF TypeOK, PC, State, AloneInv, CommandInv, Loaded, Recording, files
<1>1. CASE SyncResolve(p)
  BY <1>1 DEF SyncResolve, Begin
<1>2. CASE SyncLoad(p)
  BY <1>2 DEF SyncLoad
<1>3. CASE SyncSkip(p)
  BY <1>3 DEF SyncSkip, SyncDone, Return
<1>4. CASE SyncApply(p)
  BY <1>4 DEF SyncApply
<1>5. CASE SyncSave(p)
  <2>1. /\ pc[p] = "sync.save" /\ pc'[p] \in {"idle", "init.add"} /\ st'.boot = prev[p].boot
        /\ \A q \in Process \ {p} : pc'[q] = pc[q] /\ prev'[q] = prev[q]
        /\ UNCHANGED <<rc, creds, disturbed>>
    BY <1>5 DEF SyncSave, SyncDone, Return
  <2> QED
    BY <2>1
<1> QED
  BY <1>1, <1>2, <1>3, <1>4, <1>5 DEF Sync

\* The steps of init keep it.
LEMMA InitAlone == ASSUME TypeOK, AloneInv, NEW p \in Process, InitCommand(p) PROVE AloneInv'
<1> USE DEF TypeOK, PC, State, AloneInv, CommandInv, Loaded, Recording, files
<1>1. CASE InitBegin(p) \/ InitSkippingSync(p)
  <2>1. /\ pc[p] = "idle" /\ pc'[p] \in {"sync.load", "init.add"}
        /\ \A q \in Process \ {p} : pc'[q] = pc[q]
        /\ disturbed' = (disturbed \/ \E q \in Process : pc[q] # "idle")
        /\ UNCHANGED <<rc, st, creds, prev>>
    BY <1>1 DEF InitBegin, InitSkippingSync, Begin
  <2> QED
    BY <2>1
<1>2. CASE InitDecline(p)
  BY <1>2 DEF InitDecline, Return
<1>3. CASE InitAdd(p)
  BY <1>3 DEF InitAdd
<1>4. CASE InitLoad(p)
  BY <1>4 DEF InitLoad
<1>5. CASE InitSave(p)
  BY <1>5 DEF InitSave, Return
<1> QED
  BY <1>1, <1>2, <1>3, <1>4, <1>5 DEF InitCommand

\* The steps of register and uninstall keep it.
LEMMA OthersAlone ==
  ASSUME TypeOK, AloneInv, NEW p \in Process, RegisterCommand(p) \/ Uninstall(p)
  PROVE  AloneInv'
<1> USE DEF TypeOK, PC, State, AloneInv, CommandInv, Loaded, Recording, files
<1>1. CASE RegisterSave(p)
  BY <1>1 DEF RegisterSave, Begin
<1>2. CASE RegisterConfig(p)
  BY <1>2 DEF RegisterConfig, Return
<1>3. CASE UninstallLoad(p)
  BY <1>3 DEF UninstallLoad, Begin
<1>4. CASE UninstallOutput(p)
  BY <1>4 DEF UninstallOutput
<1>5. CASE UninstallCreds(p)
  BY <1>5 DEF UninstallCreds
<1>6. CASE UninstallBlock(p)
  BY <1>6 DEF UninstallBlock
<1>7. CASE UninstallState(p)
  BY <1>7 DEF UninstallState, Return, ZeroState
<1> QED
  BY <1>1, <1>2, <1>3, <1>4, <1>5, <1>6, <1>7 DEF RegisterCommand, Uninstall

\* What the program does not control keeps it too: it leaves state.json and the
\* record an init owes alone, or is remembered.
LEMMA EventAlone ==
  ASSUME TypeOK, AloneInv,
         SourceChanges \/ OutputTampered \/ StateDamaged \/ \E p \in Process : Interrupt(p)
  PROVE  AloneInv'
<1> USE DEF TypeOK, PC, State, AloneInv, CommandInv, Loaded, Recording, files, locals
<1>1. CASE SourceChanges \/ OutputTampered \/ StateDamaged
  BY <1>1 DEF SourceChanges, OutputTampered, StateDamaged
<1>2. ASSUME NEW p \in Process, Interrupt(p) PROVE AloneInv'
  BY <1>2 DEF Interrupt, Return
<1> QED
  BY <1>1, <1>2

\* AloneInv holds throughout.
LEMMA AloneInvariant == Spec => []AloneInv
<1>1. Init => AloneInv
  BY DEF Init, AloneInv, CommandInv, Loaded
<1>2. TypeOK /\ AloneInv /\ [Next]_vars => AloneInv'
  <2>1. ASSUME AloneInv, UNCHANGED vars PROVE AloneInv'
    BY <2>1 DEF AloneInv, CommandInv, vars, files, locals
  <2>2. ASSUME TypeOK, AloneInv, Next PROVE AloneInv'
    <3>1. CASE \E p \in Process : Sync(p) \/ Interrupt(p)
      BY <2>2, <3>1, SyncAlone, EventAlone
    <3>2. CASE \E p \in Process : InitCommand(p) \/ RegisterCommand(p) \/ Uninstall(p)
      BY <2>2, <3>2, InitAlone, OthersAlone
    <3> QED
      BY <2>2, <3>1, <3>2, EventAlone DEF Next
  <2> QED
    BY <2>1, <2>2
<1> QED
  BY <1>1, <1>2, TypeCorrect, PTL DEF Spec

\* A block in the rc file is on record in state.json, or an init is about to
\* record it, as long as commands run one at a time, state.json is left alone
\* and no init stops between its two writes.
THEOREM BlockRecorded == Spec => []BlockIsOnRecord
<1>1. AloneInv => BlockIsOnRecord
  BY DEF AloneInv, CommandInv, Recording, BlockIsOnRecord
<1> QED
  BY <1>1, AloneInvariant, PTL

\* Unless commands overlap, config.yaml is pointed at a server only when the
\* token is on disk (Register, the order of its two saves).
THEOREM RegistrationOrdered == Spec => RegistrationIsUsable
<1> DEFINE Ordered == config # "server" /\ config' = "server" /\ ~disturbed => creds'
<1>1. ASSUME AloneInv, [Next]_vars PROVE Ordered
  <2>1. ASSUME NEW p \in Process, RegisterConfig(p) PROVE Ordered
    BY <1>1, <2>1 DEF RegisterConfig, AloneInv, CommandInv
  <2>2. ASSUME NEW p \in Process, RegisterSave(p) \/ Sync(p) \/ Uninstall(p) \/ Interrupt(p)
        PROVE  Ordered
    BY <2>2 DEF RegisterSave, Sync, SyncResolve, SyncLoad, SyncSkip, SyncApply, SyncSave,
       Uninstall, UninstallLoad, UninstallOutput, UninstallCreds, UninstallBlock,
       UninstallState, Interrupt, files
  <2>3. ASSUME NEW p \in Process, InitCommand(p) PROVE Ordered
    BY <2>3 DEF InitCommand, InitBegin, InitSkippingSync, InitConfig, InitDecline, InitAdd,
       InitLoad, InitSave, files
  <2>4. CASE SourceChanges \/ OutputTampered \/ StateDamaged \/ UNCHANGED vars
    BY <2>4 DEF SourceChanges, OutputTampered, StateDamaged, vars, files
  <2> QED
    BY <1>1, <2>1, <2>2, <2>3, <2>4 DEF Next, RegisterCommand
<1>2. AloneInv /\ [Next]_vars => [Ordered]_vars
  BY <1>1
<1> QED
  BY <1>2, AloneInvariant, PTL DEF Spec, RegistrationIsUsable

\* UninstallRemovesBlock holds as long as commands run one at a time, state.json
\* is left alone and no init stops between its two writes: an uninstall that is
\* past the rc file has left no block in it.
THEOREM UninstallCleans ==
  Spec => [](~disturbed => UninstallRemovesBlock)
<1>1. AloneInv => (~disturbed => UninstallRemovesBlock)
  BY DEF AloneInv, CommandInv, UninstallRemovesBlock
<1> QED
  BY <1>1, AloneInvariant, PTL

-----------------------------------------------------------------------------
(* The parts side by side. *)

\* A step of Device is one of each part, or leaves it as it is. A source that
\* resolves for nobody is a sync that fails before it replaces the file.
LEMMA StepOfParts ==
  [DeviceNext]_deviceVars =>
    [Next]_vars /\ [AliasNext]_aliasVars /\ [RcNext]_rcVars /\ [EnrollNext]_enrollVars
<1> SUFFICES ASSUME [DeviceNext]_deviceVars
             PROVE  [Next]_vars /\ [AliasNext]_aliasVars /\ [RcNext]_rcVars /\ [EnrollNext]_enrollVars
  OBVIOUS
<1>1. CASE Commands
  BY <1>1 DEF Commands
<1>2. CASE Sources
  BY <1>2 DEF Sources, SourcesNext, AliasNext, SyncFails, Resolves
<1>3. CASE Shells
  BY <1>3 DEF Shells
<1>4. CASE RcFiles
  BY <1>4 DEF RcFiles
<1>5. CASE Enrollments
  BY <1>5 DEF Enrollments
<1>6. CASE UNCHANGED deviceVars
  BY <1>6 DEF deviceVars
<1> QED BY <1>1, <1>2, <1>3, <1>4, <1>5, <1>6 DEF DeviceNext

\* A behaviour of Device is a behaviour of each part, fairness included.
THEOREM PartsAreThemselves == DeviceSpec => Spec /\ AliasSpec /\ RcSpec /\ EnrollSpec
<1>1. DeviceInit => Init /\ AliasInit /\ RcInit /\ EnrollInit
  BY DEF DeviceInit, AliasInit
<1> QED BY <1>1, StepOfParts, PTL DEF DeviceSpec, Spec, AliasSpec, RcSpec, EnrollSpec

\* ... and so of the sources.
LEMMA SourcesAreThemselves == DeviceSpec => SourcesSpec
<1>1. AliasSpec => SourcesSpec
  BY StepOfSources, PTL DEF AliasSpec, AliasInit, SourcesSpec
<1> QED BY <1>1, PartsAreThemselves, PTL

\* Every variable of every part keeps its type.
THEOREM DeviceTypeCorrect == DeviceSpec => []DeviceTypeOK
BY PartsAreThemselves, SourcesAreThemselves, TypeCorrect, SourcesTypeCorrect,
   ShellsTypeCorrect, RcTypeCorrect, EnrollTypeCorrect, PTL DEF DeviceTypeOK

\* What the parts promise on their own they promise side by side: everything that is
\* checked of Device, but what must eventually happen.
THEOREM DeviceSafe ==
  DeviceSpec =>
    /\ [](BlockIsOnRecord /\ CurrentUnlessBranch /\ OneBadAliasStopsNoOther /\ NoLeftovers
           /\ SyncSettles /\ ImportReadsTheUsers /\ OneDeviceUnlessLeft)
    /\ RegistrationIsUsable /\ StaleWasCurrent /\ UnrelatedAliasesAreKept /\ UninstallGivesBack
    /\ RegisterKeepsWorkingToken /\ TicketsAdmitOnce /\ PageTellsItsTruth
<1>1. DeviceSpec => /\ []BlockIsOnRecord
                    /\ RegistrationIsUsable
  BY PartsAreThemselves, BlockRecorded, RegistrationOrdered
<1>2. DeviceSpec => /\ []CurrentUnlessBranch /\ []OneBadAliasStopsNoOther
                    /\ StaleWasCurrent
  BY SourcesAreThemselves, SourcesCurrent, OneBadAliasSafe, StaleSafe
<1>3. DeviceSpec => /\ []NoLeftovers /\ []SyncSettles
                    /\ UnrelatedAliasesAreKept
  BY PartsAreThemselves, NothingLeftOver, RepeatedSyncSettles, UsersAliasesKept
<1>4. DeviceSpec => /\ []ImportReadsTheUsers
                    /\ UninstallGivesBack
  BY PartsAreThemselves, ImportIsSafe, UninstallIsClean
<1>5. DeviceSpec => /\ []OneDeviceUnlessLeft
                    /\ RegisterKeepsWorkingToken /\ TicketsAdmitOnce /\ PageTellsItsTruth
  BY PartsAreThemselves, OneDeviceSafe, WorkingTokenKept, TicketsRefined, PageTruthful
<1> QED BY <1>1, <1>2, <1>3, <1>4, <1>5, PTL

=============================================================================
