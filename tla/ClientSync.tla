------------------------------ MODULE ClientSync ------------------------------
(***************************************************************************)
(* The device: the commands init, register, sync, watch and uninstall, and *)
(* the files they share without a lock: config.yaml, credentials.json,     *)
(* state.json, the generated aliases file and the user's rc file.          *)
(*                                                                         *)
(* Code: internal/app/{init,register,sync,uninstall,context}.go, internal/  *)
(* {state,apply}, cmd/aliasdeck/watch.go and the LaunchAgent of            *)
(* internal/app/agent.go.                                                  *)
(*                                                                         *)
(* Each file is replaced by one rename, so a read or a write of a file is  *)
(* one action; a command is several of them, it may die between any two,   *)
(* and commands of other processes run in between. A read that only        *)
(* decides whether the very next write is made is one action with it.      *)
(*                                                                         *)
(* What a configuration renders to is identified with the configuration:   *)
(* its revision and the hash of its rendered file are one value here.      *)
(***************************************************************************)
EXTENDS Naturals

CONSTANTS Content,   \* what the source may resolve to, for this device
          Edited,    \* a generated file that somebody edited by hand
          None,      \* no file, no value
          Process,   \* processes that run commands
          Watcher,   \* the one the LaunchAgent keeps alive, running watch
          MaxEvents  \* bound on the events outside the program's control

ASSUME ValueAssumption == /\ Edited \notin Content /\ None \notin Content
                          /\ Edited # None
ASSUME ProcessAssumption == Watcher \in Process
ASSUME EventAssumption == MaxEvents \in Nat

VARIABLES
  content,   \* what the source resolves to now
  config,    \* config.yaml: none, or one with a file or a server source
  creds,     \* credentials.json holds a device token
  out,       \* the generated file
  st,        \* state.json as Load reads it
  rc,        \* the rc file has the AliasDeck block
  pc,        \* where each process is
  initing,   \* processes whose sync is the initial sync of init
  res,       \* the configuration a process has resolved
  prev,      \* the state a process has loaded
  events     \* how many events outside the program's control there were

\* History: commands overlapped, state.json was damaged, or an init stopped
\* between its write to the rc file and its record of it.
VARIABLE disturbed

files == <<config, creds, out, st, rc>>
locals == <<pc, initing, res, prev>>
vars == <<content, files, locals, events, disturbed>>

-----------------------------------------------------------------------------

\* A missing or corrupt state.json.
ZeroState == [rev |-> None, hash |-> None, boot |-> FALSE]

State == [rev : Content \cup {None}, hash : Content \cup {None}, boot : BOOLEAN]

PC == {"idle", "sync.load", "sync.decide", "sync.save", "init.add", "init.load",
       "init.save", "register.config", "un.output", "un.creds", "un.block", "un.state"}

TypeOK ==
  /\ content \in Content
  /\ config \in {"none", "file", "server"}
  /\ creds \in BOOLEAN
  /\ out \in Content \cup {Edited, None}
  /\ st \in State
  /\ rc \in BOOLEAN
  /\ pc \in [Process -> PC]
  /\ initing \subseteq Process
  /\ res \in [Process -> Content \cup {None}]
  /\ prev \in [Process -> State]
  /\ events \in 0 .. MaxEvents
  /\ disturbed \in BOOLEAN
  /\ \A p \in Process : pc[p] \in {"sync.load", "sync.decide", "sync.save"} => res[p] # None

Init ==
  /\ content \in Content
  /\ config = "none"
  /\ creds = FALSE
  /\ out = None
  /\ st = ZeroState
  /\ rc = FALSE
  /\ pc = [p \in Process |-> "idle"]
  /\ initing = {}
  /\ res = [p \in Process |-> None]
  /\ prev = [p \in Process |-> ZeroState]
  /\ events = 0
  /\ disturbed = FALSE

\* resolveSource: a server source needs a device token.
SourceOpens == config # "server" \/ creds

\* loadDeviceContext: config.yaml must exist, and its source must open.
Usable == config # "none" /\ SourceOpens

\* The process ends its command.
Return(p) ==
  /\ pc' = [pc EXCEPT ![p] = "idle"]
  /\ initing' = initing \ {p}
  /\ res' = [res EXCEPT ![p] = None]
  /\ prev' = [prev EXCEPT ![p] = ZeroState]

\* A command starts, beside others or alone.
Begin(p, l) ==
  /\ pc[p] = "idle"
  /\ pc' = [pc EXCEPT ![p] = l]
  /\ disturbed' = (disturbed \/ \E q \in Process : pc[q] # "idle")

\* After its initial sync an init goes on to the rc file.
SyncDone(p) ==
  IF p \in initing
  THEN /\ pc' = [pc EXCEPT ![p] = "init.add"]
       /\ initing' = initing \ {p}
       /\ res' = [res EXCEPT ![p] = None]
       /\ prev' = [prev EXCEPT ![p] = ZeroState]
  ELSE Return(p)

-----------------------------------------------------------------------------
(* sync, by hand or from watch. *)

\* Source.Resolve. A source that cannot be resolved ends the command with
\* nothing changed, and is no step.
SyncResolve(p) ==
  /\ Usable
  /\ Begin(p, "sync.load")
  /\ res' = [res EXCEPT ![p] = content]
  /\ UNCHANGED <<content, files, initing, prev, events>>

SyncLoad(p) ==
  /\ pc[p] = "sync.load"
  /\ pc' = [pc EXCEPT ![p] = "sync.decide"]
  /\ prev' = [prev EXCEPT ![p] = st]
  /\ UNCHANGED <<content, files, initing, res, events, disturbed>>

\* Mutant: the revision alone decides.
UnchangedByRevision(p) == prev[p].rev = res[p]

\* The recorded revision, the recorded hash and the file on disk all agree
\* with what was resolved.
UnchangedSince(p) ==
  /\ prev[p].rev = res[p]
  /\ prev[p].hash = res[p]
  /\ out = prev[p].hash

\* "No-Op Skip When Unchanged": no file is touched.
SyncSkip(p) ==
  /\ pc[p] = "sync.decide"
  /\ UnchangedSince(p)
  /\ SyncDone(p)
  /\ UNCHANGED <<content, files, events, disturbed>>

\* Backend.Apply: the rename that replaces the generated file.
SyncApply(p) ==
  /\ pc[p] = "sync.decide"
  /\ ~UnchangedSince(p)
  /\ out' = res[p]
  /\ pc' = [pc EXCEPT ![p] = "sync.save"]
  /\ UNCHANGED <<content, config, creds, st, rc, initing, res, prev, events, disturbed>>

\* Mutant: the record of the block is not carried over.
SyncSaveForgetting(p) ==
  /\ pc[p] = "sync.save"
  /\ st' = [rev |-> res[p], hash |-> res[p], boot |-> FALSE]
  /\ SyncDone(p)
  /\ UNCHANGED <<content, config, creds, out, rc, events, disturbed>>

\* state.Save, with the record of the block that was loaded before the apply.
SyncSave(p) ==
  /\ pc[p] = "sync.save"
  /\ st' = [rev |-> res[p], hash |-> res[p], boot |-> prev[p].boot]
  /\ SyncDone(p)
  /\ UNCHANGED <<content, config, creds, out, rc, events, disturbed>>

-----------------------------------------------------------------------------
(* init. *)

\* config.yaml is created, with a file source, if it is missing.
InitConfig ==
  /\ SourceOpens
  /\ config' = IF config = "none" THEN "file" ELSE config

\* The initial sync resolves the source ...
InitBegin(p) ==
  /\ InitConfig
  /\ Begin(p, "sync.load")
  /\ initing' = initing \cup {p}
  /\ res' = [res EXCEPT ![p] = content]
  /\ UNCHANGED <<content, creds, out, st, rc, prev, events>>

\* ... or is skipped, with --skip-initial-sync.
InitSkippingSync(p) ==
  /\ InitConfig
  /\ Begin(p, "init.add")
  /\ UNCHANGED <<content, creds, out, st, rc, initing, res, prev, events>>

\* --no-bootstrap, or the user declines, or the rc file has a block already.
InitDecline(p) ==
  /\ pc[p] = "init.add"
  /\ Return(p)
  /\ UNCHANGED <<content, files, events, disturbed>>

\* AddBootstrap appends the block unless one is there.
InitAdd(p) ==
  /\ pc[p] = "init.add"
  /\ ~rc
  /\ rc' = TRUE
  /\ pc' = [pc EXCEPT ![p] = "init.load"]
  /\ UNCHANGED <<content, config, creds, out, st, initing, res, prev, events, disturbed>>

\* recordBootstrap loads state.json ...
InitLoad(p) ==
  /\ pc[p] = "init.load"
  /\ pc' = [pc EXCEPT ![p] = "init.save"]
  /\ prev' = [prev EXCEPT ![p] = st]
  /\ UNCHANGED <<content, files, initing, res, events, disturbed>>

\* ... and saves it with the block.
InitSave(p) ==
  /\ pc[p] = "init.save"
  /\ st' = [prev[p] EXCEPT !.boot = TRUE]
  /\ Return(p)
  /\ UNCHANGED <<content, config, creds, out, rc, events, disturbed>>

-----------------------------------------------------------------------------
(* register, once the server has answered with a device token. *)

\* Mutant: config.yaml is written first.
RegisterSaveConfigFirst(p) ==
  /\ config # "none"
  /\ Begin(p, "register.config")
  /\ config' = "server"
  /\ UNCHANGED <<content, creds, out, st, rc, initing, res, prev, events>>

\* The token is saved ...
RegisterSave(p) ==
  /\ config # "none"
  /\ Begin(p, "register.config")
  /\ creds' = TRUE
  /\ UNCHANGED <<content, config, out, st, rc, initing, res, prev, events>>

\* ... and only then config.yaml is pointed at the server, which may have other
\* aliases for the device than the file it had.
RegisterConfig(p) ==
  /\ pc[p] = "register.config"
  /\ content' \in IF config = "file" THEN Content ELSE {content}
  /\ config' = "server"
  /\ Return(p)
  /\ UNCHANGED <<creds, out, st, rc, events, disturbed>>

-----------------------------------------------------------------------------
(* uninstall. *)

UninstallLoad(p) ==
  /\ Usable
  /\ Begin(p, "un.output")
  /\ prev' = [prev EXCEPT ![p] = st]
  /\ UNCHANGED <<content, files, initing, res, events>>

UninstallOutput(p) ==
  /\ pc[p] = "un.output"
  /\ out' = None
  /\ pc' = [pc EXCEPT ![p] = "un.creds"]
  /\ UNCHANGED <<content, config, creds, st, rc, initing, res, prev, events, disturbed>>

UninstallCreds(p) ==
  /\ pc[p] = "un.creds"
  /\ creds' = FALSE
  /\ pc' = [pc EXCEPT ![p] = "un.block"]
  /\ UNCHANGED <<content, config, out, st, rc, initing, res, prev, events, disturbed>>

\* RemoveBootstrap, only if the loaded state records a block.
UninstallBlock(p) ==
  /\ pc[p] = "un.block"
  /\ rc' = (rc /\ ~prev[p].boot)
  /\ pc' = [pc EXCEPT ![p] = "un.state"]
  /\ UNCHANGED <<content, config, creds, out, st, initing, res, prev, events, disturbed>>

UninstallState(p) ==
  /\ pc[p] = "un.state"
  /\ st' = ZeroState
  /\ Return(p)
  /\ UNCHANGED <<content, config, creds, out, rc, events, disturbed>>

-----------------------------------------------------------------------------
(* What the program does not control: at most MaxEvents of these. *)

Event == events < MaxEvents /\ events' = events + 1

\* Somebody edits the aliases.
SourceChanges ==
  /\ Event
  /\ content' \in Content \ {content}
  /\ UNCHANGED <<files, locals, disturbed>>

\* Somebody edits or deletes the generated file.
OutputTampered ==
  /\ Event
  /\ out' \in {Edited, None}
  /\ UNCHANGED <<content, config, creds, st, rc, locals, disturbed>>

\* state.json is deleted or damaged, and Load reads the zero state.
StateDamaged ==
  /\ Event
  /\ st' = ZeroState
  /\ disturbed' = TRUE
  /\ UNCHANGED <<content, config, creds, out, rc, locals>>

\* A command fails or its process dies: no step is undone.
Interrupt(p) ==
  /\ Event
  /\ pc[p] # "idle"
  /\ Return(p)
  /\ disturbed' = (disturbed \/ pc[p] \in {"init.load", "init.save"})
  /\ UNCHANGED <<content, files>>

-----------------------------------------------------------------------------

\* The steps of a sync, as watch repeats it.
Sync(p) == SyncResolve(p) \/ SyncLoad(p) \/ SyncSkip(p) \/ SyncApply(p) \/ SyncSave(p)

InitCommand(p) ==
  \/ InitBegin(p) \/ InitSkippingSync(p)
  \/ InitDecline(p) \/ InitAdd(p) \/ InitLoad(p) \/ InitSave(p)

RegisterCommand(p) == RegisterSave(p) \/ RegisterConfig(p)

Uninstall(p) ==
  \/ UninstallLoad(p) \/ UninstallOutput(p) \/ UninstallCreds(p)
  \/ UninstallBlock(p) \/ UninstallState(p)

Next ==
  \/ \E p \in Process : Sync(p) \/ Interrupt(p)
  \/ \E p \in Process \ {Watcher} : InitCommand(p) \/ RegisterCommand(p) \/ Uninstall(p)
  \/ SourceChanges \/ OutputTampered \/ StateDamaged

\* The agent keeps the watcher alive (KeepAlive), its loop comes back to a sync
\* after every interval, whatever failed, and a sync runs on its own.
Fairness == WF_vars(Sync(Watcher))

Spec == Init /\ [][Next]_vars /\ Fairness

-----------------------------------------------------------------------------
(* Properties. *)

\* Uninstall can undo what init did: as long as commands run one at a time,
\* state.json is left alone and no init stops between its two writes, a block
\* in the rc file is on record, whatever syncs, failures and repeated inits
\* there were (State.Bootstrap, carried over by every sync).
BlockIsOnRecord ==
  ~disturbed /\ rc => \/ st.boot
                      \/ \E p \in Process : pc[p] \in {"init.load", "init.save"}

\* Once nobody uninstalls and the commands are usable, the watcher brings the
\* generated file to what the source resolves to, and it stays there: whatever
\* was interrupted, damaged or edited by hand before, and in whatever order a
\* slow command by hand still writes what it resolved earlier.
EventuallyCurrent ==
  <>[](Usable /\ \A p \in Process : pc[p] \notin {"un.output", "un.creds", "un.block", "un.state"})
    => <>[](out = content)

\* Unless commands overlap, config.yaml is never pointed at a server with no
\* token on disk to reach it with, wherever a registration stopped (Register,
\* "Ordering is the whole safety property here").
RegistrationIsUsable ==
  [][config # "server" /\ config' = "server" /\ ~disturbed => creds']_vars

\* native-apply's "remove exactly the sentinel-marked bootstrap block": when an
\* uninstall has dealt with the rc file, the block is not in it.
UninstallRemovesBlock ==
  \A p \in Process : pc[p] = "un.state" => ~rc

=============================================================================
