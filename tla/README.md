# AliasDeck in TLA+

AliasDeck keeps shell aliases in one place and delivers them to devices. A Go
server (REST API, web panel, SQLite) holds the aliases, the groups they are
aimed at and the devices; a Go client on each device resolves the aliases from
a file, a git repository or the server, renders them into a generated file,
and hooks that file into the user's shell start-up file.

This directory specifies what the two programs do, checks it with TLC on small
instances and proves the central facts with TLAPS for instances of any size.

    OneTimeEnrollment         what is promised about enrollment tokens
    DeviceCredentials         enroll, revoke, rotate, delete; audit log     (server)
    AliasDelivery             targeting, cascades, syncs, web edits         (server)
    OperatorSessions          login, logout, password reset                 (server)
    FirstRunSetup             how the first operator comes to be            (server)
    ClientSync                init, register, sync, watch, uninstall        (client)
    AliasDocument             parse, resolve, filter, render a list         (client)
    AliasSources              file, git, server; the cached checkout        (client)
    ShellAliases              the generated file and the shells that use it (client)
    RcBlock                   the bytes of the block in the rc file         (client)
    Enrollment                one machine's credential, one page's wait     (both)
    Device                    the client's modules side by side
    *_proofs                  the theorems, with proofs: ShellAliases_proofs has those
                              about AliasSources and AliasDocument too, and
                              Device_proofs those about ClientSync
    MC*                       the instances TLC checks, one .cfg per question

Run `tlc -config delivery.cfg MCAliasDelivery.tla`, and
`tlapm AliasDelivery_proofs.tla`, for instance. `PROJECT.json` lists the runs, for each
definition the lines of the code it models, and for each property a plausible
bug that would break it.


## 1. The system

### Server

One process. `net/http` runs a goroutine per request; API handlers are cut
short after 20 s by `http.TimeoutHandler` (`api/router.go:210`). The store is
SQLite behind a pool of one connection, so a statement, or a transaction, is
atomic, and nothing is held from one statement of a handler to the next. That
is the grain of the server models: **one action per store call**.

| Component | State | Operations | What makes it correct |
|---|---|---|---|
| Device credentials | `tokens` (enrollment, device), `devices`, `audit_events` | mint an enrollment token, register, revoke, rotate, delete, from API and web | a token admits one device, once, before it expires; what an operator revoked stays dead; at most one credential; the audit log is true |
| Alias targeting and delivery | `aliases`, `profiles` (groups), `devices`, three join tables, `last_sync_at` | CRUD from API and web, `GET /sync` | a device is served what is aimed at it; deletes leave nothing dangling and do not widen reach; an edit keeps what its form hides |
| Operator sessions | `operators`, session tokens, the password limiter | login, logout, password reset, change | a reset ends every session; at most four password hashes at once; a slot is always given back |
| First-run setup | credential file, its `.lock`, local setup tokens | set up in a browser, bootstrap from the environment | one operator, made once; a crash does not lock the owner out |
| Device activity | `last_seen_at`, the enrollment tracker | heartbeat, touch, status polling | a page says of a machine what is true of the one that used its ticket, and stops waiting |
| Store and migrations | schema version | migrate, open | never run on a newer schema |
| Routing, configuration, web presentation | none that outlives a request | | |

### Client

Short-lived commands, and one long-lived `watch`, kept alive by a LaunchAgent
(`app/agent.go:182`), which repeats a sync after an interval. They share files,
without a lock: `config.yaml`, `credentials.json`, `state.json`, the
generated file and the user's rc file. Each write replaces a file by a rename,
so **a read or a write of a file is one action**; a command is several, and may
die between any two.

| Component | State | Operations | What makes it correct |
|---|---|---|---|
| Client commands and files | the five files | init, register, sync, watch, uninstall | the generated file becomes what the source says; uninstall removes what init added; config.yaml never names a server there is no token for |
| Registration and credentials | `credentials.json` | register (exchange, adopt, force), login, uninstall | a token that works is not overwritten; one machine is one device |
| Sources | git checkout cache | resolve from a file, git, the server | a stale answer says so |
| Validation and filtering | none | `ParseAliases`, `FilterValid`, the renderers' guard | what passes renders; what fails takes nothing else with it |
| Renderers, legacy migration | generated file, its marker, the shells' aliases | render, migrate, carry forward, source, reload | shells lose the aliases that went and keep the user's |
| rc bootstrap block | rc file | add, find, remove, read past | remove undoes add, byte for byte; the user's lines stay |
| Importers, detection, read-only commands | none | | |

### How the parts meet

* A registration presents an enrollment token (minted by an operator) and gets
  a device token; `GET /sync` authenticates with it and then reads the rows
  targeting is made of. Deleting a device touches both components: its tokens
  first, by a statement of their own since `tokens.subject_id` has no foreign
  key, then its row, whose join rows cascade.
* A registration puts a device in the groups its token names: that is
  `RegisterConsume` in DeviceCredentials and `EnrollDevice` in AliasDelivery,
  two views of one transaction.
* The client sees the server as a source: what `AliasDelivery` serves is
  `content` in ClientSync.
* What a source answers is filtered and rendered, and the renderer may refuse it;
  what is rendered replaces the generated file, and shells take it up when they
  source it: a chain of three modules, each extending the one before
  (AliasDocument, AliasSources, ShellAliases).
* An enrollment is seen from three sides: the server's rows (DeviceCredentials),
  the operator's page and the machine's commands (both in Enrollment, in which
  a request to the server is one action).
* API and web write the same tables by the same store calls. Where their
  handlers make the same calls there is one action for both.

### What is hard here

Handlers of several calls that interleave; reads in several statements;
foreign-key cascades whose result means something (an empty list of groups
means *everywhere*); requests that stop anywhere; files that two processes
load, change and save; crashes between a write and its record. `PROJECT.json`
lists each such hazard at its line.


## 2. The models

### OneTimeEnrollment and DeviceCredentials

`OneTimeEnrollment` is the abstract specification: tickets that are issued,
redeemed once for one new member, or lapse. DeviceCredentials implements it one store call at a
time, Enrollment with the machines that use the tickets (`TicketsAdmitOnce`).

`DeviceCredentials` has the two tables and the audit log as variables (`device`
for the rows of `devices`; `kind`, `subject`, `expires`, `used`, `revoked` for
the columns of `tokens`), and per request a label `pc` that names what the
handler is about to do and the device it works on. Handlers:

| Action | Store call |
|---|---|
| `MintEnrollment` | `Tokens().Create`, kind enrollment |
| `RegisterConsume`, `RegisterIssue` | `ConsumeEnrollment` (one transaction), `Tokens().Create` |
| `RevokeRow`, `RevokeTokens` | `Devices().Revoke`, `Tokens().RevokeSubject` |
| `RotateGet`, `RotateRevoke`, `RotateIssue` | `Devices().Get`, `RevokeSubject`, `Create` |
| `DeleteTokens`, `DeleteRow`, `DeleteMissing` | `RevokeSubject`, `Devices().Delete` (found or not) |
| `AppendAudit` | the audit event, after the writes |
| `Abort` | an error, the timeout, a hang-up or a crash: the rest does not happen |

A request that is refused writes nothing and is not an action. The history
variables `prior` and `contended` remember the tokens a handler found when it
began, and the devices on which two handlers were in flight together.

Left out: token secrets and hashes (a lookup is a token), labels, the groups of
a registration (AliasDelivery has them), touches.

### AliasDelivery

`alias`, `profile`, `device` are the rows, three sets of pairs are the join
tables, `synced` is `last_sync_at`. Writes are single actions (each is one
statement or transaction in the code). Two handlers read in pieces and are
modelled in pieces: `GET /sync` (`SyncDevice`, `SyncProfiles`, `SyncList`, then
`SyncAliasProfiles` and `SyncAliasPins` per alias, `SyncTouch`) and the web's edit form
(`EditGet`, `EditPins`, `EditWrite`). An empty set of groups or pins targets
everything, as in `domain/alias.go`. `touched` and `deserved` are history: the
aliases others wrote since a handler began, and those that applied to its device at some
moment since.

Left out: names, commands and their validation (a request whose body is refused
writes nothing); platform and shell filters, which are one bit with
`enabled`, since they are fixed columns of the same row; renames.

### OperatorSessions

A login reads the hash, takes one of the limiter's slots (or is refused at
once), verifies, gives the slot back and creates a session; API and web make
the same calls on the same limiter. `ResetUpdate` and `ResetRevoke` are the two
store calls of `reset-password`, a process of its own. `hash` counts resets and
stands for the hash itself, `inUse` is the length of the limiter's channel.
History: `opened` (the hash a session's password was verified against),
`owing` (operators with a new hash and sessions not revoked yet), `raced`
(operators whose password was reset beside a login).

Left out: the 24 hours after which a session expires, which only takes away
what is live; cookies and CSRF; the delivery of a generated password.

### FirstRunSetup

`cred` and `lock` are the two files, `table` and `expiry` the tracker of page
tokens, `up` the process. A submitted form goes through `SetupEnabled`,
`SetupLock`, `SetupCount`, `SetupCreate`, `SetupConsume`, `SetupUnlock`, and
leaves by `SetupRefused`, `SetupDisabled` or `SetupFail`. `Crash` loses what is
in memory and every deferred removal; a start then goes by the environment
(`StartWithPassword`, `StartWithSetup`).

Left out: a second server process on the same database; who may see the page
without a credential (a check of one request, without state).

### ClientSync

`config`, `creds`, `out`, `st`, `rc` are the five files. Content is a small set;
the revision of a configuration and the hash of its rendered file are
identified with it. A process is at a label of one command; `res` is what it
resolved and `prev` the state it loaded. `Interrupt`, `SourceChanges`,
`OutputTampered` and `StateDamaged` are what the program does not control, at
most `MaxEvents` of them in a behaviour.

`disturbed` is history: commands overlapped, state.json was damaged, or an init
stopped between writing the rc file and recording it. The two properties that
mention it hold as long as that has not happened, and the violation run
`bootstrap_lost` shows that the first of them needs it.

Left out: the contents of the rc file besides the block (RcBlock has them); a
legacy file's backup; printing; the git cache, removed by uninstall in the same
step as nothing else reads it.

### AliasDocument

No variables: what happens to a list of aliases on its way to a shell, as
operators. A list is a function on positions, and each step keeps a set of
positions: `Resolve` those for this device, `FilterValid` those whose name no
error carries, and the guard of the renderers (`Renders`) lets through a list
without errors. Two details of the code are kept since properties tell them
apart: an error is matched to aliases *by name*, so it takes all of
that name and none if it has no name; and PowerShell compares names without case
(`Fold`). The rules for names, commands and descriptions are one bit, `sound`.

### AliasSources

`source` and `gitRef` are the configuration, `upstream` what the origin holds,
`checkout` the cache directory (its local branch, its tracking branches, its worktree,
whether somebody edited it), `answer` what the last resolve said. `FileResolve` and
`ServerResolve` answer or fail. `GitResolve` has an outcome for each command that may fail:
`CloneAndReset`, `CloneFails` (nothing left, a half-made .git if the clone was
killed, or a whole one if only a later command failed), `FetchAndReset`, and `ServeStale`
(whatever fails once there is a checkout). `Target` is the one thing that must be known about
git: which name `reset --hard` resolves to what. `past` is history.

Left out: URLs and their checks, credentials in them, redirects and sizes (all
are failures); two resolves at once, as the cache is the sync's own and overlapping
commands are ClientSync's.

### ShellAliases

Extends AliasSources with `gen`, the generated file (its format, what it
defines, the names its migration marker carries, whether somebody edited it),
`rec`, the file that state.json has the hash of, and `shells`, the running
shells: their aliases, the names they keep in `ALIASDECK_MANAGED_ALIAS_NAMES`, zsh's prompt
hook. A sync is one action but for `SyncFailsToRecord`, its end between the file and
the record; one that fails before (`SyncFails`), after the source has answered or not, changes no
file. `Sourced` is what a file makes a shell do, per format and shell.
`Words` says that zsh, which does not split parameters, takes several
managed names for one word that is no alias.

Left out: quoting and layout; the server's platforms; shells that source the
file by hand (a shell does when it opens, at its prompt and after a sync run in
it).

### RcBlock

The rc file as `before \o block \o after`, sequences of tokens (line ends,
markers, lines), and `record`, the bytes on record. A crlf is one token: in the files and edits
modelled, bytes that were recorded with bare newlines never match half of one. The cut into three is for
the properties; the operators of `bootstrap.go` see only the whole file
(`BuildBlock`, `IndexOfLine`, `StripEol`, `MarkerScan`, `Removed`). The user
adds lines above and below, edits lines of the block, deletes its end, the blank line
above it or all of it, or changes the line ends. `Imported` is what the importer reads.

`UninstallGivesBack` has two exceptions, both of which TLC found. With the blank line above the block
deleted the recorded bytes still match one newline too early (`TakesUsersNewline`). And the scan for
an edited block goes by the first line that is an end marker (`indexOfLine`): where the user has one
above the block, it comes before the begin marker, nothing is removed, and the block stays (`Paired`).
What is given back of an edited block's surroundings is the user's lines and not their bytes: a blank
last line of theirs may go with the separator.

Left out: bytes inside a line; the file's mode; that a marker may be more than
one line's worth.

### Enrollment

The operator's page (`shown`, and `page` for the tracker's entries), the
tickets, the devices and their tokens as the server has them, and on the
machine `held`, the token in credentials.json, `elsewhere`, whether the server named
beside it is another than the token's, and `run`, where each register command is. A request is one
action, and so is one that stops between its writes; the store calls and their interleaving are DeviceCredentials'.

| Action | Code |
|---|---|
| `MintOnPage`, `Poll`, `Lapse` | the page that mints and polls; expiry |
| `ServerRestarts`, `SessionEnds` | the loss of the tracker, and of the session whose entries those were |
| `ExchangeBegins`, `ExchangeRefuses` | register's probe of the token on disk: refused as dead, accepted |
| `ExchangeForced`, `ExchangeMisled`, `ExchangeDenied` | not probed; probed at the wrong server; refused although it works, since the server failed to look it up and answers 401 (`auth/middleware.go:90`) |
| `ExchangePost`, `ExchangeLost`, `ExchangeFails` | the exchange: answered, answered to nobody, refused |
| `AdoptBegins`, `SavesKey` | adoption of a rotated token; the save |
| `Rotate`, `Revoke`, `Delete` | operators, whose requests come to their end |
| `StopsShort`, `RevokeStops` | the same, stopped after the first write: a rotate or a delete that has revoked the tokens (`api/devices.go:96-103`, `151-184`), a revoke that has marked the row |
| `MachineSyncs`, `ForgetsKey`, `LoginElsewhere`, `LoginHere` | the machine's other commands |

A command is `blind` when it goes on although the token on disk may work: forced, misled, denied, an
adoption that replaces a token, or beside another command. `left` is history: the devices the machine left behind, knowingly
or by a failure. A device comes into it when its own answer is lost, when a rotate (or a delete that
stops) takes its tokens, when a blind command writes over its token, and by uninstall; it leaves it when its token is
saved. `RegisterKeepsWorkingToken` exempts blind commands and `OneDeviceUnlessLeft` the devices in
`left`, one by one: what else happened on the machine exempts nothing.

Left out: polls of a session that did not mint the ticket, to which the tracker answers as it does after
a restart, and no page shows; the operator's session in the same file, and with it `logout`; that a login, or an
uninstall, that overlaps a save may write back the token it had read.

### Device

`Device` puts ClientSync, AliasSources, ShellAliases, RcBlock and Enrollment side by side. They
describe the same machine with each other's detail left out, and share no
variable, so a behaviour of their product would show nothing that one of
a part does not: `part` is chosen at the start, and the other parts stand still in one state.
Each part is also a specification of its own (`Spec`, `SourcesSpec`,
`AliasSpec`, `RcSpec`, `EnrollSpec`), about which the theorems are.


## 3. The runs

| Run | Question | Instance |
|---|---|---|
| `credentials` | Do the properties of credentials hold, whatever interleaves and fails? | 2 devices, 3 tokens, 2 requests, clock to 1 |
| `revoked_lockout` | Does revoking lock a device out? **No** | 1 device, 1 request |
| `rotation_window` | Is there never a second live token? **No** | 1 device, 2 requests |
| `delivery` | Do syncs and edits come out right beside every write? | 2 aliases, 1 group, 2 devices, 1 request, limit 2 |
| `torn_list` | Is what a sync serves ever aimed at its device? **No** | 1 alias, 1 group, 2 devices |
| `deleted_group` | Does deleting a group stop its aliases? **No** | 1 alias, 1 group, 1 device |
| `sessions` | Do slots come back, and does a reset end sessions? | 1 operator, 2 sessions, 3 requests, 2 slots, 2 resets |
| `reset_race` | Does a reset always end them? **No** | 1 session, 2 requests, 1 reset |
| `setup` | One operator, and an open setup until then? | 2 names, 3 page tokens for a table of 2, 2 forms |
| `client_sync` | Does each part of a device do what it promises, through crashes, failures and whatever its user does? | `Device`, see below; 1,039,163 states |
| `bootstrap_lost` | Does uninstall always remove the block? **No** | watcher and one other process |
| `frozen_branch` | Is what a resolve does not call stale current? **No** | 2 documents, 1 push |

`client_sync` has the bounds of its five parts:

| Part | Instance |
|---|---|
| commands | watcher and one other process, 2 contents, 2 events |
| sources | all sources and shells; documents of up to 4 aliases for a limit of 3, with repeats, names that differ by case, unsound and nameless entries, an unknown platform; 2 changes |
| shells | 1 shell of each kind, 3 names (one of them also the user's), 2 files of the old format; 2 changes of the source, 2 mishaps |
| rc file | 9 files (empty, unterminated, blank last line, crlf, a begin or an end marker of the user's) and 4 edits or deaths |
| enrollment | 2 tickets (1 page), 2 devices, 3 tokens, 2 register commands, 2 mishaps |

**Why the bounds are enough.** Credentials: the longest story about one device
is mint, register, rotate, and that takes three tokens; a race takes two requests on one device,
and the second device shows that what happens to one leaves the other alone;
the clock needs the instant of the mint and the instant of expiry. Delivery: one
group and two devices make every shape of targeting (empty, one,
both, the other one); two aliases make one that is written and one that is
not; operators' writes are atomic and are not bounded by `Request`, so one request meets
every interleaving of writes. Sessions: three requests for two slots fill the
limiter; two resets overlap or follow each other. Setup: two forms race, three
tokens overflow the table, and the clock reaches the first expiry. Client: two processes make every overlap of two
commands; two events make an interrupted command, then a repair that is
itself interrupted or a change on top. Sources: a document has every kind of
flaw beside a sound alias it must not take with it; a push and an edit of the
checkout, or two pushes, come in any order with failing fetches. Shells: shells
do not affect one another, so one is enough; a migration, its loss
and a change of the aliases take two mishaps and a change. Rc files: four edits
are a death between file and record, and three changes around one block. Enrollment: a
machine needs two tickets to become two devices and three tokens to rotate one of them; two
register commands overlap, and two mishaps are, say, a rotation and a lost answer. Deadlock is checked in the client
model. In the server models it is not: once every id is drawn there is nothing
left to ask for.

`delivery` uses a view without `deserved`, which only `torn_list` reads, and
symmetry, which its properties (all safety) permit. `client_sync`, with
liveness, uses neither.

**Fairness.** In OperatorSessions, `WF_vars(Verify(r))`: a password
verification is plain computation, asks no context, and comes to its end. In
ClientSync, `WF_vars(Sync(Watcher))`: the agent
restarts the watcher whenever it exits (KeepAlive), its loop comes back to a
sync after each interval, errors or not, and a sync that has begun runs. No
command by hand is fair: each may stop half-way forever. In
ShellAliases, `WF_aliasVars(Prompt(s))`: in a zsh that is used the prompt comes
back, and precmd with it. In Enrollment, `WF_enrollVars(Poll(t))` and
`WF_enrollVars(Lapse(t))`: the page polls every 2 s while it waits
(`web/templates/device_mint_result.html:10`), and time passes; neither the
machine nor the operator has to do anything. The other models claim no liveness.

### What disagrees with the documentation

Seven statements of the code's own comments and texts are not what the code does;
each is a run that TLC ends with a trace.

1. `RevokedIsLockedOut`: rotating a revoked device is not refused and gives it
   a working token (`store/store.go:99`, `domain/device.go:29`).
2. `OneCredential`: there is a window with two live tokens when a rotation
   overlaps a registration or another rotation (`api/devices.go:136-140`).
3. `ServedWasTargeted`: `List` reads targeting in separate statements and may
   tear it (`store/store.go:31-34`).
4. `DeletedGroupStopsReaching`: an alias whose only group is deleted goes to
   every device (`web/i18n.go:77`).
5. `UninstallRemovesBlock`: a watcher's sync may save a state without the block that
   an init just recorded (`openspec/specs/native-apply/spec.md:53`).
6. `ResetEndsSessions`: a login in flight beside a reset opens a session with
   the old password after the reset has ended them all (`README.md:166`).
7. `NotStaleIsCurrent`: with `source.git.ref` the name of the default branch a
   push never reaches the device, and no resolve says that it is stale
   (`openspec/specs/config-source/spec.md:101`).

Others came to light while modelling. The models have them, and where a passing
property needs it, it exempts them by name; they have no run of their own.

* zsh does not split `$ALIASDECK_MANAGED_ALIAS_NAMES`: with two managed names or
  more, a zsh removes none of those that went (`renderers/posix.go:36`; `stuck`
  in `NoLeftovers`).
* A ref that names another branch than the default: the first resolve fails,
  leaves its clone, and the next serves the default branch as stale (`StaleWasCurrent`).
  A clone killed at its timeout leaves a .git on which every later resolve
  fails until somebody deletes it (`HalfCheckout`).
* bash's block only defines a function, so a new bash has no aliases until its
  first sync (`OpenShell`).
* A migration marker is carried on for good, and has each new shell remove the
  user's own aliases of those names (`Carry`, `ToRemove`).
* Two aliases of one name are both dropped, and in PowerShell a flawed alias takes a
  later one that differs by case (`Repeats`, `Blocked`).
* With the blank line above the block deleted, uninstall removes the newline of
  the user's own last line and reports an exact removal
  (`apply/bootstrap.go:14`; `TakesUsersNewline`). A block without its end has the importer skip
  all that follows (`Imported`), and a marker inside a line makes every init do nothing (`RcInitAgain`).
* The page calls an enrollment expired although the device enrolled in time, if
  it is polled after the expiry (`web/i18n.go:99`; `Verdict`). After a restart, or once the session that
  minted the token has ended, it polls 404 for good (`PageStopsWaiting` exempts it).
* login, which is to leave device tokens alone (`app/login.go:58`), writes its own server's
  URL beside one that may be another server's. The probe of a later register then asks
  the wrong server, takes its 401 for a dead token and replaces one that works
  (`app/register.go:367`; `ExchangeMisled`).
* The server answers 401 whenever the lookup of a token fails, a failed read of the store
  included (`auth/middleware.go:90-94`, `sqlitestore/tokens.go:51-55`); the client takes every 401 for
  a dead token (`source/server.go:246`), and register replaces one that works, though it means to
  treat a server that cannot tell as "still working" (`app/register.go:150-168`; `ExchangeDenied`).
* After a rotation, `register --token` finds the old token refused and enrolls the machine as a second
  device; so it does after a delete that stopped before the row. Two registers side by side overwrite one another's token
  (`left` and `blind` in Enrollment).
* A sync that dies between the file and its record, or a state.json that is lost, has the next sync drop the
  migration marker, for it is carried only from a file that is on record (`app/sync.go:82-90`, `150`); the
  old names then stay in the shells that have them (`SyncFailsToRecord`, `RecordLost`; `dropped` in `NoLeftovers`). A
  shell that has sourced two old files in turn keeps what only the earlier one had (`ShellsInit`).

The passing runs say how much holds all the same: at most one credential as
long as requests on a device do not overlap; exact delivery of every alias that
is not being written; no new reach except by losing a last target; no session of
an old password unless a login was in flight; the block on record as long as commands do not overlap;
a current answer from every source but a git one whose ref is the name of a branch.


## 4. The proofs

`DeviceCredentials_proofs` proves, for any sets of devices, tokens and requests,
any lifetime and any clock bound, from the assumptions of DeviceCredentials
(`DeviceAssumption`, `ClockAssumption`) only:

* `TypeCorrect`: `Spec => []TypeOK`.
* `NothingRestored`: the action property `NothingIsRestored`.
* `EnrollmentSafe`: `EnrollmentIntact`, by `EnrollmentInv`. The property is not inductive: that
  a token spent twice would bear a second device is excluded only because a subject is set
  on an enrollment token when it is spent and on no other occasion, and
  because an unborn device is nobody's subject; `EnrollmentInv` says so.
* `OneTimeRefined`: `Spec => OneTime!Spec`, the initial states and each action
  mapped to an abstract step or a stutter (the clock's tick maps to a `Lapse` of every ticket
  whose lifetime ends with it).
* `PriorTokensStayDead`: by `PriorInv`, which says of a handler at a later
  label what it found and what it revoked.
* `OneCredentialSafe`, `DeletedSafe`: by `ExclusiveInv`. On an uncontended
  device at most one handler writes, and what tokens are alive follows from
  the label it is at (none after a revocation, at most one otherwise).
* `AuditSafe`: by `AuditInv`. Each event is shown by the rows, and so is each event still owed by a
  handler that has made its writes.

`FirstRunSetup_proofs` proves, for any sets of names, page tokens and forms, any
bound on the table and any lifetime, from `AdminAssumption` and `TokenAssumption`:

* `OneOperatorSafe`, `SetupOpenSafe`, `OnceDone`: by `SetupInv`. Its centre is
  `LockInv`: the forms at a label of `Locked` are at most one, and then the
  .lock is there. `TableInv` adds what such a form knows: past the count and before
  the creation there is no operator yet. Neither fact is in the property:
  that a start puts no operator in between follows because a start needs a
  process that has died, and with it every form in flight.
* `PageTokenSafe`: by `TrackerInv`. A token missed from the table has expired, was spent, or
  was evicted; when it was evicted the table was full of others no older, and
  `NoOlderGrows` says that their number never falls again. This needs the finite
  sets and their cardinalities, not only the type.
* `TypeCorrect`, by both, the bound on the table coming from `TrackerInv`.

`OperatorSessions_proofs`, from the assumptions of OperatorSessions:

* `SlotsSafe`: `SlotsAreAccounted`, which with the bound of the type is
  inductive. One lemma for each way the number of verifications changes (`SlotTaken`,
  `SlotReleased`, `SlotsForgotten`) and one for the steps that leave it (`SlotSame`).
* `ResetSafe`: by `ResetInv`, which adds to the property what a login in flight
  has read: the hash that counts, or its operator is in `raced`.
* `TypeCorrect`.

`AliasDelivery_proofs`, for any number of aliases, groups, devices and requests:

* `Integrity`: `NothingDangles`, inductive with the types of the rows.
* `DeletionsNarrow`: `NothingElseDeletes` leaves the two deletions, `GroupDeletion` and
  `DeviceDeletion` say what each does to the lists of targets.
* `StableServed`, `EditSafe`: by `ReadInv`, which says of a handler at each
  label what it has read about an alias nobody wrote since (`SyncRead`,
  `EditRead`). A write spares such reads (`Spares`, `WroteSpares`): what it
  changed about an alias or the device's groups, it also put into `touched`.
* `TypeCorrect`, by way of one lemma per step on the locals of its handler.

`ShellAliases_proofs` has the theorems about AliasSources and AliasDocument, for any documents,
orders of names and number of edits, from the assumptions of those two:

* `SourcesCurrent`: `CurrentUnlessBranch`. An answer is current at the resolve
  that gives it by what `Target` names in a checkout just fetched.
* `StaleSafe`: `StaleWasCurrent`, by an invariant of the checkout: its worktree,
  unless it was edited, and its branches hold what the origin has held.
* `OneBadAliasSafe`: `OneBadAliasStopsNoOther`. It holds of every document and
  not only of those resolved: `FilterValid` leaves no two entries of one key, as the later of
  them would be a repeat of the earlier.
* `SourcesTypeCorrect`.

and about ShellAliases, for any number of shells, names and mishaps:

* `NothingLeftOver`: `NoLeftovers`, by `AliasInv`. Besides the property it says
  what a shell without a record has (the aliases of old files, which the marker
  names or which are `dropped`), and that the file and the record fit one another.
* `UsersAliasesKept`, `RepeatedSyncSettles`, `ShellsTypeCorrect`.

`RcBlock_proofs`, for any rc files without AliasDeck's own lines in them (`RcFileAssumption`) and any
number of edits and half-done commands. The operators of `bootstrap.go` search a sequence for the first
place that fits; none of them is recursive, so what each returns is a fact about the
least of a set of places (`FirstOfSome`, `LinesOf`, `KeptAboveIs`) and
about the words of what was put together (`WordsOf`, `WithoutParts`, `ThreeParts`).

* `RcInvariant`: `RcInv`. A file with a begin marker gets no block, so while there is a block or a
  record the only begin marker is the block's own. `BlockShape` and `RecordShape` say how far the user
  can bend what init wrote: above its marker the block has only line ends, and its end marker, if that
  is still there, is its last line. Neither is in the properties; without them the recorded bytes could match elsewhere than
  in the block, and the scan could stop short of its end.
* `UninstallIsClean`: `UninstallGivesBack`, one case for each of its three conjuncts. In the first, the
  record can only be found where the block is (`RecordInBlock`), but for `TakesUsersNewline`; in the second
  the first line that is an end marker is the block's (`EndInFile`, `ScanFindsBlock`); in the third
  neither search finds anything (`ScanFindsNothing`).
* `ImportIsSafe`: `ImportReadsTheUsers` follows from `RcInv` (`BlockIsSkipped`), word by word: above the
  block, in it, and below it, where the block's end has closed every marker before it.
* `RcTypeCorrect`.

`Enrollment_proofs`, for any number of tickets, devices, tokens and register commands:

* `WorkingTokenKept`: `RegisterKeepsWorkingToken`, by `RunInv`. While a register that is not blind is under
  way, it is the only one and the token on disk is dead, from its probe to its save: dead tokens stay
  dead, and a token that is made is on no disk yet (`NewKey`).
* `OneDeviceSafe`: `OneDeviceUnlessLeft`, by `WitnessInv`: of every device that is still
  trusted and was not left behind, the machine has the live token, or a command is about to save it.
* `PageTruthful`: `PageTellsItsTruth`, by `PageInv`. `EnrollTypeCorrect`.
* `TicketsRefined`: `EnrollSpec => TicketsAdmitOnce`. The relation of tickets to devices is the graph
  of `bornOf`, so it must be known that no ticket but a spent one has a device, and that
  such a device's row was born (`TicketInv`): a register draws unborn rows only, and a row stays born
  whatever becomes of the device.
* `TicketsPairedOff`: what the abstract specification comes to (`OneTime!PairedOff`), for any states and
  admissions of it and so for Enrollment: spent tickets and enrolled devices are paired one to one.

`Device_proofs` proves, for any number of processes and events, of ClientSync:

* `BlockRecorded`, `RegistrationOrdered`, `UninstallCleans`: by `CommandInv`, which
  holds while commands have not overlapped: one is in flight at most, and what
  it has loaded is still what the file says. The last of the three is
  `UninstallRemovesBlock`, which `bootstrap_lost` refutes, under that condition.
* `TypeCorrect`.

and of Device:

* `PartsAreThemselves`: `DeviceSpec` implies the specification of each part, fairness included. A step of
  one part is a step of that part and leaves the others' variables; a resolve of the sources is a step
  of the shells' specification as well, a sync that fails after it was answered.
* `DeviceTypeCorrect` and `DeviceSafe`: what is proved of the parts holds of `DeviceSpec`, the
  specification that TLC runs. `DeviceSafe` is everything `client_sync` checks but the liveness.

Every safety property of every passing run is now a theorem. Only model-checked: the four liveness
properties (`CapacityComesBack`, `EventuallyCurrent`, `ShellsCatchUp`, `PageStopsWaiting`), which need
fairness and ENABLED. The runs that end in a violation have
nothing to prove.


## 5. Plan

Done: the components that keep state others depend on, on the server and on the client, each with
its proofs.

Left, where a hazard in `PROJECT.json` has no property yet:

1. An uninstall that stops after it removed credentials.json: with a server as source it
   cannot be run again (`app/uninstall.go:120`).
2. The web's logout, which says goodbye whether or not the session was revoked (`web/pages_auth.go:104`).
3. The lifetime of an enrollment token at the width of `time.Duration` (`api/auth.go:161`).
4. The operator's session in credentials.json: login and logout overlapping a register.

Not modelled, and not planned: templates and wording; listening, TLS and
shutdown (the 20 s limit of a handler is in the models, as requests that
stop anywhere); migrations, which run once and alone at the start; the lexing of the user's alias
lines and the merge of an import, which are work on text by one command; detection and the read-only
commands; the heartbeat, a timestamp that nothing decides by.
