------------------------------ MODULE Enrollment ------------------------------
(***************************************************************************)
(* From the page that mints an enrollment token to a device that syncs:    *)
(* the operator's page waits for the machine, the machine registers with   *)
(* the token or adopts a rotated credential, and the operator rotates,     *)
(* revokes and deletes meanwhile.                                          *)
(*                                                                         *)
(* Code: internal/web/pages_devices.go, internal/app/register.go,           *)
(* internal/api/{auth,sync}.go and internal/config/credentials.go.          *)
(*                                                                         *)
(* A request to the server is one action, and one that stops between its   *)
(* writes is another: DeviceCredentials has the interleaving of the store  *)
(* calls behind it. Here it is the commands of the machine that take       *)
(* several steps.                                                          *)
(***************************************************************************)
EXTENDS Naturals

CONSTANTS Ticket,   \* enrollment tokens
          Page,     \* those minted on a page of the web; the others, by the API
          Row,      \* device ids the server may draw
          Key,      \* device tokens the server may draw
          Run,      \* register commands on the machine
          Nobody,   \* no row, no key, no ticket
          MaxMishaps \* bound on what operators and failures do

ASSUME MishapsAssumption == MaxMishaps \in Nat
ASSUME NobodyAssumption == Nobody \notin Ticket \cup Row \cup Key
ASSUME PageAssumption == Page \subseteq Ticket

VARIABLES
  ticket,   \* none, open or spent
  lapsed,   \* tickets past their expiry
  bornOf,   \* the device a spent ticket admitted
  row,      \* unborn, trusted, revoked or deleted
  synced,   \* devices with last_sync_at
  keyOf,    \* the device a device token is of
  live,     \* device tokens that are not revoked
  handed,   \* device tokens that a rotate has shown to the operator
  page,     \* the tickets in the enrollmentTracker, of the operator's session
  shown,    \* what each page says
  held,     \* the token in credentials.json
  elsewhere, \* the server that is named beside it is not the one it is of
  run,      \* where each register command is, and what it holds
  mishaps

\* History: the devices that the machine left behind, knowingly or by a failure, or
\* that an operator took the tokens of.
VARIABLE left

ticketVars == <<ticket, lapsed, bornOf>>
keyVars == <<keyOf, live, handed>>
pageVars == <<page, shown>>
credential == <<held, elsewhere>>
machineVars == <<held, elsewhere, run, left>>
enrollVars == <<ticketVars, row, synced, keyVars, pageVars, machineVars, mishaps>>

\* blind: it goes on though the token on disk may still work, or come to be one that
\* works: another command is under way.
Idle == [at |-> "idle", with |-> Nobody, blind |-> FALSE]

Step == [at : {"idle", "post", "save"}, with : Ticket \cup Key \cup {Nobody}, blind : BOOLEAN]

EnrollTypeOK ==
  /\ ticket \in [Ticket -> {"none", "open", "spent"}]
  /\ lapsed \subseteq Ticket
  /\ bornOf \in [Ticket -> Row \cup {Nobody}]
  /\ row \in [Row -> {"unborn", "trusted", "revoked", "deleted"}]
  /\ synced \subseteq Row
  /\ keyOf \in [Key -> Row \cup {Nobody}]
  /\ live \subseteq Key
  /\ handed \subseteq Key
  /\ page \subseteq Page
  /\ shown \in [Page -> {"nothing", "waiting", "enrolled", "complete", "expired"}]
  /\ held \in Key \cup {Nobody}
  /\ elsewhere \in BOOLEAN
  /\ run \in [Run -> Step]
  /\ left \subseteq Row
  /\ mishaps \in 0 .. MaxMishaps
  /\ \A r \in Run : /\ run[r].at = "post" => run[r].with \in Ticket
                    /\ run[r].at = "save" => run[r].with \in Key

EnrollInit ==
  /\ ticket = [t \in Ticket |-> "none"]
  /\ lapsed = {}
  /\ bornOf = [t \in Ticket |-> Nobody]
  /\ row = [d \in Row |-> "unborn"]
  /\ synced = {}
  /\ keyOf = [k \in Key |-> Nobody]
  /\ live = {}
  /\ handed = {}
  /\ page = {}
  /\ shown = [t \in Page |-> "nothing"]
  /\ held = Nobody
  /\ elsewhere = FALSE
  /\ run = [r \in Run |-> Idle]
  /\ left = {}
  /\ mishaps = 0

\* Ids are drawn at random: which fresh one it is makes no difference.
Fresh(S) == IF S = {} THEN {} ELSE {CHOOSE x \in S : TRUE}
FreshRows == Fresh({d \in Row : row[d] = "unborn"})
FreshKeys == Fresh({k \in Key : keyOf[k] = Nobody})

Mishap == mishaps < MaxMishaps /\ mishaps' = mishaps + 1

-----------------------------------------------------------------------------
(* The operator's page. *)

\* handleDevicesMintToken: the token, and an entry of the tracker that only the
\* session that minted it can ask for.
MintOnPage(t) ==
  /\ t \in Page
  /\ ticket[t] = "none"
  /\ ticket' = [ticket EXCEPT ![t] = "open"]
  /\ page' = page \cup {t}
  /\ shown' = [shown EXCEPT ![t] = "waiting"]
  /\ UNCHANGED <<lapsed, bornOf, row, synced, keyVars, machineVars, mishaps>>

MintByApi(t) ==
  /\ t \notin Page
  /\ ticket[t] = "none"
  /\ ticket' = [ticket EXCEPT ![t] = "open"]
  /\ UNCHANGED <<lapsed, bornOf, row, synced, keyVars, pageVars, machineVars, mishaps>>

\* Mutants: a token that was spent in time is not asked for its expiry; the
\* device is complete once it is there.
VerdictSpentFirst(t) ==
  IF ticket[t] = "spent"
  THEN IF row[bornOf[t]] = "deleted" THEN shown[t]
       ELSE IF bornOf[t] \in synced THEN "complete" ELSE "enrolled"
  ELSE IF t \in lapsed THEN "expired" ELSE "waiting"

VerdictUnsynced(t) ==
  IF t \in lapsed THEN "expired"
  ELSE IF ticket[t] # "spent" THEN "waiting"
  ELSE IF row[bornOf[t]] = "deleted" THEN shown[t]
  ELSE "complete"

\* handleDeviceEnrollmentStatus: the expiry comes first, then the token, then its
\* device, which may be gone: that is an error, and the page keeps what it says.
Verdict(t) ==
  IF t \in lapsed THEN "expired"
  ELSE IF ticket[t] # "spent" THEN "waiting"
  ELSE IF row[bornOf[t]] = "deleted" THEN shown[t]
  ELSE IF bornOf[t] \notin synced THEN "enrolled"
  ELSE "complete"

\* Every 2 s while the page waits. To a session that did not mint the token, and
\* to all after a restart, the server answers 404, and the page says no more.
Poll(t) ==
  /\ t \in page
  /\ shown[t] \in {"waiting", "enrolled"}
  /\ shown' = [shown EXCEPT ![t] = Verdict(t)]
  /\ UNCHANGED <<ticketVars, row, synced, keyVars, page, machineVars, mishaps>>

\* The tracker is in memory.
ServerRestarts ==
  /\ Mishap
  /\ page # {}
  /\ page' = {}
  /\ UNCHANGED <<ticketVars, row, synced, keyVars, shown, machineVars>>

\* The operator's session ends, and its next one did not mint these tokens.
SessionEnds(minted) ==
  /\ Mishap
  /\ minted # {}
  /\ page' = page \ minted
  /\ UNCHANGED <<ticketVars, row, synced, keyVars, shown, machineVars>>

Lapse(t) ==
  /\ ticket[t] # "none"
  /\ lapsed' = lapsed \cup {t}
  /\ UNCHANGED <<ticket, bornOf, row, synced, keyVars, pageVars, machineVars, mishaps>>

-----------------------------------------------------------------------------
(* The operator's devices. *)

Exists(d) == row[d] \in {"trusted", "revoked"}

KeysOf(d) == {k \in Key : keyOf[k] = d}

\* The device that a token is of, when it works.
DeviceOf(k) == {d \in Row : k \in live /\ keyOf[k] = d}

\* Rotate: the tokens of the device are revoked, and the replacement is shown
\* once, in the command that adopts it. One whose answer is lost nobody adopts.
Rotate(d, k) ==
  /\ Mishap
  /\ Exists(d)
  /\ keyOf' = [keyOf EXCEPT ![k] = d]
  /\ live' = (live \ KeysOf(d)) \cup {k}
  /\ handed' = handed \cup {k}
  /\ left' = left \cup {d}
  /\ UNCHANGED <<ticketVars, row, synced, pageVars, held, elsewhere, run>>

\* Rotate and delete revoke the tokens first, and may stop there: the one makes no
\* token, the other leaves the row.
StopsShort(d) ==
  /\ Mishap
  /\ Exists(d)
  /\ live' = live \ KeysOf(d)
  /\ left' = left \cup {d}
  /\ UNCHANGED <<ticketVars, row, synced, keyOf, handed, pageVars>>
  /\ UNCHANGED <<held, elsewhere, run>>

Revoke(d) ==
  /\ Mishap
  /\ Exists(d)
  /\ row' = [row EXCEPT ![d] = "revoked"]
  /\ live' = live \ KeysOf(d)
  /\ UNCHANGED <<ticketVars, synced, keyOf, handed, pageVars, machineVars>>

\* Revoke marks the row first, and may stop there.
RevokeStops(d) ==
  /\ Mishap
  /\ row[d] = "trusted"
  /\ row' = [row EXCEPT ![d] = "revoked"]
  /\ UNCHANGED <<ticketVars, synced, keyVars, pageVars, machineVars>>

Delete(d) ==
  /\ Mishap
  /\ Exists(d)
  /\ row' = [row EXCEPT ![d] = "deleted"]
  /\ live' = live \ KeysOf(d)
  /\ UNCHANGED <<ticketVars, synced, keyOf, handed, pageVars, machineVars>>

-----------------------------------------------------------------------------
(* The machine. *)

\* Some sync, with token k, that is answered: RequireKind takes no token that is not
\* live, and the stamp may fail and the sync succeed without it. RequireKind answers
\* 401 as well when it cannot look a live token up, and then nothing is synced.
SyncWithKey(k) ==
  /\ k \in live
  /\ synced' \in {synced, synced \cup {keyOf[k]}}

MachineSyncs ==
  /\ SyncWithKey(held)
  /\ UNCHANGED <<ticketVars, row, keyVars, pageVars, machineVars, mishaps>>

Busy == {r \in Run : run[r] # Idle}

Starts(r, step) ==
  /\ r \notin Busy
  /\ run' = [q \in Run |-> IF q = r THEN [step EXCEPT !.blind = step.blind \/ Busy # {}]
                          ELSE IF q \in Busy THEN [run[q] EXCEPT !.blind = TRUE]
                          ELSE run[q]]

Ends(r) == run' = [run EXCEPT ![r] = Idle]

\* Mutant: a probe that is not answered counts as one that is refused.
ExchangeBeginsUnprobed(r, t) ==
  /\ ticket[t] # "none"
  /\ Starts(r, [at |-> "post", with |-> t, blind |-> FALSE])
  /\ UNCHANGED <<ticketVars, row, synced, keyVars, pageVars, credential, left, mishaps>>

\* register --token: no token on disk, or the server refuses it as one that is dead,
\* or it is dead and --force does not ask.
ExchangeBegins(r, t) ==
  /\ ticket[t] # "none"
  /\ held \notin live
  /\ Starts(r, [at |-> "post", with |-> t, blind |-> FALSE])
  /\ UNCHANGED <<ticketVars, row, synced, keyVars, pageVars, credential, left, mishaps>>

\* The probe of a token that works is a sync of its device; and register refuses,
\* as it does if the probe is not answered.
ExchangeRefuses(r) ==
  /\ run[r] = Idle
  /\ ~elsewhere
  /\ SyncWithKey(held)
  /\ UNCHANGED <<ticketVars, row, keyVars, pageVars, machineVars, mishaps>>

\* The store fails the lookup of a token that works, and RequireKind answers 401:
\* to register, the server refuses it.
ExchangeDenied(r, t) ==
  /\ Mishap
  /\ ticket[t] # "none"
  /\ held \in live /\ ~elsewhere
  /\ Starts(r, [at |-> "post", with |-> t, blind |-> TRUE])
  /\ UNCHANGED <<ticketVars, row, synced, keyVars, pageVars, credential, left>>

\* register --token --force, with a token that works.
ExchangeForced(r, t) ==
  /\ Mishap
  /\ ticket[t] # "none"
  /\ held \in live
  /\ Starts(r, [at |-> "post", with |-> t, blind |-> TRUE])
  /\ UNCHANGED <<ticketVars, row, synced, keyVars, pageVars, credential, left>>

\* The probe goes to the server that is named beside the token; another one than
\* its own refuses it, whether it works or not.
ExchangeMisled(r, t) ==
  /\ ticket[t] # "none"
  /\ held \in live /\ elsewhere
  /\ Starts(r, [at |-> "post", with |-> t, blind |-> TRUE])
  /\ UNCHANGED <<ticketVars, row, synced, keyVars, pageVars, credential, left, mishaps>>

\* Mutant: the ticket is not asked for its expiry.
AdmitsLapsed(r, d) ==
  LET t == run[r].with
  IN /\ run[r].at = "post"
     /\ ticket[t] = "open"
     /\ ticket' = [ticket EXCEPT ![t] = "spent"]
     /\ bornOf' = [bornOf EXCEPT ![t] = d]
     /\ row' = [row EXCEPT ![d] = "trusted"]

\* ConsumeEnrollment.
Admits(r, d) ==
  LET t == run[r].with
  IN /\ run[r].at = "post"
     /\ ticket[t] = "open" /\ t \notin lapsed
     /\ ticket' = [ticket EXCEPT ![t] = "spent"]
     /\ bornOf' = [bornOf EXCEPT ![t] = d]
     /\ row' = [row EXCEPT ![d] = "trusted"]

\* Mutant: what is kept for the disk is the ticket.
ExchangePostKeepingTicket(r, d, k) ==
  /\ Admits(r, d)
  /\ keyOf' = [keyOf EXCEPT ![k] = d]
  /\ live' = live \cup {k}
  /\ run' = [run EXCEPT ![r].at = "save"]
  /\ UNCHANGED <<lapsed, synced, handed, pageVars, credential, left, mishaps>>

\* POST /devices/register, answered.
ExchangePost(r, d, k) ==
  /\ Admits(r, d)
  /\ keyOf' = [keyOf EXCEPT ![k] = d]
  /\ live' = live \cup {k}
  /\ run' = [run EXCEPT ![r].at = "save", ![r].with = k]
  /\ UNCHANGED <<lapsed, synced, handed, pageVars, credential, left, mishaps>>

\* The device is there, and its token is not: the server failed between the two,
\* the answer was lost, or the machine could not save it.
ExchangeLost(r, d) ==
  /\ Mishap
  /\ Admits(r, d)
  /\ Ends(r)
  /\ left' = left \cup {d}
  /\ UNCHANGED <<lapsed, synced, keyVars, pageVars, credential>>

\* The server refuses the ticket, or cannot be reached.
ExchangeFails(r) ==
  /\ run[r].at = "post"
  /\ Ends(r)
  /\ UNCHANGED <<ticketVars, row, synced, keyVars, pageVars, credential, left, mishaps>>

\* register --device-token: a real sync proves the token; with one on disk it
\* takes --force.
AdoptBegins(r, k, forced) ==
  /\ k \in handed
  /\ held # Nobody => forced
  /\ SyncWithKey(k)
  /\ Starts(r, [at |-> "save", with |-> k, blind |-> held # Nobody])
  /\ UNCHANGED <<ticketVars, row, keyVars, pageVars, credential, left, mishaps>>

\* SaveCredentials, and then config.yaml, which is ClientSync's. A command that
\* went on blindly leaves the device of the token it writes over.
SavesKey(r) ==
  /\ run[r].at = "save"
  /\ held' = run[r].with
  /\ elsewhere' = FALSE
  /\ Ends(r)
  /\ left' = (left \cup IF run[r].blind THEN DeviceOf(held) ELSE {}) \ DeviceOf(run[r].with)
  /\ UNCHANGED <<ticketVars, row, synced, keyVars, pageVars, mishaps>>

\* uninstall takes the token off the disk, and does not tell the server.
ForgetsKey ==
  /\ Mishap
  /\ held # Nobody
  /\ held' = Nobody
  /\ elsewhere' = FALSE
  /\ left' = left \cup DeviceOf(held)
  /\ UNCHANGED <<ticketVars, row, synced, keyVars, pageVars, run>>

\* login names its server beside the token, and leaves the token. Sync goes by the
\* server in config.yaml, and does not notice.
LoginElsewhere ==
  /\ Mishap
  /\ held # Nobody /\ ~elsewhere
  /\ elsewhere' = TRUE
  /\ UNCHANGED <<ticketVars, row, synced, keyVars, pageVars>>
  /\ UNCHANGED <<held, run, left>>

LoginHere ==
  /\ elsewhere
  /\ elsewhere' = FALSE
  /\ UNCHANGED <<ticketVars, row, synced, keyVars, pageVars, mishaps>>
  /\ UNCHANGED <<held, run, left>>

EnrollNext ==
  \/ \E t \in Ticket : MintOnPage(t) \/ MintByApi(t) \/ Poll(t) \/ Lapse(t)
  \/ ServerRestarts \/ \E minted \in SUBSET page : SessionEnds(minted)
  \/ \E d \in Row : \/ Revoke(d) \/ RevokeStops(d) \/ Delete(d) \/ StopsShort(d)
                    \/ \E k \in FreshKeys : Rotate(d, k)
  \/ MachineSyncs \/ ForgetsKey \/ LoginElsewhere \/ LoginHere
  \/ \E r \in Run :
       \/ \E t \in Ticket : \/ ExchangeBegins(r, t) \/ ExchangeDenied(r, t)
                            \/ ExchangeForced(r, t) \/ ExchangeMisled(r, t)
       \/ ExchangeRefuses(r) \/ ExchangeFails(r) \/ SavesKey(r)
       \/ \E d \in FreshRows : ExchangeLost(r, d) \/ \E k \in FreshKeys : ExchangePost(r, d, k)
       \/ \E k \in Key, forced \in BOOLEAN : AdoptBegins(r, k, forced)

\* A page that waits polls, and time passes.
PageFairness == \A t \in Page : WF_enrollVars(Poll(t)) /\ WF_enrollVars(Lapse(t))

EnrollSpec == EnrollInit /\ [][EnrollNext]_enrollVars /\ PageFairness

-----------------------------------------------------------------------------
(* Properties. *)

\* "An unreachable server is treated as still working on purpose": no register that
\* asked the token's server, and was told that the token is dead, replaces one that
\* works, whatever is rotated, revoked, stopped half-way and lost between the probe and
\* the save. What may: --force, a probe that a login sent to another server, a server
\* that failed to look the token up and answered 401, and a command beside another.
RegisterKeepsWorkingToken ==
  [][held' # held /\ held \in live =>
       held' = Nobody \/ \E r \in Run : run[r].blind /\ run[r].with = held']_enrollVars

\* "Each call mints a new device row, one of which will never sync again": when no
\* command is under way, all trusted devices but one are devices that something left
\* behind. A device is left behind when its own answer is lost; when a rotate revokes
\* its tokens, or a delete that stops there; when a command that went on blindly or
\* an adoption replaces its token; and by uninstall. To adopt its rotated token takes
\* it up again. The rest, whatever fails and whatever overlaps, is one device.
OneDeviceUnlessLeft ==
  Busy = {} => \A d, e \in Row \ left : row[d] = "trusted" /\ row[e] = "trusted" => d = e

\* What a page says, in the order it may say it.
Progress == [s \in {"nothing", "waiting", "enrolled", "complete", "expired"} |->
               CASE s = "nothing" -> 0 [] s = "waiting" -> 1 [] s = "enrolled" -> 2
                 [] s = "complete" -> 3 [] s = "expired" -> 3]

\* A page only moves forward, and what it says of its machine it says of the
\* machine that spent its own ticket, across restarts, the ends of sessions,
\* revocations and deletions: enrolled once the ticket is spent, complete once
\* that device has synced, expired once the ticket admits nobody.
PageTellsItsTruth ==
  [][\A t \in Page : shown'[t] # shown[t] =>
       /\ Progress[shown'[t]] > Progress[shown[t]]
       /\ shown'[t] = "enrolled" => ticket[t] = "spent"
       /\ shown'[t] = "complete" => \E d \in synced : bornOf[t] = d
       /\ shown'[t] = "expired" => t \in lapsed]_enrollVars

\* A page stops waiting, whatever becomes of its ticket, its machine and its
\* device: it says complete or expired, unless the server was restarted or the
\* operator's session ended.
PageStopsWaiting ==
  \A t \in Page : shown[t] = "waiting" ~> (shown[t] \in {"complete", "expired"} \/ t \notin page)

\* The tickets, as OneTimeEnrollment's.
OneTime == INSTANCE OneTimeEnrollment WITH
  Member <- Row,
  state <- [t \in Ticket |->
              IF ticket[t] = "none" THEN "unissued"
              ELSE IF ticket[t] = "spent" THEN "spent"
              ELSE IF t \in lapsed THEN "lapsed" ELSE "open"],
  admits <- {p \in Ticket \X Row : bornOf[p[1]] = p[2]}

\* "Single-use enrollment token" (README): a ticket admits one device, once, before it
\* lapses and never after, and no device is admitted by two, whoever registers at
\* once, whatever is lost or tried again, and whatever becomes of the devices.
TicketsAdmitOnce == OneTime!Spec

=============================================================================
