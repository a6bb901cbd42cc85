---------------------------- MODULE AliasDelivery ----------------------------
(***************************************************************************)
(* Which aliases a syncing device is served, while operators edit aliases, *)
(* groups (profiles) and devices.                                          *)
(*                                                                         *)
(* Code: internal/api/{sync,aliases,profiles,devices}.go, internal/sync,   *)
(* internal/domain/alias.go, internal/web/pages_{aliases,profiles}.go and  *)
(* the alias, profile and device repositories of internal/store/           *)
(* sqlitestore.                                                            *)
(*                                                                         *)
(* A write to the store is one statement or one transaction, so it is one  *)
(* action. A read is not: a sync reads its device row, the device's groups,*)
(* the list of aliases and then the groups and the devices of each alias   *)
(* in a statement of its own, and writes commit in between. The web's edit *)
(* form reads an alias, and writes it back, with the same gaps.            *)
(*                                                                         *)
(* Ids are never drawn twice, so a deleted row does not come back. What an *)
(* alias row itself says of its reach (enabled, platforms, shells) is one  *)
(* bit here: on or off for every device.                                   *)
(***************************************************************************)
EXTENDS FiniteSets, Naturals

CONSTANTS Alias, Profile, Device,   \* ids the server may draw
          Request,                  \* syncs and web edits in flight
          None,                     \* no alias, no device
          Limit                     \* validate.MaxAliases

ASSUME LimitAssumption == Limit \in Nat /\ None \notin Alias \cup Device

VARIABLES
  alias,          \* aliases: each id not drawn, on, off or deleted
  profile,        \* profiles: each id not drawn, a row or deleted
  device,         \* devices, the same
  aliasProfiles,  \* the join tables
  aliasDevices,
  deviceProfiles,
  synced,         \* devices with last_sync_at set
  req             \* the locals of each handler

\* History: what the properties need to remember of a handler's reads.
VARIABLES
  touched,        \* aliases whose reach was written since the handler began
  deserved        \* aliases that applied to its device at some moment since

rows == <<alias, profile, device>>
joins == <<aliasProfiles, aliasDevices, deviceProfiles>>
history == <<touched, deserved>>
vars == <<rows, joins, synced, req, history>>

-----------------------------------------------------------------------------

AliasRows == {a \in Alias : alias[a] \in {"on", "off"}}
ProfileRows == {p \in Profile : profile[p] = "row"}
DeviceRows == {d \in Device : device[d] = "row"}

GroupsOf(a) == {p \in Profile : <<a, p>> \in aliasProfiles}
PinsOf(a) == {d \in Device : <<a, d>> \in aliasDevices}
Membership(d) == {p \in Profile : <<d, p>> \in deviceProfiles}

\* TargetsProfiles and TargetsDevice: an empty list targets everything.
TargetsProfiles(groups, membership) == groups = {} \/ groups \cap membership # {}
TargetsDevice(pins, d) == pins = {} \/ d \in pins

\* Alias.AppliesTo, of the rows as they are.
AppliesTo(a, d) ==
  /\ alias[a] = "on"
  /\ TargetsProfiles(GroupsOf(a), Membership(d))
  /\ TargetsDevice(PinsOf(a), d)

Idle == [pc |-> "idle", dev |-> None, groups |-> {}, left |-> {}, cur |-> None,
         curOn |-> FALSE, curGroups |-> {}, curPins |-> {}, served |-> {}]

PC == {"idle", "sync.profiles", "sync.list", "sync.alias", "sync.pins", "sync.answer",
       "edit.pins", "edit.write"}

TypeOK ==
  /\ alias \in [Alias -> {"none", "on", "off", "deleted"}]
  /\ profile \in [Profile -> {"none", "row", "deleted"}]
  /\ device \in [Device -> {"none", "row", "deleted"}]
  /\ aliasProfiles \subseteq Alias \X Profile
  /\ aliasDevices \subseteq Alias \X Device
  /\ deviceProfiles \subseteq Device \X Profile
  /\ synced \subseteq Device
  /\ req \in [Request -> [pc : PC, dev : Device \cup {None}, groups : SUBSET Profile,
                          left : SUBSET Alias, cur : Alias \cup {None}, curOn : BOOLEAN,
                          curGroups : SUBSET Profile, curPins : SUBSET Device,
                          served : SUBSET Alias]]
  /\ touched \in [Request -> SUBSET Alias]
  /\ deserved \in [Request -> SUBSET Alias]

Init ==
  /\ alias = [a \in Alias |-> "none"]
  /\ profile = [p \in Profile |-> "none"]
  /\ device = [d \in Device |-> "none"]
  /\ aliasProfiles = {} /\ aliasDevices = {} /\ deviceProfiles = {}
  /\ synced = {}
  /\ req = [r \in Request |-> Idle]
  /\ touched = [r \in Request |-> {}]
  /\ deserved = [r \in Request |-> {}]

-----------------------------------------------------------------------------
(* Writes. Each says what it wrote: the reach of aliases A, the membership *)
(* of devices D.                                                           *)

Wrote(A, D) ==
  /\ touched' = [r \in Request |->
                   IF req'[r].pc = "idle" THEN {}
                   ELSE IF req[r].dev \in D THEN Alias ELSE touched[r] \cup A]
  /\ deserved' = [r \in Request |->
                    IF req[r].dev = None THEN {}
                    ELSE deserved[r] \cup {a \in Alias : AppliesTo(a, req[r].dev)'}]

\* setAliasProfiles and setAliasDevices: clear the join rows, insert the new
\* ones. A row that names a missing group or device fails its foreign key, and
\* the transaction is rolled back.
SetTargeting(a, P, D) ==
  /\ P \subseteq ProfileRows /\ D \subseteq DeviceRows
  /\ aliasProfiles' = {e \in aliasProfiles : e[1] # a} \cup ({a} \X P)
  /\ aliasDevices' = {e \in aliasDevices : e[1] # a} \cup ({a} \X D)

\* POST /aliases and the web's create form: the count and the insert are one
\* statement.
CreateAlias(a, on, P, D) ==
  /\ alias[a] = "none"
  /\ Cardinality(AliasRows) < Limit
  /\ alias' = [alias EXCEPT ![a] = on]
  /\ SetTargeting(a, P, D)
  /\ UNCHANGED <<profile, device, deviceProfiles, synced, req>>
  /\ Wrote({a}, {})

\* PUT /aliases/{id}: the body replaces the row and its targeting.
UpdateAlias(a, on, P, D) ==
  /\ a \in AliasRows
  /\ alias' = [alias EXCEPT ![a] = on]
  /\ SetTargeting(a, P, D)
  /\ UNCHANGED <<profile, device, deviceProfiles, synced, req>>
  /\ Wrote({a}, {})

DeleteAlias(a) ==
  /\ a \in AliasRows
  /\ alias' = [alias EXCEPT ![a] = "deleted"]
  /\ aliasProfiles' = {e \in aliasProfiles : e[1] # a}
  /\ aliasDevices' = {e \in aliasDevices : e[1] # a}
  /\ UNCHANGED <<profile, device, deviceProfiles, synced, req>>
  /\ Wrote({a}, {})

CreateProfile(p) ==
  /\ profile[p] = "none"
  /\ profile' = [profile EXCEPT ![p] = "row"]
  /\ UNCHANGED <<alias, device, joins, synced, req, history>>

\* Mutant: foreign_keys is off on the connection, and nothing cascades.
DeleteProfileWithoutCascade(p) ==
  /\ p \in ProfileRows
  /\ profile' = [profile EXCEPT ![p] = "deleted"]
  /\ UNCHANGED <<alias, device, joins, synced, req>>
  /\ Wrote({a \in Alias : p \in GroupsOf(a)}, {d \in Device : p \in Membership(d)})

\* Mutant: the targeting of the aliases aimed at p is cleared as a whole.
DeleteProfileClearingTargeting(p) ==
  /\ p \in ProfileRows
  /\ profile' = [profile EXCEPT ![p] = "deleted"]
  /\ aliasProfiles' = {e \in aliasProfiles : p \notin GroupsOf(e[1])}
  /\ aliasDevices' = {e \in aliasDevices : p \notin GroupsOf(e[1])}
  /\ deviceProfiles' = {e \in deviceProfiles : e[2] # p}
  /\ UNCHANGED <<alias, device, synced, req>>
  /\ Wrote({a \in Alias : p \in GroupsOf(a)}, {d \in Device : p \in Membership(d)})

\* DELETE of a group: the foreign keys take its join rows with it.
DeleteProfile(p) ==
  /\ p \in ProfileRows
  /\ profile' = [profile EXCEPT ![p] = "deleted"]
  /\ aliasProfiles' = {e \in aliasProfiles : e[2] # p}
  /\ deviceProfiles' = {e \in deviceProfiles : e[2] # p}
  /\ UNCHANGED <<alias, device, aliasDevices, synced, req>>
  /\ Wrote({a \in Alias : p \in GroupsOf(a)}, {d \in Device : p \in Membership(d)})

\* A registration: the device joins the groups its enrollment token names, and
\* a token that names a missing group is refused and stays unspent.
EnrollDevice(d, P) ==
  /\ device[d] = "none"
  /\ P \subseteq ProfileRows
  /\ device' = [device EXCEPT ![d] = "row"]
  /\ deviceProfiles' = deviceProfiles \cup ({d} \X P)
  /\ UNCHANGED <<alias, profile, aliasProfiles, aliasDevices, synced, req, history>>

\* PUT /devices/{id} and the web's device form: the membership is replaced.
UpdateDevice(d, P) ==
  /\ d \in DeviceRows
  /\ P \subseteq ProfileRows
  /\ deviceProfiles' = {e \in deviceProfiles : e[1] # d} \cup ({d} \X P)
  /\ UNCHANGED <<rows, aliasProfiles, aliasDevices, synced, req>>
  /\ Wrote({}, {d})

\* DELETE of a device: the same for its pins and its membership.
DeleteDevice(d) ==
  /\ d \in DeviceRows
  /\ device' = [device EXCEPT ![d] = "deleted"]
  /\ aliasDevices' = {e \in aliasDevices : e[2] # d}
  /\ deviceProfiles' = {e \in deviceProfiles : e[1] # d}
  /\ synced' = synced \ {d}
  /\ UNCHANGED <<alias, profile, aliasProfiles, req>>
  /\ Wrote({a \in Alias : d \in PinsOf(a)}, {d})

-----------------------------------------------------------------------------
(* GET /sync. *)

\* Devices().Get, its first statement: the row of the device.
SyncDevice(r, d) ==
  /\ req[r].pc = "idle"
  /\ d \in DeviceRows
  /\ req' = [req EXCEPT ![r].pc = "sync.profiles", ![r].dev = d]
  /\ deserved' = [deserved EXCEPT ![r] = {a \in Alias : AppliesTo(a, d)}]
  /\ UNCHANGED <<rows, joins, synced, touched>>

\* ... its second: the groups of the device.
SyncProfiles(r) ==
  /\ req[r].pc = "sync.profiles"
  /\ req' = [req EXCEPT ![r].pc = "sync.list", ![r].groups = Membership(req[r].dev)]
  /\ UNCHANGED <<rows, joins, synced, history>>

\* Aliases().List, its first statement: every alias row. A row that is off
\* resolves to nothing whatever its targeting.
SyncList(r) ==
  /\ req[r].pc = "sync.list"
  /\ req' = [req EXCEPT ![r].pc = "sync.alias", ![r].left = {a \in Alias : alias[a] = "on"}]
  /\ UNCHANGED <<rows, joins, synced, history>>

\* ... for each row, the groups of the alias ...
SyncAliasProfiles(r, a) ==
  /\ req[r].pc = "sync.alias"
  /\ a \in req[r].left
  /\ req' = [req EXCEPT ![r].pc = "sync.pins", ![r].cur = a, ![r].curGroups = GroupsOf(a),
                        ![r].left = @ \ {a}]
  /\ UNCHANGED <<rows, joins, synced, history>>

\* Mutant: the loop variable is read after it is cleared.
SyncAliasPinsLate(r) ==
  /\ req[r].pc = "sync.pins"
  /\ req' = [req EXCEPT ![r].pc = "sync.alias", ![r].cur = None, ![r].curGroups = {},
                        ![r].served = @ \cup {None}]
  /\ UNCHANGED <<rows, joins, synced, history>>

\* Mutant: an alias without groups and an alias without pins reach nobody.
SyncAliasPinsExplicit(r) ==
  /\ req[r].pc = "sync.pins"
  /\ req' = [req EXCEPT
       ![r].pc = "sync.alias", ![r].cur = None, ![r].curGroups = {},
       ![r].served = IF req[r].curGroups \cap req[r].groups # {}
                        \/ req[r].dev \in PinsOf(req[r].cur)
                     THEN @ \cup {req[r].cur} ELSE @]
  /\ UNCHANGED <<rows, joins, synced, history>>

\* ... and its pins: then domain.Resolve decides on what was read.
SyncAliasPins(r) ==
  /\ req[r].pc = "sync.pins"
  /\ req' = [req EXCEPT
       ![r].pc = "sync.alias", ![r].cur = None, ![r].curGroups = {},
       ![r].served = IF /\ TargetsProfiles(req[r].curGroups, req[r].groups)
                        /\ TargetsDevice(PinsOf(req[r].cur), req[r].dev)
                     THEN @ \cup {req[r].cur} ELSE @]
  /\ UNCHANGED <<rows, joins, synced, history>>

\* Devices().Touch. The row may be gone by now: that is logged, and the aliases
\* are served all the same.
SyncTouch(r) ==
  /\ req[r].pc = "sync.alias"
  /\ req[r].left = {}
  /\ req' = [req EXCEPT ![r].pc = "sync.answer"]
  /\ synced' = synced \cup ({req[r].dev} \cap DeviceRows)
  /\ UNCHANGED <<rows, joins, history>>

-----------------------------------------------------------------------------
(* The web's alias edit form. *)

\* Aliases().Get, its first statement. The groups it reads next are not used.
EditGet(r, a) ==
  /\ req[r].pc = "idle"
  /\ a \in AliasRows
  /\ req' = [req EXCEPT ![r].pc = "edit.pins", ![r].cur = a, ![r].curOn = (alias[a] = "on")]
  /\ UNCHANGED <<rows, joins, synced, history>>

EditPins(r) ==
  /\ req[r].pc = "edit.pins"
  /\ req' = [req EXCEPT ![r].pc = "edit.write", ![r].curPins = PinsOf(req[r].cur)]
  /\ UNCHANGED <<rows, joins, synced, history>>

\* Mutant: the alias is built from the form alone.
EditWriteForm(r, P) ==
  /\ req[r].pc = "edit.write"
  /\ req[r].cur \in AliasRows
  /\ alias' = [alias EXCEPT ![req[r].cur] = IF req[r].curOn THEN "on" ELSE "off"]
  /\ SetTargeting(req[r].cur, P, {})
  /\ req' = [req EXCEPT ![r] = Idle]
  /\ UNCHANGED <<profile, device, deviceProfiles, synced>>
  /\ Wrote({req[r].cur}, {})

\* Aliases().Update of the alias as it was read, with the groups P the form
\* posted: what the form does not show is written back.
EditWrite(r, P) ==
  /\ req[r].pc = "edit.write"
  /\ req[r].cur \in AliasRows
  /\ alias' = [alias EXCEPT ![req[r].cur] = IF req[r].curOn THEN "on" ELSE "off"]
  /\ SetTargeting(req[r].cur, P, req[r].curPins)
  /\ req' = [req EXCEPT ![r] = Idle]
  /\ UNCHANGED <<profile, device, deviceProfiles, synced>>
  /\ Wrote({req[r].cur}, {})

\* A handler ends: the sync has answered; or a read failed, the write was
\* refused or rolled back, the context was cancelled or the process died, and
\* nothing of the handler is left.
Return(r) ==
  /\ req[r].pc # "idle"
  /\ req' = [req EXCEPT ![r] = Idle]
  /\ touched' = [touched EXCEPT ![r] = {}]
  /\ deserved' = [deserved EXCEPT ![r] = {}]
  /\ UNCHANGED <<rows, joins, synced>>

-----------------------------------------------------------------------------

Operator ==
  \/ \E a \in Alias, on \in {"on", "off"}, P \in SUBSET Profile, D \in SUBSET Device :
       CreateAlias(a, on, P, D)
  \/ \E a \in Alias, on \in {"on", "off"}, P \in SUBSET Profile, D \in SUBSET Device :
       UpdateAlias(a, on, P, D)
  \/ \E a \in Alias : DeleteAlias(a)
  \/ \E p \in Profile : CreateProfile(p)
  \/ \E p \in Profile : DeleteProfile(p)
  \/ \E d \in Device, P \in SUBSET Profile : EnrollDevice(d, P)
  \/ \E d \in Device, P \in SUBSET Profile : UpdateDevice(d, P)
  \/ \E d \in Device : DeleteDevice(d)

Handler(r) ==
  \/ \E d \in Device : SyncDevice(r, d)
  \/ SyncProfiles(r)
  \/ SyncList(r)
  \/ \E a \in Alias : SyncAliasProfiles(r, a)
  \/ SyncAliasPins(r)
  \/ SyncTouch(r)
  \/ \E a \in Alias : EditGet(r, a)
  \/ EditPins(r)
  \/ \E P \in SUBSET Profile : EditWrite(r, P)
  \/ Return(r)

Next == Operator \/ \E r \in Request : Handler(r)

Spec == Init /\ [][Next]_vars

-----------------------------------------------------------------------------
(* Properties. *)

\* A sync that ran beside any number of writes serves every alias those writes
\* left alone exactly as the rows say: one operator's edit never costs or gives
\* a device an alias the edit was not about (handleSync, domain.Resolve).
StableAliasesServedExactly ==
  \A r \in Request : req[r].pc = "sync.answer" =>
    \A a \in Alias \ touched[r] :
      a \in req[r].served <=> AppliesTo(a, req[r].dev)

\* Nothing refers to a row that is gone: the join rows and last_sync_at, with
\* deletes and syncs in any order. A dangling pin would keep an alias aimed at
\* nobody for ever (the foreign keys of 0001_init.sql, foreign_keys on).
NothingDangles ==
  /\ aliasProfiles \subseteq AliasRows \X ProfileRows
  /\ aliasDevices \subseteq AliasRows \X DeviceRows
  /\ deviceProfiles \subseteq DeviceRows \X ProfileRows
  /\ synced \subseteq DeviceRows

\* Saving the web's edit form leaves what the form does not show, the on/off
\* bit and the pins, as it was, unless somebody wrote the alias while the form
\* was being handled (handleAliasesUpdate, pages_aliases.go).
EditKeepsWhatTheFormHides ==
  [][\A r \in Request, a \in AliasRows :
       /\ req[r].pc = "edit.write" /\ req'[r].pc = "idle"
       /\ req[r].cur = a /\ a \notin touched[r]
       => alias'[a] = alias[a] /\ PinsOf(a)' = PinsOf(a)]_vars

\* Deleting a group or a device gives an alias to no new device, except that a
\* list of targets that loses its last one, and did not admit the device, does
\* from then on: an empty list targets everything (domain/alias.go). The other
\* list of the alias still decides as it did.
DeletionNarrowsUnlessLastTarget ==
  [][\A a \in Alias, d \in Device :
       /\ ProfileRows' \subseteq ProfileRows /\ DeviceRows' \subseteq DeviceRows
       /\ <<ProfileRows, DeviceRows>> # <<ProfileRows, DeviceRows>>'
       /\ AppliesTo(a, d)' /\ ~AppliesTo(a, d)
       => /\ \/ TargetsProfiles(GroupsOf(a), Membership(d))
             \/ GroupsOf(a) \cap ProfileRows' = {}
          /\ \/ TargetsDevice(PinsOf(a), d)
             \/ PinsOf(a) \cap DeviceRows' = {}]_vars

\* AliasRepo's "with targeting intact": what a sync is served applied to its
\* device at some moment of the sync.
ServedWasTargeted ==
  \A r \in Request : req[r].pc = "sync.answer" => req[r].served \subseteq deserved[r]

\* The web's confirmation before a group is deleted: aliases aimed at it stop
\* reaching the devices in it (other groups the two share aside).
DeletedGroupStopsReaching ==
  [][\A p \in ProfileRows \ ProfileRows', a \in Alias, d \in Device :
       /\ p \in GroupsOf(a) /\ p \in Membership(d)
       /\ GroupsOf(a) \cap Membership(d) = {p}
       => ~AppliesTo(a, d)']_vars

=============================================================================
