----------------------------- MODULE ShellAliases -----------------------------
(***************************************************************************)
(* From a source to the shells: sync writes the generated file, the shells *)
(* that source it keep its aliases in memory, and a file of the format      *)
(* before v0.5.4 is migrated so that they can let go of those.             *)
(*                                                                         *)
(* Code: internal/app/sync.go, internal/renderers/{posix,legacy_posix,      *)
(* powershell}.go, internal/apply/{native,bootstrap}.go.  The shells        *)
(* themselves are modelled from what the generated file has them do.       *)
(*                                                                         *)
(* Commands that overlap are ClientSync's; here a sync is one action, but  *)
(* for its death between the file and the record of it.                    *)
(***************************************************************************)
EXTENDS AliasSources

CONSTANTS Shell,     \* running shells
          OwnNames,  \* names the user's rc file has aliases of its own for
          Own,       \* an alias of the user's
          Absent,    \* no alias
          Legacy,    \* what a version before v0.5.4 may have left behind
          MaxUses    \* bound on what users and failures do to files and shells

ASSUME OwnAssumption ==
  /\ OwnNames \subseteq Name
  /\ Own \notin Command /\ Absent \notin Command /\ Own # Absent
ASSUME LegacyAssumption == \A defs \in Legacy :
  /\ DOMAIN defs \subseteq Name
  /\ defs \in [DOMAIN defs -> Command]
ASSUME UsesAssumption == MaxUses \in Nat

VARIABLES
  gen,     \* the generated file
  rec,     \* the file state.json has the hash of
  shells,  \* the running shells
  uses

\* History: the names any generated file had, and the names no file is left to have
\* removed: those of a migration that a later file no longer carries, and of an old
\* file that another old one replaced.
VARIABLES ever, dropped

fileVars == <<gen, rec, ever, dropped>>
shellVars == <<gen, rec, shells, uses, ever, dropped>>
aliasVars == <<sourceVars, shellVars>>

Definitions == UNION {[D -> Command] : D \in SUBSET Name}

\* exact: nobody edited it by hand. carry: the names of its migration marker.
File == [format : {"none", "legacy", "current"}, defs : Definitions,
         carry : SUBSET Name, exact : BOOLEAN]

NoDefinitions == [n \in {} |-> CHOOSE c \in Command : TRUE]

NoFile == [format |-> "none", defs |-> NoDefinitions, carry |-> {}, exact |-> TRUE]

\* tracked and managed: ALIASDECK_MANAGED_ALIAS_NAMES. hook: the prompt reloads
\* the file. stuck, a history: names that it did not unalias though they were
\* managed.
Session == [open : BOOLEAN, alias : [Name -> Command \cup {Own, Absent}],
            tracked : BOOLEAN, managed : SUBSET Name, hook : BOOLEAN, stuck : SUBSET Name]

Closed == [open |-> FALSE, alias |-> [n \in Name |-> Absent], tracked |-> FALSE,
           managed |-> {}, hook |-> FALSE, stuck |-> {}]

ShellsTypeOK ==
  /\ gen \in File
  /\ rec \in File
  /\ shells \in [Shell -> Session]
  /\ uses \in 0 .. MaxUses
  /\ ever \subseteq Name
  /\ dropped \subseteq Name

-----------------------------------------------------------------------------
(* What a shell does with the generated file. *)

\* for name in $ALIASDECK_MANAGED_ALIAS_NAMES: bash splits the names, and zsh,
\* which splits no parameter, has one word of them all that is no alias's name.
Words(names) == IF shell = "zsh" /\ Cardinality(names) > 1 THEN {} ELSE names

\* An old file, and PowerShell's, only define.
SourceDefinitions(s, f) ==
  [s EXCEPT !.alias = [n \in Name |-> IF n \in DOMAIN f.defs THEN f.defs[n] ELSE s.alias[n]]]

\* The names a file makes a shell remove: those the shell has on record, or the
\* migration's if it has no record.
ToRemove(s, f) == IF s.tracked THEN s.managed ELSE f.carry

\* Mutants: the migration is asked for in every shell, on record or not; every
\* alias is removed; a shell that has the hook loses it.
SourceMigrating(s, f) ==
  LET names == IF f.carry # {} THEN f.carry ELSE s.managed
      gone  == Words(names)
  IN [open    |-> s.open,
      alias   |-> [n \in Name |-> IF n \in DOMAIN f.defs THEN f.defs[n]
                                  ELSE IF n \in gone THEN Absent ELSE s.alias[n]],
      tracked |-> TRUE,
      managed |-> DOMAIN f.defs,
      hook    |-> shell = "zsh",
      stuck   |-> s.stuck \cup (names \ gone)]

SourceClearing(s, f) ==
  [s EXCEPT !.alias = [n \in Name |-> IF n \in DOMAIN f.defs THEN f.defs[n] ELSE Absent],
            !.tracked = TRUE, !.managed = DOMAIN f.defs, !.hook = shell = "zsh"]

SourceUnhooked(s, f) ==
  [s EXCEPT !.alias = [n \in Name |-> IF n \in DOMAIN f.defs THEN f.defs[n]
                                      ELSE IF n \in ToRemove(s, f) THEN Absent ELSE s.alias[n]],
            !.tracked = TRUE, !.managed = DOMAIN f.defs, !.hook = shell = "zsh" /\ ~s.hook]

\* A POSIX file of today removes the names the shell has on record, or the
\* migration's if it has no record, and defines its own; zsh's adds the hook.
SourceManaged(s, f) ==
  LET gone == Words(ToRemove(s, f))
  IN [open    |-> s.open,
      alias   |-> [n \in Name |-> IF n \in DOMAIN f.defs THEN f.defs[n]
                                  ELSE IF n \in gone THEN Absent ELSE s.alias[n]],
      tracked |-> TRUE,
      managed |-> DOMAIN f.defs,
      hook    |-> shell = "zsh",
      stuck   |-> s.stuck \cup (ToRemove(s, f) \ gone)]

Sourced(s, f) ==
  IF f.format = "none" THEN s
  ELSE IF f.format = "legacy" \/ shell = "powershell" THEN SourceDefinitions(s, f)
  ELSE SourceManaged(s, f)

-----------------------------------------------------------------------------
(* The state before: nothing, or the file of an older version and shells
   that have sourced it, or one before it, or both in turn. *)

\* What the rc file itself defines, before AliasDeck's block.
NewShell == [Closed EXCEPT !.open = TRUE,
                           !.alias = [n \in Name |-> IF n \in OwnNames THEN Own ELSE Absent]]

LegacyFile(defs) == [format |-> "legacy", defs |-> defs, carry |-> {}, exact |-> TRUE]

\* The names that only the earlier file had, nothing has on record.
ShellsInit ==
  /\ gen \in {NoFile} \cup {LegacyFile(defs) : defs \in Legacy}
  /\ gen.format = "legacy" => shell # "powershell"
  /\ \E earlier \in IF gen.format = "none" THEN {NoFile} ELSE {LegacyFile(defs) : defs \in Legacy},
        old \in SUBSET Shell :
       /\ gen.format = "none" => old = {}
       /\ \E reloaded \in SUBSET old :
            shells = [s \in Shell |-> IF s \notin old THEN Closed
                                     ELSE IF s \notin reloaded THEN SourceDefinitions(NewShell, earlier)
                                     ELSE SourceDefinitions(SourceDefinitions(NewShell, earlier), gen)]
       /\ ever = DOMAIN gen.defs \cup DOMAIN earlier.defs
       /\ dropped = DOMAIN earlier.defs \ DOMAIN gen.defs
  /\ rec = gen
  /\ uses = 0

-----------------------------------------------------------------------------
(* sync. *)

\* MigrateLegacyPOSIXOutput: the names of a file that is exactly an old one.
Migrates == gen.format = "legacy" /\ gen.exact /\ DOMAIN gen.defs # {}

\* CarryForwardLegacyPOSIXMigration: a marker is passed on only if the file is the
\* one on record.
Carries == gen.format = "current" /\ gen = rec

\* Mutant: the marker is not passed on.
CarryOnce == IF shell = "powershell" THEN {} ELSE IF Migrates THEN DOMAIN gen.defs ELSE {}

Carry ==
  IF shell = "powershell" THEN {}
  ELSE IF Migrates THEN DOMAIN gen.defs
  ELSE IF Carries THEN gen.carry
  ELSE {}

Rendered(defs) == [format |-> "current", defs |-> defs, carry |-> Carry, exact |-> TRUE]

\* Revision, rendered bytes and file on disk all as recorded.
Unchanged(defs) == rec = Rendered(defs) /\ gen = rec

\* A file that goes takes with it the names nobody carries on.
ReplaceFile(f) ==
  /\ gen' = f
  /\ ever' = ever \cup DOMAIN f.defs
  /\ dropped' = dropped \cup
       ((gen.carry \cup IF gen.format = "legacy" THEN DOMAIN gen.defs ELSE {})
          \ (f.carry \cup IF f.format = "legacy" /\ f.exact THEN DOMAIN f.defs ELSE {}))

SyncSkips(defs) == Unchanged(defs) /\ UNCHANGED fileVars

SyncWrites(defs) ==
  /\ ~Unchanged(defs)
  /\ ReplaceFile(Rendered(defs))
  /\ rec' = Rendered(defs)

\* The process dies, or Save fails, between the file and state.json.
SyncDies(defs) ==
  /\ ~Unchanged(defs)
  /\ ReplaceFile(Rendered(defs))
  /\ UNCHANGED rec

Resolves == FileResolve \/ GitResolve \/ ServerResolve

\* The guard of the renderer lets through what the source answers.
Answered == answer'.kind = "config" /\ Renders(answer'.doc, shell)

SyncWith(defs) == SyncSkips(defs) \/ SyncWrites(defs)

\* From the watcher, or from somewhere that sources nothing.
SyncAliases ==
  /\ Resolves /\ Answered
  /\ SyncWith(Rendering(answer'.doc, shell))
  /\ UNCHANGED <<shells, uses>>

SyncFailsToRecord ==
  /\ uses < MaxUses /\ uses' = uses + 1
  /\ Resolves /\ Answered
  /\ SyncDies(Rendering(answer'.doc, shell))
  /\ UNCHANGED shells

\* The source does not answer, the renderer refuses what it answers, or something
\* fails before the file is replaced.
SyncFails == Resolves /\ UNCHANGED shellVars

\* The aliasdeck() function of the block: after a sync that succeeds, the shell
\* it ran in sources the file.
SyncIn(s) ==
  /\ shells[s].open /\ shell \in {"bash", "zsh"}
  /\ Resolves /\ Answered
  /\ SyncWith(Rendering(answer'.doc, shell))
  /\ shells' = [shells EXCEPT ![s] = Sourced(@, gen')]
  /\ UNCHANGED uses

-----------------------------------------------------------------------------
(* The shells. *)

\* A shell starts: the rc file's own aliases, then the block at its end. Bash's
\* block only defines the function.
OpenShell(s) ==
  /\ ~shells[s].open
  /\ shells' = [shells EXCEPT ![s] = IF shell = "bash" THEN NewShell ELSE Sourced(NewShell, gen)]
  /\ UNCHANGED <<sourceVars, fileVars, uses>>

\* precmd.
Prompt(s) ==
  /\ shells[s].hook
  /\ shells' = [shells EXCEPT ![s] = Sourced(@, gen)]
  /\ UNCHANGED <<sourceVars, fileVars, uses>>

-----------------------------------------------------------------------------
(* Users and failures: at most MaxUses of these. *)

Use == uses < MaxUses /\ uses' = uses + 1

\* The user makes an alias, by hand.
UserDefines(s) ==
  /\ Use
  /\ shells[s].open
  /\ \E n \in Name : shells' = [shells EXCEPT ![s].alias[n] = Own]
  /\ UNCHANGED <<sourceVars, fileVars>>

\* Somebody edits the generated file, or deletes it.
GeneratedTampered ==
  /\ Use
  /\ gen.format # "none"
  /\ ReplaceFile([gen EXCEPT !.exact = FALSE]) \/ ReplaceFile(NoFile)
  /\ UNCHANGED <<sourceVars, rec, shells>>

\* state.json is lost.
RecordLost ==
  /\ Use
  /\ rec' = NoFile
  /\ UNCHANGED <<sourceVars, gen, shells, ever, dropped>>

AliasNext ==
  \/ SyncAliases \/ SyncFailsToRecord \/ SyncFails
  \/ (OriginChanges \/ EditCheckout) /\ UNCHANGED shellVars
  \/ \E s \in Shell : SyncIn(s) \/ OpenShell(s) \/ Prompt(s) \/ UserDefines(s)
  \/ GeneratedTampered \/ RecordLost

AliasInit == SourcesInit /\ ShellsInit

\* As long as a shell with the hook is used, its prompt comes back.
PromptFairness == \A s \in Shell : WF_aliasVars(Prompt(s))

AliasSpec == AliasInit /\ [][AliasNext]_aliasVars /\ PromptFairness

-----------------------------------------------------------------------------
(* Properties. *)

\* "Generated POSIX files remove only aliases managed by their previous revision",
\* and do remove them: whatever was synced, migrated, opened and reloaded, an
\* alias of AliasDeck's in a shell that keeps a record is on that record. What is
\* left over is a name whose migration was dropped (with a file that was edited,
\* deleted or not recorded) or never was (of a file before the one migrated), or one
\* that zsh, which splits no parameter, failed to remove together with others.
NoLeftovers ==
  \A s \in Shell : shells[s].tracked =>
    \A n \in Name : shells[s].alias[n] \in Command =>
      n \in shells[s].managed \cup shells[s].stuck \cup dropped

\* "Preserves unrelated user aliases": a name that no generated file ever had is
\* the user's, in every shell, whatever is synced, migrated and reloaded.
UnrelatedAliasesAreKept ==
  [][\A s \in Shell, n \in Name \ ever' :
       shells[s].alias[n] = Own => shells'[s].alias[n] = Own]_aliasVars

\* "A repeated sync touches no file at all": after a sync has written and recorded
\* a file, and with it what the migration left for the next one, the same aliases
\* render to the same file again.
SyncSettles ==
  gen = rec /\ gen.format = "current" => Rendered(gen.defs) = gen

\* Once the file stays as it is, every zsh that has sourced one of today's comes to
\* have its aliases, in whatever order syncs, edits and the shell's own came before.
ShellsCatchUp ==
  <>[](\A s \in Shell, n \in Name :
         shell = "zsh" /\ shells[s].tracked /\ n \in DOMAIN gen.defs
           => shells[s].alias[n] = gen.defs[n])

=============================================================================
