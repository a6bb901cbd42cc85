-------------------------------- MODULE Device --------------------------------
(***************************************************************************)
(* The parts of the client, and of the enrollment that makes a machine one,  *)
(* side by side. Each module below leaves out the others' files: ClientSync *)
(* has the commands that share files, AliasSources and ShellAliases what    *)
(* goes through them, RcBlock the bytes of the rc file, Enrollment the      *)
(* credential. They are not multiplied: a behaviour is one of one part,    *)
(* chosen at the start, and the other parts stand still.                   *)
(***************************************************************************)
EXTENDS ClientSync, ShellAliases, RcBlock, Enrollment

VARIABLE part

deviceVars == <<part, vars, aliasVars, rcVars, enrollVars>>

\* A part that stands still has one initial state.
StillSources ==
  /\ source = "file" /\ shell = "zsh"
  /\ upstream["main"] = CHOOSE doc \in Held["file"] : TRUE

DeviceInit ==
  /\ part \in {"commands", "sources", "shells", "rc file", "enrollment"}
  /\ Init /\ SourcesInit /\ ShellsInit /\ RcInit /\ EnrollInit
  /\ part # "commands" => content = CHOOSE c \in Content : TRUE
  /\ part \notin {"sources", "shells"} => StillSources
  /\ part # "shells" => gen.format = "none"
  /\ part = "shells" => source = "file"
  /\ part # "rc file" => before = CHOOSE s \in RcFile : TRUE

Commands == part = "commands" /\ Next /\ UNCHANGED <<part, aliasVars, rcVars, enrollVars>>

Sources == part = "sources" /\ SourcesNext /\ UNCHANGED <<part, vars, shellVars, rcVars, enrollVars>>

Shells == part = "shells" /\ AliasNext /\ UNCHANGED <<part, vars, rcVars, enrollVars>>

RcFiles == part = "rc file" /\ RcNext /\ UNCHANGED <<part, vars, aliasVars, enrollVars>>

Enrollments == part = "enrollment" /\ EnrollNext /\ UNCHANGED <<part, vars, aliasVars, rcVars>>

DeviceNext == Commands \/ Sources \/ Shells \/ RcFiles \/ Enrollments

DeviceSpec ==
  /\ DeviceInit /\ [][DeviceNext]_deviceVars
  /\ Fairness /\ PromptFairness /\ PageFairness

\* The variables of all parts have their types.
DeviceTypeOK == TypeOK /\ SourcesTypeOK /\ ShellsTypeOK /\ RcTypeOK /\ EnrollTypeOK

=============================================================================
