---------------------------- MODULE AliasDocument ----------------------------
(***************************************************************************)
(* What becomes of an aliases.yaml, or of a server's answer, on its way to *)
(* a shell: parse it, resolve it for the device, filter out what is not    *)
(* safe, and render the rest -- unless a last check refuses.               *)
(*                                                                         *)
(* Code: internal/config/aliases.go, internal/domain, internal/validate    *)
(* and the guard of internal/renderers.                                    *)
(*                                                                         *)
(* A list of aliases is a function on positions, and what is left of it    *)
(* after a step is the set of the positions that are: the order of names,  *)
(* which decides which of two repeats comes first, is a constant.          *)
(***************************************************************************)
EXTENDS Naturals, FiniteSets

CONSTANTS Name,       \* names an entry may have, but for the empty one
          Unnamed,    \* the empty name
          Command,    \* commands
          Fold,       \* names to the names PowerShell takes them for (ToLower)
          Rank,       \* names to their place in the order of names
          MaxAliases  \* validate.MaxAliases

ASSUME NameAssumption == Unnamed \notin Name
ASSUME FoldAssumption ==
  /\ Fold \in [Name \cup {Unnamed} -> Name \cup {Unnamed}]
  /\ \A n \in Name : Fold[n] # Fold[Unnamed]
ASSUME RankAssumption ==
  /\ Rank \in [Name \cup {Unnamed} -> Nat]
  /\ \A m, n \in Name \cup {Unnamed} : Rank[m] = Rank[n] => m = n
ASSUME MaxAliasesAssumption == MaxAliases \in Nat

ShellKind == {"zsh", "bash", "powershell"}

\* sound: name, command and description pass the rules one by one.
\* known: it names no platform or shell the program has not heard of.
\* here:  it is enabled and its targeting agrees with the device.
Entry == [name : Name \cup {Unnamed}, command : Command,
          sound : BOOLEAN, known : BOOLEAN, here : BOOLEAN]

\* A document: whether it is a version-1 document of known fields within the
\* size limit, and its entries.
IsDocument(doc) ==
  /\ doc.readable \in BOOLEAN
  /\ DOMAIN doc.entries \subseteq Nat
  /\ IsFiniteSet(DOMAIN doc.entries)
  /\ \A i \in DOMAIN doc.entries :
       /\ doc.entries[i] \in Entry
       /\ doc.entries[i].name = Unnamed => ~doc.entries[i].sound

-----------------------------------------------------------------------------

\* One entry with an unknown platform or shell fails the whole document.
ParseAliases(doc) ==
  doc.readable /\ \A i \in DOMAIN doc.entries : doc.entries[i].known

Resolve(doc) == {i \in DOMAIN doc.entries : doc.entries[i].here}

\* Sorted by name, and by position where the names are the same.
Before(doc, i, j) ==
  LET m == Rank[doc.entries[i].name]
      n == Rank[doc.entries[j].name]
  IN m < n \/ (m = n /\ i < j)

\* PowerShell takes names that differ by case only for the same.
DuplicateKey(doc, i, shell) ==
  IF shell = "powershell" THEN Fold[doc.entries[i].name] ELSE doc.entries[i].name

Flawed(doc, S) == {i \in S : ~doc.entries[i].sound}

\* An entry whose key an earlier one has, whether or not that one is flawed.
Repeats(doc, S, shell) ==
  {j \in S : \E i \in S : /\ Before(doc, i, j)
                          /\ DuplicateKey(doc, i, shell) = DuplicateKey(doc, j, shell)}

TooMany(S) == Cardinality(S) > MaxAliases

\* Config(...).HasErrors(): what the guard of a renderer asks again.
HasErrors(doc, S, shell) ==
  Flawed(doc, S) # {} \/ Repeats(doc, S, shell) # {} \/ TooMany(S)

\* The names that errors carry; the error of an unnamed entry carries none.
Blocked(doc, S, shell) ==
  {doc.entries[i].name : i \in Flawed(doc, S) \cup Repeats(doc, S, shell)} \ {Unnamed}

\* Mutant: repeats are reported and kept all the same.
FilterFlawed(doc, S, shell) ==
  {i \in S : doc.entries[i].name \notin {doc.entries[j].name : j \in Flawed(doc, S)}}

FilterValid(doc, S, shell) ==
  {i \in S : doc.entries[i].name \notin Blocked(doc, S, shell)}

\* What reaches the renderer, from any source.
Filtered(doc, shell) == FilterValid(doc, Resolve(doc), shell)

\* The guard lets it through.
Renders(doc, shell) == ~HasErrors(doc, Filtered(doc, shell), shell)

\* The names and commands of a rendered file. What renders has no repeats, so a
\* name has one entry.
Rendering(doc, shell) ==
  LET S == Filtered(doc, shell)
  IN [n \in {doc.entries[i].name : i \in S} |->
        doc.entries[CHOOSE i \in S : doc.entries[i].name = n].command]

=============================================================================
