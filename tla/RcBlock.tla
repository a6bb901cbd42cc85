-------------------------------- MODULE RcBlock --------------------------------
(***************************************************************************)
(* AliasDeck's block in the user's rc file: init appends it and records     *)
(* its bytes, the user edits the file around it and inside it, uninstall   *)
(* takes it out again, and import reads the user's aliases past it.        *)
(*                                                                         *)
(* Code: internal/apply/bootstrap.go, its callers internal/app/{init,       *)
(* uninstall}.go, and internal/importers/posix.go.                          *)
(*                                                                         *)
(* The file is a sequence of tokens: the ends of lines, the markers, and    *)
(* the text between them. What is searched for byte by byte in the code is *)
(* searched for token by token here. A crlf is one token: where a block    *)
(* that was recorded with bare newlines is looked for, the file has no     *)
(* crlf whose newline could be taken for one of them.                      *)
(***************************************************************************)
EXTENDS Naturals, Sequences, SequencesExt

CONSTANTS RcFile,     \* what the rc file may hold before the first init
          MaxRcEdits  \* bound on the edits of the user and the deaths of commands

\* text, alias: lines of the user's. hook: the lines that BootstrapLine returns.
\* changed: those lines, after the user has edited them.
Word == {"text", "alias", "hook", "changed", "begin", "end", "crlf", "nl"}

LineEnd == {"nl", "crlf"}

ASSUME RcFileAssumption == \A s \in RcFile :
  s \in Seq(Word) /\ \A i \in 1 .. Len(s) : s[i] \notin {"hook", "changed"}
ASSUME RcEditsAssumption == MaxRcEdits \in Nat

\* The file is before \o block \o after.
VARIABLES
  before,   \* what the user has above the block, and all there is without one
  block,    \* the block, empty if there is none
  after,    \* what the user has below it
  record,   \* state.Bootstrap.Block, empty if there is none
  rcEdits

rcVars == <<before, block, after, record, rcEdits>>

rcFile == before \o block \o after

RcTypeOK ==
  /\ before \in Seq(Word) /\ block \in Seq(Word) /\ after \in Seq(Word)
  /\ record \in Seq(Word)
  /\ rcEdits \in 0 .. MaxRcEdits

RcInit ==
  /\ before \in RcFile
  /\ block = <<>>
  /\ after = <<>>
  /\ record = <<>>
  /\ rcEdits = 0

-----------------------------------------------------------------------------
(* bootstrap.go. *)

\* The last line of s, if there is one, is ended.
Terminated(s) == s = <<>> \/ s[Len(s)] \in LineEnd

\* detectEOL: crlf if the file has one anywhere.
Eol(s) == IF "crlf" \in ToSet(s) THEN "crlf" ELSE "nl"

\* buildBlock: what ends an unterminated last line, a blank line above the block,
\* and the block.
BuildBlock(s) ==
  (IF Terminated(s) THEN <<>> ELSE <<Eol(s)>>)
    \o (IF s # <<>> THEN <<Eol(s)>> ELSE <<>>)
    \o <<"begin", Eol(s), "hook", Eol(s), "end", Eol(s)>>

\* bytes.Index, but 0 for nothing: the least of some places.
First(places) ==
  IF places = {} THEN 0 ELSE CHOOSE i \in places : \A j \in places : i <= j

\* indexOfLine: the first place where the marker is all of a line.
IsLine(s, i) ==
  /\ i = 1 \/ s[i - 1] \in LineEnd
  /\ i = Len(s) \/ s[i + 1] \in LineEnd

IndexOfLine(s, marker) == First({i \in 1 .. Len(s) : s[i] = marker /\ IsLine(s, i)})

\* Where the bytes are in s.
Occurrences(s, bytes) ==
  {i \in 1 .. Len(s) :
     /\ i + Len(bytes) <= Len(s) + 1
     /\ \A j \in 1 .. Len(bytes) : s[i + j - 1] = bytes[j]}

\* stripTrailingEOL: how much of the first n tokens is left without their last eol.
StripEol(s, n) == IF n >= 1 /\ s[n] \in LineEnd THEN n - 1 ELSE n

\* Mutant: whatever ends the line above goes with it.
KeptAboveGreedy(s, n) == StripEol(s, n)

\* The blank line above a marker goes with it.
KeptAbove(s, n) ==
  LET m == StripEol(s, n)
  IN IF m # n /\ (m = 0 \/ StripEol(s, m) # m) THEN m ELSE n

\* And so does the end of the marker's own line.
KeptBelow(s, n) == IF n < Len(s) /\ s[n + 1] \in LineEnd THEN n + 2 ELSE n + 1

\* All of s but what lies between the first n tokens and the m-th.
Without(s, n, m) == SubSeq(s, 1, n) \o SubSeq(s, m, Len(s))

\* removeMarkerScan: from one marker's line to the other's, unless they are not
\* both there in that order.
MarkerScan(s) ==
  LET b == IndexOfLine(s, "begin")
      e == IndexOfLine(s, "end")
  IN IF b = 0 \/ e < b THEN s ELSE Without(s, KeptAbove(s, b - 1), KeptBelow(s, e))

\* RemoveBootstrap: the recorded bytes where they first are, or else the scan.
Removed(s, bytes) ==
  LET i == First(Occurrences(s, bytes))
  IN IF bytes # <<>> /\ i # 0 THEN Without(s, i - 1, i + Len(bytes)) ELSE MarkerScan(s)

-----------------------------------------------------------------------------
(* The commands. *)

RcEdit == rcEdits < MaxRcEdits /\ rcEdits' = rcEdits + 1

HasMarker == "begin" \in ToSet(rcFile)

AddBootstrap ==
  /\ ~HasMarker
  /\ before' = rcFile
  /\ block' = BuildBlock(rcFile)
  /\ after' = <<>>

\* init: what was appended is recorded ...
RcInitCommand ==
  /\ AddBootstrap
  /\ record' = block'
  /\ UNCHANGED rcEdits

\* ... unless it fails before that.
RcInitDies ==
  /\ RcEdit
  /\ AddBootstrap
  /\ UNCHANGED record

\* A marker anywhere in the file, even in the middle of a line, and nothing is
\* added or recorded.
RcInitAgain == HasMarker /\ UNCHANGED rcVars

\* What is left of the file is the user's, if anything was taken out of it.
TakeOut ==
  IF Removed(rcFile, record) = rcFile THEN UNCHANGED <<before, block, after>>
  ELSE /\ before' = Removed(rcFile, record)
       /\ block' = <<>>
       /\ after' = <<>>

\* uninstall, with a block on record; and then the record goes ...
RcUninstall ==
  /\ record # <<>>
  /\ TakeOut
  /\ record' = <<>>
  /\ UNCHANGED rcEdits

\* ... unless it fails before that.
RcUninstallDies ==
  /\ RcEdit
  /\ record # <<>>
  /\ TakeOut
  /\ UNCHANGED record

-----------------------------------------------------------------------------
(* The user. *)

RcAppends(line) ==
  /\ RcEdit
  /\ IF block = <<>> THEN before' = before \o line /\ UNCHANGED after
     ELSE after' = after \o line /\ UNCHANGED before
  /\ UNCHANGED <<block, record>>

RcPrepends(line) ==
  /\ RcEdit
  /\ before' = line \o before
  /\ UNCHANGED <<block, after, record>>

\* Edits the lines of the block, and has an alias in it.
RcEditsInside ==
  /\ RcEdit
  /\ \E i \in 1 .. Len(block) :
       /\ block[i] = "hook"
       /\ block' = SubSeq(block, 1, i - 1) \o <<"changed", "nl", "alias">>
                     \o SubSeq(block, i + 1, Len(block))
  /\ UNCHANGED <<before, after, record>>

\* Deletes the last line of the block.
RcDropsEnd ==
  /\ RcEdit
  /\ \E i \in 1 .. Len(block) : block[i] = "end" /\ block' = SubSeq(block, 1, i - 1)
  /\ UNCHANGED <<before, after, record>>

\* Deletes the blank line above the block.
RcDropsBlankLine ==
  /\ RcEdit
  /\ block # <<>> /\ Head(block) \in LineEnd
  /\ block' = Tail(block)
  /\ IndexOfLine(before \o block', "begin") # 0
  /\ UNCHANGED <<before, after, record>>

\* Deletes the block.
RcDropsBlock ==
  /\ RcEdit
  /\ block # <<>>
  /\ before' = before \o after
  /\ block' = <<>>
  /\ after' = <<>>
  /\ UNCHANGED record

\* An editor turns every crlf into a newline.
ToNewlines(s) == [i \in 1 .. Len(s) |-> IF s[i] = "crlf" THEN "nl" ELSE s[i]]

RcToNewlines ==
  /\ RcEdit
  /\ "crlf" \in ToSet(rcFile)
  /\ before' = ToNewlines(before)
  /\ block' = ToNewlines(block)
  /\ after' = ToNewlines(after)
  /\ UNCHANGED record

RcNext ==
  \/ RcInitCommand \/ RcInitAgain \/ RcInitDies \/ RcUninstall \/ RcUninstallDies
  \/ RcAppends(<<"text", "nl">>) \/ RcPrepends(<<"alias", "nl">>)
  \/ RcEditsInside \/ RcDropsEnd \/ RcDropsBlankLine \/ RcDropsBlock \/ RcToNewlines

RcSpec == RcInit /\ [][RcNext]_rcVars

-----------------------------------------------------------------------------
(* import. *)

\* Mutant: the block is read like the rest.
ImportedAll(s) == {i \in 1 .. Len(s) : s[i] = "alias"}

\* ParsePOSIX: lines from one that begins with the one marker to one that begins
\* with the other are skipped, whatever else those lines have.
Imported(s) ==
  {i \in 1 .. Len(s) :
     /\ s[i] = "alias"
     /\ \A b \in 1 .. i :
          s[b] = "begin" /\ (b = 1 \/ s[b - 1] \in LineEnd)
            => \E e \in b + 1 .. i : s[e] = "end" /\ s[e - 1] \in LineEnd}

-----------------------------------------------------------------------------
(* Properties. *)

\* With the blank line above the block deleted, the recorded bytes still match:
\* the newline they begin with is then the end of the user's own line.
TakesUsersNewline == \E i \in Occurrences(rcFile, record) : i <= Len(before)

\* A pair of markers that the scan finds: it takes the first line that is the end
\* marker, and one of the user's above the block is no end of it.
Paired == {"begin", "end"} \subseteq ToSet(block) /\ IndexOfLine(before, "end") = 0

\* The user's lines are all there: no more is lost of them than a blank one above
\* the block, no more is left of the block than blank ones, and what follows still
\* begins a line.
GivesLinesBack ==
  \E k \in 0 .. Len(before), l \in 0 .. Len(block) :
    LET kept  == SubSeq(before, 1, k)
        above == kept \o SubSeq(block, 1, l)
    IN /\ rcFile' = above \o after
       /\ Terminated(above)
       /\ \A i \in 1 .. l : block[i] \in LineEnd
       /\ k < Len(before) => k = Len(before) - 1 /\ before[k + 1] \in LineEnd /\ Terminated(kept)

\* "Uninstall restores byte-identical files": a block that nobody touched goes and
\* leaves the user's bytes, whatever was added above and below it; one that was
\* edited goes and leaves the user's lines; and of a file with neither the recorded
\* bytes nor a pair of markers nothing goes. The exception joins two of the user's
\* lines.
UninstallGivesBack ==
  [][record # <<>> /\ record' = <<>> /\ ~TakesUsersNewline =>
       /\ block = record => rcFile' = before \o after
       /\ block # record /\ Paired => GivesLinesBack
       /\ Occurrences(rcFile, record) = {} /\ ~Paired => rcFile' = rcFile]_rcVars

\* Whatever the user did around the block and in it, import reads of what is above
\* it the aliases it would read there without it, all of those below, and none
\* inside, as long as the block has its end.
ImportReadsTheUsers ==
  block = <<>> \/ "end" \in ToSet(block) =>
    Imported(rcFile) = Imported(before) \cup
      {i \in 1 .. Len(rcFile) : rcFile[i] = "alias" /\ i > Len(before) + Len(block)}

=============================================================================
