----------------------------- MODULE AliasSources -----------------------------
(***************************************************************************)
(* Where a device's aliases come from: a local file, a git checkout that is *)
(* cached under the base directory, or the server.  A resolve answers with *)
(* a document or an error, and a git resolve may answer with what it has   *)
(* cached, reported as stale.                                              *)
(*                                                                         *)
(* Code: internal/source/{file,git,gitrun,server}.go.                      *)
(*                                                                         *)
(* A git resolve runs its commands one after another on a directory of its *)
(* own: here it is one action, with every command's failure an outcome of  *)
(* it.  What git itself does is modelled from how git.go calls it: clone   *)
(* makes a local branch for the default branch only, fetch moves only the  *)
(* tracking branches, reset --hard moves the branch that is checked out.   *)
(***************************************************************************)
EXTENDS AliasDocument

CONSTANTS Held,       \* the documents the origin of each kind of source may hold
          NoDocument, \* no file, no commit
          MaxEdits    \* bound on the changes to the origin and to the checkout

Document == UNION {Held[t] : t \in {"file", "git", "server"}}

ASSUME DocumentAssumption ==
  NoDocument \notin Document /\ \A doc \in Document : IsDocument(doc)
ASSUME EditsAssumption == MaxEdits \in Nat

\* The default branch, which the local branch is named after, and another.
Branch == {"main", "other"}

\* source.git.ref: left out, the name of the default branch, the name of another
\* branch, or a tag or a commit.
Ref == {"", "main", "other", "pinned"}

VARIABLES
  source,    \* source.type
  gitRef,    \* source.git.ref
  shell,     \* the device's shell
  upstream,  \* what each branch holds; a file and a server have only the first
  pin,       \* the commit a pinned ref names
  checkout,  \* the cache directory
  answer,    \* what the last resolve answered
  edits

\* History: what each branch has held.
VARIABLE past

sourceConfig == <<source, gitRef, shell, pin>>
sourceVars == <<sourceConfig, upstream, checkout, answer, edits, past>>

\* No .git directory; and one that a clone left behind when it was killed, with
\* neither branches nor a worktree.
NoCheckout == [has |-> FALSE, local |-> NoDocument, whole |-> FALSE,
               track |-> [b \in Branch |-> NoDocument],
               tree |-> NoDocument, edited |-> FALSE]

HalfCheckout == [NoCheckout EXCEPT !.has = TRUE]

Checkout == [has : BOOLEAN, local : Document \cup {NoDocument}, whole : BOOLEAN,
             track : [Branch -> Document \cup {NoDocument}],
             tree : Document \cup {NoDocument}, edited : BOOLEAN]

NoAnswer == [kind |-> "none", doc |-> NoDocument, stale |-> FALSE, asked |-> NoDocument]
Failure == [NoAnswer EXCEPT !.kind = "error"]

Answer == [kind : {"none", "error", "config"}, doc : Document \cup {NoDocument},
           stale : BOOLEAN, asked : Document \cup {NoDocument}]

SourcesTypeOK ==
  /\ source \in {"file", "git", "server"}
  /\ gitRef \in Ref
  /\ shell \in ShellKind
  /\ upstream \in [Branch -> Document]
  /\ pin \in Document
  /\ checkout \in Checkout
  /\ answer \in Answer
  /\ edits \in 0 .. MaxEdits
  /\ past \in [Branch -> SUBSET Document]

SourcesInit ==
  /\ source \in {"file", "git", "server"}
  /\ gitRef \in IF source = "git" THEN Ref ELSE {""}
  /\ shell \in ShellKind
  /\ upstream \in [Branch -> Held[source]]
  /\ source # "git" => upstream["other"] = upstream["main"]
  /\ pin = upstream["main"]
  /\ checkout = NoCheckout
  /\ answer = NoAnswer
  /\ edits = 0
  /\ past = [b \in Branch |-> {upstream[b]}]

-----------------------------------------------------------------------------
(* The three resolves. *)

\* What the configured ref names at the origin now.
Asked == IF gitRef = "pinned" THEN pin
         ELSE IF gitRef = "other" THEN upstream["other"]
         ELSE upstream["main"]

\* What is read is parsed, resolved for the device and filtered, or it is an error.
AnswerWith(doc, stale) ==
  IF doc # NoDocument /\ ParseAliases(doc)
  THEN [kind |-> "config", doc |-> doc, stale |-> stale, asked |-> Asked]
  ELSE Failure

FileResolve ==
  /\ source = "file"
  /\ answer' = AnswerWith(upstream["main"], FALSE)
  /\ UNCHANGED <<sourceConfig, upstream, checkout, edits, past>>

\* One bounded request, never repeated, and no cache behind it: unreachable, a
\* redirect, too long, refused, undecodable or a revision that does not match
\* are all errors.
ServerResolve ==
  /\ source = "server"
  /\ answer' \in {Failure, AnswerWith(upstream["main"], FALSE)}
  /\ UNCHANGED <<sourceConfig, upstream, checkout, edits, past>>

\* git clone.
Cloned == [has |-> TRUE, local |-> upstream["main"], whole |-> TRUE, track |-> upstream,
           tree |-> upstream["main"], edited |-> FALSE]

\* git fetch --prune origin, which a half-made clone gives no branches.
Fetched == IF checkout.whole THEN [checkout EXCEPT !.track = upstream] ELSE checkout

\* What git reset --hard resolves the ref to: the local branch of that name, or
\* else a tag or commit; no argument of that name is a tracking branch.
Target(c) ==
  IF ~c.whole THEN NoDocument
  ELSE IF gitRef = "" THEN c.track["main"]
  ELSE IF gitRef = "main" THEN c.local
  ELSE IF gitRef = "pinned" THEN pin
  ELSE NoDocument

\* Mutant: a soft reset moves the branch and leaves the files.
ResetSoft(c, target) == [c EXCEPT !.local = target, !.edited = FALSE]

ResetTo(c, target) == [c EXCEPT !.local = target, !.tree = target, !.edited = FALSE]

\* With no checkout to fall back on, whatever fails is an error. A clone that
\* fails cleans up after itself, unless it is killed at GitTimeout.
CloneFails ==
  /\ checkout' \in {NoCheckout, HalfCheckout, Cloned}
  /\ answer' = Failure

CloneAndReset ==
  /\ Target(Cloned) # NoDocument
  /\ checkout' = ResetTo(Cloned, Target(Cloned))
  /\ answer' = AnswerWith(Target(Cloned), FALSE)

\* Mutant: a fetch that fails is not told from one that succeeds.
ServeUnreported ==
  /\ checkout' \in {checkout, Fetched}
  /\ answer' = AnswerWith(checkout.tree, FALSE)

\* With one, it is what is there that is read: fetch fails, or set-head or
\* reset do after it.
ServeStale ==
  /\ checkout' \in {checkout, Fetched}
  /\ answer' = AnswerWith(checkout.tree, TRUE)

FetchAndReset ==
  /\ Target(Fetched) # NoDocument
  /\ checkout' = ResetTo(Fetched, Target(Fetched))
  /\ answer' = AnswerWith(Target(Fetched), FALSE)

GitResolve ==
  /\ source = "git"
  /\ IF checkout.has THEN FetchAndReset \/ ServeStale ELSE CloneAndReset \/ CloneFails
  /\ UNCHANGED <<sourceConfig, upstream, edits, past>>

-----------------------------------------------------------------------------
(* What the program does not control: at most MaxEdits of these. *)

Edit == edits < MaxEdits /\ edits' = edits + 1

\* Somebody edits the file, pushes to a branch, or changes the server's aliases.
OriginChanges ==
  /\ Edit
  /\ \E b \in Branch, doc \in Held[source] :
       /\ b = "main" \/ source = "git"
       /\ doc # upstream[b]
       /\ upstream' = [upstream EXCEPT ![b] = doc]
       /\ past' = [past EXCEPT ![b] = @ \cup {doc}]
  /\ UNCHANGED <<sourceConfig, checkout, answer>>

\* "aliasdeck edit" opens the checkout's own file.
EditCheckout ==
  /\ Edit
  /\ source = "git" /\ checkout.tree # NoDocument
  /\ \E doc \in Held[source] \ {checkout.tree} :
       checkout' = [checkout EXCEPT !.tree = doc, !.edited = TRUE]
  /\ UNCHANGED <<sourceConfig, upstream, answer, past>>

SourcesNext ==
  \/ FileResolve \/ ServerResolve \/ GitResolve
  \/ OriginChanges \/ EditCheckout

SourcesSpec == SourcesInit /\ [][SourcesNext]_sourceVars

-----------------------------------------------------------------------------
(* Properties. *)

\* The config-source specification: a resolve that could not reach the origin
\* reports its checkout as stale "rather than presenting it as current".
NotStaleIsCurrent ==
  answer.kind = "config" /\ ~answer.stale => answer.doc = answer.asked

\* It holds of every source but a git one whose ref is the name of a branch:
\* reset --hard takes that for the local branch, which no fetch moves.
CurrentUnlessBranch == gitRef # "main" => NotStaleIsCurrent

\* What is served as stale is what the ref once named, whole, whatever failed
\* and in whatever order: a clone that was killed, a fetch without its reset. Only
\* somebody's edit of the checkout, which the next reset discards, and a ref
\* that was never checked out at all are not.
StaleWasCurrent ==
  [][answer' # answer /\ answer'.kind = "config" /\ answer'.stale
       => \/ checkout.edited \/ gitRef = "other"
          \/ answer'.doc \in past["main"]]_sourceVars

\* "One bad alias must never stop the other forty from reaching the machine": of
\* what a source answers, every entry that is sound and whose name nobody else
\* uses is kept, no two named entries that are kept collide or are unsound, and
\* if the guard of the renderer refuses what is kept, and with it the whole
\* sync, it is for an entry without a name or for too many of them.
OneBadAliasStopsNoOther ==
  answer.kind = "config" =>
    LET doc  == answer.doc
        here == Resolve(doc)
        kept == Filtered(doc, shell)
    IN /\ \A i \in here :
            /\ doc.entries[i].sound
            /\ \A j \in here \ {i} : DuplicateKey(doc, i, shell) # DuplicateKey(doc, j, shell)
            => i \in kept
       /\ \A i \in kept :
            doc.entries[i].name # Unnamed =>
              /\ doc.entries[i].sound
              /\ \A j \in kept \ {i} : DuplicateKey(doc, i, shell) # DuplicateKey(doc, j, shell)
       /\ \/ Renders(doc, shell)
          \/ \E i \in here : doc.entries[i].name = Unnamed
          \/ TooMany(kept)

=============================================================================
