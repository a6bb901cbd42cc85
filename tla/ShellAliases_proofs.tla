-------------------------- MODULE ShellAliases_proofs --------------------------
(***************************************************************************)
(* Theorems about AliasSources and ShellAliases.                           *)
(*                                                                         *)
(* Sources: a git checkout is served as current only when it is, and what  *)
(* is served is filtered alias by alias. The last is a fact about one      *)
(* document (KeepsTheGood, KeepsOnlyGood, GuardAgrees), which holds of     *)
(* every document and every shell: the state only says which are served.   *)
(* CheckoutInv is what makes a stale answer one that was current once:     *)
(* every commit in the cache was at the origin.                            *)
(*                                                                         *)
(* Shells: what a shell has of AliasDeck's it has on record, what is the   *)
(* user's stays, and a sync that is repeated settles. The invariant is of  *)
(* one session at a time, relative to the file and the histories (Fits):   *)
(* sourcing changes the session and leaves the file, a sync changes the    *)
(* file and leaves the sessions, and each has a lemma. Beyond NoLeftovers  *)
(* it says what a shell without a record still has from an old file: names *)
(* that some migration is pending for, or was dropped.                     *)
(***************************************************************************)
EXTENDS ShellAliases, TLAPS

-----------------------------------------------------------------------------
(* Documents. *)

\* Of two positions one comes before the other, and not the other before it.
LEMMA BeforeIsTotal ==
  ASSUME NEW doc, IsDocument(doc),
         NEW i \in DOMAIN doc.entries, NEW j \in DOMAIN doc.entries
  PROVE  /\ i # j => Before(doc, i, j) \/ Before(doc, j, i)
         /\ ~Before(doc, i, i)
<1>1. /\ i \in Nat /\ j \in Nat
      /\ doc.entries[i].name \in Name \cup {Unnamed}
      /\ doc.entries[j].name \in Name \cup {Unnamed}
  BY DEF IsDocument, Entry
<1>2. Rank[doc.entries[i].name] \in Nat /\ Rank[doc.entries[j].name] \in Nat
  BY <1>1, RankAssumption
<1> QED BY <1>1, <1>2 DEF Before

\* Entries of one name have one key.
LEMMA SameNameSameKey ==
  ASSUME NEW doc, NEW i, NEW j, NEW sh, doc.entries[i].name = doc.entries[j].name
  PROVE  DuplicateKey(doc, i, sh) = DuplicateKey(doc, j, sh)
BY DEF DuplicateKey

\* An entry with a name has another key than one without.
LEMMA NamedKeyDiffers ==
  ASSUME NEW doc, IsDocument(doc), NEW sh,
         NEW i \in DOMAIN doc.entries, NEW j \in DOMAIN doc.entries,
         doc.entries[i].name # Unnamed, doc.entries[j].name = Unnamed
  PROVE  DuplicateKey(doc, i, sh) # DuplicateKey(doc, j, sh)
<1>1. doc.entries[i].name \in Name
  BY DEF IsDocument, Entry
<1> QED BY <1>1, FoldAssumption DEF DuplicateKey

\* An entry that is sound and that no other shares a key with is kept.
LEMMA KeepsTheGood ==
  ASSUME NEW doc, IsDocument(doc), NEW sh, NEW i \in Resolve(doc),
         doc.entries[i].sound,
         \A j \in Resolve(doc) \ {i} : DuplicateKey(doc, i, sh) # DuplicateKey(doc, j, sh)
  PROVE  i \in Filtered(doc, sh)
<1> DEFINE S == Resolve(doc)
<1>1. S \subseteq DOMAIN doc.entries
  BY DEF Resolve
<1>2. ASSUME NEW j \in Flawed(doc, S), doc.entries[j].name = doc.entries[i].name
      PROVE  FALSE
  <2>1. j \in S /\ ~doc.entries[j].sound
    BY <1>2 DEF Flawed
  <2>2. j # i
    BY <2>1
  <2> QED BY <1>2, <2>1, <2>2, SameNameSameKey
<1>3. ASSUME NEW j \in Repeats(doc, S, sh), doc.entries[j].name = doc.entries[i].name
      PROVE  FALSE
  <2>1. j \in S
    BY DEF Repeats
  <2>2. j = i
    BY <1>3, <2>1, SameNameSameKey
  <2>3. PICK k \in S : Before(doc, k, i) /\ DuplicateKey(doc, k, sh) = DuplicateKey(doc, i, sh)
    BY <2>2, <1>3 DEF Repeats
  <2>4. k # i
    BY <2>3, <1>1, BeforeIsTotal
  <2> QED BY <2>3, <2>4
<1> QED BY <1>2, <1>3 DEF Filtered, FilterValid, Blocked

\* A named entry that is kept is sound, and shares its key with no other.
LEMMA KeepsOnlyGood ==
  ASSUME NEW doc, IsDocument(doc), NEW sh, NEW i \in Filtered(doc, sh),
         doc.entries[i].name # Unnamed
  PROVE  /\ doc.entries[i].sound
         /\ \A j \in Filtered(doc, sh) \ {i} :
              DuplicateKey(doc, i, sh) # DuplicateKey(doc, j, sh)
<1> DEFINE S == Resolve(doc)
<1>1. Filtered(doc, sh) \subseteq S /\ S \subseteq DOMAIN doc.entries
  BY DEF Filtered, FilterValid, Resolve
<1>2. \A k \in Filtered(doc, sh) :
        doc.entries[k].name # Unnamed => k \notin Flawed(doc, S) \cup Repeats(doc, S, sh)
  BY DEF Filtered, FilterValid, Blocked
<1>3. doc.entries[i].sound
  BY <1>1, <1>2 DEF Flawed
<1>4. ASSUME NEW j \in Filtered(doc, sh) \ {i},
             DuplicateKey(doc, i, sh) = DuplicateKey(doc, j, sh)
      PROVE  FALSE
  <2>1. doc.entries[j].name # Unnamed
    BY <1>1, <1>4, NamedKeyDiffers
  <2>2. CASE Before(doc, i, j)
    BY <2>1, <2>2, <1>1, <1>2, <1>4 DEF Repeats
  <2>3. CASE Before(doc, j, i)
    BY <2>3, <1>1, <1>2, <1>4 DEF Repeats
  <2> QED BY <2>2, <2>3, <1>1, BeforeIsTotal
<1> QED BY <1>3, <1>4

\* The renderer's guard asks again what the filter asked, and so agrees with it
\* when all that is kept has a name.
LEMMA GuardAgrees ==
  ASSUME NEW doc, IsDocument(doc), NEW sh,
         \A i \in Resolve(doc) : doc.entries[i].name # Unnamed,
         ~TooMany(Filtered(doc, sh))
  PROVE  Renders(doc, sh)
<1> DEFINE K == Filtered(doc, sh)
<1>1. K \subseteq Resolve(doc) /\ Resolve(doc) \subseteq DOMAIN doc.entries
  BY DEF Filtered, FilterValid, Resolve
<1>2. Flawed(doc, K) = {}
  BY <1>1, KeepsOnlyGood DEF Flawed
<1>3. ASSUME NEW j \in Repeats(doc, K, sh) PROVE FALSE
  <2>1. j \in K
    BY DEF Repeats
  <2>2. PICK i \in K : Before(doc, i, j) /\ DuplicateKey(doc, i, sh) = DuplicateKey(doc, j, sh)
    BY DEF Repeats
  <2>3. i # j
    BY <2>2, <1>1, BeforeIsTotal
  <2> QED BY <2>1, <2>2, <2>3, <1>1, KeepsOnlyGood
<1>4. Repeats(doc, K, sh) = {}
  BY <1>3
<1> QED BY <1>2, <1>4 DEF Renders, HasErrors

-----------------------------------------------------------------------------
(* Types. *)

LEMMA AnswerType ==
  ASSUME SourcesTypeOK, NEW doc \in Document \cup {NoDocument}, NEW stale \in BOOLEAN
  PROVE  AnswerWith(doc, stale) \in Answer
<1>1. Asked \in Document
  BY DEF SourcesTypeOK, Asked, Branch
<1> QED BY <1>1 DEF AnswerWith, Answer, Failure, NoAnswer

\* What an answer says of itself.
LEMMA AnswerMeaning ==
  ASSUME NEW doc, NEW stale \in BOOLEAN, AnswerWith(doc, stale).kind = "config"
  PROVE  /\ doc # NoDocument
         /\ AnswerWith(doc, stale).doc = doc
         /\ AnswerWith(doc, stale).stale = stale
         /\ AnswerWith(doc, stale).asked = Asked
BY DEF AnswerWith, Failure, NoAnswer

LEMMA FailureMeaning == Failure.kind = "error"
BY DEF Failure, NoAnswer

\* A step answers nothing new, with a failure, with something current, or serves
\* what is checked out.
LEMMA HowAnswered ==
  ASSUME [SourcesNext]_sourceVars
  PROVE  \/ answer' = answer \/ answer' = Failure
         \/ \E doc : answer' = AnswerWith(doc, FALSE)
         \/ ServeStale
<1>1. CASE FileResolve
  BY <1>1 DEF FileResolve
<1>2. CASE ServerResolve
  BY <1>2 DEF ServerResolve
<1>3. CASE GitResolve
  <2>1. FetchAndReset \/ ServeStale \/ CloneAndReset \/ CloneFails
    BY <1>3 DEF GitResolve
  <2> QED BY <2>1 DEF FetchAndReset, CloneAndReset, CloneFails
<1>4. CASE OriginChanges \/ EditCheckout \/ UNCHANGED sourceVars
  BY <1>4 DEF OriginChanges, EditCheckout, sourceVars
<1> QED BY <1>1, <1>2, <1>3, <1>4 DEF SourcesNext

LEMMA FailureType == Failure \in Answer
BY DEF Failure, NoAnswer, Answer

LEMMA CheckoutTypes ==
  ASSUME SourcesTypeOK
  PROVE  /\ Cloned \in Checkout /\ Fetched \in Checkout
         /\ NoCheckout \in Checkout /\ HalfCheckout \in Checkout
BY DEF SourcesTypeOK, Checkout, Cloned, Fetched, NoCheckout, HalfCheckout, Branch

LEMMA TargetType ==
  ASSUME SourcesTypeOK, NEW c \in Checkout
  PROVE  Target(c) \in Document \cup {NoDocument}
BY DEF SourcesTypeOK, Checkout, Target, Branch

LEMMA ResetType ==
  ASSUME NEW c \in Checkout, NEW target \in Document \cup {NoDocument}
  PROVE  ResetTo(c, target) \in Checkout
BY DEF Checkout, ResetTo

LEMMA InitType == SourcesInit => SourcesTypeOK
<1> SUFFICES ASSUME SourcesInit PROVE SourcesTypeOK OBVIOUS
<1>1. Held[source] \subseteq Document
  BY DEF SourcesInit, Document
<1>2. upstream \in [Branch -> Document] /\ pin \in Document
  BY <1>1 DEF SourcesInit, Branch
<1>3. checkout \in Checkout /\ answer \in Answer
  BY DEF SourcesInit, NoCheckout, NoAnswer, Checkout, Answer
<1>4. edits \in 0 .. MaxEdits
  <2>1. edits = 0
    BY DEF SourcesInit
  <2> QED BY <2>1, EditsAssumption
<1>5. past \in [Branch -> SUBSET Document]
  BY <1>2 DEF SourcesInit
<1> QED BY <1>2, <1>3, <1>4, <1>5 DEF SourcesInit, SourcesTypeOK, Ref

\* A git resolve leaves a checkout and an answer of their types.
LEMMA GitTypes ==
  ASSUME SourcesTypeOK, GitResolve
  PROVE  checkout' \in Checkout /\ answer' \in Answer
<1>1. CASE FetchAndReset
  BY <1>1, CheckoutTypes, TargetType, ResetType, AnswerType DEF FetchAndReset
<1>2. CASE ServeStale
  <2>1. checkout.tree \in Document \cup {NoDocument}
    BY DEF SourcesTypeOK, Checkout
  <2> QED BY <1>2, <2>1, CheckoutTypes, AnswerType DEF ServeStale, SourcesTypeOK
<1>3. CASE CloneAndReset
  BY <1>3, CheckoutTypes, TargetType, ResetType, AnswerType DEF CloneAndReset
<1>4. CASE CloneFails
  BY <1>4, CheckoutTypes, FailureType DEF CloneFails
<1> QED BY <1>1, <1>2, <1>3, <1>4 DEF GitResolve

LEMMA StepType == SourcesTypeOK /\ [SourcesNext]_sourceVars => SourcesTypeOK'
<1> SUFFICES ASSUME SourcesTypeOK, [SourcesNext]_sourceVars PROVE SourcesTypeOK' OBVIOUS
<1>0. upstream["main"] \in Document
  BY DEF SourcesTypeOK, Branch
<1>1. CASE FileResolve
  <2>1. answer' \in Answer
    BY <1>0, <1>1, AnswerType DEF FileResolve
  <2> QED BY <1>1, <2>1 DEF FileResolve, SourcesTypeOK, sourceConfig
<1>2. CASE ServerResolve
  <2>1. answer' \in Answer
    BY <1>0, <1>2, AnswerType, FailureType DEF ServerResolve
  <2> QED BY <1>2, <2>1 DEF ServerResolve, SourcesTypeOK, sourceConfig
<1>3. CASE GitResolve
  BY <1>3, GitTypes DEF GitResolve, SourcesTypeOK, sourceConfig
<1>4. CASE OriginChanges
  <2>1. PICK b \in Branch, doc \in Held[source] :
          /\ upstream' = [upstream EXCEPT ![b] = doc]
          /\ past' = [past EXCEPT ![b] = @ \cup {doc}]
    BY <1>4 DEF OriginChanges
  <2>2. doc \in Document
    BY DEF SourcesTypeOK, Document
  <2>3. edits' \in 0 .. MaxEdits
    BY <1>4, EditsAssumption DEF OriginChanges, Edit, SourcesTypeOK
  <2>4. upstream' \in [Branch -> Document] /\ past' \in [Branch -> SUBSET Document]
    BY <2>1, <2>2 DEF SourcesTypeOK
  <2> QED BY <1>4, <2>3, <2>4 DEF OriginChanges, SourcesTypeOK, sourceConfig
<1>5. CASE EditCheckout
  <2>1. PICK doc \in Held[source] : checkout' = [checkout EXCEPT !.tree = doc, !.edited = TRUE]
    BY <1>5 DEF EditCheckout
  <2>2. doc \in Document
    BY DEF SourcesTypeOK, Document
  <2>3. edits' \in 0 .. MaxEdits
    BY <1>5, EditsAssumption DEF EditCheckout, Edit, SourcesTypeOK
  <2>4. checkout' \in Checkout
    BY <2>1, <2>2 DEF SourcesTypeOK, Checkout
  <2> QED BY <1>5, <2>3, <2>4 DEF EditCheckout, SourcesTypeOK, sourceConfig
<1>6. CASE UNCHANGED sourceVars
  BY <1>6 DEF sourceVars, sourceConfig, SourcesTypeOK
<1> QED BY <1>1, <1>2, <1>3, <1>4, <1>5, <1>6 DEF SourcesNext

\* The variables of the sources have their types.
THEOREM SourcesTypeCorrect == SourcesSpec => []SourcesTypeOK
BY InitType, StepType, PTL DEF SourcesSpec

-----------------------------------------------------------------------------
(* What was at the origin. *)

Once == past["main"]

\* Of the commits of the default branch, those in the cache were at the origin; so
\* is what is checked out, but for an edit and for a ref that names another branch.
CheckoutInv ==
  /\ source # "git" => gitRef = ""
  /\ upstream["main"] \in Once /\ pin \in Once
  /\ checkout.local \in Once \cup {NoDocument}
  /\ checkout.track["main"] \in Once \cup {NoDocument}
  /\ ~checkout.edited => checkout.tree \in Once \cup {NoDocument}

\* And what is answered as current is.
SourceInv == SourcesTypeOK /\ CheckoutInv /\ CurrentUnlessBranch

\* What reset --hard moves to was at the origin.
LEMMA TargetWasThere ==
  ASSUME SourcesTypeOK, NEW c \in Checkout, pin \in Once,
         c.local \in Once \cup {NoDocument}, c.track["main"] \in Once \cup {NoDocument}
  PROVE  Target(c) \in Once \cup {NoDocument}
BY DEF Target

LEMMA FetchedWasThere ==
  ASSUME SourcesTypeOK, CheckoutInv
  PROVE  /\ Fetched.local \in Once \cup {NoDocument}
         /\ Fetched.track["main"] \in Once \cup {NoDocument}
         /\ Fetched.edited = checkout.edited /\ Fetched.tree = checkout.tree
BY DEF Fetched, CheckoutInv, SourcesTypeOK, Checkout

\* A git resolve keeps that, and answers with the truth about its answer.
LEMMA GitStep ==
  ASSUME SourceInv, GitResolve
  PROVE  CheckoutInv' /\ CurrentUnlessBranch'
<1>0. /\ SourcesTypeOK /\ CheckoutInv /\ past' = past /\ source' = source
      /\ gitRef' = gitRef /\ pin' = pin /\ upstream' = upstream
  BY DEF SourceInv, GitResolve, sourceConfig
<1>1. CASE FetchAndReset
  <2>1. Target(Fetched) \in Once
    BY <1>0, <1>1, CheckoutTypes, FetchedWasThere, TargetWasThere DEF FetchAndReset, CheckoutInv
  <2>2. /\ checkout'.local \in Once \cup {NoDocument}
        /\ checkout'.track = Fetched.track
        /\ checkout'.tree \in Once
    BY <1>0, <1>1, <2>1, CheckoutTypes DEF FetchAndReset, ResetTo, Checkout
  <2>3. CheckoutInv'
    BY <1>0, <2>2, FetchedWasThere DEF CheckoutInv, Once
  <2>4. gitRef # "main" => Target(Fetched) = Asked
    <3>1. Fetched.whole => Fetched.track = upstream
      BY <1>0 DEF Fetched, SourcesTypeOK, Checkout
    <3>2. Target(Fetched) # NoDocument
      BY <1>1 DEF FetchAndReset
    <3> QED BY <1>0, <3>1, <3>2 DEF Target, Asked, SourcesTypeOK, Ref
  <2>5. CurrentUnlessBranch'
    <3>1. answer' = AnswerWith(Target(Fetched), FALSE)
      BY <1>1 DEF FetchAndReset
    <3>2. answer'.kind = "config" => answer'.doc = Target(Fetched) /\ answer'.asked = Asked
      BY <3>1, AnswerMeaning
    <3> QED BY <1>0, <2>4, <3>2 DEF CurrentUnlessBranch, NotStaleIsCurrent
  <2> QED BY <2>3, <2>5
<1>2. CASE ServeStale
  <2>1. CheckoutInv'
    BY <1>0, <1>2, FetchedWasThere DEF ServeStale, CheckoutInv, Once
  <2>2. CurrentUnlessBranch'
    BY <1>2 DEF ServeStale, AnswerWith, Failure, NoAnswer, CurrentUnlessBranch, NotStaleIsCurrent
  <2> QED BY <2>1, <2>2
<1>3. CASE CloneAndReset
  <2>1. Cloned.local \in Once /\ Cloned.track["main"] \in Once /\ Cloned.track = upstream
    BY <1>0 DEF Cloned, CheckoutInv
  <2>2. Target(Cloned) \in Once
    BY <1>0, <1>3, <2>1, CheckoutTypes, TargetWasThere DEF CloneAndReset, CheckoutInv
  <2>3. /\ checkout'.local \in Once \cup {NoDocument}
        /\ checkout'.track = Cloned.track
        /\ checkout'.tree \in Once
    BY <1>0, <1>3, <2>2, CheckoutTypes DEF CloneAndReset, ResetTo, Checkout
  <2>4. CheckoutInv'
    BY <1>0, <2>1, <2>3 DEF CheckoutInv, Once
  <2>5. gitRef # "main" => Target(Cloned) = Asked
    BY <1>0, <1>3, <2>1 DEF CloneAndReset, Target, Asked, SourcesTypeOK, Ref
  <2>6. CurrentUnlessBranch'
    BY <1>0, <1>3, <2>5 DEF CloneAndReset, AnswerWith, Failure, NoAnswer, CurrentUnlessBranch, NotStaleIsCurrent
  <2> QED BY <2>4, <2>6
<1>4. CASE CloneFails
  <2>1. checkout' \in {NoCheckout, HalfCheckout, Cloned}
    BY <1>4 DEF CloneFails
  <2>2. /\ checkout'.local \in Once \cup {NoDocument}
        /\ checkout'.track["main"] \in Once \cup {NoDocument}
        /\ checkout'.tree \in Once \cup {NoDocument}
    <3>1. CASE checkout' = NoCheckout
      BY <3>1 DEF NoCheckout, Branch
    <3>2. CASE checkout' = HalfCheckout
      BY <3>2 DEF HalfCheckout, NoCheckout, Branch
    <3>3. CASE checkout' = Cloned
      BY <1>0, <3>3 DEF Cloned, CheckoutInv
    <3> QED BY <2>1, <3>1, <3>2, <3>3
  <2>4. CheckoutInv'
    <3>1. Once' = Once
      BY <1>0 DEF Once
    <3> QED BY <1>0, <2>2, <3>1 DEF CheckoutInv
  <2>3. CurrentUnlessBranch'
    BY <1>4 DEF CloneFails, Failure, NoAnswer, CurrentUnlessBranch, NotStaleIsCurrent
  <2> QED BY <2>3, <2>4
<1> QED BY <1>1, <1>2, <1>3, <1>4 DEF GitResolve

LEMMA InitSource == SourcesInit => SourceInv
<1> SUFFICES ASSUME SourcesInit PROVE SourceInv OBVIOUS
<1>1. CheckoutInv
  BY DEF SourcesInit, CheckoutInv, Once, NoCheckout, Branch
<1>2. CurrentUnlessBranch
  BY DEF SourcesInit, CurrentUnlessBranch, NotStaleIsCurrent, NoAnswer
<1> QED BY <1>1, <1>2, InitType DEF SourceInv

LEMMA StepSource == SourceInv /\ [SourcesNext]_sourceVars => SourceInv'
<1> SUFFICES ASSUME SourceInv, [SourcesNext]_sourceVars PROVE SourceInv' OBVIOUS
<1>0. SourcesTypeOK'
  BY StepType DEF SourceInv
<1> SUFFICES CheckoutInv' /\ CurrentUnlessBranch'
  BY <1>0 DEF SourceInv
<1>1. CASE FileResolve
  <2>1. CheckoutInv'
    BY <1>1 DEF FileResolve, SourceInv, CheckoutInv, Once, sourceConfig
  <2>2. Asked = upstream["main"]
    BY <1>1 DEF FileResolve, SourceInv, CheckoutInv, Asked
  <2>3. CurrentUnlessBranch'
    BY <1>1, <2>2 DEF FileResolve, AnswerWith, Failure, NoAnswer, CurrentUnlessBranch, NotStaleIsCurrent
  <2> QED BY <2>1, <2>3
<1>2. CASE ServerResolve
  <2>1. CheckoutInv'
    BY <1>2 DEF ServerResolve, SourceInv, CheckoutInv, Once, sourceConfig
  <2>2. Asked = upstream["main"]
    BY <1>2 DEF ServerResolve, SourceInv, CheckoutInv, Asked
  <2>3. CurrentUnlessBranch'
    BY <1>2, <2>2 DEF ServerResolve, AnswerWith, Failure, NoAnswer, CurrentUnlessBranch, NotStaleIsCurrent
  <2> QED BY <2>1, <2>3
<1>3. CASE GitResolve
  BY <1>3, GitStep
<1>4. CASE OriginChanges
  <2>1. PICK b \in Branch, doc \in Held[source] :
          /\ upstream' = [upstream EXCEPT ![b] = doc]
          /\ past' = [past EXCEPT ![b] = @ \cup {doc}]
    BY <1>4 DEF OriginChanges
  <2>2. /\ source' = source /\ gitRef' = gitRef /\ pin' = pin
        /\ checkout' = checkout /\ answer' = answer
    BY <1>4 DEF OriginChanges, sourceConfig
  <2>3. Once \subseteq Once' /\ upstream'["main"] \in Once'
    BY <2>1 DEF SourceInv, SourcesTypeOK, CheckoutInv, Once, Branch
  <2>4. CheckoutInv'
    BY <2>2, <2>3 DEF SourceInv, CheckoutInv
  <2> QED BY <2>2, <2>4 DEF SourceInv, CurrentUnlessBranch, NotStaleIsCurrent
<1>5. CASE EditCheckout
  <2>1. PICK doc \in Held[source] : checkout' = [checkout EXCEPT !.tree = doc, !.edited = TRUE]
    BY <1>5 DEF EditCheckout
  <2>2. CheckoutInv'
    BY <1>5, <2>1 DEF EditCheckout, SourceInv, SourcesTypeOK, Checkout, CheckoutInv, Once, sourceConfig
  <2> QED BY <1>5, <2>2 DEF EditCheckout, SourceInv, CurrentUnlessBranch, NotStaleIsCurrent, sourceConfig
<1>6. CASE UNCHANGED sourceVars
  BY <1>6 DEF sourceVars, sourceConfig, SourceInv, CheckoutInv, Once, CurrentUnlessBranch, NotStaleIsCurrent
<1> QED BY <1>1, <1>2, <1>3, <1>4, <1>5, <1>6 DEF SourcesNext

\* What a source answers as current is what the configured ref names at that moment,
\* through any changes and failures, unless the ref names a branch.
THEOREM SourcesCurrent == SourcesSpec => []CurrentUnlessBranch
<1>1. SourceInv => CurrentUnlessBranch
  BY DEF SourceInv
<1> QED BY <1>1, InitSource, StepSource, PTL DEF SourcesSpec

LEMMA StaleStep ==
  ASSUME SourceInv, [SourcesNext]_sourceVars,
         answer' # answer, answer'.kind = "config", answer'.stale
  PROVE  checkout.edited \/ gitRef = "other" \/ answer'.doc \in past["main"]
<1>1. ServeStale
  <2>1. ASSUME NEW doc, answer' = AnswerWith(doc, FALSE) PROVE FALSE
    <3>1. AnswerWith(doc, FALSE).stale = FALSE
      BY <2>1, AnswerMeaning
    <3> QED BY <2>1, <3>1
  <2> QED BY <2>1, HowAnswered, FailureMeaning
<1>2. answer'.doc = checkout.tree /\ checkout.tree # NoDocument
  BY <1>1, AnswerMeaning DEF ServeStale
<1> QED BY <1>2 DEF SourceInv, CheckoutInv, Once

\* What a source answers as stale was once what it holds now, whole.
THEOREM StaleSafe == SourcesSpec => StaleWasCurrent
<1>1. SourceInv /\ [SourcesNext]_sourceVars =>
        [answer' # answer /\ answer'.kind = "config" /\ answer'.stale
           => checkout.edited \/ gitRef = "other" \/ answer'.doc \in past["main"]]_sourceVars
  BY StaleStep
<1> QED BY <1>1, InitSource, StepSource, PTL DEF SourcesSpec, StaleWasCurrent

-----------------------------------------------------------------------------
(* What is served is filtered alias by alias. *)

\* An answer is one of the documents.
LEMMA AnswerIsDocument == SourcesSpec => [](answer.kind = "config" => answer.doc \in Document)
<1> DEFINE I == answer.kind = "config" => answer.doc \in Document
<1>1. SourcesInit => I
  <2>1. SourcesInit => answer = NoAnswer
    BY DEF SourcesInit
  <2> QED BY <2>1 DEF NoAnswer
<1>2. SourcesTypeOK /\ SourcesTypeOK' /\ I /\ [SourcesNext]_sourceVars => I'
  <2> SUFFICES ASSUME SourcesTypeOK, SourcesTypeOK', I, [SourcesNext]_sourceVars PROVE I'
    OBVIOUS
  <2>1. answer' = answer \/ answer'.kind # "config" \/ answer'.doc # NoDocument
    <3>1. CASE ServeStale
      BY <3>1, AnswerMeaning DEF ServeStale
    <3>2. ASSUME NEW doc, answer' = AnswerWith(doc, FALSE)
          PROVE  answer'.kind # "config" \/ answer'.doc # NoDocument
      BY <3>2, AnswerMeaning
    <3> QED BY <3>1, <3>2, HowAnswered, FailureMeaning
  <2>2. answer'.doc \in Document \cup {NoDocument}
    BY DEF SourcesTypeOK, Answer
  <2> QED BY <2>1, <2>2
<1> QED BY <1>1, <1>2, SourcesTypeCorrect, PTL DEF SourcesSpec

\* Of whatever document a source answers, every entry that is sound and has a key of
\* its own is kept, and the renderer refuses what is kept only for an entry without
\* a name or for too many entries.
THEOREM OneBadAliasSafe == SourcesSpec => []OneBadAliasStopsNoOther
<1>1. (answer.kind = "config" => answer.doc \in Document) => OneBadAliasStopsNoOther
  <2> SUFFICES ASSUME answer.kind = "config", answer.doc \in Document
               PROVE  OneBadAliasStopsNoOther
    BY DEF OneBadAliasStopsNoOther
  <2> DEFINE doc == answer.doc
             kept == Filtered(doc, shell)
  <2>1. IsDocument(doc)
    BY DocumentAssumption
  <2>2. \A i \in Resolve(doc) :
          /\ doc.entries[i].sound
          /\ \A j \in Resolve(doc) \ {i} : DuplicateKey(doc, i, shell) # DuplicateKey(doc, j, shell)
          => i \in kept
    BY <2>1, KeepsTheGood
  <2>3. \A i \in kept :
          doc.entries[i].name # Unnamed =>
            /\ doc.entries[i].sound
            /\ \A j \in kept \ {i} : DuplicateKey(doc, i, shell) # DuplicateKey(doc, j, shell)
    BY <2>1, KeepsOnlyGood
  <2>4. \/ Renders(doc, shell)
        \/ \E i \in Resolve(doc) : doc.entries[i].name = Unnamed
        \/ TooMany(kept)
    BY <2>1, GuardAgrees
  <2> QED BY <2>2, <2>3, <2>4 DEF OneBadAliasStopsNoOther
<1> QED BY <1>1, AnswerIsDocument, PTL

-----------------------------------------------------------------------------
(* The shells: steps of the sources. *)

LEMMA StepOfSources == [AliasNext]_aliasVars => [SourcesNext]_sourceVars /\ shell' = shell
<1> SUFFICES ASSUME [AliasNext]_aliasVars
             PROVE  [SourcesNext]_sourceVars /\ shell' = shell
  OBVIOUS
<1>1. [SourcesNext]_sourceVars
  BY DEF AliasNext, SyncAliases, SyncFailsToRecord, SyncFails, SyncIn, Resolves, SourcesNext,
         OpenShell, Prompt, UserDefines, GeneratedTampered, RecordLost, aliasVars
<1>2. [SourcesNext]_sourceVars => shell' = shell
  BY DEF SourcesNext, FileResolve, ServerResolve, GitResolve, OriginChanges, EditCheckout,
         sourceVars, sourceConfig
<1> QED BY <1>1, <1>2

AnswerOK == answer.kind = "config" => answer.doc \in Document

\* A behaviour of the shells is one of the sources.
LEMMA SpecOfSources == AliasSpec => [](SourcesTypeOK /\ AnswerOK)
<1>1. AliasSpec => SourcesSpec
  BY StepOfSources, PTL DEF AliasSpec, AliasInit, SourcesSpec
<1> QED BY <1>1, SourcesTypeCorrect, AnswerIsDocument, PTL DEF AnswerOK

-----------------------------------------------------------------------------
(* Types. *)

\* What renders is names, each with a command.
LEMMA RenderingType ==
  ASSUME NEW doc \in Document, NEW sh, Renders(doc, sh)
  PROVE  Rendering(doc, sh) \in Definitions
<1> DEFINE S == Filtered(doc, sh)
           D == {doc.entries[i].name : i \in S}
<1>1. IsDocument(doc) /\ S \subseteq DOMAIN doc.entries
  BY DocumentAssumption DEF Filtered, FilterValid, Resolve
<1>2. D \subseteq Name
  <2>1. \A i \in S : doc.entries[i].sound
    BY DEF Renders, HasErrors, Flawed
  <2> QED BY <1>1, <2>1 DEF IsDocument, Entry
<1>3. ASSUME NEW n \in D
      PROVE  doc.entries[CHOOSE i \in S : doc.entries[i].name = n].command \in Command
  <2>1. \E i \in S : doc.entries[i].name = n
    OBVIOUS
  <2>2. (CHOOSE i \in S : doc.entries[i].name = n) \in S
    BY <2>1
  <2> QED BY <1>1, <2>2 DEF IsDocument, Entry
<1>4. Rendering(doc, sh) \in [D -> Command]
  BY <1>3 DEF Rendering
<1> QED BY <1>2, <1>4 DEF Definitions

LEMMA GeneratedType ==
  ASSUME NEW f \in File
  PROVE  /\ DOMAIN f.defs \subseteq Name
         /\ \A n \in DOMAIN f.defs : f.defs[n] \in Command
         /\ f.carry \subseteq Name
BY DEF File, Definitions

LEMMA RenderedType ==
  ASSUME gen \in File, NEW defs \in Definitions
  PROVE  Rendered(defs) \in File
<1>1. Carry \subseteq Name
  BY GeneratedType DEF Carry
<1> QED BY <1>1 DEF Rendered, File

LEMMA NoFileType == NoFile \in File
<1>1. NoDefinitions \in [{} -> Command]
  BY DEF NoDefinitions
<1> QED BY <1>1 DEF NoFile, File, Definitions

LEMMA LegacyType == ASSUME NEW defs \in Legacy PROVE LegacyFile(defs) \in File
BY LegacyAssumption DEF LegacyFile, File, Definitions

LEMMA NewShellType == NewShell \in Session /\ Closed \in Session
<1>1. [n \in Name |-> IF n \in OwnNames THEN Own ELSE Absent] \in [Name -> Command \cup {Own, Absent}]
  OBVIOUS
<1> QED BY <1>1 DEF NewShell, Closed, Session

LEMMA DefinedType ==
  ASSUME NEW s \in Session, NEW f \in File
  PROVE  SourceDefinitions(s, f) \in Session
<1>1. [n \in Name |-> IF n \in DOMAIN f.defs THEN f.defs[n] ELSE s.alias[n]]
        \in [Name -> Command \cup {Own, Absent}]
  BY GeneratedType DEF Session
<1> QED BY <1>1 DEF SourceDefinitions, Session

LEMMA SourcedType ==
  ASSUME NEW s \in Session, NEW f \in File
  PROVE  Sourced(s, f) \in Session
<1>1. \A n \in Name : s.alias[n] \in Command \cup {Own, Absent}
  BY DEF Session
<1>2. DOMAIN f.defs \subseteq Name /\ f.carry \subseteq Name
      /\ \A n \in DOMAIN f.defs : f.defs[n] \in Command
  BY GeneratedType
<1>3. SourceDefinitions(s, f) \in Session
  <2>1. [n \in Name |-> IF n \in DOMAIN f.defs THEN f.defs[n] ELSE s.alias[n]]
          \in [Name -> Command \cup {Own, Absent}]
    BY <1>1, <1>2
  <2> QED BY <2>1 DEF SourceDefinitions, Session
<1>4. SourceManaged(s, f) \in Session
  <2> DEFINE gone == Words(ToRemove(s, f))
  <2>1. [n \in Name |-> IF n \in DOMAIN f.defs THEN f.defs[n]
                        ELSE IF n \in gone THEN Absent ELSE s.alias[n]]
          \in [Name -> Command \cup {Own, Absent}]
    BY <1>1, <1>2
  <2>2. ToRemove(s, f) \subseteq Name
    BY <1>2 DEF ToRemove, Session
  <2>3. s.open \in BOOLEAN /\ s.stuck \subseteq Name
    BY DEF Session
  <2> HIDE DEF gone
  <2> QED BY <1>2, <2>1, <2>2, <2>3 DEF SourceManaged, Session, gone
<1> QED BY <1>3, <1>4 DEF Sourced

LEMMA ReplaceType ==
  ASSUME ShellsTypeOK, NEW f \in File, ReplaceFile(f)
  PROVE  gen' \in File /\ ever' \subseteq Name /\ dropped' \subseteq Name
BY GeneratedType DEF ShellsTypeOK, ReplaceFile

\* What an old shell has sourced: an earlier file, or then the one on disk.
LEMMA OldShells ==
  ASSUME AliasInit
  PROVE  \E earlier \in File :
           /\ ever = DOMAIN gen.defs \cup DOMAIN earlier.defs
           /\ dropped = DOMAIN earlier.defs \ DOMAIN gen.defs
           /\ \E t \in [Shell -> {"closed", "old", "reloaded"}] :
                /\ \A s \in Shell : t[s] # "closed" => gen.format = "legacy"
                /\ shells = [s \in Shell |->
                     IF t[s] = "closed" THEN Closed
                     ELSE IF t[s] = "old" THEN SourceDefinitions(NewShell, earlier)
                     ELSE SourceDefinitions(SourceDefinitions(NewShell, earlier), gen)]
<1>1. PICK earlier \in IF gen.format = "none" THEN {NoFile} ELSE {LegacyFile(defs) : defs \in Legacy},
           old \in SUBSET Shell :
        /\ gen.format = "none" => old = {}
        /\ \E reloaded \in SUBSET old :
             shells = [s \in Shell |-> IF s \notin old THEN Closed
                                      ELSE IF s \notin reloaded THEN SourceDefinitions(NewShell, earlier)
                                      ELSE SourceDefinitions(SourceDefinitions(NewShell, earlier), gen)]
        /\ ever = DOMAIN gen.defs \cup DOMAIN earlier.defs
        /\ dropped = DOMAIN earlier.defs \ DOMAIN gen.defs
  BY DEF AliasInit, ShellsInit
<1>2. PICK reloaded \in SUBSET old :
        shells = [s \in Shell |-> IF s \notin old THEN Closed
                                 ELSE IF s \notin reloaded THEN SourceDefinitions(NewShell, earlier)
                                 ELSE SourceDefinitions(SourceDefinitions(NewShell, earlier), gen)]
  BY <1>1
<1>3. earlier \in File
  BY <1>1, NoFileType, LegacyType
<1>4. gen.format = "none" \/ gen.format = "legacy"
  BY DEF AliasInit, ShellsInit, NoFile, LegacyFile
<1> DEFINE t == [s \in Shell |-> IF s \notin old THEN "closed"
                               ELSE IF s \notin reloaded THEN "old" ELSE "reloaded"]
<1>5. t \in [Shell -> {"closed", "old", "reloaded"}]
  OBVIOUS
<1>6. \A s \in Shell : t[s] # "closed" => gen.format = "legacy"
  BY <1>1, <1>4
<1>7. shells = [s \in Shell |->
        IF t[s] = "closed" THEN Closed
        ELSE IF t[s] = "old" THEN SourceDefinitions(NewShell, earlier)
        ELSE SourceDefinitions(SourceDefinitions(NewShell, earlier), gen)]
  BY <1>2
<1> QED BY <1>1, <1>3, <1>5, <1>6, <1>7

LEMMA ShellsInitType == AliasInit => ShellsTypeOK
<1> SUFFICES ASSUME AliasInit PROVE ShellsTypeOK OBVIOUS
<1>1. gen \in File
  BY NoFileType, LegacyType DEF AliasInit, ShellsInit
<1>5. ever \subseteq Name /\ dropped \subseteq Name
  BY <1>1, OldShells, GeneratedType
<1>2. shells \in [Shell -> Session]
  BY <1>1, OldShells, DefinedType, NewShellType
<1>3. uses \in 0 .. MaxUses
  <2>1. uses = 0
    BY DEF AliasInit, ShellsInit
  <2> QED BY <2>1, UsesAssumption
<1>4. rec = gen
  BY DEF AliasInit, ShellsInit
<1> QED BY <1>1, <1>2, <1>3, <1>4, <1>5 DEF ShellsTypeOK

\* A sync writes a file, or none; in either case what it leaves has its type, and
\* what it writes is what it renders.
LEMMA SyncTypes ==
  ASSUME ShellsTypeOK, AnswerOK', Answered,
         NEW defs, defs = Rendering(answer'.doc, shell),
         SyncWith(defs) \/ SyncDies(defs)
  PROVE  /\ gen' \in File /\ rec' \in File
         /\ ever' \subseteq Name /\ dropped' \subseteq Name
         /\ gen' = gen \/ gen' = Rendered(defs)
         /\ rec' = rec \/ rec' = Rendered(defs)
<1>1. defs \in Definitions
  BY RenderingType DEF Answered, AnswerOK
<1>2. Rendered(defs) \in File
  BY <1>1, RenderedType DEF ShellsTypeOK
<1> QED BY <1>2, ReplaceType DEF SyncWith, SyncSkips, SyncWrites, SyncDies, fileVars,
                                  ShellsTypeOK, ReplaceFile

LEMMA UseType ==
  ASSUME ShellsTypeOK, Use PROVE uses' \in 0 .. MaxUses
BY UsesAssumption DEF ShellsTypeOK, Use

LEMMA ShellsStepType ==
  ShellsTypeOK /\ AnswerOK' /\ [AliasNext]_aliasVars => ShellsTypeOK'
<1> SUFFICES ASSUME ShellsTypeOK, AnswerOK', [AliasNext]_aliasVars PROVE ShellsTypeOK'
  OBVIOUS
<1>1. CASE SyncAliases
  BY <1>1, SyncTypes DEF SyncAliases, ShellsTypeOK
<1>2. CASE SyncFailsToRecord
  <2>1. uses' \in 0 .. MaxUses
    BY <1>2, UsesAssumption DEF SyncFailsToRecord, ShellsTypeOK
  <2> QED BY <1>2, <2>1, SyncTypes DEF SyncFailsToRecord, ShellsTypeOK
<1>3. CASE SyncFails \/ ((OriginChanges \/ EditCheckout) /\ UNCHANGED shellVars)
  BY <1>3 DEF SyncFails, shellVars, ShellsTypeOK
<1>4. ASSUME NEW s \in Shell, SyncIn(s) PROVE ShellsTypeOK'
  <2>1. /\ gen' \in File /\ rec' \in File
        /\ ever' \subseteq Name /\ dropped' \subseteq Name /\ uses' = uses
    BY <1>4, SyncTypes DEF SyncIn
  <2>2. shells' \in [Shell -> Session]
    BY <1>4, <2>1, SourcedType DEF SyncIn, ShellsTypeOK
  <2> QED BY <2>1, <2>2 DEF ShellsTypeOK
<1>5. ASSUME NEW s \in Shell, OpenShell(s) PROVE ShellsTypeOK'
  <2>1. shells' \in [Shell -> Session]
    BY <1>5, NewShellType, SourcedType DEF OpenShell, ShellsTypeOK
  <2> QED BY <1>5, <2>1 DEF OpenShell, fileVars, ShellsTypeOK
<1>6. ASSUME NEW s \in Shell, Prompt(s) PROVE ShellsTypeOK'
  <2>1. shells' \in [Shell -> Session]
    BY <1>6, SourcedType DEF Prompt, ShellsTypeOK
  <2> QED BY <1>6, <2>1 DEF Prompt, fileVars, ShellsTypeOK
<1>7. ASSUME NEW s \in Shell, UserDefines(s) PROVE ShellsTypeOK'
  <2>1. PICK n \in Name : shells' = [shells EXCEPT ![s].alias[n] = Own]
    BY <1>7 DEF UserDefines
  <2>2. shells' \in [Shell -> Session]
    BY <2>1 DEF ShellsTypeOK, Session
  <2> QED BY <1>7, <2>2, UseType DEF UserDefines, fileVars, ShellsTypeOK
<1>8. CASE GeneratedTampered
  <2>1. [gen EXCEPT !.exact = FALSE] \in File
    BY DEF ShellsTypeOK, File
  <2>2. gen' \in File /\ ever' \subseteq Name /\ dropped' \subseteq Name
    BY <1>8, <2>1, NoFileType, ReplaceType DEF GeneratedTampered
  <2> QED BY <1>8, <2>2, UseType DEF GeneratedTampered, ShellsTypeOK
<1>9. CASE RecordLost
  BY <1>9, NoFileType, UseType DEF RecordLost, ShellsTypeOK
<1>10. CASE UNCHANGED aliasVars
  BY <1>10 DEF aliasVars, shellVars, ShellsTypeOK
<1>11. ASSUME NEW s \in Shell, SyncIn(s) \/ OpenShell(s) \/ Prompt(s) \/ UserDefines(s)
       PROVE  ShellsTypeOK'
  BY <1>4, <1>5, <1>6, <1>7, <1>11
<1> QED BY <1>1, <1>2, <1>3, <1>8, <1>9, <1>10, <1>11 DEF AliasNext

\* The variables of the files and the shells have their types.
THEOREM ShellsTypeCorrect == AliasSpec => []ShellsTypeOK
<1>1. AliasSpec => AliasInit /\ [][AliasNext]_aliasVars
  BY DEF AliasSpec
<1> QED BY <1>1, SpecOfSources, ShellsInitType, ShellsStepType, PTL

-----------------------------------------------------------------------------
(* A session and a file. *)

\* The names that a shell without a record is still to be rid of by what the file
\* carries, or will carry once it is migrated.
Pending(f) == f.carry \cup IF f.format = "legacy" THEN DOMAIN f.defs ELSE {}

\* What holds of a session s in a shell of kind sh, when the file is f.
Fits(s, sh, f, names, lost) ==
  /\ ~s.open => s = Closed
  /\ s.managed \subseteq names
  /\ sh = "powershell" \/ f.format = "legacy" => ~s.tracked
  /\ s.tracked => \A n \in Name : s.alias[n] \in Command => n \in s.managed \cup s.stuck \cup lost
  /\ sh # "powershell" /\ ~s.tracked =>
       \A n \in Name : s.alias[n] \in Command => n \in Pending(f) \cup lost

\* What holds of a file, whoever has sourced it.
FileOK(sh, f, names) ==
  /\ DOMAIN f.defs \cup f.carry \subseteq names
  /\ sh = "powershell" => f.carry = {} /\ f.format # "legacy"

AliasInv ==
  /\ rec.exact
  /\ FileOK(shell, gen, ever)
  /\ \A s \in Shell : Fits(shells[s], shell, gen, ever, dropped)

\* A shell that sources the file fits it.
LEMMA SourcedFits ==
  ASSUME NEW s \in Session, NEW f \in File, NEW names, NEW lost, s.open,
         shell \in ShellKind, FileOK(shell, f, names), Fits(s, shell, f, names, lost)
  PROVE  Fits(Sourced(s, f), shell, f, names, lost)
<1>0. /\ DOMAIN f.defs \subseteq Name /\ f.carry \subseteq Name
      /\ \A n \in DOMAIN f.defs : f.defs[n] \in Command
  BY GeneratedType
<1>1. CASE f.format = "none"
  BY <1>1 DEF Sourced
<1>2. CASE f.format # "none" /\ (f.format = "legacy" \/ shell = "powershell")
  <2> DEFINE t == SourceDefinitions(s, f)
  <2>1. Sourced(s, f) = t
    BY <1>2 DEF Sourced
  <2>2. /\ t.open = s.open /\ t.managed = s.managed /\ t.tracked = s.tracked
        /\ t.alias = [n \in Name |-> IF n \in DOMAIN f.defs THEN f.defs[n] ELSE s.alias[n]]
    BY DEF SourceDefinitions, Session
  <2>3. ~s.tracked
    BY <1>2 DEF Fits
  <2>4. ASSUME shell # "powershell", NEW n \in Name, t.alias[n] \in Command
        PROVE  n \in Pending(f) \cup lost
    <3>1. CASE n \in DOMAIN f.defs
      BY <1>2, <2>4, <3>1 DEF Pending
    <3>2. CASE n \notin DOMAIN f.defs
      BY <2>2, <2>3, <2>4, <3>2 DEF Fits
    <3> QED BY <3>1, <3>2
  <2> HIDE DEF t
  <2> QED BY <2>1, <2>2, <2>3, <2>4 DEF Fits
<1>3. CASE f.format # "none" /\ f.format # "legacy" /\ shell # "powershell"
  <2> DEFINE t == SourceManaged(s, f)
             gone == Words(ToRemove(s, f))
  <2>1. Sourced(s, f) = t
    BY <1>3 DEF Sourced
  <2>2. /\ t.open = s.open /\ t.managed = DOMAIN f.defs /\ t.tracked
        /\ t.stuck = s.stuck \cup (ToRemove(s, f) \ gone)
        /\ \A n \in Name : t.alias[n] = IF n \in DOMAIN f.defs THEN f.defs[n]
                                       ELSE IF n \in gone THEN Absent ELSE s.alias[n]
    BY DEF SourceManaged
  <2>3. ASSUME NEW n \in Name, t.alias[n] \in Command
        PROVE  n \in t.managed \cup t.stuck \cup lost
    <3>1. CASE n \in DOMAIN f.defs
      BY <2>2, <3>1
    <3>2. CASE n \notin DOMAIN f.defs /\ n \in gone
      <4>1. t.alias[n] = Absent
        BY <2>2, <3>2
      <4> QED BY <4>1, <2>3, OwnAssumption
    <3>3. CASE n \notin DOMAIN f.defs /\ n \notin gone
      <4>1. s.alias[n] \in Command
        BY <2>2, <2>3, <3>3
      <4>2. CASE s.tracked
        <5>1. n \in s.managed \cup s.stuck \cup lost
          BY <4>1, <4>2 DEF Fits
        <5>2. ToRemove(s, f) = s.managed
          BY <4>2 DEF ToRemove
        <5> QED BY <2>2, <3>3, <5>1, <5>2
      <4>3. CASE ~s.tracked
        <5>1. n \in f.carry \cup lost
          BY <1>3, <4>1, <4>3 DEF Fits, Pending
        <5>2. ToRemove(s, f) = f.carry
          BY <4>3 DEF ToRemove
        <5> QED BY <2>2, <3>3, <5>1, <5>2
      <4> QED BY <4>2, <4>3
    <3> QED BY <3>1, <3>2, <3>3
  <2> HIDE DEF t
  <2>4. t.managed \subseteq names
    BY <2>2 DEF FileOK
  <2> QED BY <1>3, <2>1, <2>2, <2>3, <2>4 DEF Fits
<1> QED BY <1>1, <1>2, <1>3

\* A new shell fits any file.
LEMMA NewShellFits ==
  ASSUME NEW f \in File, NEW names, NEW lost
  PROVE  Fits(NewShell, shell, f, names, lost) /\ Fits(Closed, shell, f, names, lost)
<1>1. /\ NewShell.open /\ ~NewShell.tracked /\ NewShell.managed = {}
      /\ ~Closed.open /\ ~Closed.tracked /\ Closed.managed = {}
      /\ \A n \in Name : NewShell.alias[n] \in {Own, Absent} /\ Closed.alias[n] = Absent
  BY DEF NewShell, Closed
<1>2. \A n \in Name : NewShell.alias[n] \notin Command /\ Closed.alias[n] \notin Command
  BY <1>1, OwnAssumption
<1> QED BY <1>1, <1>2 DEF Fits

\* Whatever replaces the file, a session that fits the old one fits the new one: a name
\* whose migration is not passed on is one that was dropped.
LEMMA ReplaceFits ==
  ASSUME NEW s \in Session, NEW f \in File, ReplaceFile(f),
         f.format = "legacy" => gen.format = "legacy",
         Fits(s, shell, gen, ever, dropped)
  PROVE  Fits(s, shell, gen', ever', dropped')
<1>1. gen' = f /\ ever \subseteq ever' /\ dropped \subseteq dropped'
  BY DEF ReplaceFile
<1>2. Pending(gen) \subseteq Pending(gen') \cup dropped'
  BY DEF ReplaceFile, Pending
<1> QED BY <1>1, <1>2 DEF Fits

-----------------------------------------------------------------------------
(* The invariant. *)

\* A sync leaves a file that every session fits, and an exact record.
LEMMA SyncFits ==
  ASSUME ShellsTypeOK, AliasInv, AnswerOK', Answered,
         NEW defs, defs = Rendering(answer'.doc, shell),
         SyncWith(defs) \/ SyncDies(defs)
  PROVE  /\ rec'.exact
         /\ FileOK(shell, gen', ever')
         /\ \A s \in Shell : Fits(shells[s], shell, gen', ever', dropped')
<1> DEFINE f == Rendered(defs)
<1>1. defs \in Definitions
  BY RenderingType DEF Answered, AnswerOK
<1>2. f \in File
  BY <1>1, RenderedType DEF ShellsTypeOK
<1>3. /\ f.exact /\ f.format = "current" /\ f.defs = defs /\ f.carry = Carry
  BY DEF Rendered
<1> HIDE DEF f
<1>4. CASE SyncSkips(defs)
  BY <1>4 DEF SyncSkips, fileVars, AliasInv
<1>5. CASE ReplaceFile(f) /\ (rec' = f \/ rec' = rec)
  <2>1. gen' = f /\ ever' = ever \cup DOMAIN f.defs
    BY <1>5 DEF ReplaceFile
  <2>2. Carry \subseteq DOMAIN gen.defs \cup gen.carry /\ (shell = "powershell" => Carry = {})
    BY DEF Carry
  <2>3. FileOK(shell, gen', ever')
    BY <1>3, <2>1, <2>2 DEF FileOK, AliasInv
  <2>4. \A s \in Shell : Fits(shells[s], shell, gen', ever', dropped')
    BY <1>2, <1>3, <1>5, ReplaceFits DEF AliasInv, ShellsTypeOK
  <2> QED BY <1>3, <1>5, <2>3, <2>4 DEF AliasInv
<1> QED BY <1>4, <1>5 DEF SyncWith, SyncWrites, SyncDies, f

\* One session changes to one that fits.
LEMMA OneChanges ==
  ASSUME ShellsTypeOK, rec'.exact, FileOK(shell, gen', ever'), shell' = shell,
         \A x \in Shell : Fits(shells[x], shell, gen', ever', dropped'),
         NEW s \in Shell, NEW t, shells' = [shells EXCEPT ![s] = t],
         Fits(t, shell, gen', ever', dropped')
  PROVE  AliasInv'
<1>1. \A x \in Shell : Fits(shells'[x], shell, gen', ever', dropped')
  BY DEF ShellsTypeOK
<1> QED BY <1>1 DEF AliasInv

LEMMA InvInit == AliasInit => AliasInv
<1> SUFFICES ASSUME AliasInit PROVE AliasInv OBVIOUS
<1>0. gen \in File /\ gen = rec
  BY ShellsInitType DEF AliasInit, ShellsInit, ShellsTypeOK
<1>1. \/ gen = NoFile
      \/ shell # "powershell" /\ \E defs \in Legacy : gen = LegacyFile(defs)
  BY DEF AliasInit, ShellsInit, LegacyFile, NoFile
<1>2. gen.exact /\ gen.carry = {} /\ gen.format # "current"
      /\ (gen.format = "legacy" => shell # "powershell")
  BY <1>1 DEF NoFile, LegacyFile
<1>3. DOMAIN gen.defs \subseteq ever
  BY OldShells
<1>4. FileOK(shell, gen, ever)
  BY <1>2, <1>3 DEF FileOK
<1>5. ASSUME NEW s \in Shell PROVE Fits(shells[s], shell, gen, ever, dropped)
  <2>1. PICK earlier \in File :
          /\ dropped = DOMAIN earlier.defs \ DOMAIN gen.defs
          /\ \/ shells[s] = Closed
             \/ /\ gen.format = "legacy"
                /\ \/ shells[s] = SourceDefinitions(NewShell, earlier)
                   \/ shells[s] = SourceDefinitions(SourceDefinitions(NewShell, earlier), gen)
    BY OldShells
  <2> DEFINE was == SourceDefinitions(NewShell, earlier)
  <2>2. CASE shells[s] = Closed
    BY <1>0, <2>2, NewShellFits
  <2>3. CASE gen.format = "legacy" /\ shells[s] \in {was, SourceDefinitions(was, gen)}
    <3>1. /\ was.open /\ ~was.tracked /\ was.managed = {}
          /\ \A n \in Name : was.alias[n] = IF n \in DOMAIN earlier.defs THEN earlier.defs[n]
                                            ELSE NewShell.alias[n]
      BY DEF SourceDefinitions, NewShell, Closed
    <3>2. \A n \in Name : NewShell.alias[n] \notin Command
      BY OwnAssumption DEF NewShell, Closed
    <3>3. \A n \in Name : was.alias[n] \in Command => n \in Pending(gen) \cup dropped
      BY <2>1, <2>3, <3>1, <3>2 DEF Pending
    <3>4. Fits(was, shell, gen, ever, dropped)
      BY <3>1, <3>3 DEF Fits
    <3>5. was \in Session
      BY NewShellType, DefinedType
    <3>6. SourceDefinitions(was, gen) = Sourced(was, gen)
      BY <2>3 DEF Sourced
    <3>7. shell \in ShellKind
      BY DEF AliasInit, SourcesInit
    <3> HIDE DEF was
    <3> QED BY <1>0, <1>4, <2>3, <3>1, <3>4, <3>5, <3>6, <3>7, SourcedFits
  <2> QED BY <2>1, <2>2, <2>3
<1> QED BY <1>0, <1>2, <1>4, <1>5 DEF AliasInv

LEMMA InvStep ==
  ShellsTypeOK /\ ShellsTypeOK' /\ SourcesTypeOK /\ AnswerOK' /\ AliasInv /\ [AliasNext]_aliasVars
    => AliasInv'
<1> SUFFICES ASSUME ShellsTypeOK, ShellsTypeOK', SourcesTypeOK, AnswerOK', AliasInv,
                    [AliasNext]_aliasVars
             PROVE  AliasInv'
  OBVIOUS
<1>0. shell' = shell /\ shell \in ShellKind /\ gen' \in File
  BY StepOfSources DEF SourcesTypeOK, ShellsTypeOK
<1>1. CASE SyncAliases \/ SyncFailsToRecord
  <2>1. shells' = shells
    BY <1>1 DEF SyncAliases, SyncFailsToRecord
  <2>2. /\ rec'.exact /\ FileOK(shell, gen', ever')
        /\ \A s \in Shell : Fits(shells[s], shell, gen', ever', dropped')
    BY <1>1, SyncFits DEF SyncAliases, SyncFailsToRecord
  <2> QED BY <1>0, <2>1, <2>2 DEF AliasInv
<1>2. CASE SyncFails \/ ((OriginChanges \/ EditCheckout) /\ UNCHANGED shellVars)
  BY <1>0, <1>2 DEF SyncFails, shellVars, AliasInv
<1>3. ASSUME NEW s \in Shell, SyncIn(s) PROVE AliasInv'
  <2>1. /\ rec'.exact /\ FileOK(shell, gen', ever')
        /\ \A x \in Shell : Fits(shells[x], shell, gen', ever', dropped')
    BY <1>3, SyncFits DEF SyncIn
  <2>2. /\ shells[s].open /\ shells[s] \in Session
        /\ shells' = [shells EXCEPT ![s] = Sourced(shells[s], gen')]
    BY <1>3 DEF SyncIn, ShellsTypeOK
  <2>3. Fits(Sourced(shells[s], gen'), shell, gen', ever', dropped')
    BY <1>0, <2>1, <2>2, SourcedFits
  <2> QED BY <1>0, <2>1, <2>2, <2>3, OneChanges
<1>4. ASSUME NEW s \in Shell, NEW t, shells' = [shells EXCEPT ![s] = t],
             UNCHANGED fileVars, Fits(t, shell, gen, ever, dropped)
      PROVE  AliasInv'
  BY <1>0, <1>4, OneChanges DEF fileVars, AliasInv
<1>5. ASSUME NEW s \in Shell, OpenShell(s) PROVE AliasInv'
  <2>1. Fits(NewShell, shell, gen, ever, dropped)
    BY NewShellFits DEF ShellsTypeOK
  <2>2. NewShell.open
    BY DEF NewShell, Closed
  <2>3. Fits(Sourced(NewShell, gen), shell, gen, ever, dropped)
    BY <1>0, <2>1, <2>2, NewShellType, SourcedFits DEF AliasInv, ShellsTypeOK
  <2> QED BY <1>4, <1>5, <2>1, <2>3 DEF OpenShell
<1>6. ASSUME NEW s \in Shell, Prompt(s) PROVE AliasInv'
  <2>1. shells[s].open
    BY <1>6 DEF Prompt, AliasInv, Fits, Closed
  <2>2. Fits(Sourced(shells[s], gen), shell, gen, ever, dropped)
    BY <1>0, <2>1, SourcedFits DEF AliasInv, ShellsTypeOK
  <2> QED BY <1>4, <1>6, <2>2 DEF Prompt
<1>7. ASSUME NEW s \in Shell, UserDefines(s) PROVE AliasInv'
  <2>1. PICK n \in Name : shells' = [shells EXCEPT ![s].alias[n] = Own]
    BY <1>7 DEF UserDefines
  <2> DEFINE t == [shells[s] EXCEPT !.alias[n] = Own]
  <2>2. shells' = [shells EXCEPT ![s] = t]
    BY <2>1 DEF ShellsTypeOK
  <2>3. /\ t.open = shells[s].open /\ t.managed = shells[s].managed
        /\ t.tracked = shells[s].tracked /\ t.stuck = shells[s].stuck
        /\ \A m \in Name : t.alias[m] = IF m = n THEN Own ELSE shells[s].alias[m]
    BY DEF ShellsTypeOK, Session
  <2> HIDE DEF t
  <2>4. shells[s].open
    BY <1>7 DEF UserDefines
  <2>5. Fits(t, shell, gen, ever, dropped)
    BY <2>3, <2>4, OwnAssumption DEF AliasInv, Fits
  <2> QED BY <1>4, <1>7, <2>2, <2>5 DEF UserDefines
<1>8. CASE GeneratedTampered
  <2>1. /\ shells' = shells /\ rec' = rec
        /\ \E f \in {[gen EXCEPT !.exact = FALSE], NoFile} : ReplaceFile(f)
    BY <1>8 DEF GeneratedTampered
  <2>2. PICK f \in {[gen EXCEPT !.exact = FALSE], NoFile} : ReplaceFile(f)
    BY <2>1
  <2>3. f \in File /\ (f.format = "legacy" => gen.format = "legacy")
        /\ (f = NoFile \/ (f.format = gen.format /\ f.defs = gen.defs /\ f.carry = gen.carry))
    <3>1. CASE f = NoFile
      BY <3>1, NoFileType DEF NoFile
    <3>2. CASE f = [gen EXCEPT !.exact = FALSE]
      BY <3>2 DEF ShellsTypeOK, File
    <3> QED BY <3>1, <3>2
  <2>4. gen' = f /\ ever' = ever \cup DOMAIN f.defs
    BY <2>2 DEF ReplaceFile
  <2>5. FileOK(shell, gen', ever')
    <3>1. CASE f = NoFile
      BY <2>4, <3>1 DEF FileOK, NoFile
    <3>2. CASE f.format = gen.format /\ f.defs = gen.defs /\ f.carry = gen.carry
      BY <2>4, <3>2 DEF FileOK, AliasInv
    <3> QED BY <2>3, <3>1, <3>2
  <2>6. \A s \in Shell : Fits(shells[s], shell, gen', ever', dropped')
    BY <2>2, <2>3, ReplaceFits DEF AliasInv, ShellsTypeOK
  <2> QED BY <1>0, <2>1, <2>5, <2>6 DEF AliasInv
<1>9. CASE RecordLost
  <2>1. NoFile.exact
    BY DEF NoFile
  <2> QED BY <1>0, <1>9, <2>1 DEF RecordLost, AliasInv
<1>10. CASE UNCHANGED aliasVars
  BY <1>0, <1>10 DEF aliasVars, shellVars, AliasInv
<1>11. ASSUME NEW s \in Shell, SyncIn(s) \/ OpenShell(s) \/ Prompt(s) \/ UserDefines(s)
       PROVE  AliasInv'
  BY <1>3, <1>5, <1>6, <1>7, <1>11
<1> QED BY <1>1, <1>2, <1>8, <1>9, <1>10, <1>11 DEF AliasNext

LEMMA AliasInvHolds == AliasSpec => []AliasInv
<1>1. AliasSpec => AliasInit /\ [][AliasNext]_aliasVars
  BY DEF AliasSpec
<1> QED BY <1>1, SpecOfSources, ShellsTypeCorrect, InvInit, InvStep, PTL

\* An alias of AliasDeck's in a shell that keeps a record is on that record, after any
\* syncs, migrations, edits, reloads and deaths, or its migration was dropped, or zsh
\* failed to split the names.
THEOREM NothingLeftOver == AliasSpec => []NoLeftovers
<1>1. AliasInv => NoLeftovers
  BY DEF AliasInv, Fits, NoLeftovers
<1> QED BY <1>1, AliasInvHolds, PTL

-----------------------------------------------------------------------------
(* What is the user's, and what is repeated. *)

\* Sourcing a file leaves an alias of the user's that no file has had.
LEMMA SourcedKeeps ==
  ASSUME NEW s \in Session, NEW f \in File, NEW names, FileOK(shell, f, names),
         s.managed \subseteq names, NEW n \in Name \ names, s.alias[n] = Own
  PROVE  Sourced(s, f).alias[n] = Own
<1>1. n \notin DOMAIN f.defs /\ n \notin f.carry
  BY DEF FileOK
<1>2. SourceDefinitions(s, f).alias[n] = Own
  BY <1>1 DEF SourceDefinitions, Session
<1>3. SourceManaged(s, f).alias[n] = Own
  <2>1. n \notin Words(ToRemove(s, f))
    BY <1>1 DEF ToRemove, Words
  <2> QED BY <1>1, <2>1 DEF SourceManaged
<1> QED BY <1>2, <1>3 DEF Sourced

LEMMA UsersStep ==
  ASSUME ShellsTypeOK, ShellsTypeOK', AnswerOK', AliasInv, AliasInv', shell' = shell,
         [AliasNext]_aliasVars,
         NEW s \in Shell, NEW n \in Name \ ever', shells[s].alias[n] = Own
  PROVE  shells'[s].alias[n] = Own
<1>0. /\ shells[s] \in Session /\ gen' \in File
      /\ FileOK(shell, gen', ever')
  BY DEF ShellsTypeOK, AliasInv
<1>1. CASE shells' = shells
  BY <1>1
<1>2. ASSUME NEW x \in Shell, NEW t, shells' = [shells EXCEPT ![x] = t],
             x = s => t.alias[n] = Own
      PROVE  shells'[s].alias[n] = Own
  BY <1>2 DEF ShellsTypeOK
<1>3. ASSUME NEW x \in Shell, SyncIn(x) PROVE shells'[s].alias[n] = Own
  <2>1. shells[s].managed \subseteq ever'
    BY <1>3, SyncFits DEF SyncIn, Fits
  <2>2. shells' = [shells EXCEPT ![x] = Sourced(shells[x], gen')]
    BY <1>3 DEF SyncIn
  <2>3. Sourced(shells[s], gen').alias[n] = Own
    BY <1>0, <2>1, SourcedKeeps
  <2> QED BY <1>2, <2>2, <2>3
<1>4. ASSUME NEW x \in Shell, OpenShell(x) PROVE shells'[s].alias[n] = Own
  <2>1. x # s
    <3>1. shells[s].open
      BY OwnAssumption DEF AliasInv, Fits, Closed
    <3> QED BY <1>4, <3>1 DEF OpenShell
  <2> QED BY <1>2, <1>4, <2>1 DEF OpenShell
<1>5. ASSUME NEW x \in Shell, Prompt(x) PROVE shells'[s].alias[n] = Own
  <2>1. gen' = gen /\ ever' = ever /\ shells' = [shells EXCEPT ![x] = Sourced(shells[x], gen)]
    BY <1>5 DEF Prompt, fileVars
  <2>2. shells[s].managed \subseteq ever'
    BY <2>1 DEF AliasInv, Fits
  <2>3. Sourced(shells[s], gen).alias[n] = Own
    BY <1>0, <2>1, <2>2, SourcedKeeps
  <2> QED BY <1>2, <2>1, <2>3
<1>6. ASSUME NEW x \in Shell, UserDefines(x) PROVE shells'[s].alias[n] = Own
  <2>1. PICK m \in Name : shells' = [shells EXCEPT ![x].alias[m] = Own]
    BY <1>6 DEF UserDefines
  <2> QED BY <1>0, <2>1 DEF ShellsTypeOK, Session
<1>7. CASE \/ SyncAliases \/ SyncFailsToRecord \/ SyncFails \/ GeneratedTampered \/ RecordLost
           \/ ((OriginChanges \/ EditCheckout) /\ UNCHANGED shellVars)
           \/ UNCHANGED aliasVars
  BY <1>1, <1>7 DEF SyncAliases, SyncFailsToRecord, SyncFails, GeneratedTampered, RecordLost,
                    aliasVars, shellVars
<1>8. ASSUME NEW x \in Shell, SyncIn(x) \/ OpenShell(x) \/ Prompt(x) \/ UserDefines(x)
      PROVE  shells'[s].alias[n] = Own
  BY <1>3, <1>4, <1>5, <1>6, <1>8
<1> QED BY <1>7, <1>8 DEF AliasNext

\* No sync, migration, start or prompt takes or changes an alias of the user's whose
\* name no generated file has had.
THEOREM UsersAliasesKept == AliasSpec => UnrelatedAliasesAreKept
<1> DEFINE Kept == \A s \in Shell, n \in Name \ ever' :
                     shells[s].alias[n] = Own => shells'[s].alias[n] = Own
<1>1. /\ ShellsTypeOK /\ ShellsTypeOK' /\ AnswerOK' /\ AliasInv /\ AliasInv'
      /\ [AliasNext]_aliasVars
      => [Kept]_aliasVars
  BY UsersStep, StepOfSources
<1>2. AliasSpec => [][AliasNext]_aliasVars
  BY DEF AliasSpec
<1> QED BY <1>1, <1>2, SpecOfSources, ShellsTypeCorrect, AliasInvHolds, PTL
           DEF UnrelatedAliasesAreKept

\* What was written and recorded is what the same aliases render to again.
THEOREM RepeatedSyncSettles == AliasSpec => []SyncSettles
<1>1. ShellsTypeOK /\ AliasInv => SyncSettles
  <2> SUFFICES ASSUME ShellsTypeOK, AliasInv, gen = rec, gen.format = "current"
               PROVE  Rendered(gen.defs) = gen
    BY DEF SyncSettles
  <2>1. Carry = gen.carry
    BY DEF Carry, Migrates, Carries, AliasInv, FileOK
  <2>2. gen.exact = TRUE
    BY DEF ShellsTypeOK, File, AliasInv
  <2> QED BY <2>1, <2>2 DEF Rendered, ShellsTypeOK, File
<1> QED BY <1>1, ShellsTypeCorrect, AliasInvHolds, PTL

=============================================================================
