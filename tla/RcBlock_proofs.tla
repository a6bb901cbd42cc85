---------------------------- MODULE RcBlock_proofs ----------------------------
(* Proofs about RcBlock. *)
EXTENDS RcBlock, SequenceTheorems, FiniteSetTheorems, TLAPS

-----------------------------------------------------------------------------
(* Sequences, word by word. *)

\* What is where in a concatenation of three.
LEMMA ThreeParts ==
  ASSUME NEW s \in Seq(Word), NEW t \in Seq(Word), NEW u \in Seq(Word)
  PROVE  /\ s \o t \o u \in Seq(Word)
         /\ Len(s \o t \o u) = Len(s) + Len(t) + Len(u)
         /\ \A i \in 1 .. Len(s) + Len(t) + Len(u) :
              (s \o t \o u)[i] = IF i <= Len(s) THEN s[i]
                                 ELSE IF i <= Len(s) + Len(t) THEN t[i - Len(s)]
                                 ELSE u[i - Len(s) - Len(t)]
  OBVIOUS

LEMMA WordsOf ==
  ASSUME NEW s \in Seq(Word)
  PROVE  /\ Len(s) \in Nat
         /\ \A i \in 1 .. Len(s) : s[i] \in Word
         /\ \A w : w \in ToSet(s) <=> \E i \in 1 .. Len(s) : s[i] = w
         /\ s = <<>> <=> Len(s) = 0
  BY DEF ToSet

\* What is where in a sequence without a stretch of it.
LEMMA WithoutParts ==
  ASSUME NEW s \in Seq(Word), NEW n \in 0 .. Len(s), NEW m \in n + 1 .. Len(s) + 1
  PROVE  /\ Without(s, n, m) \in Seq(Word)
         /\ Len(Without(s, n, m)) = n + (Len(s) + 1 - m)
         /\ \A i \in 1 .. n : Without(s, n, m)[i] = s[i]
         /\ \A i \in n + 1 .. n + (Len(s) + 1 - m) : Without(s, n, m)[i] = s[m - 1 + (i - n)]
  <1> DEFINE t == SubSeq(s, 1, n)
             u == SubSeq(s, m, Len(s))
  <1>1. t \in Seq(Word) /\ Len(t) = n /\ \A i \in 1 .. n : t[i] = s[i]
    BY SubSeqProperties
  <1>2. u \in Seq(Word) /\ Len(u) = Len(s) + 1 - m
        /\ \A i \in 1 .. Len(s) + 1 - m : u[i] = s[m - 1 + i]
    BY SubSeqProperties
  <1> HIDE DEF t, u
  <1>3. /\ t \o u \in Seq(Word) /\ Len(t \o u) = Len(t) + Len(u)
        /\ \A i \in 1 .. Len(t) + Len(u) :
             (t \o u)[i] = IF i <= Len(t) THEN t[i] ELSE u[i - Len(t)]
    BY <1>1, <1>2, ConcatProperties
  <1>4. Without(s, n, m) = t \o u
    BY DEF t, u, Without
  <1>5. ASSUME NEW i \in 1 .. n PROVE (t \o u)[i] = s[i]
    BY <1>1, <1>2, <1>3
  <1>6. ASSUME NEW i \in n + 1 .. n + (Len(s) + 1 - m) PROVE (t \o u)[i] = s[m - 1 + (i - n)]
    <2>1. i - n \in 1 .. Len(s) + 1 - m /\ i \in 1 .. Len(t) + Len(u) /\ ~(i <= Len(t))
      BY <1>1, <1>2
    <2>2. (t \o u)[i] = u[i - Len(t)]
      BY <1>3, <2>1
    <2> QED
      BY <1>1, <1>2, <2>1, <2>2
  <1> QED
    BY <1>1, <1>2, <1>3, <1>4, <1>5, <1>6

LEMMA FirstOfOne ==
  ASSUME NEW at, NEW i \in Nat, i \in at, \A j \in at : j = i
  PROVE  First(at) = i
  <1>1. at # {} /\ i <= i
    OBVIOUS
  <1>2. \A j \in at : i <= j
    BY <1>1
  <1> QED
    BY <1>1, <1>2, Zenon DEF First

\* Every set of places has a least one: sets of places are well ordered by
\* inclusion, and so are the sets of the places below each of them.
LEMMA FirstOfSome ==
  ASSUME NEW at \in SUBSET Nat, at # {}
  PROVE  /\ First(at) \in at
         /\ \A j \in at : First(at) <= j
  <1> DEFINE Below(i) == 1 .. i
             T == {Below(i) : i \in at}
             R == StrictSubsetOrdering(Nat)
  <1>1. IsWellFoundedOn(R, FiniteSubsetsOf(Nat))
    BY FS_StrictSubsetOrderingWellFounded
  <1>2. T \subseteq FiniteSubsetsOf(Nat)
    <2>1. ASSUME NEW i \in at PROVE IsFiniteSet(Below(i)) /\ Below(i) \subseteq Nat
      BY FS_Interval
    <2> QED
      BY <2>1 DEF FiniteSubsetsOf
  <1>3. T # {}
    OBVIOUS
  <1> HIDE DEF T, R
  <1>4. PICK x \in T : \A y \in T : <<y, x>> \notin R
    BY <1>1, <1>2, <1>3, WFMin
  <1>5. PICK i \in at : x = Below(i)
    BY DEF T
  <1>6. \A j \in at : i <= j
    <2> SUFFICES ASSUME NEW j \in at, j < i PROVE FALSE
      OBVIOUS
    <2>1. Below(j) \subseteq Below(i) /\ Below(j) # Below(i) /\ Below(i) \subseteq Nat
      OBVIOUS
    <2>2. Below(j) \in T
      BY DEF T
    <2>3. <<Below(j), Below(i)>> \in R
      BY <2>1 DEF R, StrictSubsetOrdering
    <2> QED
      BY <1>4, <1>5, <2>2, <2>3
  <1> QED
    BY <1>6, Zenon DEF First

LEMMA KeptAboveIs ==
  ASSUME NEW s \in Seq(Word), NEW n \in 0 .. Len(s)
  PROVE  \/ KeptAbove(s, n) = n
         \/ /\ n >= 1 /\ KeptAbove(s, n) = n - 1 /\ s[n] \in LineEnd
            /\ n = 1 \/ s[n - 1] \in LineEnd
  BY DEF KeptAbove, StripEol

-----------------------------------------------------------------------------
(* The block and the record, as init writes them and as edits leave them. *)

\* A block below "above": its one begin marker is its n-th word and begins a line,
\* and if it has its end marker, that is its last line.
BlockShape(above, s, n) ==
  /\ n + 1 <= Len(s)
  /\ s[n] = "begin" /\ s[n + 1] \in LineEnd
  /\ \A i \in 1 .. Len(s) : s[i] = "begin" => i = n
  /\ \A i \in 1 .. n - 1 : s[i] \in LineEnd
  /\ n = 1 => Terminated(above)
  /\ \A i \in 1 .. Len(s) : s[i] = "end" =>
       /\ i = Len(s) - 1 /\ n + 1 < i - 1
       /\ s[i - 1] \in LineEnd /\ s[i + 1] \in LineEnd

\* What init appended, and recorded.
RecordShape(s, n) ==
  /\ Len(s) = n + 5
  /\ s[n] = "begin" /\ s[n + 2] = "hook" /\ s[n + 4] = "end"
  /\ s[n + 1] \in LineEnd /\ s[n + 3] \in LineEnd /\ s[n + 5] \in LineEnd
  /\ \A i \in 1 .. n - 1 : s[i] \in LineEnd

\* The invariant: AliasDeck adds no second block to a file with a marker, so the
\* file has one begin marker at most while there is a record, and what the user
\* writes below the block has none.
RcInv ==
  /\ RcTypeOK
  /\ "begin" \in ToSet(before) => block = <<>> /\ record = <<>>
  /\ "begin" \notin ToSet(after) /\ "end" \notin ToSet(after)
  /\ block = <<>> => after = <<>>
  /\ block # <<>> => \E n \in 1 .. 3 : BlockShape(before, block, n)
  /\ record # <<>> => \E n \in 1 .. 3 : RecordShape(record, n)

\* buildBlock writes a block and a record of that shape.
LEMMA BuildShape ==
  ASSUME NEW s \in Seq(Word)
  PROVE  /\ BuildBlock(s) \in Seq(Word) /\ BuildBlock(s) # <<>>
         /\ \E n \in 1 .. 3 : BlockShape(s, BuildBlock(s), n) /\ RecordShape(BuildBlock(s), n)
  <1> DEFINE e == Eol(s)
             end == IF Terminated(s) THEN <<>> ELSE <<e>>
             blank == IF s # <<>> THEN <<e>> ELSE <<>>
             lead == end \o blank
             tail == <<"begin", e, "hook", e, "end", e>>
             n == Len(lead) + 1
  <1>1. e \in LineEnd /\ e \in Word /\ LineEnd \subseteq Word
    BY DEF Eol, LineEnd, Word
  <1>2. /\ end \in Seq(LineEnd) /\ Len(end) \in 0 .. 1
        /\ blank \in Seq(LineEnd) /\ Len(blank) \in 0 .. 1
        /\ Len(blank) = 0 => s = <<>>
    BY <1>1
  <1>3. lead \in Seq(LineEnd) /\ Len(lead) \in 0 .. 2 /\ (Len(lead) = 0 => s = <<>>)
    <2> HIDE DEF end, blank
    <2> QED
      BY <1>2, ConcatProperties
  <1>4. tail \in Seq(Word) /\ Len(tail) = 6
    BY <1>1 DEF Word
  <1>5. /\ tail[1] = "begin" /\ tail[2] = e /\ tail[3] = "hook"
        /\ tail[4] = e /\ tail[5] = "end" /\ tail[6] = e
    OBVIOUS
  <1> HIDE DEF lead, tail, e
  <1>6. BuildBlock(s) = lead \o tail
    BY DEF BuildBlock, lead, tail, e
  <1>7. /\ lead \o tail \in Seq(Word) /\ Len(lead \o tail) = n + 5
        /\ \A i \in 1 .. n - 1 : (lead \o tail)[i] \in LineEnd
        /\ \A i \in 1 .. 6 : (lead \o tail)[n - 1 + i] = tail[i]
    <2>1. lead \in Seq(Word)
      BY <1>1, <1>3
    <2>2. /\ lead \o tail \in Seq(Word) /\ Len(lead \o tail) = Len(lead) + Len(tail)
          /\ \A i \in 1 .. Len(lead) + Len(tail) :
               (lead \o tail)[i] = IF i <= Len(lead) THEN lead[i] ELSE tail[i - Len(lead)]
      BY <1>4, <2>1, ConcatProperties
    <2> QED
      BY <1>3, <1>4, <2>2
  <1> DEFINE b == lead \o tail
  <1> HIDE DEF b
  <1>8. /\ n \in 1 .. 3 /\ b \in Seq(Word) /\ Len(b) = n + 5
        /\ b[n] = "begin" /\ b[n + 1] = e /\ b[n + 2] = "hook"
        /\ b[n + 3] = e /\ b[n + 4] = "end" /\ b[n + 5] = e
        /\ \A i \in 1 .. n - 1 : b[i] \in LineEnd
    BY <1>3, <1>5, <1>7 DEF b
  <1> HIDE DEF n
  <1>9. \A i \in 1 .. Len(b) :
          i < n \/ i = n \/ i = n + 1 \/ i = n + 2 \/ i = n + 3 \/ i = n + 4 \/ i = n + 5
    BY <1>8
  <1>10. n = 1 => Terminated(s)
    BY <1>3 DEF Terminated, n
  <1>11. BlockShape(s, b, n)
    <2>1. "begin" \notin LineEnd /\ "end" \notin LineEnd
      BY DEF LineEnd
    <2>2. \A i \in 1 .. Len(b) : b[i] = "begin" => i = n
      BY <1>1, <1>8, <1>9, <2>1
    <2>3. \A i \in 1 .. Len(b) : b[i] = "end" => i = n + 4
      BY <1>1, <1>8, <1>9, <2>1
    <2> QED
      BY <1>1, <1>8, <1>10, <2>2, <2>3 DEF BlockShape
  <1>12. RecordShape(b, n)
    BY <1>1, <1>8 DEF RecordShape
  <1>13. b # <<>>
    BY <1>8
  <1> QED
    BY <1>6, <1>8, <1>11, <1>12, <1>13 DEF b

\* What is where with three words in place of one.
LEMMA Replaced ==
  ASSUME NEW s \in Seq(Word), NEW i \in 1 .. Len(s), NEW c \in Seq(Word), Len(c) = 3
  PROVE  LET t == SubSeq(s, 1, i - 1) \o c \o SubSeq(s, i + 1, Len(s))
         IN /\ t \in Seq(Word) /\ Len(t) = Len(s) + 2
            /\ \A j \in 1 .. i - 1 : t[j] = s[j]
            /\ t[i] = c[1] /\ t[i + 1] = c[2] /\ t[i + 2] = c[3]
            /\ \A j \in i + 3 .. Len(s) + 2 : t[j] = s[j - 2]
  <1> DEFINE u == SubSeq(s, 1, i - 1)
             v == SubSeq(s, i + 1, Len(s))
  <1>1. u \in Seq(Word) /\ Len(u) = i - 1 /\ \A j \in 1 .. i - 1 : u[j] = s[j]
    BY SubSeqProperties
  <1>2. v \in Seq(Word) /\ Len(v) = Len(s) - i /\ \A j \in 1 .. Len(s) - i : v[j] = s[i + j]
    BY SubSeqProperties
  <1> HIDE DEF u, v
  <1> DEFINE t == u \o c \o v
  <1>4. /\ t \in Seq(Word)
        /\ Len(t) = Len(u) + Len(c) + Len(v)
        /\ \A j \in 1 .. Len(u) + Len(c) + Len(v) :
             t[j] = IF j <= Len(u) THEN u[j]
                    ELSE IF j <= Len(u) + Len(c) THEN c[j - Len(u)]
                    ELSE v[j - Len(u) - Len(c)]
    BY <1>1, <1>2, ThreeParts
  <1> HIDE DEF t
  <1>5. t \in Seq(Word) /\ Len(t) = Len(s) + 2
    BY <1>1, <1>2, <1>4
  <1>6. ASSUME NEW j \in 1 .. i - 1 PROVE t[j] = s[j]
    BY <1>1, <1>2, <1>4
  <1>7. ASSUME NEW k \in 1 .. 3, NEW j \in Int, j = i - 1 + k PROVE t[j] = c[k]
    <2>1. /\ j \in 1 .. Len(u) + Len(c) + Len(v) /\ ~(j <= Len(u))
          /\ j <= Len(u) + Len(c) /\ j - Len(u) = k
      BY <1>1, <1>2, <1>7
    <2>2. t[j] = c[j - Len(u)]
      BY <1>4, <2>1
    <2> QED
      BY <2>1, <2>2
  <1>8. ASSUME NEW j \in i + 3 .. Len(s) + 2 PROVE t[j] = s[j - 2]
    <2> DEFINE k == j - Len(u) - Len(c)
    <2>1. j \in 1 .. Len(u) + Len(c) + Len(v) /\ ~(j <= Len(u)) /\ ~(j <= Len(u) + Len(c))
      BY <1>1, <1>2
    <2>2. k \in 1 .. Len(s) - i /\ i + k = j - 2
      BY <1>1, <1>2
    <2>3. t[j] = v[k]
      BY <1>4, <2>1
    <2> HIDE DEF k
    <2>4. v[k] = s[i + k]
      BY <1>2, <2>2
    <2> QED
      BY <2>2, <2>3, <2>4
  <1>9. t[i] = c[1] /\ t[i + 1] = c[2] /\ t[i + 2] = c[3]
    <2>1. i = i - 1 + 1 /\ i + 1 = i - 1 + 2 /\ i + 2 = i - 1 + 3
      OBVIOUS
    <2> QED
      BY <1>7, <2>1
  <1> QED
    BY <1>5, <1>6, <1>8, <1>9 DEF t, u, v

\* The user's edits inside it leave the markers where they were.
LEMMA EditedShape ==
  ASSUME NEW s \in Seq(Word), NEW a, NEW n \in 1 .. 3, BlockShape(a, s, n),
         NEW i \in 1 .. Len(s), s[i] = "hook"
  PROVE  LET t == SubSeq(s, 1, i - 1) \o <<"changed", "nl", "alias">> \o SubSeq(s, i + 1, Len(s))
         IN t \in Seq(Word) /\ BlockShape(a, t, n)
  <1> DEFINE t == SubSeq(s, 1, i - 1) \o <<"changed", "nl", "alias">> \o SubSeq(s, i + 1, Len(s))
             c == <<"changed", "nl", "alias">>
  <1>1. c \in Seq(Word) /\ Len(c) = 3 /\ c[1] = "changed" /\ c[2] = "nl" /\ c[3] = "alias"
    BY DEF Word
  <1> HIDE DEF c
  <1>2. t = SubSeq(s, 1, i - 1) \o c \o SubSeq(s, i + 1, Len(s))
    BY DEF c
  <1> HIDE DEF t
  <1>3. /\ t \in Seq(Word) /\ Len(t) = Len(s) + 2
        /\ \A j \in 1 .. i - 1 : t[j] = s[j]
        /\ t[i] = "changed" /\ t[i + 1] = "nl" /\ t[i + 2] = "alias"
        /\ \A j \in i + 3 .. Len(s) + 2 : t[j] = s[j - 2]
    BY <1>1, <1>2, Replaced
  <1>4. n + 1 < i /\ i <= Len(s) /\ "hook" \notin LineEnd
    BY DEF BlockShape, LineEnd
  <1>5. \A j \in 1 .. Len(t) :
          \/ j \in 1 .. i - 1 /\ j \in 1 .. Len(s)
          \/ j = i \/ j = i + 1 \/ j = i + 2
          \/ j \in i + 3 .. Len(s) + 2 /\ j - 2 \in 1 .. Len(s)
    BY <1>3
  <1>6. ASSUME NEW j \in 1 .. Len(t), t[j] = "begin" PROVE j = n
    <2>1. \A k \in 1 .. Len(s) : s[k] = "begin" => k = n
      BY DEF BlockShape
    <2> QED
      BY <1>3, <1>4, <1>5, <1>6, <2>1
  <1>7. ASSUME NEW j \in 1 .. Len(t), t[j] = "end"
        PROVE  /\ j = Len(t) - 1 /\ n + 1 < j - 1
               /\ t[j - 1] \in LineEnd /\ t[j + 1] \in LineEnd
    <2>1. \A k \in 1 .. Len(s) : s[k] = "end" =>
            /\ k = Len(s) - 1 /\ k # i - 1 /\ k # i + 1
            /\ s[k - 1] \in LineEnd /\ s[k + 1] \in LineEnd
      <3> SUFFICES ASSUME NEW k \in 1 .. Len(s), s[k] = "end"
                   PROVE  /\ k = Len(s) - 1 /\ k # i - 1 /\ k # i + 1
                          /\ s[k - 1] \in LineEnd /\ s[k + 1] \in LineEnd
        OBVIOUS
      <3>1. k = Len(s) - 1 /\ s[k - 1] \in LineEnd /\ s[k + 1] \in LineEnd
        BY DEF BlockShape
      <3> QED
        BY <1>4, <3>1
    <2>2. ~(j \in 1 .. i - 1 /\ j \in 1 .. Len(s))
      BY <1>3, <1>4, <1>7, <2>1
    <2>3. j \in i + 3 .. Len(s) + 2 /\ j - 2 \in 1 .. Len(s) /\ s[j - 2] = "end"
      BY <1>3, <1>5, <1>7, <2>2
    <2>4. /\ j - 2 = Len(s) - 1 /\ j - 2 # i + 1
          /\ s[j - 2 - 1] \in LineEnd /\ s[j - 2 + 1] \in LineEnd
      BY <2>1, <2>3
    <2>5. /\ j - 1 \in i + 3 .. Len(s) + 2 /\ j + 1 \in i + 3 .. Len(s) + 2
          /\ j - 1 - 2 = j - 2 - 1 /\ j + 1 - 2 = j - 2 + 1
      BY <2>3, <2>4
    <2>6. t[j - 1] = s[j - 2 - 1] /\ t[j + 1] = s[j - 2 + 1]
      BY <1>3, <2>5
    <2>7. n + 1 < j - 1 /\ j = Len(t) - 1
      <3>1. Len(t) = Len(s) + 2
        BY <1>3
      <3>2. n + 1 < i /\ j >= i + 3 /\ j - 2 = Len(s) - 1
        BY <1>4, <2>3, <2>4
      <3> QED
        BY <3>1, <3>2
    <2> QED
      BY <2>4, <2>6, <2>7
  <1>8. /\ n + 1 <= Len(t) /\ t[n] = s[n] /\ t[n + 1] = s[n + 1]
        /\ \A j \in 1 .. n - 1 : t[j] = s[j]
    BY <1>3, <1>4
  <1>9. BlockShape(a, t, n)
    BY <1>6, <1>7, <1>8 DEF BlockShape
  <1> QED
    BY <1>3, <1>9 DEF t

LEMMA EndlessShape ==
  ASSUME NEW s \in Seq(Word), NEW a, NEW n \in 1 .. 3, BlockShape(a, s, n),
         NEW i \in 1 .. Len(s), s[i] = "end"
  PROVE  SubSeq(s, 1, i - 1) \in Seq(Word) /\ BlockShape(a, SubSeq(s, 1, i - 1), n)
  <1>1. n + 1 < i - 1
    BY DEF BlockShape
  <1>2. /\ SubSeq(s, 1, i - 1) \in Seq(Word) /\ Len(SubSeq(s, 1, i - 1)) = i - 1
        /\ \A j \in 1 .. i - 1 : SubSeq(s, 1, i - 1)[j] = s[j]
    BY SubSeqProperties
  <1> QED
    BY <1>1, <1>2 DEF BlockShape

\* Without its blank line, it still begins a line.
LEMMA BlanklessShape ==
  ASSUME NEW s \in Seq(Word), NEW a \in Seq(Word), NEW n \in 1 .. 3, BlockShape(a, s, n),
         "begin" \notin ToSet(a), s[1] \in LineEnd, IndexOfLine(a \o Tail(s), "begin") # 0
  PROVE  Tail(s) \in Seq(Word) /\ n - 1 \in 1 .. 3 /\ BlockShape(a, Tail(s), n - 1)
  <1> DEFINE t == Tail(s)
             f == a \o t
  <1>1. n # 1
    BY DEF BlockShape, LineEnd
  <1>2. t \in Seq(Word) /\ Len(t) = Len(s) - 1 /\ \A i \in 1 .. Len(s) - 1 : t[i] = s[i + 1]
    BY DEF BlockShape
  <1> HIDE DEF t
  <1>3. /\ f \in Seq(Word) /\ Len(f) = Len(a) + Len(t)
        /\ \A i \in 1 .. Len(a) + Len(t) : f[i] = IF i <= Len(a) THEN a[i] ELSE t[i - Len(a)]
    BY <1>2, ConcatProperties
  <1> HIDE DEF f
  <1>4. PICK i \in 1 .. Len(f) : f[i] = "begin" /\ IsLine(f, i)
    BY DEF IndexOfLine, First, f, t
  <1>5. i > Len(a)
    <2> SUFFICES ASSUME i <= Len(a) PROVE FALSE
      OBVIOUS
    <2>1. i \in 1 .. Len(a) /\ a[i] = "begin"
      BY <1>2, <1>3, <1>4
    <2> QED
      BY <2>1, WordsOf
  <1> DEFINE k == i - Len(a)
  <1>6. k \in 1 .. Len(t) /\ t[k] = "begin"
    BY <1>2, <1>3, <1>4, <1>5
  <1>7. k + 1 = n
    <2> HIDE DEF k
    <2>1. k + 1 \in 1 .. Len(s) /\ s[k + 1] = "begin"
      BY <1>2, <1>6
    <2> QED
      BY <2>1 DEF BlockShape
  <1>8. ASSUME n - 1 = 1 PROVE Terminated(a)
    <2>1. i = Len(a) + 1
      BY <1>4, <1>7, <1>8
    <2>2. CASE Len(a) = 0
      BY <2>2 DEF Terminated
    <2>3. CASE Len(a) # 0
      <3>1. f[i - 1] \in LineEnd /\ i - 1 = Len(a) /\ i - 1 \in 1 .. Len(a) + Len(t)
        BY <1>2, <1>4, <2>1, <2>3 DEF IsLine
      <3> QED
        BY <1>3, <3>1 DEF Terminated
    <2> QED
      BY <2>2, <2>3
  <1>9. ASSUME NEW j \in 1 .. Len(t), t[j] = "end"
        PROVE  /\ j = Len(t) - 1 /\ n < j - 1
               /\ t[j - 1] \in LineEnd /\ t[j + 1] \in LineEnd
    <2>1. j + 1 \in 1 .. Len(s) /\ s[j + 1] = "end"
      BY <1>2, <1>9
    <2>2. /\ j + 1 = Len(s) - 1 /\ n + 1 < j + 1 - 1
          /\ s[j + 1 - 1] \in LineEnd /\ s[j + 1 + 1] \in LineEnd
      BY <2>1 DEF BlockShape
    <2>3. j - 1 \in 1 .. Len(s) - 1 /\ j + 1 \in 1 .. Len(s) - 1
      BY <1>2, <2>2
    <2>4. t[j - 1] = s[j + 1 - 1] /\ t[j + 1] = s[j + 1 + 1]
      BY <1>2, <2>3
    <2> QED
      BY <1>2, <2>2, <2>4
  <1>10. /\ n - 1 \in 1 .. 3 /\ n - 1 + 1 <= Len(t)
         /\ t[n - 1] = s[n] /\ t[n - 1 + 1] = s[n + 1]
         /\ \A j \in 1 .. n - 1 - 1 : t[j] = s[j + 1]
    BY <1>1, <1>2 DEF BlockShape
  <1>11. \A j \in 1 .. Len(t) : t[j] = "begin" => j = n - 1
    BY <1>2 DEF BlockShape
  <1>12. BlockShape(a, t, n - 1)
    BY <1>8, <1>9, <1>10, <1>11 DEF BlockShape
  <1> QED
    BY <1>2, <1>10, <1>12 DEF t

LEMMA NewlinesShape ==
  ASSUME NEW s \in Seq(Word)
  PROVE  /\ ToNewlines(s) \in Seq(Word) /\ Len(ToNewlines(s)) = Len(s)
         /\ \A w \in Word \ LineEnd : w \in ToSet(ToNewlines(s)) <=> w \in ToSet(s)
         /\ Terminated(s) => Terminated(ToNewlines(s))
         /\ \A a \in Seq(Word), n \in 1 .. 3 :
              BlockShape(a, s, n) => BlockShape(ToNewlines(a), ToNewlines(s), n)
  <1>1. ASSUME NEW t \in Seq(Word)
        PROVE  /\ ToNewlines(t) \in Seq(Word) /\ Len(ToNewlines(t)) = Len(t)
               /\ \A i \in 1 .. Len(t) :
                    ToNewlines(t)[i] = t[i] \/ (t[i] \in LineEnd /\ ToNewlines(t)[i] \in LineEnd)
    BY DEF ToNewlines, LineEnd, Word
  <1>2. ASSUME NEW t \in Seq(Word), Terminated(t) PROVE Terminated(ToNewlines(t))
    <2>1. CASE t = <<>>
      BY <1>1, <2>1, WordsOf DEF Terminated
    <2>2. CASE t # <<>>
      <3>1. Len(t) \in 1 .. Len(t)
        BY <2>2
      <3>2. ToNewlines(t)[Len(t)] \in LineEnd
        BY <1>1, <1>2, <2>2, <3>1 DEF Terminated
      <3> QED
        BY <1>1, <3>2 DEF Terminated
    <2> QED
      BY <2>1, <2>2
  <1>3. ASSUME NEW w \in Word \ LineEnd PROVE w \in ToSet(ToNewlines(s)) <=> w \in ToSet(s)
    <2>1. \A i \in 1 .. Len(s) : ToNewlines(s)[i] = w <=> s[i] = w
      BY <1>1
    <2> QED
      BY <1>1, <2>1, WordsOf
  <1>4. ASSUME NEW a \in Seq(Word), NEW n \in 1 .. 3, BlockShape(a, s, n)
        PROVE  BlockShape(ToNewlines(a), ToNewlines(s), n)
    <2> DEFINE t == ToNewlines(s)
    <2>1. /\ Len(t) = Len(s) /\ "begin" \notin LineEnd /\ "end" \notin LineEnd
          /\ \A i \in 1 .. Len(s) : t[i] = s[i] \/ (s[i] \in LineEnd /\ t[i] \in LineEnd)
      BY <1>1 DEF LineEnd
    <2>2. n = 1 => Terminated(ToNewlines(a))
      BY <1>2, <1>4 DEF BlockShape
    <2> HIDE DEF t
    <2>3. /\ t[n] = "begin" /\ t[n + 1] \in LineEnd
          /\ \A i \in 1 .. Len(s) : t[i] = "begin" => i = n
          /\ \A i \in 1 .. n - 1 : t[i] \in LineEnd
      BY <1>4, <2>1 DEF BlockShape
    <2>4. ASSUME NEW i \in 1 .. Len(s), t[i] = "end"
          PROVE  /\ i = Len(s) - 1 /\ n + 1 < i - 1
                 /\ t[i - 1] \in LineEnd /\ t[i + 1] \in LineEnd
      <3>1. s[i] = "end"
        BY <2>1, <2>4
      <3>2. /\ i = Len(s) - 1 /\ n + 1 < i - 1 /\ s[i - 1] \in LineEnd /\ s[i + 1] \in LineEnd
        BY <1>4, <3>1 DEF BlockShape
      <3>3. i - 1 \in 1 .. Len(s) /\ i + 1 \in 1 .. Len(s)
        BY <3>2
      <3> QED
        BY <2>1, <3>2, <3>3
    <2> QED
      BY <1>4, <2>1, <2>2, <2>3, <2>4 DEF BlockShape, t
  <1> QED
    BY <1>1, <1>2, <1>3, <1>4

-----------------------------------------------------------------------------
(* What uninstall takes out of a file with one begin marker, the p-th word. *)

OneMarker(f, p) ==
  /\ p \in 1 .. Len(f) /\ f[p] = "begin"
  /\ \A i \in 1 .. Len(f) : f[i] = "begin" => i = p

\* The record can be in one place only.
LEMMA RecordIsAt ==
  ASSUME NEW f \in Seq(Word), NEW p, OneMarker(f, p),
         NEW r \in Seq(Word), NEW m \in 1 .. 3, RecordShape(r, m)
  PROVE  \A i \in Occurrences(f, r) :
           /\ i + m - 1 = p /\ i \in 1 .. Len(f) /\ i + Len(r) <= Len(f) + 1
           /\ \A k \in 1 .. Len(r) : f[i + k - 1] = r[k]
           /\ Removed(f, r) = Without(f, i - 1, i + Len(r))
  <1> SUFFICES ASSUME NEW i \in Occurrences(f, r)
               PROVE  /\ i + m - 1 = p /\ i \in 1 .. Len(f) /\ i + Len(r) <= Len(f) + 1
                      /\ \A k \in 1 .. Len(r) : f[i + k - 1] = r[k]
                      /\ Removed(f, r) = Without(f, i - 1, i + Len(r))
    OBVIOUS
  <1>1. ASSUME NEW j \in Occurrences(f, r)
        PROVE  /\ j \in 1 .. Len(f) /\ j + Len(r) <= Len(f) + 1 /\ j + m - 1 = p
               /\ \A k \in 1 .. Len(r) : f[j + k - 1] = r[k]
    <2>1. /\ j \in 1 .. Len(f) /\ j + Len(r) <= Len(f) + 1
          /\ \A k \in 1 .. Len(r) : f[j + k - 1] = r[k]
      BY DEF Occurrences
    <2>2. Len(r) = m + 5 /\ m \in 1 .. Len(r) /\ r[m] = "begin"
      BY DEF RecordShape
    <2>3. j + m - 1 \in 1 .. Len(f) /\ f[j + m - 1] = "begin"
      BY <2>1, <2>2
    <2>4. j + m - 1 = p
      BY <2>3 DEF OneMarker
    <2> QED
      BY <2>1, <2>4
  <1>2. \A j \in Occurrences(f, r) : j = i
    BY <1>1
  <1>3. First(Occurrences(f, r)) = i
    BY <1>1, <1>2, FirstOfOne
  <1>4. r # <<>> /\ i # 0
    BY <1>1 DEF RecordShape
  <1> QED
    BY <1>1, <1>3, <1>4 DEF Removed

\* Where the record is not, the markers are looked for.
LEMMA RecordIsNowhere ==
  ASSUME NEW f, NEW r, Occurrences(f, r) = {}
  PROVE  Removed(f, r) = MarkerScan(f)
  BY DEF Removed, First

LEMMA LinesOf ==
  ASSUME NEW f \in Seq(Word), NEW w
  PROVE  LET lines == {i \in 1 .. Len(f) : f[i] = w /\ IsLine(f, i)}
         IN \/ lines = {} /\ IndexOfLine(f, w) = 0
            \/ /\ IndexOfLine(f, w) \in 1 .. Len(f)
               /\ f[IndexOfLine(f, w)] = w /\ IsLine(f, IndexOfLine(f, w))
               /\ \A i \in lines : IndexOfLine(f, w) <= i
  <1> DEFINE lines == {i \in 1 .. Len(f) : f[i] = w /\ IsLine(f, i)}
  <1>1. IndexOfLine(f, w) = First(lines)
    BY DEF IndexOfLine
  <1>2. CASE lines = {}
    BY <1>1, <1>2 DEF First
  <1>3. CASE lines # {}
    <2>1. lines \in SUBSET Nat
      OBVIOUS
    <2>2. First(lines) \in lines /\ \A i \in lines : First(lines) <= i
      BY <1>3, <2>1, FirstOfSome
    <2> QED
      BY <1>1, <2>2
  <1> QED
    BY <1>2, <1>3

\* What the scan takes: whole lines, from a begin marker's to an end marker's.
LEMMA ScanTakes ==
  ASSUME NEW f \in Seq(Word), MarkerScan(f) # f
  PROVE  LET b == IndexOfLine(f, "begin")
             e == IndexOfLine(f, "end")
         IN /\ b \in 1 .. Len(f) /\ f[b] = "begin"
            /\ e \in b .. Len(f)
            /\ MarkerScan(f) = Without(f, KeptAbove(f, b - 1), KeptBelow(f, e))
            /\ KeptAbove(f, b - 1) \in 0 .. b - 1
            /\ KeptBelow(f, e) \in e + 1 .. Len(f) + 1
  <1> DEFINE b == IndexOfLine(f, "begin")
             e == IndexOfLine(f, "end")
  <1>1. b # 0 /\ ~(e < b) /\ MarkerScan(f) = Without(f, KeptAbove(f, b - 1), KeptBelow(f, e))
    BY DEF MarkerScan
  <1>2. b \in 1 .. Len(f) /\ f[b] = "begin"
    BY <1>1, LinesOf
  <1>3. e \in 0 .. Len(f)
    BY LinesOf
  <1> HIDE DEF b, e
  <1>4. e \in b .. Len(f)
    BY <1>1, <1>2, <1>3
  <1>5. KeptAbove(f, b - 1) \in 0 .. b - 1
    <2>1. b - 1 \in 0 .. Len(f)
      BY <1>2
    <2> QED
      BY <1>2, <2>1, KeptAboveIs
  <1>6. KeptBelow(f, e) \in e + 1 .. Len(f) + 1
    BY <1>3 DEF KeptBelow
  <1> QED
    BY <1>1, <1>2, <1>4, <1>5, <1>6 DEF b, e

\* Whatever is taken out, the marker is.
LEMMA RemovedIsClean ==
  ASSUME NEW f \in Seq(Word), NEW p, OneMarker(f, p),
         NEW r \in Seq(Word), NEW m \in 1 .. 3, RecordShape(r, m),
         Removed(f, r) # f
  PROVE  Removed(f, r) \in Seq(Word) /\ "begin" \notin ToSet(Removed(f, r))
  <1>0. p \in 1 .. Len(f) /\ \A i \in 1 .. Len(f) : f[i] = "begin" => i = p
    BY DEF OneMarker
  <1>1. ASSUME NEW n \in 0 .. p - 1, NEW k \in p + 1 .. Len(f) + 1
        PROVE  Without(f, n, k) \in Seq(Word) /\ "begin" \notin ToSet(Without(f, n, k))
    <2> DEFINE t == Without(f, n, k)
    <2>1. n \in 0 .. Len(f) /\ k \in n + 1 .. Len(f) + 1
      BY <1>0
    <2>2. /\ t \in Seq(Word) /\ Len(t) = n + (Len(f) + 1 - k)
          /\ \A i \in 1 .. n : t[i] = f[i]
          /\ \A i \in n + 1 .. n + (Len(f) + 1 - k) : t[i] = f[k - 1 + (i - n)]
      BY <2>1, WithoutParts
    <2> HIDE DEF t
    <2>3. ASSUME NEW i \in 1 .. Len(t) PROVE t[i] # "begin"
      <3>1. CASE i <= n
        <4>1. i \in 1 .. n /\ i \in 1 .. Len(f) /\ i # p /\ t[i] = f[i]
          BY <1>0, <2>2, <3>1
        <4> QED
          BY <1>0, <4>1
      <3>2. CASE i > n
        <4> DEFINE j == k - 1 + (i - n)
        <4>1. j \in 1 .. Len(f) /\ j # p
          BY <1>0, <2>2, <3>2
        <4>2. t[i] = f[j]
          <5>1. i \in n + 1 .. n + (Len(f) + 1 - k)
            BY <2>2, <3>2
          <5> QED
            BY <2>2, <5>1
        <4> HIDE DEF j
        <4> QED
          BY <1>0, <4>1, <4>2
      <3> QED
        BY <3>1, <3>2
    <2> QED
      BY <2>2, <2>3, WordsOf DEF t
  <1>2. CASE Occurrences(f, r) # {}
    <2>1. PICK i \in Occurrences(f, r) : TRUE
      BY <1>2
    <2>2. i + m - 1 = p /\ i \in 1 .. Len(f) /\ i + Len(r) <= Len(f) + 1
          /\ Removed(f, r) = Without(f, i - 1, i + Len(r))
      BY <2>1, RecordIsAt
    <2>3. Len(r) = m + 5
      BY DEF RecordShape
    <2>4. i - 1 \in 0 .. p - 1 /\ i + Len(r) \in p + 1 .. Len(f) + 1
      BY <1>0, <2>2, <2>3
    <2> QED
      BY <1>1, <2>2, <2>4
  <1>3. CASE Occurrences(f, r) = {}
    <2> DEFINE b == IndexOfLine(f, "begin")
               e == IndexOfLine(f, "end")
    <2>1. Removed(f, r) = MarkerScan(f)
      BY <1>3, RecordIsNowhere
    <2>2. /\ b \in 1 .. Len(f) /\ f[b] = "begin" /\ e \in b .. Len(f)
          /\ MarkerScan(f) = Without(f, KeptAbove(f, b - 1), KeptBelow(f, e))
          /\ KeptAbove(f, b - 1) \in 0 .. b - 1
          /\ KeptBelow(f, e) \in e + 1 .. Len(f) + 1
      BY <2>1, ScanTakes
    <2> HIDE DEF b, e
    <2>3. b = p
      BY <1>0, <2>2
    <2>4. KeptAbove(f, b - 1) \in 0 .. p - 1 /\ KeptBelow(f, e) \in p + 1 .. Len(f) + 1
      BY <2>2, <2>3
    <2> QED
      BY <1>1, <2>1, <2>2, <2>4
  <1> QED
    BY <1>2, <1>3

-----------------------------------------------------------------------------
(* The file: what the user has above the block, the block, what he has below. *)

LEMMA WordsOfThree ==
  ASSUME NEW a \in Seq(Word), NEW s \in Seq(Word), NEW z \in Seq(Word), NEW w
  PROVE  w \in ToSet(a \o s \o z) <=> w \in ToSet(a) \/ w \in ToSet(s) \/ w \in ToSet(z)
  <1> DEFINE f == a \o s \o z
  <1>1. /\ f \in Seq(Word) /\ Len(f) = Len(a) + Len(s) + Len(z)
        /\ \A i \in 1 .. Len(a) + Len(s) + Len(z) :
             f[i] = IF i <= Len(a) THEN a[i]
                    ELSE IF i <= Len(a) + Len(s) THEN s[i - Len(a)]
                    ELSE z[i - Len(a) - Len(s)]
    BY ThreeParts
  <1> HIDE DEF f
  <1>2. ASSUME NEW i \in 1 .. Len(f), f[i] = w
        PROVE  w \in ToSet(a) \/ w \in ToSet(s) \/ w \in ToSet(z)
    <2>1. CASE i <= Len(a)
      <3>1. i \in 1 .. Len(a) /\ a[i] = w
        BY <1>1, <1>2, <2>1
      <3> QED
        BY <3>1, WordsOf
    <2>2. CASE ~(i <= Len(a)) /\ i <= Len(a) + Len(s)
      <3>1. i - Len(a) \in 1 .. Len(s) /\ s[i - Len(a)] = w
        BY <1>1, <1>2, <2>2
      <3> QED
        BY <3>1, WordsOf
    <2>3. CASE ~(i <= Len(a)) /\ ~(i <= Len(a) + Len(s))
      <3>1. i - Len(a) - Len(s) \in 1 .. Len(z) /\ z[i - Len(a) - Len(s)] = w
        BY <1>1, <1>2, <2>3
      <3> QED
        BY <3>1, WordsOf
    <2> QED
      BY <2>1, <2>2, <2>3
  <1>3. ASSUME w \in ToSet(a) PROVE w \in ToSet(f)
    <2>1. PICK i \in 1 .. Len(a) : a[i] = w
      BY <1>3, WordsOf
    <2>2. i \in 1 .. Len(f) /\ f[i] = w
      BY <1>1, <2>1
    <2> QED
      BY <1>1, <2>2, WordsOf
  <1>4. ASSUME w \in ToSet(s) PROVE w \in ToSet(f)
    <2>1. PICK k \in 1 .. Len(s) : s[k] = w
      BY <1>4, WordsOf
    <2>2. ASSUME NEW i \in Int, i = Len(a) + k PROVE i \in 1 .. Len(f) /\ f[i] = w
      <3>1. i \in 1 .. Len(a) + Len(s) + Len(z) /\ ~(i <= Len(a)) /\ i <= Len(a) + Len(s) /\ i - Len(a) = k
        BY <2>1, <2>2
      <3> QED
        BY <1>1, <2>1, <3>1
    <2>3. Len(a) + k \in Int
      OBVIOUS
    <2> QED
      BY <1>1, <2>2, <2>3, WordsOf
  <1>5. ASSUME w \in ToSet(z) PROVE w \in ToSet(f)
    <2>1. PICK k \in 1 .. Len(z) : z[k] = w
      BY <1>5, WordsOf
    <2>2. ASSUME NEW i \in Int, i = Len(a) + Len(s) + k PROVE i \in 1 .. Len(f) /\ f[i] = w
      <3>1. /\ i \in 1 .. Len(a) + Len(s) + Len(z) /\ ~(i <= Len(a)) /\ ~(i <= Len(a) + Len(s))
            /\ i - Len(a) - Len(s) = k
        BY <2>1, <2>2
      <3> QED
        BY <1>1, <2>1, <3>1
    <2>3. Len(a) + Len(s) + k \in Int
      OBVIOUS
    <2> QED
      BY <1>1, <2>2, <2>3, WordsOf
  <1>6. ASSUME w \in ToSet(f) PROVE w \in ToSet(a) \/ w \in ToSet(s) \/ w \in ToSet(z)
    <2>1. PICK i \in 1 .. Len(f) : f[i] = w
      BY <1>1, <1>6, WordsOf
    <2> QED
      BY <1>2, <2>1
  <1> QED
    BY <1>3, <1>4, <1>5, <1>6 DEF f

LEMMA FileShape ==
  ASSUME NEW a \in Seq(Word), NEW s \in Seq(Word), NEW z \in Seq(Word), NEW n \in 1 .. 3,
         BlockShape(a, s, n), "begin" \notin ToSet(a), "begin" \notin ToSet(z)
  PROVE  /\ a \o s \o z \in Seq(Word)
         /\ OneMarker(a \o s \o z, Len(a) + n) /\ IsLine(a \o s \o z, Len(a) + n)
  <1> DEFINE f == a \o s \o z
             p == Len(a) + n
  <1>1. /\ f \in Seq(Word) /\ Len(f) = Len(a) + Len(s) + Len(z)
        /\ \A i \in 1 .. Len(a) + Len(s) + Len(z) :
             f[i] = IF i <= Len(a) THEN a[i]
                    ELSE IF i <= Len(a) + Len(s) THEN s[i - Len(a)]
                    ELSE z[i - Len(a) - Len(s)]
    BY ThreeParts
  <1> HIDE DEF f
  <1>2. /\ n + 1 <= Len(s) /\ s[n] = "begin" /\ s[n + 1] \in LineEnd
        /\ \A i \in 1 .. Len(s) : s[i] = "begin" => i = n
        /\ \A i \in 1 .. n - 1 : s[i] \in LineEnd
        /\ n = 1 => Terminated(a)
    BY DEF BlockShape
  <1>3. p \in 1 .. Len(f) /\ p + 1 \in 1 .. Len(f) /\ p - n = Len(a) /\ p \in Int
    BY <1>1, <1>2
  <1> HIDE DEF p
  <1>4. ASSUME NEW k \in 1 .. Len(s), NEW i \in Int, i - Len(a) = k PROVE i \in 1 .. Len(f) /\ f[i] = s[k]
    <2>1. i \in 1 .. Len(a) + Len(s) + Len(z) /\ ~(i <= Len(a)) /\ i <= Len(a) + Len(s)
      BY <1>4
    <2> QED
      BY <1>1, <1>4, <2>1
  <1>5. f[p] = "begin" /\ f[p + 1] \in LineEnd
    <2>1. n \in 1 .. Len(s) /\ p - Len(a) = n /\ n + 1 \in 1 .. Len(s) /\ p + 1 - Len(a) = n + 1
      BY <1>2, <1>3
    <2> QED
      BY <1>2, <1>3, <1>4, <2>1
  <1>6. ASSUME NEW i \in 1 .. Len(f), f[i] = "begin" PROVE i = p
    <2>1. CASE i <= Len(a)
      <3>1. i \in 1 .. Len(a) /\ a[i] = "begin"
        BY <1>1, <1>6, <2>1
      <3> QED
        BY <3>1, WordsOf
    <2>2. CASE ~(i <= Len(a)) /\ i <= Len(a) + Len(s)
      <3>1. i - Len(a) \in 1 .. Len(s) /\ s[i - Len(a)] = "begin"
        BY <1>1, <1>6, <2>2
      <3>2. i - Len(a) = n
        BY <1>2, <3>1
      <3> QED
        BY <1>3, <3>2
    <2>3. CASE ~(i <= Len(a)) /\ ~(i <= Len(a) + Len(s))
      <3>1. i - Len(a) - Len(s) \in 1 .. Len(z) /\ z[i - Len(a) - Len(s)] = "begin"
        BY <1>1, <1>6, <2>3
      <3> QED
        BY <3>1, WordsOf
    <2> QED
      BY <2>1, <2>2, <2>3
  <1>7. p = 1 \/ f[p - 1] \in LineEnd
    <2>1. CASE n = 1
      <3>1. CASE Len(a) = 0
        BY <1>3, <2>1, <3>1
      <3>2. CASE Len(a) # 0
        <4>1. a[Len(a)] \in LineEnd
          BY <1>2, <2>1, <3>2 DEF Terminated
        <4>2. p - 1 = Len(a) /\ Len(a) \in 1 .. Len(a) + Len(s) + Len(z)
          BY <1>3, <2>1, <3>2
        <4> QED
          BY <1>1, <4>1, <4>2
      <3> QED
        BY <3>1, <3>2
    <2>2. CASE n # 1
      <3>1. n - 1 \in 1 .. Len(s) /\ s[n - 1] \in LineEnd /\ p - 1 - Len(a) = n - 1 /\ p - 1 \in Int
        BY <1>2, <1>3, <2>2
      <3> QED
        BY <1>4, <3>1
    <2> QED
      BY <2>1, <2>2
  <1> QED
    BY <1>1, <1>3, <1>5, <1>6, <1>7 DEF OneMarker, IsLine, f, p

-----------------------------------------------------------------------------
(* The invariant. *)

\* The parts of RcInv that a step may disturb, with the file's one marker.
LEMMA OneMarkerInFile ==
  ASSUME RcInv, block # <<>>
  PROVE  /\ rcFile \in Seq(Word) /\ "begin" \notin ToSet(before)
         /\ \E n \in 1 .. 3 :
              /\ BlockShape(before, block, n)
              /\ OneMarker(rcFile, Len(before) + n) /\ IsLine(rcFile, Len(before) + n)
  BY FileShape DEF RcInv, RcTypeOK, rcFile

\* Without a block there is no marker as long as there is a record.
LEMMA NoMarkerInFile ==
  ASSUME RcInv, block = <<>>
  PROVE  rcFile = before /\ after = <<>>
  BY DEF RcInv, RcTypeOK, rcFile

LEMMA RcInitInv ==
  ASSUME RcInit
  PROVE  RcInv
  <1>1. before \in Seq(Word)
    BY RcFileAssumption DEF RcInit
  <1>2. <<>> \in Seq(Word) /\ \A w : w \notin ToSet(<<>>)
    BY DEF ToSet
  <1> QED
    BY <1>1, <1>2, RcEditsAssumption DEF RcInit, RcInv, RcTypeOK

\* AddBootstrap: the block is the one with the only marker there is.
LEMMA AddedInv ==
  ASSUME RcInv, AddBootstrap, rcEdits' \in 0 .. MaxRcEdits,
         record' = block' \/ record' = record
  PROVE  RcInv'
  <1>1. rcFile \in Seq(Word)
    BY ThreeParts DEF RcInv, RcTypeOK, rcFile
  <1>2. "begin" \notin ToSet(rcFile) /\ before' = rcFile /\ after' = <<>> /\ block' = BuildBlock(rcFile)
    BY DEF AddBootstrap, HasMarker
  <1>3. /\ block' \in Seq(Word) /\ block' # <<>>
        /\ \E n \in 1 .. 3 : BlockShape(before', block', n) /\ RecordShape(block', n)
    BY <1>1, <1>2, BuildShape
  <1>4. <<>> \in Seq(Word) /\ \A w : w \notin ToSet(<<>>)
    BY DEF ToSet
  <1>5. RcTypeOK'
    BY <1>1, <1>2, <1>3, <1>4 DEF RcInv, RcTypeOK
  <1>6. record' # <<>> => \E n \in 1 .. 3 : RecordShape(record', n)
    BY <1>3 DEF RcInv
  <1> QED
    BY <1>2, <1>3, <1>4, <1>5, <1>6 DEF RcInv, BlockShape, RecordShape

\* TakeOut: what is left has no marker, or nothing was taken.
LEMMA TakenOutInv ==
  ASSUME RcInv, record # <<>>, TakeOut, rcEdits' \in 0 .. MaxRcEdits,
         record' = <<>> \/ record' = record
  PROVE  RcInv'
  <1>1. CASE UNCHANGED <<before, block, after>>
    <2>1. record' # <<>> => record' = record
      OBVIOUS
    <2>2. <<>> \in Seq(Word)
      OBVIOUS
    <2> QED
      BY <1>1, <2>1, <2>2 DEF RcInv, RcTypeOK
  <1>2. CASE /\ Removed(rcFile, record) # rcFile
             /\ before' = Removed(rcFile, record) /\ block' = <<>> /\ after' = <<>>
    <2>1. "begin" \notin ToSet(before)
      BY DEF RcInv
    <2>2. PICK m \in 1 .. 3 : RecordShape(record, m)
      BY DEF RcInv
    <2>3. record \in Seq(Word)
      BY DEF RcInv, RcTypeOK
    <2>4. before' \in Seq(Word) /\ "begin" \notin ToSet(before')
      <3>1. CASE block # <<>>
        <4>1. PICK n \in 1 .. 3 : OneMarker(rcFile, Len(before) + n)
          BY <3>1, OneMarkerInFile
        <4>2. rcFile \in Seq(Word)
          BY <3>1, OneMarkerInFile
        <4> QED
          BY <1>2, <2>2, <2>3, <4>1, <4>2, RemovedIsClean
      <3>2. CASE block = <<>>
        <4>1. rcFile = before /\ before \in Seq(Word)
          BY <3>2, NoMarkerInFile DEF RcInv, RcTypeOK
        <4>2. Occurrences(before, record) = {}
          <5> SUFFICES ASSUME NEW i \in Occurrences(before, record) PROVE FALSE
            OBVIOUS
          <5>1. /\ i \in 1 .. Len(before) /\ i + Len(record) <= Len(before) + 1
                /\ \A k \in 1 .. Len(record) : before[i + k - 1] = record[k]
            BY DEF Occurrences
          <5>2. Len(record) = m + 5 /\ m \in 1 .. Len(record) /\ record[m] = "begin"
            BY <2>2 DEF RecordShape
          <5>3. i + m - 1 \in 1 .. Len(before) /\ before[i + m - 1] = "begin"
            BY <5>1, <5>2
          <5> QED
            BY <2>1, <4>1, <5>3, WordsOf
        <4>3. IndexOfLine(before, "begin") = 0
          BY <2>1, <4>1, LinesOf, WordsOf
        <4>4. Removed(before, record) = before
          BY <4>2, <4>3, RecordIsNowhere DEF MarkerScan
        <4> QED
          BY <1>2, <4>1, <4>4
      <3> QED
        BY <3>1, <3>2
    <2>5. <<>> \in Seq(Word) /\ \A w : w \notin ToSet(<<>>)
      BY DEF ToSet
    <2>6. RcTypeOK'
      BY <1>2, <2>3, <2>4, <2>5 DEF RcTypeOK
    <2>7. record' # <<>> => \E n \in 1 .. 3 : RecordShape(record', n)
      BY <2>2
    <2> QED
      BY <1>2, <2>4, <2>5, <2>6, <2>7 DEF RcInv
  <1> QED
    BY <1>1, <1>2 DEF TakeOut

LEMMA TwoParts ==
  ASSUME NEW s \in Seq(Word), NEW t \in Seq(Word)
  PROVE  /\ s \o t \in Seq(Word)
         /\ \A w : w \in ToSet(s \o t) <=> w \in ToSet(s) \/ w \in ToSet(t)
         /\ t # <<>> /\ Terminated(t) => Terminated(s \o t)
  <1>1. /\ s \o t \in Seq(Word) /\ Len(s \o t) = Len(s) + Len(t)
        /\ \A i \in 1 .. Len(s) + Len(t) :
             (s \o t)[i] = IF i <= Len(s) THEN s[i] ELSE t[i - Len(s)]
    BY ConcatProperties
  <1>2. <<>> \in Seq(Word) /\ s \o t = s \o t \o <<>> /\ \A w : w \notin ToSet(<<>>)
    BY <1>1, ConcatEmptySeq DEF ToSet
  <1>3. ASSUME NEW w PROVE w \in ToSet(s \o t) <=> w \in ToSet(s) \/ w \in ToSet(t)
    BY <1>2, WordsOfThree
  <1>4. ASSUME t # <<>>, Terminated(t) PROVE Terminated(s \o t)
    <2>1. t[Len(t)] \in LineEnd /\ Len(t) >= 1
      BY <1>4 DEF Terminated
    <2>2. Len(s) + Len(t) \in 1 .. Len(s) + Len(t) /\ ~(Len(s) + Len(t) <= Len(s))
          /\ Len(s) + Len(t) - Len(s) = Len(t)
      BY <2>1
    <2>3. (s \o t)[Len(s) + Len(t)] = t[Len(t)]
      BY <1>1, <2>2
    <2> QED
      BY <1>1, <2>1, <2>3 DEF Terminated
  <1> QED
    BY <1>1, <1>3, <1>4

\* A whole line of the user's, with no marker.
UserLine(line) ==
  /\ line \in Seq(Word) /\ line # <<>> /\ Terminated(line)
  /\ "begin" \notin ToSet(line) /\ "end" \notin ToSet(line)

LEMMA UserLines == UserLine(<<"text", "nl">>) /\ UserLine(<<"alias", "nl">>)
  <1>1. ASSUME NEW v \in {"text", "alias"} PROVE UserLine(<<v, "nl">>)
    <2> DEFINE l == <<v, "nl">>
    <2>1. l \in Seq(Word) /\ l # <<>> /\ Len(l) = 2 /\ l[1] = v /\ l[2] = "nl"
      BY DEF Word
    <2> HIDE DEF l
    <2>2. Terminated(l)
      BY <2>1 DEF Terminated, LineEnd
    <2>3. \A w : w \in ToSet(l) => w = v \/ w = "nl"
      BY <2>1, WordsOf
    <2>4. v # "begin" /\ v # "end"
      OBVIOUS
    <2> QED
      BY <2>1, <2>2, <2>3, <2>4 DEF UserLine, l
  <1> QED
    BY <1>1

LEMMA UserEditsInv ==
  ASSUME RcInv,
         \/ \E line : UserLine(line) /\ (RcAppends(line) \/ RcPrepends(line))
         \/ RcEditsInside \/ RcDropsEnd \/ RcDropsBlankLine \/ RcDropsBlock \/ RcToNewlines
  PROVE  RcInv'
  <1> USE DEF RcEdit
  <1>0. /\ before \in Seq(Word) /\ block \in Seq(Word) /\ after \in Seq(Word)
        /\ record \in Seq(Word) /\ rcEdits \in 0 .. MaxRcEdits
        /\ record # <<>> => \E n \in 1 .. 3 : RecordShape(record, n)
    BY DEF RcInv, RcTypeOK
  <1>1. ASSUME NEW line, UserLine(line), RcAppends(line) PROVE RcInv'
    <2>1. /\ before \o line \in Seq(Word) /\ after \o line \in Seq(Word)
          /\ \A w : w \in ToSet(before \o line) <=> w \in ToSet(before) \/ w \in ToSet(line)
          /\ \A w : w \in ToSet(after \o line) <=> w \in ToSet(after) \/ w \in ToSet(line)
      BY <1>0, <1>1, TwoParts DEF UserLine
    <2>2. RcTypeOK'
      <3>1. block' = block /\ record' = record /\ rcEdits' \in 0 .. MaxRcEdits
        BY <1>0, <1>1, RcEditsAssumption DEF RcAppends
      <3>2. before' \in {before, before \o line} /\ after' \in {after, after \o line}
        BY <1>1 DEF RcAppends
      <3> QED
        BY <1>0, <2>1, <3>1, <3>2 DEF RcTypeOK
    <2>3. CASE block = <<>>
      BY <1>0, <1>1, <2>1, <2>2, <2>3 DEF RcAppends, RcInv, UserLine
    <2>4. CASE block # <<>>
      BY <1>0, <1>1, <2>1, <2>2, <2>4 DEF RcAppends, RcInv, UserLine
    <2> QED
      BY <2>3, <2>4
  <1>2. ASSUME NEW line, UserLine(line), RcPrepends(line) PROVE RcInv'
    <2>1. /\ line \o before \in Seq(Word)
          /\ \A w : w \in ToSet(line \o before) <=> w \in ToSet(line) \/ w \in ToSet(before)
          /\ Terminated(before) => Terminated(line \o before)
      <3>1. before = <<>> => line \o before = line
        BY <1>2, ConcatEmptySeq DEF UserLine
      <3> QED
        BY <1>0, <1>2, <3>1, TwoParts DEF UserLine
    <2>2. RcTypeOK'
      BY <1>0, <1>2, <2>1, RcEditsAssumption DEF RcPrepends, RcTypeOK
    <2>3. ASSUME NEW n \in 1 .. 3, BlockShape(before, block, n) PROVE BlockShape(before', block', n)
      <3>1. before' = line \o before /\ block' = block
        BY <1>2 DEF RcPrepends
      <3> QED
        BY <2>1, <2>3, <3>1 DEF BlockShape
    <2> QED
      BY <1>0, <1>2, <2>1, <2>2, <2>3 DEF RcPrepends, RcInv, UserLine
  <1>3. ASSUME RcEditsInside PROVE RcInv'
    <2>1. PICK i \in 1 .. Len(block) :
            /\ block[i] = "hook"
            /\ block' = SubSeq(block, 1, i - 1) \o <<"changed", "nl", "alias">>
                          \o SubSeq(block, i + 1, Len(block))
      BY <1>3 DEF RcEditsInside
    <2>2. PICK n \in 1 .. 3 : BlockShape(before, block, n)
      BY <1>0, <2>1 DEF RcInv
    <2>3. block' \in Seq(Word) /\ BlockShape(before, block', n)
      BY <1>0, <2>1, <2>2, EditedShape
    <2>4. UNCHANGED <<before, after, record>> /\ rcEdits' \in 0 .. MaxRcEdits
      BY <1>0, <1>3, RcEditsAssumption DEF RcEditsInside
    <2>5. block # <<>> /\ block' # <<>>
      BY <2>1, <2>3 DEF BlockShape
    <2> QED
      BY <1>0, <2>2, <2>3, <2>4, <2>5 DEF RcInv, RcTypeOK
  <1>4. ASSUME RcDropsEnd PROVE RcInv'
    <2>1. PICK i \in 1 .. Len(block) : block[i] = "end" /\ block' = SubSeq(block, 1, i - 1)
      BY <1>4 DEF RcDropsEnd
    <2>2. PICK n \in 1 .. 3 : BlockShape(before, block, n)
      BY <1>0, <2>1 DEF RcInv
    <2>3. block' \in Seq(Word) /\ BlockShape(before, block', n)
      BY <1>0, <2>1, <2>2, EndlessShape
    <2>4. UNCHANGED <<before, after, record>> /\ rcEdits' \in 0 .. MaxRcEdits
      BY <1>0, <1>4, RcEditsAssumption DEF RcDropsEnd
    <2>5. block # <<>> /\ block' # <<>>
      BY <2>1, <2>3 DEF BlockShape
    <2> QED
      BY <1>0, <2>2, <2>3, <2>4, <2>5 DEF RcInv, RcTypeOK
  <1>5. ASSUME RcDropsBlankLine PROVE RcInv'
    <2>1. /\ block # <<>> /\ block[1] \in LineEnd /\ block' = Tail(block)
          /\ IndexOfLine(before \o Tail(block), "begin") # 0
      BY <1>0, <1>5 DEF RcDropsBlankLine
    <2>2. PICK n \in 1 .. 3 : BlockShape(before, block, n)
      BY <2>1 DEF RcInv
    <2>3. "begin" \notin ToSet(before)
      BY <2>1 DEF RcInv
    <2>4. block' \in Seq(Word) /\ n - 1 \in 1 .. 3 /\ BlockShape(before, block', n - 1)
      BY <1>0, <2>1, <2>2, <2>3, BlanklessShape
    <2>5. UNCHANGED <<before, after, record>> /\ rcEdits' \in 0 .. MaxRcEdits
      BY <1>0, <1>5, RcEditsAssumption DEF RcDropsBlankLine
    <2>6. block' # <<>>
      BY <2>4 DEF BlockShape
    <2> QED
      BY <1>0, <2>1, <2>3, <2>4, <2>5, <2>6 DEF RcInv, RcTypeOK
  <1>6. ASSUME RcDropsBlock PROVE RcInv'
    <2>1. block # <<>> /\ before' = before \o after /\ block' = <<>> /\ after' = <<>>
          /\ record' = record /\ rcEdits' \in 0 .. MaxRcEdits
      BY <1>0, <1>6, RcEditsAssumption DEF RcDropsBlock
    <2>2. before' \in Seq(Word) /\ "begin" \notin ToSet(before')
      BY <1>0, <2>1, TwoParts DEF RcInv
    <2>3. <<>> \in Seq(Word) /\ \A w : w \notin ToSet(<<>>)
      BY DEF ToSet
    <2> QED
      BY <1>0, <2>1, <2>2, <2>3 DEF RcInv, RcTypeOK
  <1>7. ASSUME RcToNewlines PROVE RcInv'
    <2>1. /\ before' = ToNewlines(before) /\ block' = ToNewlines(block) /\ after' = ToNewlines(after)
          /\ record' = record /\ rcEdits' \in 0 .. MaxRcEdits
      BY <1>0, <1>7, RcEditsAssumption DEF RcToNewlines
    <2>2. "begin" \in Word \ LineEnd /\ "end" \in Word \ LineEnd
      BY DEF Word, LineEnd
    <2>3. RcTypeOK'
      BY <1>0, <2>1, NewlinesShape DEF RcTypeOK
    <2>4. /\ "begin" \in ToSet(before') <=> "begin" \in ToSet(before)
          /\ "begin" \in ToSet(after') <=> "begin" \in ToSet(after)
          /\ "end" \in ToSet(after') <=> "end" \in ToSet(after)
      BY <1>0, <2>1, <2>2, NewlinesShape
    <2>5. /\ block' = <<>> <=> block = <<>>
          /\ after' = <<>> <=> after = <<>>
      BY <1>0, <2>1, NewlinesShape, WordsOf
    <2>6. ASSUME NEW n \in 1 .. 3, BlockShape(before, block, n) PROVE BlockShape(before', block', n)
      BY <1>0, <2>1, <2>6, NewlinesShape
    <2> QED
      BY <1>0, <2>1, <2>3, <2>4, <2>5, <2>6 DEF RcInv
  <1> QED
    BY <1>1, <1>2, <1>3, <1>4, <1>5, <1>6, <1>7

LEMMA RcNextInv ==
  ASSUME RcInv, [RcNext]_rcVars
  PROVE  RcInv'
  <1>0. /\ rcEdits \in 0 .. MaxRcEdits
        /\ RcEdit => rcEdits' \in 0 .. MaxRcEdits
    BY RcEditsAssumption DEF RcInv, RcTypeOK, RcEdit
  <1>1. CASE RcInitCommand
    BY <1>0, <1>1, AddedInv DEF RcInitCommand
  <1>2. CASE RcInitDies
    BY <1>0, <1>2, AddedInv DEF RcInitDies
  <1>3. CASE RcUninstall
    BY <1>0, <1>3, TakenOutInv DEF RcUninstall
  <1>4. CASE RcUninstallDies
    BY <1>0, <1>4, TakenOutInv DEF RcUninstallDies
  <1>5. CASE RcAppends(<<"text", "nl">>) \/ RcPrepends(<<"alias", "nl">>)
    BY <1>5, UserLines, UserEditsInv
  <1>6. CASE RcEditsInside \/ RcDropsEnd \/ RcDropsBlankLine \/ RcDropsBlock \/ RcToNewlines
    BY <1>6, UserEditsInv
  <1>7. CASE UNCHANGED rcVars
    BY <1>7 DEF rcVars, RcInv, RcTypeOK
  <1> QED
    BY <1>1, <1>2, <1>3, <1>4, <1>5, <1>6, <1>7 DEF RcNext, RcInitAgain

\* AddBootstrap refuses a file with a begin marker: while a block or a record is
\* there the only begin marker is the block's, no marker is below the block, and the
\* block's end, if it has one, is its last line.
THEOREM RcInvariant == RcSpec => []RcInv
  <1>1. RcInit => RcInv
    BY RcInitInv
  <1>2. RcInv /\ [RcNext]_rcVars => RcInv'
    BY RcNextInv
  <1> QED
    BY <1>1, <1>2, PTL DEF RcSpec

-----------------------------------------------------------------------------
(* uninstall gives the user's bytes back. *)

\* Cutting the block out of the three parts leaves the other two.
LEMMA CutOut ==
  ASSUME NEW a \in Seq(Word), NEW s \in Seq(Word), NEW z \in Seq(Word)
  PROVE  /\ Without(a \o s \o z, Len(a), Len(a) + Len(s) + 1) = a \o z
         /\ \A k \in 0 .. Len(a) + Len(s) :
              Without(a \o s \o z, k, Len(a) + Len(s) + 1) = SubSeq(a \o s, 1, k) \o z
  <1> DEFINE f == a \o s \o z
             m == Len(a) + Len(s) + 1
  <1>1. /\ f \in Seq(Word) /\ Len(f) = Len(a) + Len(s) + Len(z)
        /\ \A i \in 1 .. Len(a) + Len(s) + Len(z) :
             f[i] = IF i <= Len(a) THEN a[i]
                    ELSE IF i <= Len(a) + Len(s) THEN s[i - Len(a)]
                    ELSE z[i - Len(a) - Len(s)]
    BY ThreeParts
  <1>2. /\ a \o s \in Seq(Word) /\ Len(a \o s) = Len(a) + Len(s)
        /\ \A i \in 1 .. Len(a) + Len(s) :
             (a \o s)[i] = IF i <= Len(a) THEN a[i] ELSE s[i - Len(a)]
    BY ConcatProperties
  <1> HIDE DEF f
  <1>3. SubSeq(f, m, Len(f)) = z
    <2> DEFINE t == SubSeq(f, m, Len(f))
    <2>1. t \in Seq(Word) /\ Len(t) = Len(z) /\ \A i \in 1 .. Len(z) : t[i] = f[m + i - 1]
      <3>1. \A i \in m .. Len(f) : f[i] \in Word
        BY <1>1
      <3>2. m \in Int /\ Len(f) \in Int /\ Len(f) - m + 1 = Len(z)
        BY <1>1
      <3> QED
        BY <3>1, <3>2, SubSeqProperties
    <2>2. ASSUME NEW i \in 1 .. Len(z), NEW j \in Int, j = m + i - 1 PROVE f[j] = z[i]
      <3>1. /\ j \in 1 .. Len(a) + Len(s) + Len(z) /\ ~(j <= Len(a)) /\ ~(j <= Len(a) + Len(s))
            /\ j - Len(a) - Len(s) = i
        BY <2>2
      <3> QED
        BY <1>1, <3>1
    <2>3. \A i \in 1 .. Len(z) : t[i] = z[i]
      BY <2>1, <2>2
    <2> HIDE DEF t
    <2>4. t = z
      BY <2>1, <2>3, SeqEqual
    <2> QED
      BY <2>4 DEF t
  <1>4. ASSUME NEW k \in 0 .. Len(a) + Len(s) PROVE SubSeq(f, 1, k) = SubSeq(a \o s, 1, k)
    <2>1. /\ SubSeq(f, 1, k) \in Seq(Word) /\ Len(SubSeq(f, 1, k)) = k
          /\ \A i \in 1 .. k : SubSeq(f, 1, k)[i] = f[i]
      BY <1>1, SubSeqProperties
    <2>2. /\ SubSeq(a \o s, 1, k) \in Seq(Word) /\ Len(SubSeq(a \o s, 1, k)) = k
          /\ \A i \in 1 .. k : SubSeq(a \o s, 1, k)[i] = (a \o s)[i]
      BY <1>2, SubSeqProperties
    <2>3. \A i \in 1 .. k : f[i] = (a \o s)[i]
      BY <1>1, <1>2
    <2> QED
      BY <2>1, <2>2, <2>3, SeqEqual
  <1>5. SubSeq(a \o s, 1, Len(a)) = a
    <2>1. /\ SubSeq(a \o s, 1, Len(a)) \in Seq(Word) /\ Len(SubSeq(a \o s, 1, Len(a))) = Len(a)
          /\ \A i \in 1 .. Len(a) : SubSeq(a \o s, 1, Len(a))[i] = (a \o s)[i]
      BY <1>2, SubSeqProperties
    <2>2. \A i \in 1 .. Len(a) : (a \o s)[i] = a[i]
      BY <1>2
    <2> QED
      BY <2>1, <2>2, SeqEqual
  <1>6. ASSUME NEW k \in 0 .. Len(a) + Len(s) PROVE Without(f, k, m) = SubSeq(a \o s, 1, k) \o z
    BY <1>3, <1>4 DEF Without
  <1>7. Without(f, Len(a), m) = a \o z
    BY <1>5, <1>6
  <1> QED
    BY <1>6, <1>7 DEF f

\* Only uninstall forgets the block.
LEMMA OnlyUninstallForgets ==
  ASSUME RcInv, [RcNext]_rcVars, record # <<>>, record' = <<>>
  PROVE  RcUninstall
  <1>1. ~(RcInitCommand)
    <2> SUFFICES ASSUME RcInitCommand PROVE FALSE
      OBVIOUS
    <2>1. rcFile \in Seq(Word)
      BY ThreeParts DEF RcInv, RcTypeOK, rcFile
    <2>2. record' = BuildBlock(rcFile)
      BY DEF RcInitCommand, AddBootstrap
    <2> QED
      BY <2>1, <2>2, BuildShape
  <1>2. record' # record
    OBVIOUS
  <1> QED
    BY <1>1, <1>2
       DEF RcNext, RcInitAgain, RcInitDies, RcUninstallDies, RcAppends, RcPrepends, RcEditsInside,
           RcDropsEnd, RcDropsBlankLine, RcDropsBlock, RcToNewlines, rcVars

LEMMA TakenOut ==
  ASSUME RcInv, RcInv', TakeOut
  PROVE  rcFile' = Removed(rcFile, record)
  <1>1. CASE Removed(rcFile, record) = rcFile
    BY <1>1 DEF TakeOut, rcFile
  <1>2. CASE Removed(rcFile, record) # rcFile
    <2>1. before' = Removed(rcFile, record) /\ block' = <<>> /\ after' = <<>>
      BY <1>2 DEF TakeOut
    <2>2. before' \in Seq(Word)
      BY DEF RcInv, RcTypeOK
    <2>3. before' \o <<>> \o <<>> = before'
      BY <2>2, ConcatEmptySeq
    <2> QED
      BY <2>1, <2>3 DEF rcFile
  <1> QED
    BY <1>1, <1>2

\* A record that is all of the block, or its end, is found in the block and nowhere
\* else; and if it is not where the user's own words begin, it is not above it.
LEMMA RecordInBlock ==
  ASSUME RcInv, NEW n \in 1 .. 3, BlockShape(before, block, n), block # <<>>,
         NEW m \in 1 .. 3, RecordShape(record, m),
         NEW i \in Occurrences(rcFile, record), i > Len(before)
  PROVE  /\ i = Len(before) + (n - m) + 1 /\ m <= n
         /\ i + Len(record) = Len(before) + Len(block) + 1
         /\ m = n => block = record
         /\ Removed(rcFile, record) = Without(rcFile, i - 1, i + Len(record))
  <1> DEFINE p == Len(before) + n
  <1>0. /\ before \in Seq(Word) /\ block \in Seq(Word) /\ after \in Seq(Word) /\ record \in Seq(Word)
        /\ "begin" \notin ToSet(before) /\ "begin" \notin ToSet(after) /\ "end" \notin ToSet(after)
    BY DEF RcInv, RcTypeOK
  <1>1. rcFile \in Seq(Word) /\ OneMarker(rcFile, p)
    BY <1>0, FileShape DEF rcFile
  <1>2. /\ i + m - 1 = p /\ i \in 1 .. Len(rcFile) /\ i + Len(record) <= Len(rcFile) + 1
        /\ \A k \in 1 .. Len(record) : rcFile[i + k - 1] = record[k]
        /\ Removed(rcFile, record) = Without(rcFile, i - 1, i + Len(record))
    BY <1>0, <1>1, RecordIsAt
  <1>3. /\ Len(rcFile) = Len(before) + Len(block) + Len(after)
        /\ \A j \in 1 .. Len(before) + Len(block) + Len(after) :
             rcFile[j] = IF j <= Len(before) THEN before[j]
                         ELSE IF j <= Len(before) + Len(block) THEN block[j - Len(before)]
                         ELSE after[j - Len(before) - Len(block)]
    BY <1>0, ThreeParts DEF rcFile
  <1>4. i = Len(before) + (n - m) + 1 /\ m <= n
    BY <1>0, <1>2
  <1>5. Len(record) = m + 5 /\ record[m + 4] = "end"
    BY DEF RecordShape
  <1> DEFINE q == Len(before) + n + 4
  <1>6. q \in 1 .. Len(rcFile) /\ rcFile[q] = "end"
    <2>1. m + 4 \in 1 .. Len(record) /\ i + (m + 4) - 1 = q /\ q \in Int
      BY <1>0, <1>4, <1>5
    <2>2. q <= Len(rcFile) /\ q >= 1
      BY <1>0, <1>2, <1>4, <1>5
    <2> HIDE DEF q
    <2> QED
      BY <1>2, <1>3, <1>5, <2>1, <2>2
  <1>7. n + 4 = Len(block) - 1
    <2>1. q <= Len(before) + Len(block)
      <3> SUFFICES ASSUME ~(q <= Len(before) + Len(block)) PROVE FALSE
        OBVIOUS
      <3> DEFINE k == q - Len(before) - Len(block)
      <3>1. k \in 1 .. Len(after) /\ ~(q <= Len(before))
        BY <1>0, <1>3, <1>6
      <3> HIDE DEF q
      <3>2. after[k] = "end"
        BY <1>3, <1>6, <3>1
      <3> HIDE DEF k
      <3> QED
        BY <1>0, <3>1, <3>2, WordsOf
    <2>2. ~(q <= Len(before)) /\ q - Len(before) = n + 4 /\ n + 4 \in 1 .. Len(block)
      BY <1>0, <2>1
    <2> HIDE DEF q
    <2>3. block[n + 4] = "end"
      BY <1>3, <1>6, <2>1, <2>2
    <2> QED
      BY <2>2, <2>3 DEF BlockShape
  <1>8. i + Len(record) = Len(before) + Len(block) + 1
    BY <1>0, <1>4, <1>5, <1>7
  <1>9. ASSUME m = n PROVE block = record
    <2>1. Len(block) = Len(record) /\ i = Len(before) + 1
      BY <1>0, <1>4, <1>8, <1>9
    <2>2. ASSUME NEW k \in 1 .. Len(record) PROVE block[k] = record[k]
      <3> DEFINE j == i + k - 1
      <3>1. j \in 1 .. Len(before) + Len(block) + Len(after) /\ ~(j <= Len(before))
            /\ j <= Len(before) + Len(block) /\ j - Len(before) = k
        BY <1>0, <2>1
      <3>2. rcFile[j] = record[k]
        BY <1>2
      <3> HIDE DEF j
      <3> QED
        BY <1>3, <3>1, <3>2
    <2> QED
      BY <1>0, <2>1, <2>2, SeqEqual
  <1> QED
    BY <1>2, <1>4, <1>8, <1>9

LEMMA PrefixOfTwo ==
  ASSUME NEW a \in Seq(Word), NEW s \in Seq(Word), NEW k \in 0 .. Len(a) + Len(s)
  PROVE  SubSeq(a \o s, 1, k) =
           SubSeq(a, 1, IF k <= Len(a) THEN k ELSE Len(a))
             \o SubSeq(s, 1, IF k <= Len(a) THEN 0 ELSE k - Len(a))
  <1> DEFINE c == IF k <= Len(a) THEN k ELSE Len(a)
             d == IF k <= Len(a) THEN 0 ELSE k - Len(a)
             u == SubSeq(a, 1, c)
             v == SubSeq(s, 1, d)
             t == SubSeq(a \o s, 1, k)
  <1>1. /\ a \o s \in Seq(Word) /\ Len(a \o s) = Len(a) + Len(s)
        /\ \A i \in 1 .. Len(a) + Len(s) :
             (a \o s)[i] = IF i <= Len(a) THEN a[i] ELSE s[i - Len(a)]
    BY ConcatProperties
  <1>2. t \in Seq(Word) /\ Len(t) = k /\ \A i \in 1 .. k : t[i] = (a \o s)[i]
    BY <1>1, SubSeqProperties
  <1>3. c \in 0 .. Len(a) /\ d \in 0 .. Len(s) /\ c + d = k /\ (d # 0 => c = Len(a))
    OBVIOUS
  <1> HIDE DEF c, d, t
  <1>4. u \in Seq(Word) /\ Len(u) = c /\ \A i \in 1 .. c : u[i] = a[i]
    BY <1>3, SubSeqProperties
  <1>5. v \in Seq(Word) /\ Len(v) = d /\ \A i \in 1 .. d : v[i] = s[i]
    BY <1>3, SubSeqProperties
  <1> HIDE DEF u, v
  <1>6. /\ u \o v \in Seq(Word) /\ Len(u \o v) = k
        /\ \A i \in 1 .. k : (u \o v)[i] = IF i <= c THEN u[i] ELSE v[i - c]
    <2>1. /\ u \o v \in Seq(Word) /\ Len(u \o v) = Len(u) + Len(v)
          /\ \A i \in 1 .. Len(u) + Len(v) : (u \o v)[i] = IF i <= Len(u) THEN u[i] ELSE v[i - Len(u)]
      BY <1>4, <1>5, ConcatProperties
    <2>2. Len(u) = c /\ Len(u) + Len(v) = k
      BY <1>3, <1>4, <1>5
    <2> QED
      BY <2>1, <2>2
  <1>7. ASSUME NEW i \in 1 .. k PROVE t[i] = (u \o v)[i]
    <2>1. CASE i <= c
      <3>1. i \in 1 .. c /\ i <= Len(a) /\ i \in 1 .. Len(a) + Len(s)
        BY <1>3, <2>1
      <3>2. t[i] = a[i]
        BY <1>1, <1>2, <3>1
      <3>3. (u \o v)[i] = a[i]
        BY <1>4, <1>6, <2>1, <3>1
      <3> QED
        BY <3>2, <3>3
    <2>2. CASE ~(i <= c)
      <3>1. c = Len(a) /\ ~(i <= Len(a)) /\ i - Len(a) \in 1 .. d /\ i \in 1 .. Len(a) + Len(s)
        BY <1>3, <2>2
      <3>2. t[i] = s[i - Len(a)]
        BY <1>1, <1>2, <3>1
      <3>3. (u \o v)[i] = s[i - Len(a)]
        BY <1>5, <1>6, <2>2, <3>1
      <3> QED
        BY <3>2, <3>3
    <2> QED
      BY <2>1, <2>2
  <1>8. t = u \o v
    BY <1>2, <1>6, <1>7, SeqEqual
  <1> QED
    BY <1>8 DEF t, u, v, c, d

\* What the file must be for the user to have his lines.
LEMMA LinesAreBack ==
  ASSUME RcInv, NEW n \in 1 .. 3, BlockShape(before, block, n),
         NEW k \in 0 .. Len(before) + n - 1,
         rcFile' = SubSeq(before \o block, 1, k) \o after,
         Terminated(SubSeq(before \o block, 1, k)),
         k < Len(before) =>
           k = Len(before) - 1 /\ before[k + 1] \in LineEnd /\ Terminated(SubSeq(before, 1, k))
  PROVE  GivesLinesBack
  <1> DEFINE c == IF k <= Len(before) THEN k ELSE Len(before)
             d == IF k <= Len(before) THEN 0 ELSE k - Len(before)
  <1>1. before \in Seq(Word) /\ block \in Seq(Word) /\ n + 1 <= Len(block)
    BY DEF RcInv, RcTypeOK, BlockShape
  <1>2. SubSeq(before \o block, 1, k) = SubSeq(before, 1, c) \o SubSeq(block, 1, d)
    <2>1. k \in 0 .. Len(before) + Len(block)
      BY <1>1
    <2> QED
      BY <1>1, <2>1, PrefixOfTwo
  <1>3. c \in 0 .. Len(before) /\ d \in 0 .. Len(block) /\ d <= n - 1 /\ (c < Len(before) => c = k)
    BY <1>1
  <1> HIDE DEF c, d
  <1>4. \A i \in 1 .. d : block[i] \in LineEnd
    BY <1>1, <1>3 DEF BlockShape
  <1> QED
    BY <1>2, <1>3, <1>4 DEF GivesLinesBack

\* Where the end marker of a block is in it, and in the file.
LEMMA EndInFile ==
  ASSUME RcInv, NEW n \in 1 .. 3, BlockShape(before, block, n), "end" \in ToSet(block)
  PROVE  LET q == Len(before) + Len(block) - 1
         IN /\ Len(block) - 1 \in 1 .. Len(block)
            /\ block[Len(block) - 1] = "end" /\ block[Len(block)] \in LineEnd
            /\ n + 1 < Len(block) - 2
            /\ \A i \in 1 .. Len(block) : block[i] = "end" => i = Len(block) - 1
            /\ q \in 1 .. Len(rcFile) /\ rcFile[q] = "end" /\ rcFile[q - 1] \in LineEnd
            /\ q + 1 \in 1 .. Len(rcFile) /\ rcFile[q + 1] \in LineEnd
  <1> DEFINE q == Len(before) + Len(block) - 1
  <1>0. before \in Seq(Word) /\ block \in Seq(Word) /\ after \in Seq(Word)
    BY DEF RcInv, RcTypeOK
  <1>2. /\ Len(rcFile) = Len(before) + Len(block) + Len(after)
        /\ \A j \in 1 .. Len(before) + Len(block) + Len(after) :
             rcFile[j] = IF j <= Len(before) THEN before[j]
                         ELSE IF j <= Len(before) + Len(block) THEN block[j - Len(before)]
                         ELSE after[j - Len(before) - Len(block)]
    BY <1>0, ThreeParts DEF rcFile
  <1>4. /\ Len(block) - 1 \in 1 .. Len(block) /\ block[Len(block) - 1] = "end"
        /\ n + 1 < Len(block) - 2
        /\ block[Len(block) - 2] \in LineEnd /\ block[Len(block)] \in LineEnd
        /\ \A i \in 1 .. Len(block) : block[i] = "end" => i = Len(block) - 1
    <2>1. PICK i \in 1 .. Len(block) : block[i] = "end"
      BY <1>0, WordsOf
    <2>2. i = Len(block) - 1 /\ n + 1 < i - 1 /\ block[i - 1] \in LineEnd /\ block[i + 1] \in LineEnd
      BY <2>1 DEF BlockShape
    <2>3. i - 1 = Len(block) - 2 /\ i + 1 = Len(block)
      BY <1>0, <2>2
    <2>4. \A j \in 1 .. Len(block) : block[j] = "end" => j = Len(block) - 1
      BY DEF BlockShape
    <2> QED
      BY <2>1, <2>2, <2>3, <2>4
  <1>5. ASSUME NEW k \in 1 .. Len(block), NEW j \in Int, j - Len(before) = k
        PROVE  j \in 1 .. Len(rcFile) /\ rcFile[j] = block[k]
    <2>1. j \in 1 .. Len(before) + Len(block) + Len(after) /\ ~(j <= Len(before))
          /\ j <= Len(before) + Len(block)
      BY <1>0, <1>5
    <2> QED
      BY <1>2, <1>5, <2>1
  <1>6. /\ q \in 1 .. Len(rcFile) /\ rcFile[q] = "end" /\ rcFile[q - 1] \in LineEnd
        /\ q + 1 \in 1 .. Len(rcFile) /\ rcFile[q + 1] \in LineEnd
    <2>1. /\ q - Len(before) = Len(block) - 1 /\ q \in Int
          /\ q - 1 - Len(before) = Len(block) - 2 /\ q - 1 \in Int /\ Len(block) - 2 \in 1 .. Len(block)
          /\ q + 1 - Len(before) = Len(block) /\ q + 1 \in Int /\ Len(block) \in 1 .. Len(block)
      BY <1>0, <1>4
    <2> HIDE DEF q
    <2>2. /\ q \in 1 .. Len(rcFile) /\ rcFile[q] = "end"
          /\ rcFile[q - 1] \in LineEnd
          /\ q + 1 \in 1 .. Len(rcFile) /\ rcFile[q + 1] \in LineEnd
      <3>1. q \in 1 .. Len(rcFile) /\ rcFile[q] = block[Len(block) - 1]
        BY <1>4, <1>5, <2>1
      <3>2. rcFile[q - 1] = block[Len(block) - 2]
        BY <1>5, <2>1
      <3>3. q + 1 \in 1 .. Len(rcFile) /\ rcFile[q + 1] = block[Len(block)]
        BY <1>5, <2>1
      <3> QED
        BY <1>4, <3>1, <3>2, <3>3
    <2> QED
      BY <2>2
  <1> QED
    BY <1>4, <1>6

\* What the scan finds in a file whose block has both its markers.
LEMMA ScanFindsBlock ==
  ASSUME RcInv, NEW n \in 1 .. 3, BlockShape(before, block, n), block # <<>>, Paired
  PROVE  MarkerScan(rcFile) =
           Without(rcFile, KeptAbove(rcFile, Len(before) + n - 1), Len(before) + Len(block) + 1)
  <1> DEFINE p == Len(before) + n
             q == Len(before) + Len(block) - 1
             b == IndexOfLine(rcFile, "begin")
             e == IndexOfLine(rcFile, "end")
  <1>0. /\ before \in Seq(Word) /\ block \in Seq(Word) /\ after \in Seq(Word)
        /\ "begin" \notin ToSet(before) /\ "begin" \notin ToSet(after) /\ "end" \notin ToSet(after)
    BY DEF RcInv, RcTypeOK
  <1>1. rcFile \in Seq(Word) /\ OneMarker(rcFile, p) /\ IsLine(rcFile, p)
    BY <1>0, FileShape DEF rcFile
  <1>2. /\ Len(rcFile) = Len(before) + Len(block) + Len(after)
        /\ \A j \in 1 .. Len(before) + Len(block) + Len(after) :
             rcFile[j] = IF j <= Len(before) THEN before[j]
                         ELSE IF j <= Len(before) + Len(block) THEN block[j - Len(before)]
                         ELSE after[j - Len(before) - Len(block)]
    BY <1>0, ThreeParts DEF rcFile
  <1>3. b = p
    <2>1. p \in 1 .. Len(rcFile) /\ rcFile[p] = "begin"
      BY <1>1 DEF OneMarker
    <2>2. b \in 1 .. Len(rcFile) /\ rcFile[b] = "begin"
      BY <1>1, <2>1, LinesOf
    <2> HIDE DEF b, p
    <2> QED
      BY <1>1, <2>2 DEF OneMarker
  <1>4. /\ Len(block) - 1 \in 1 .. Len(block)
        /\ block[Len(block) - 1] = "end" /\ block[Len(block)] \in LineEnd
        /\ n + 1 < Len(block) - 2
        /\ \A i \in 1 .. Len(block) : block[i] = "end" => i = Len(block) - 1
    BY EndInFile DEF Paired
  <1>6. /\ q \in 1 .. Len(rcFile) /\ rcFile[q] = "end" /\ IsLine(rcFile, q)
        /\ q + 1 \in 1 .. Len(rcFile) /\ rcFile[q + 1] \in LineEnd
    BY EndInFile DEF Paired, IsLine
  <1>7. ASSUME NEW j \in 1 .. Len(rcFile), rcFile[j] = "end", IsLine(rcFile, j) PROVE j = q
    <2>1. CASE j <= Len(before)
      <3>1. j \in 1 .. Len(before) /\ before[j] = "end"
        BY <1>0, <1>2, <1>7, <2>1
      <3>2. IsLine(before, j)
        <4>1. j = 1 \/ before[j - 1] \in LineEnd
          BY <1>0, <1>2, <1>7, <3>1 DEF IsLine
        <4>2. j = Len(before) \/ before[j + 1] \in LineEnd
          BY <1>0, <1>2, <1>4, <1>7, <3>1 DEF IsLine
        <4> QED
          BY <4>1, <4>2 DEF IsLine
      <3> QED
        BY <1>0, <3>1, <3>2, LinesOf DEF Paired
    <2>2. CASE ~(j <= Len(before)) /\ j <= Len(before) + Len(block)
      <3>1. j - Len(before) \in 1 .. Len(block) /\ block[j - Len(before)] = "end"
        BY <1>0, <1>2, <1>7, <2>2
      <3>2. j - Len(before) = Len(block) - 1
        BY <1>4, <3>1
      <3> QED
        BY <1>0, <3>2
    <2>3. CASE ~(j <= Len(before)) /\ ~(j <= Len(before) + Len(block))
      <3>1. j - Len(before) - Len(block) \in 1 .. Len(after) /\ after[j - Len(before) - Len(block)] = "end"
        BY <1>0, <1>2, <1>7, <2>3
      <3> QED
        BY <1>0, <3>1, WordsOf
    <2> QED
      BY <2>1, <2>2, <2>3
  <1>8. e = q
    <2>1. e \in 1 .. Len(rcFile) /\ rcFile[e] = "end" /\ IsLine(rcFile, e)
      BY <1>1, <1>6, LinesOf
    <2> HIDE DEF e, q
    <2> QED
      BY <1>7, <2>1
  <1>9. ~(e < b) /\ b # 0
    BY <1>0, <1>3, <1>4, <1>8
  <1>10. KeptBelow(rcFile, e) = Len(before) + Len(block) + 1
    <2>1. q + 2 = Len(before) + Len(block) + 1
      BY <1>0
    <2> HIDE DEF q, e
    <2> QED
      BY <1>6, <1>8, <2>1 DEF KeptBelow
  <1> HIDE DEF b, e
  <1> QED
    BY <1>3, <1>9, <1>10 DEF MarkerScan, b, e

\* And in one whose block has not, or where the user's own end marker comes first.
LEMMA ScanFindsNothing ==
  ASSUME RcInv, record # <<>>, ~Paired
  PROVE  MarkerScan(rcFile) = rcFile
  <1> DEFINE b == IndexOfLine(rcFile, "begin")
             e == IndexOfLine(rcFile, "end")
  <1>0. /\ before \in Seq(Word) /\ block \in Seq(Word) /\ after \in Seq(Word)
        /\ "begin" \notin ToSet(before) /\ "begin" \notin ToSet(after) /\ "end" \notin ToSet(after)
    BY DEF RcInv, RcTypeOK
  <1>1. CASE block = <<>>
    <2>1. rcFile = before
      BY <1>1, NoMarkerInFile
    <2>2. b = 0
      BY <1>0, <2>1, LinesOf, WordsOf
    <2> QED
      BY <2>2 DEF MarkerScan
  <1>2. CASE block # <<>>
    <2>1. PICK n \in 1 .. 3 : BlockShape(before, block, n)
      BY <1>2 DEF RcInv
    <2> DEFINE p == Len(before) + n
    <2>2. rcFile \in Seq(Word) /\ OneMarker(rcFile, p) /\ IsLine(rcFile, p)
      BY <1>0, <2>1, FileShape DEF rcFile
    <2>3. /\ Len(rcFile) = Len(before) + Len(block) + Len(after)
          /\ \A j \in 1 .. Len(before) + Len(block) + Len(after) :
               rcFile[j] = IF j <= Len(before) THEN before[j]
                           ELSE IF j <= Len(before) + Len(block) THEN block[j - Len(before)]
                           ELSE after[j - Len(before) - Len(block)]
      BY <1>0, ThreeParts DEF rcFile
    <2>4. b = p
      <3>1. p \in 1 .. Len(rcFile) /\ rcFile[p] = "begin"
        BY <2>2 DEF OneMarker
      <3>2. b \in 1 .. Len(rcFile) /\ rcFile[b] = "begin"
        BY <2>2, <3>1, LinesOf
      <3> HIDE DEF b, p
      <3> QED
        BY <2>2, <3>2 DEF OneMarker
    <2>5. CASE IndexOfLine(before, "end") # 0
      <3> DEFINE j == IndexOfLine(before, "end")
      <3>1. j \in 1 .. Len(before) /\ before[j] = "end" /\ IsLine(before, j)
        BY <1>0, <2>5, LinesOf
      <3> HIDE DEF j
      <3>2. j \in 1 .. Len(rcFile) /\ rcFile[j] = "end"
        BY <1>0, <2>3, <3>1
      <3>3. j = 1 \/ rcFile[j - 1] \in LineEnd
        <4> SUFFICES ASSUME j # 1 PROVE rcFile[j - 1] \in LineEnd
          OBVIOUS
        <4> DEFINE i == j - 1
        <4>1. /\ i \in 1 .. Len(before) + Len(block) + Len(after) /\ i <= Len(before)
              /\ before[i] \in LineEnd
          BY <1>0, <3>1 DEF IsLine
        <4> HIDE DEF i
        <4>2. rcFile[i] = before[i]
          BY <2>3, <4>1
        <4> QED
          BY <4>1, <4>2 DEF i
      <3>4. rcFile[j + 1] \in LineEnd
        <4> DEFINE i == j + 1
        <4>1. CASE j # Len(before)
          <5>1. /\ i \in 1 .. Len(before) + Len(block) + Len(after) /\ i <= Len(before)
                /\ before[i] \in LineEnd
            BY <1>0, <3>1, <4>1 DEF IsLine
          <5> HIDE DEF i
          <5>2. rcFile[i] = before[i]
            BY <2>3, <5>1
          <5> QED
            BY <5>1, <5>2 DEF i
        <4>2. CASE j = Len(before)
          <5>1. ~Terminated(before)
            BY <3>1, <4>2 DEF Terminated, LineEnd
          <5>2. n # 1 /\ 1 \in 1 .. n - 1 /\ 1 \in 1 .. Len(block) /\ block[1] \in LineEnd
            BY <2>1, <5>1 DEF BlockShape
          <5>3. /\ i \in 1 .. Len(before) + Len(block) + Len(after) /\ ~(i <= Len(before))
                /\ i <= Len(before) + Len(block) /\ i - Len(before) = 1
            BY <1>0, <4>2, <5>2
          <5> HIDE DEF i
          <5>4. rcFile[i] = block[1]
            BY <2>3, <5>3
          <5> QED
            BY <5>2, <5>4 DEF i
        <4> QED
          BY <4>1, <4>2
      <3>5. IsLine(rcFile, j)
        BY <3>3, <3>4 DEF IsLine
      <3>6. e \in 1 .. Len(rcFile) /\ e <= j
        BY <2>2, <3>2, <3>5, LinesOf
      <3>7. e < p
        BY <1>0, <3>1, <3>6
      <3> QED
        BY <2>4, <3>7 DEF MarkerScan
    <2>6. CASE IndexOfLine(before, "end") = 0
      <3>1. "end" \notin ToSet(block)
        <4>1. n \in 1 .. Len(block) /\ block[n] = "begin"
          BY <2>1 DEF BlockShape
        <4>2. "begin" \in ToSet(block)
          BY <1>0, <4>1, WordsOf
        <4> QED
          BY <2>6, <4>2 DEF Paired
      <3>2. ASSUME NEW j \in 1 .. Len(rcFile), rcFile[j] = "end" PROVE j <= Len(before)
        <4>1. CASE ~(j <= Len(before)) /\ j <= Len(before) + Len(block)
          <5>1. j - Len(before) \in 1 .. Len(block) /\ block[j - Len(before)] = "end"
            BY <1>0, <2>3, <3>2, <4>1
          <5> QED
            BY <1>0, <3>1, <5>1, WordsOf
        <4>2. CASE ~(j <= Len(before)) /\ ~(j <= Len(before) + Len(block))
          <5>1. /\ j - Len(before) - Len(block) \in 1 .. Len(after)
                /\ after[j - Len(before) - Len(block)] = "end"
            BY <1>0, <2>3, <3>2, <4>2
          <5> QED
            BY <1>0, <5>1, WordsOf
        <4> QED
          BY <4>1, <4>2
      <3>3. e = 0 \/ (e \in 1 .. Len(rcFile) /\ rcFile[e] = "end")
        BY <2>2, LinesOf
      <3> HIDE DEF e
      <3>4. e < p
        BY <1>0, <3>2, <3>3
      <3> QED
        BY <2>4, <3>4 DEF MarkerScan, e
    <2> QED
      BY <2>5, <2>6
  <1> QED
    BY <1>1, <1>2

\* A step that forgets the block has given the user's lines back.
LEMMA ForgettingGivesBack ==
  ASSUME RcInv, RcInv', [RcNext]_rcVars, record # <<>>, record' = <<>>, ~TakesUsersNewline
  PROVE  /\ block = record => rcFile' = before \o after
         /\ block # record /\ Paired => GivesLinesBack
         /\ Occurrences(rcFile, record) = {} /\ ~Paired => rcFile' = rcFile
  <1>0. /\ before \in Seq(Word) /\ block \in Seq(Word) /\ after \in Seq(Word) /\ record \in Seq(Word)
        /\ Len(before) \in Nat /\ Len(block) \in Nat
    BY DEF RcInv, RcTypeOK
  <1>1. rcFile' = Removed(rcFile, record)
    BY OnlyUninstallForgets, TakenOut DEF RcUninstall
  <1>2. PICK m \in 1 .. 3 : RecordShape(record, m)
    BY DEF RcInv
  <1>3. ASSUME NEW i \in Occurrences(rcFile, record) PROVE i > Len(before)
    <2>1. i \in Nat
      BY DEF Occurrences
    <2> QED
      BY <1>0, <2>1 DEF TakesUsersNewline
  <1>4. ASSUME block = record PROVE rcFile' = before \o after
    <2>1. block # <<>>
      BY <1>4
    <2>2. PICK n \in 1 .. 3 : BlockShape(before, block, n)
      BY <2>1 DEF RcInv
    <2> DEFINE i == Len(before) + 1
    <2>3. i \in Occurrences(rcFile, record)
      <3>1. /\ Len(rcFile) = Len(before) + Len(block) + Len(after)
            /\ \A j \in 1 .. Len(before) + Len(block) + Len(after) :
                 rcFile[j] = IF j <= Len(before) THEN before[j]
                             ELSE IF j <= Len(before) + Len(block) THEN block[j - Len(before)]
                             ELSE after[j - Len(before) - Len(block)]
        BY <1>0, ThreeParts DEF rcFile
      <3>2. Len(block) >= 1
        BY <1>0, <2>1
      <3>3. ASSUME NEW k \in 1 .. Len(record) PROVE rcFile[i + k - 1] = record[k]
        <4> DEFINE j == i + k - 1
        <4>1. /\ j \in 1 .. Len(before) + Len(block) + Len(after) /\ ~(j <= Len(before))
              /\ j <= Len(before) + Len(block) /\ j - Len(before) = k
          BY <1>0, <1>4
        <4> HIDE DEF j
        <4>2. rcFile[j] = record[k]
          BY <1>4, <3>1, <4>1
        <4> QED
          BY <4>2 DEF j
      <3>4. i \in 1 .. Len(rcFile) /\ i + Len(record) <= Len(rcFile) + 1
        BY <1>0, <1>4, <3>1, <3>2
      <3> HIDE DEF i
      <3> QED
        BY <3>3, <3>4 DEF Occurrences
    <2>4. i > Len(before)
      BY <1>0
    <2>5. /\ Removed(rcFile, record) = Without(rcFile, i - 1, i + Len(record))
          /\ i + Len(record) = Len(before) + Len(block) + 1
      BY <1>2, <2>1, <2>2, <2>3, <2>4, RecordInBlock
    <2>6. i - 1 = Len(before)
      BY <1>0
    <2>7. Without(rcFile, Len(before), Len(before) + Len(block) + 1) = before \o after
      BY <1>0, CutOut DEF rcFile
    <2> HIDE DEF i
    <2> QED
      BY <1>1, <2>5, <2>6, <2>7
  <1>5. ASSUME block # record, Paired PROVE GivesLinesBack
    <2>1. block # <<>>
      BY <1>5 DEF Paired, ToSet
    <2>2. PICK n \in 1 .. 3 : BlockShape(before, block, n)
      BY <2>1 DEF RcInv
    <2>3. n + 1 <= Len(block) /\ \A j \in 1 .. n - 1 : block[j] \in LineEnd
      BY <2>2 DEF BlockShape
    <2>4. \A k \in 0 .. Len(before) + Len(block) :
            Without(rcFile, k, Len(before) + Len(block) + 1) = SubSeq(before \o block, 1, k) \o after
      BY <1>0, CutOut DEF rcFile
    <2>5. /\ before \o block \in Seq(Word) /\ Len(before \o block) = Len(before) + Len(block)
          /\ \A j \in 1 .. Len(before) + Len(block) :
               (before \o block)[j] = IF j <= Len(before) THEN before[j] ELSE block[j - Len(before)]
      BY <1>0, ConcatProperties
    <2>6. ASSUME NEW k \in 0 .. Len(before) + Len(block)
          PROVE  /\ SubSeq(before \o block, 1, k) \in Seq(Word)
                 /\ Len(SubSeq(before \o block, 1, k)) = k
                 /\ \A j \in 1 .. k : SubSeq(before \o block, 1, k)[j] = (before \o block)[j]
                 /\ k = 0 \/ (before \o block)[k] \in LineEnd
                      => Terminated(SubSeq(before \o block, 1, k))
      <3> DEFINE t == SubSeq(before \o block, 1, k)
      <3>1. t \in Seq(Word) /\ Len(t) = k /\ \A j \in 1 .. k : t[j] = (before \o block)[j]
        BY <1>0, <2>5, SubSeqProperties
      <3> HIDE DEF t
      <3>2. k = 0 \/ (before \o block)[k] \in LineEnd => Terminated(t)
        BY <1>0, <3>1 DEF Terminated
      <3> QED
        BY <3>1, <3>2 DEF t
    <2>7. CASE Occurrences(rcFile, record) # {}
      <3>1. PICK i \in Occurrences(rcFile, record) : i > Len(before)
        BY <1>3, <2>7
      <3>2. /\ i = Len(before) + (n - m) + 1 /\ m <= n
            /\ i + Len(record) = Len(before) + Len(block) + 1
            /\ m = n => block = record
            /\ Removed(rcFile, record) = Without(rcFile, i - 1, i + Len(record))
        BY <1>2, <2>1, <2>2, <3>1, RecordInBlock
      <3> DEFINE k == i - 1
      <3>3. /\ k \in 0 .. Len(before) + n - 1 /\ k \in 0 .. Len(before) + Len(block)
            /\ k - Len(before) \in 1 .. n - 1 /\ ~(k <= Len(before)) /\ k \in 1 .. Len(before) + Len(block)
        BY <1>0, <1>5, <2>3, <3>2
      <3>4. rcFile' = SubSeq(before \o block, 1, k) \o after
        BY <1>1, <2>4, <3>2, <3>3
      <3> HIDE DEF k
      <3>5. (before \o block)[k] \in LineEnd
        BY <2>3, <2>5, <3>3
      <3>6. Terminated(SubSeq(before \o block, 1, k))
        BY <2>6, <3>3, <3>5
      <3>7. ~(k < Len(before))
        BY <1>0, <3>3
      <3> QED
        BY <2>2, <3>3, <3>4, <3>6, <3>7, LinesAreBack
    <2>8. CASE Occurrences(rcFile, record) = {}
      <3> DEFINE p == Len(before) + n
                 k == KeptAbove(rcFile, p - 1)
      <3>1. Removed(rcFile, record) = Without(rcFile, KeptAbove(rcFile, Len(before) + n - 1), Len(before) + Len(block) + 1)
        BY <1>5, <2>1, <2>2, <2>8, RecordIsNowhere, ScanFindsBlock
      <3>2. rcFile \in Seq(Word) /\ IsLine(rcFile, p)
        BY <2>1, <2>2, <1>0, FileShape DEF rcFile, RcInv
      <3>3. \A j \in 1 .. Len(before) + Len(block) : rcFile[j] = (before \o block)[j]
        <4>1. \A j \in 1 .. Len(before) + Len(block) + Len(after) :
                rcFile[j] = IF j <= Len(before) THEN before[j]
                            ELSE IF j <= Len(before) + Len(block) THEN block[j - Len(before)]
                            ELSE after[j - Len(before) - Len(block)]
          BY <1>0, ThreeParts DEF rcFile
        <4> QED
          BY <1>0, <2>5, <4>1
      <3>4. p - 1 \in 0 .. Len(rcFile) /\ p - 1 \in 0 .. Len(before) + Len(block) /\ p - 1 >= Len(before)
        <4>1. Len(rcFile) = Len(before) + Len(block) + Len(after)
          BY <1>0, ThreeParts DEF rcFile
        <4> QED
          BY <1>0, <2>3, <4>1
      <3>5. \/ k = p - 1
            \/ /\ p - 1 >= 1 /\ k = p - 1 - 1 /\ rcFile[p - 1] \in LineEnd
               /\ p - 1 = 1 \/ rcFile[p - 1 - 1] \in LineEnd
        BY <3>2, <3>4, KeptAboveIs
      <3>6. k = 0 \/ (k \in 1 .. Len(before) + Len(block) /\ rcFile[k] \in LineEnd)
        <4>1. CASE k = p - 1
          BY <1>0, <3>2, <3>4, <4>1 DEF IsLine
        <4>2. CASE /\ p - 1 >= 1 /\ k = p - 1 - 1 /\ rcFile[p - 1] \in LineEnd
                   /\ p - 1 = 1 \/ rcFile[p - 1 - 1] \in LineEnd
          BY <1>0, <3>4, <4>2
        <4> HIDE DEF k
        <4> QED
          BY <3>5, <4>1, <4>2
      <3>7. rcFile' = Without(rcFile, k, Len(before) + Len(block) + 1)
        BY <1>1, <3>1
      <3>8. k \in 0 .. Len(before) + n - 1 /\ k \in 0 .. Len(before) + Len(block)
        BY <1>0, <2>3, <3>4, <3>5
      <3>9. k < Len(before) =>
              k + 1 = Len(before) /\ k + 1 = p - 1 /\ rcFile[p - 1] \in LineEnd
        BY <1>0, <3>4, <3>5
      <3> HIDE DEF k
      <3>10. k = 0 \/ (before \o block)[k] \in LineEnd
        BY <3>3, <3>6
      <3>11. Terminated(SubSeq(before \o block, 1, k))
        BY <2>6, <3>8, <3>10
      <3>12. rcFile' = SubSeq(before \o block, 1, k) \o after
        BY <2>4, <3>7, <3>8
      <3>13. ASSUME k < Len(before)
             PROVE  k = Len(before) - 1 /\ before[k + 1] \in LineEnd /\ Terminated(SubSeq(before, 1, k))
        <4>1. k + 1 = Len(before) /\ rcFile[k + 1] \in LineEnd
          BY <3>9, <3>13
        <4>2. k + 1 \in 1 .. Len(before) + Len(block) /\ k + 1 <= Len(before)
          BY <1>0, <3>8, <4>1
        <4>3. before[k + 1] \in LineEnd
          BY <2>5, <3>3, <4>1, <4>2
        <4>4. /\ SubSeq(before, 1, k) \in Seq(Word) /\ Len(SubSeq(before, 1, k)) = k
              /\ \A j \in 1 .. k : SubSeq(before, 1, k)[j] = before[j]
          BY <1>0, <3>8, <3>13, SubSeqProperties
        <4>5. k = 0 \/ before[k] \in LineEnd
          BY <1>0, <2>5, <3>8, <3>10, <3>13
        <4>6. Terminated(SubSeq(before, 1, k))
          BY <3>8, <4>4, <4>5 DEF Terminated
        <4> QED
          BY <1>0, <3>8, <4>1, <4>3, <4>6
      <3> QED
        BY <2>2, <3>8, <3>11, <3>12, <3>13, LinesAreBack
    <2> QED
      BY <2>7, <2>8
  <1>6. ASSUME Occurrences(rcFile, record) = {}, ~Paired PROVE rcFile' = rcFile
    BY <1>1, <1>6, RecordIsNowhere, ScanFindsNothing
  <1> QED
    BY <1>4, <1>5, <1>6

\* "Uninstall restores byte-identical files": whatever the user did above the block,
\* below it and in it, and however many commands failed half-way.
THEOREM UninstallIsClean == RcSpec => UninstallGivesBack
  <1>1. RcInit => RcInv
    BY RcInitInv
  <1>2. RcInv /\ [RcNext]_rcVars => RcInv'
    BY RcNextInv
  <1>3. RcInv /\ RcInv' /\ [RcNext]_rcVars =>
          [record # <<>> /\ record' = <<>> /\ ~TakesUsersNewline =>
             /\ block = record => rcFile' = before \o after
             /\ block # record /\ Paired => GivesLinesBack
             /\ Occurrences(rcFile, record) = {} /\ ~Paired => rcFile' = rcFile]_rcVars
    BY ForgettingGivesBack
  <1> QED
    BY <1>1, <1>2, <1>3, PTL DEF RcSpec, UninstallGivesBack

\* The file is text, markers and ends of lines, whatever was done to it.
THEOREM RcTypeCorrect == RcSpec => []RcTypeOK
  <1>1. RcInv => RcTypeOK
    BY DEF RcInv
  <1> QED
    BY <1>1, RcInvariant, PTL

\* The one begin marker and the first end marker after it are the block's, so what
\* lies between them, and nothing else, is skipped.
LEMMA BlockIsSkipped == RcInv => ImportReadsTheUsers
  <1> SUFFICES ASSUME RcInv, block = <<>> \/ "end" \in ToSet(block)
               PROVE  Imported(rcFile) = Imported(before) \cup
                        {i \in 1 .. Len(rcFile) : rcFile[i] = "alias" /\ i > Len(before) + Len(block)}
    BY DEF ImportReadsTheUsers
  <1>0. before \in Seq(Word) /\ block \in Seq(Word) /\ after \in Seq(Word)
    BY DEF RcInv, RcTypeOK
  <1>1. CASE block = <<>>
    <2>1. rcFile = before
      BY <1>1, NoMarkerInFile
    <2>2. Len(block) = 0
      BY <1>1
    <2>3. {i \in 1 .. Len(rcFile) : rcFile[i] = "alias" /\ i > Len(before) + Len(block)} = {}
      BY <1>0, <2>1, <2>2
    <2> QED
      BY <2>1, <2>3
  <1>2. CASE block # <<>>
    <2>1. PICK n \in 1 .. 3 : BlockShape(before, block, n)
      BY <1>2 DEF RcInv
    <2>2. "begin" \notin ToSet(before) /\ "begin" \notin ToSet(after) /\ "end" \in ToSet(block)
      BY <1>2 DEF RcInv
    <2> DEFINE p == Len(before) + n
               q == Len(before) + Len(block) - 1
    <2>3. rcFile \in Seq(Word) /\ OneMarker(rcFile, p) /\ IsLine(rcFile, p)
      BY <1>0, <2>1, <2>2, FileShape DEF rcFile
    <2>4. /\ Len(rcFile) = Len(before) + Len(block) + Len(after)
          /\ \A j \in 1 .. Len(before) + Len(block) + Len(after) :
               rcFile[j] = IF j <= Len(before) THEN before[j]
                           ELSE IF j <= Len(before) + Len(block) THEN block[j - Len(before)]
                           ELSE after[j - Len(before) - Len(block)]
      BY <1>0, ThreeParts DEF rcFile
    <2>5. /\ n + 1 < Len(block) - 2
          /\ \A i \in 1 .. Len(block) : block[i] = "end" => i = Len(block) - 1
          /\ q \in 1 .. Len(rcFile) /\ rcFile[q] = "end" /\ rcFile[q - 1] \in LineEnd
          /\ rcFile[q + 1] \in LineEnd
      BY <2>1, <2>2, EndInFile
    <2>6. p \in 1 .. Len(rcFile) /\ rcFile[p] = "begin" /\ \A b \in 1 .. Len(rcFile) : rcFile[b] = "begin" => b = p
      BY <2>3 DEF OneMarker
    <2>7. p \in Nat /\ q \in Nat /\ p < q /\ Len(before) < p /\ p < Len(before) + Len(block)
      BY <1>0, <2>5
    <2>8. q + 1 = Len(before) + Len(block) /\ Len(before) + Len(block) \in Nat
      BY <1>0
    <2>9. "alias" \notin LineEnd
      BY DEF LineEnd
    <2>10. ASSUME NEW i \in 1 .. Len(rcFile), rcFile[i] = "alias", i <= Len(before)
           PROVE  i \in Imported(rcFile) /\ i \in Imported(before)
      <3>1. i \in 1 .. Len(before) /\ before[i] = "alias"
        BY <1>0, <2>4, <2>10
      <3>2. \A b \in 1 .. i : before[b] # "begin"
        BY <1>0, <2>2, <3>1, WordsOf
      <3>3. \A b \in 1 .. i : rcFile[b] # "begin"
        <4> HIDE DEF p
        <4> QED
          BY <1>0, <2>4, <2>6, <2>7, <3>1
      <3> QED
        BY <2>10, <3>1, <3>2, <3>3 DEF Imported
    <2>11. ASSUME NEW i \in 1 .. Len(rcFile), rcFile[i] = "alias",
                  ~(i <= Len(before)), i <= Len(before) + Len(block)
           PROVE  i \notin Imported(rcFile)
      <3>1. p < i
        <4>1. CASE i < p
          <5> DEFINE k == i - Len(before)
          <5>1. k \in 1 .. n - 1 /\ rcFile[i] = block[k]
            BY <1>0, <2>4, <2>11, <4>1
          <5> HIDE DEF k
          <5>2. block[k] \in LineEnd
            BY <2>1, <5>1 DEF BlockShape
          <5> QED
            BY <2>9, <2>11, <5>1, <5>2
        <4>2. i # p
          BY <2>6, <2>11
        <4> HIDE DEF p
        <4> QED
          BY <1>0, <2>7, <4>1, <4>2
      <3>2. ASSUME NEW e \in p + 1 .. i, rcFile[e] = "end" PROVE e = q
        <4> DEFINE k == e - Len(before)
        <4>1. k \in 1 .. Len(block) /\ rcFile[e] = block[k]
          BY <1>0, <2>4, <2>11
        <4> HIDE DEF k
        <4>2. k = Len(block) - 1
          BY <2>5, <3>2, <4>1
        <4> QED
          BY <1>0, <4>2 DEF k
      <3> HIDE DEF p, q
      <3>3. i # q /\ i # q + 1
        BY <2>5, <2>9, <2>11
      <3>4. i < q
        BY <1>0, <2>7, <2>8, <2>11, <3>3
      <3>5. ~ \E e \in p + 1 .. i : rcFile[e] = "end" /\ rcFile[e - 1] \in LineEnd
        BY <2>7, <3>2, <3>4
      <3>6. p \in 1 .. i /\ (p = 1 \/ rcFile[p - 1] \in LineEnd)
        BY <2>3, <2>6, <2>7, <3>1 DEF IsLine
      <3> QED
        BY <2>6, <3>5, <3>6 DEF Imported
    <2>12. ASSUME NEW i \in 1 .. Len(rcFile), rcFile[i] = "alias", i > Len(before) + Len(block)
           PROVE  i \in Imported(rcFile)
      <3>1. q \in p + 1 .. i
        <4> HIDE DEF p, q
        <4> QED
          BY <1>0, <2>7, <2>8, <2>12
      <3> HIDE DEF p, q
      <3>2. \A b \in 1 .. i : rcFile[b] = "begin" => b = p
        BY <2>6, <2>12
      <3>3. \E e \in p + 1 .. i : rcFile[e] = "end" /\ rcFile[e - 1] \in LineEnd
        BY <2>5, <3>1
      <3> QED
        BY <2>12, <3>2, <3>3 DEF Imported
    <2>13. Imported(before) \subseteq {i \in 1 .. Len(rcFile) : rcFile[i] = "alias" /\ i <= Len(before)}
      BY <1>0, <2>4 DEF Imported
    <2>14. Imported(rcFile) \subseteq {i \in 1 .. Len(rcFile) : rcFile[i] = "alias"}
      BY DEF Imported
    <2> HIDE DEF p, q
    <2>15. ASSUME NEW i PROVE i \in Imported(rcFile) <=>
             \/ i \in Imported(before)
             \/ i \in 1 .. Len(rcFile) /\ rcFile[i] = "alias" /\ i > Len(before) + Len(block)
      <3>1. i \in 1 .. Len(rcFile) => i \in Nat
        OBVIOUS
      <3> QED
        BY <1>0, <2>8, <2>10, <2>11, <2>12, <2>13, <2>14, <3>1
    <2> QED
      BY <2>15
  <1> QED
    BY <1>1, <1>2

\* Nothing in the block is imported, and nothing around it is missed, whatever was
\* done to the file since init.
THEOREM ImportIsSafe == RcSpec => []ImportReadsTheUsers
  BY BlockIsSkipped, RcInvariant, PTL
=============================================================================
