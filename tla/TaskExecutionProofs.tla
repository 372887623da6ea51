------------------------ MODULE TaskExecutionProofs ------------------------
(***************************************************************************)
(* Proofs about the executions of tasks: the tools they run and the budget *)
(* they keep, whatever the providers answer and operators do meanwhile.    *)
(***************************************************************************)
EXTENDS TaskExecutionInvariant, FiniteSetTheorems, SequenceTheorems, WellFoundedInduction, TLAPS

-----------------------------------------------------------------------------
(***************************************************************************)
(* Induction over the natural numbers, as the existence of a least one.    *)
(***************************************************************************)
Before == {p \in Nat \X Nat : p[1] < p[2]}

LEMMA LeastNumber ==
    ASSUME NEW T \in SUBSET Nat, T # {} PROVE \E x \in T : \A y \in T : x <= y
<1>1. Before = OpToRel(<, Nat)
  BY DEF OpToRel, Before
<1>2. IsWellFoundedOn(Before, Nat)
  BY <1>1, NatLessThanWellFounded
<1>3. PICK x \in T : \A y \in T : ~ (<<y, x>> \in Before)
  BY <1>2, WFMin
<1>4. \A y \in T : (<<y, x>> \in Before) <=> y < x
  BY DEF Before
<1>5. ASSUME NEW y \in T PROVE x <= y
  <2>1. x \in Nat /\ y \in Nat
    OBVIOUS
  <2>2. ~ (y < x)
    BY <1>3, <1>4
  <2> QED  BY <2>1, <2>2
<1> QED  BY <1>5

LEMMA MinIsLeast ==
    ASSUME NEW T \in SUBSET Nat, T # {}
    PROVE  Min(T) \in T /\ \A y \in T : Min(T) <= y
BY LeastNumber DEF Min

\* If a property of sequences can fail, it fails first somewhere.
LEMMA FirstFailure ==
    ASSUME NEW last \in Nat, NEW Bad, Bad \subseteq 0..last, Bad # {}, 0 \notin Bad
    PROVE  \E m \in 1..last : m \in Bad /\ m - 1 \in 0..last /\ m - 1 \notin Bad
<1>1. Bad \in SUBSET Nat
  OBVIOUS
<1>2. PICK m \in Bad : \A k \in Bad : m <= k
  BY <1>1, LeastNumber
<1>3. m \in 1..last /\ m - 1 \in 0..last
  OBVIOUS
<1>4. m - 1 \notin Bad
  BY <1>2, <1>3
<1> QED  BY <1>3, <1>4

-----------------------------------------------------------------------------
(***************************************************************************)
(* Kept: the function that it is defined with exists, and follows its      *)
(* definition at every position.                                           *)
(***************************************************************************)
NextKept(seq, positions, f, n) ==
    IF n = 0 THEN << >>
    ELSE IF n \in positions THEN Append(f[n - 1], seq[n]) ELSE f[n - 1]
KeepsUpTo(seq, positions, f, m) == f = [n \in 0..m |-> NextKept(seq, positions, f, n)]

LEMMA KeepsExists ==
    ASSUME NEW seq, NEW positions, NEW last \in Nat
    PROVE  \E f : KeepsUpTo(seq, positions, f, last)
<1> DEFINE Bad == {m \in 0..last : ~ \E f : KeepsUpTo(seq, positions, f, m)}
<1>1. 0 \notin Bad
  <2>1. KeepsUpTo(seq, positions, [n \in 0..0 |-> << >>], 0)
    BY DEF KeepsUpTo, NextKept
  <2> QED  BY <2>1
<1>2. ASSUME NEW m \in 1..last, m - 1 \in 0..last, m - 1 \notin Bad PROVE m \notin Bad
  <2>1. PICK f : KeepsUpTo(seq, positions, f, m - 1)
    BY <1>2
  <2> DEFINE g == [n \in 0..m |-> IF n < m THEN f[n] ELSE NextKept(seq, positions, f, m)]
  <2>2. ASSUME NEW n \in 0..m PROVE g[n] = NextKept(seq, positions, g, n)
    <3>1. n # 0 => n - 1 \in 0..(m - 1) /\ g[n - 1] = f[n - 1]
      OBVIOUS
    <3>2. NextKept(seq, positions, g, n) = NextKept(seq, positions, f, n)
      BY <3>1 DEF NextKept
    <3>3. g[n] = NextKept(seq, positions, f, n)
      BY <2>1 DEF KeepsUpTo
    <3> QED  BY <3>2, <3>3
  <2>3. KeepsUpTo(seq, positions, g, m)
    BY <2>2 DEF KeepsUpTo
  <2> QED  BY <2>3
<1>3. Bad \subseteq 0..last
  OBVIOUS
<1> HIDE DEF Bad
<1>4. Bad = {}
  BY <1>1, <1>2, <1>3, FirstFailure
<1>5. last \in 0..last
  OBVIOUS
<1> QED  BY <1>4, <1>5 DEF Bad

LEMMA KeptIs ==
    ASSUME NEW S, NEW seq \in Seq(S), NEW positions
    PROVE  \E f : /\ KeepsUpTo(seq, positions, f, Len(seq))
                  /\ Kept(seq, positions) = f[Len(seq)]
<1> DEFINE k == CHOOSE f : KeepsUpTo(seq, positions, f, Len(seq))
<1>0. Len(seq) \in Nat
  OBVIOUS
<1>1. KeepsUpTo(seq, positions, k, Len(seq))
  BY <1>0, KeepsExists
<1>2. Kept(seq, positions) = k[Len(seq)]
  BY DEF Kept, KeepsUpTo, NextKept
<1> QED  BY <1>1, <1>2

LEMMA KeepsSteps ==
    ASSUME NEW seq, NEW positions, NEW f, NEW last \in Nat, KeepsUpTo(seq, positions, f, last)
    PROVE  /\ f[0] = << >>
           /\ \A n \in 1..last :
                 f[n] = IF n \in positions THEN Append(f[n - 1], seq[n]) ELSE f[n - 1]
<1>1. \A n \in 0..last : f[n] = NextKept(seq, positions, f, n)
  BY DEF KeepsUpTo
<1>2. 0 \in 0..last /\ \A n \in 1..last : n \in 0..last /\ n # 0
  OBVIOUS
<1> QED  BY <1>1, <1>2 DEF NextKept

\* Where the elements come from that are kept: from the positions, and in their order.
FromPositions(seq, positions, kept, last) ==
    /\ \A i \in 1..Len(kept) : \E p \in positions \cap (1..last) : kept[i] = seq[p]
    /\ \A i \in 2..Len(kept) :
          \E p \in positions \cap (1..last), q \in positions \cap (1..last) :
              q < p /\ kept[i] = seq[p]

LEMMA AppendKept ==
    ASSUME NEW S, NEW seq \in Seq(S), NEW positions, NEW kept \in Seq(S),
           NEW n \in 1..Len(seq), n \in positions,
           FromPositions(seq, positions, kept, n - 1)
    PROVE  FromPositions(seq, positions, Append(kept, seq[n]), n)
<1>0. n - 1 \in Nat /\ seq[n] \in S /\ n \in Nat /\ Len(kept) \in Nat
  OBVIOUS
<1>1. Len(Append(kept, seq[n])) = Len(kept) + 1
  BY <1>0
<1>2. \A p \in positions \cap (1..(n - 1)) : p \in positions \cap (1..n) /\ p < n
  BY <1>0
<1>3. ASSUME NEW i \in 1..Len(Append(kept, seq[n]))
      PROVE  \E p \in positions \cap (1..n) : Append(kept, seq[n])[i] = seq[p]
  <2>1. CASE i \in 1..Len(kept)
    BY <1>0, <1>2, <2>1 DEF FromPositions
  <2>2. CASE i = Len(kept) + 1
    <3>1. Append(kept, seq[n])[i] = seq[n] /\ n \in positions \cap (1..n)
      BY <1>0, <2>2
    <3> QED  BY <3>1
  <2> QED  BY <1>0, <1>1, <2>1, <2>2
<1>4. ASSUME NEW i \in 2..Len(Append(kept, seq[n]))
      PROVE  \E p \in positions \cap (1..n), q \in positions \cap (1..n) :
                 q < p /\ Append(kept, seq[n])[i] = seq[p]
  <2>1. CASE i \in 2..Len(kept)
    <3>1. Append(kept, seq[n])[i] = kept[i]
      BY <1>0, <2>1
    <3>2. PICK p \in positions \cap (1..(n - 1)), q \in positions \cap (1..(n - 1)) :
              q < p /\ kept[i] = seq[p]
      BY <2>1 DEF FromPositions
    <3> QED  BY <1>2, <3>1, <3>2
  <2>2. CASE i = Len(kept) + 1
    <3>1. Append(kept, seq[n])[i] = seq[n] /\ n \in positions \cap (1..n)
      BY <1>0, <2>2
    <3>2. 1 \in 1..Len(kept)
      BY <1>0, <2>2
    <3>3. PICK q \in positions \cap (1..(n - 1)) : kept[1] = seq[q]
      BY <3>2 DEF FromPositions
    <3> QED  BY <1>2, <3>1, <3>3
  <2> QED  BY <1>0, <1>1, <2>1, <2>2
<1> QED  BY <1>3, <1>4 DEF FromPositions

LEMMA KeptElements ==
    ASSUME NEW S, NEW seq \in Seq(S), NEW positions
    PROVE  /\ Kept(seq, positions) \in Seq(S)
           /\ FromPositions(seq, positions, Kept(seq, positions), Len(seq))
<1>0. Len(seq) \in Nat
  OBVIOUS
<1>1. PICK f : /\ KeepsUpTo(seq, positions, f, Len(seq))
               /\ Kept(seq, positions) = f[Len(seq)]
  BY KeptIs
<1> DEFINE Good(m) == f[m] \in Seq(S) /\ FromPositions(seq, positions, f[m], m)
           Bad == {m \in 0..Len(seq) : ~ Good(m)}
<1>2. 0 \notin Bad
  <2>1. f[0] = << >>
    BY <1>0, <1>1, KeepsSteps
  <2>2. Good(0)
    BY <2>1 DEF FromPositions
  <2> QED  BY <2>2
<1>3. ASSUME NEW m \in 1..Len(seq), m - 1 \in 0..Len(seq), m - 1 \notin Bad PROVE m \notin Bad
  <2>1. f[m] = IF m \in positions THEN Append(f[m - 1], seq[m]) ELSE f[m - 1]
    BY <1>0, <1>1, KeepsSteps
  <2>2. Good(m - 1)
    BY <1>3
  <2>3. CASE m \in positions
    <3>1. seq[m] \in S
      OBVIOUS
    <3>2. FromPositions(seq, positions, Append(f[m - 1], seq[m]), m)
      BY <2>2, <2>3, AppendKept
    <3>3. Append(f[m - 1], seq[m]) \in Seq(S)
      BY <2>2, <3>1
    <3>4. Good(m)
      BY <2>1, <2>3, <3>2, <3>3
    <3> QED  BY <3>4
  <2>4. CASE m \notin positions
    <3>1. \A p \in positions \cap (1..(m - 1)) : p \in positions \cap (1..m)
      BY <1>0
    <3>2. FromPositions(seq, positions, f[m - 1], m)
      <4> HIDE DEF Bad
      <4>1. FromPositions(seq, positions, f[m - 1], m - 1)
        BY <2>2
      <4> QED  BY <3>1, <4>1 DEF FromPositions
    <3> QED  BY <2>1, <2>2, <2>4, <3>2
  <2> QED  BY <2>3, <2>4
<1>4. Bad \subseteq 0..Len(seq)
  OBVIOUS
<1> HIDE DEF Bad
<1>5. Bad = {}
  BY <1>0, <1>2, <1>3, <1>4, FirstFailure
<1>6. Len(seq) \in 0..Len(seq)
  BY <1>0
<1>7. Good(Len(seq))
  BY <1>5, <1>6 DEF Bad
<1> QED  BY <1>1, <1>7

\* Where nothing is kept from, nothing is kept.
LEMMA KeptNothing ==
    ASSUME NEW S, NEW seq \in Seq(S), NEW positions, positions \cap (1..Len(seq)) = {}
    PROVE  Kept(seq, positions) = << >>
<1>1. Kept(seq, positions) \in Seq(S)
  BY KeptElements
<1>2. 1 \notin 1..Len(Kept(seq, positions))
  BY KeptElements DEF FromPositions
<1> QED  BY <1>1, <1>2

\* What is kept from earlier positions comes before what is kept from later ones.
LEMMA KeptJoined ==
    ASSUME NEW S, NEW seq \in Seq(S), NEW A \in SUBSET Nat, NEW B \in SUBSET Nat,
           \A i \in A, j \in B : i < j
    PROVE  Kept(seq, A \cup B) = Kept(seq, A) \o Kept(seq, B)
<1>0. Len(seq) \in Nat
  OBVIOUS
<1>1. PICK f : KeepsUpTo(seq, A, f, Len(seq)) /\ Kept(seq, A) = f[Len(seq)]
  BY KeptIs
<1>2. PICK g : KeepsUpTo(seq, B, g, Len(seq)) /\ Kept(seq, B) = g[Len(seq)]
  BY KeptIs
<1>3. PICK h : KeepsUpTo(seq, A \cup B, h, Len(seq)) /\ Kept(seq, A \cup B) = h[Len(seq)]
  BY KeptIs
<1>4. f[0] = << >> /\ g[0] = << >> /\ h[0] = << >>
  BY <1>0, <1>1, <1>2, <1>3, KeepsSteps
<1>5. ASSUME NEW n \in 1..Len(seq)
      PROVE  /\ f[n] = IF n \in A THEN Append(f[n - 1], seq[n]) ELSE f[n - 1]
             /\ g[n] = IF n \in B THEN Append(g[n - 1], seq[n]) ELSE g[n - 1]
             /\ h[n] = IF n \in A \cup B THEN Append(h[n - 1], seq[n]) ELSE h[n - 1]
  BY <1>0, <1>1, <1>2, <1>3, KeepsSteps
<1> DEFINE Good(m) == /\ f[m] \in Seq(S) /\ g[m] \in Seq(S)
                      /\ h[m] = f[m] \o g[m]
                      /\ (\A j \in B : m < j) => g[m] = << >>
           Bad == {m \in 0..Len(seq) : ~ Good(m)}
<1>6. 0 \notin Bad
  <2>1. << >> \in Seq(S) /\ << >> \o << >> = << >>
    OBVIOUS
  <2>2. Good(0)
    BY <1>4, <2>1
  <2> QED  BY <2>2
<1>7. ASSUME NEW m \in 1..Len(seq), m - 1 \in 0..Len(seq), m - 1 \notin Bad PROVE m \notin Bad
  <2>0. Good(m - 1)
    BY <1>7
  <2>1. Good(m - 1) /\ seq[m] \in S /\ m \in Nat
    <3> HIDE DEF Good, Bad
    <3> QED  BY <2>0
  <2> HIDE DEF Bad
  <2>2. (\A j \in B : m < j) => (\A j \in B : m - 1 < j)
    <3>1. ASSUME NEW j \in B, m < j PROVE m - 1 < j
      <4>1. j \in Nat /\ m \in Nat
        BY <2>1
      <4> QED  BY <3>1, <4>1
    <3> QED  BY <3>1
  <2>3. CASE m \in A
    <3>1. m \notin B /\ \A j \in B : m < j
      BY <2>3
    <3>2. g[m - 1] = << >> /\ g[m] = g[m - 1]
      BY <1>5, <2>1, <2>2, <3>1
    <3>3. f[m] = Append(f[m - 1], seq[m]) /\ h[m] = Append(h[m - 1], seq[m])
      BY <1>5, <2>3
    <3>4. h[m - 1] = f[m - 1]
      BY <2>1, <3>2
    <3>5. h[m] = f[m] \o g[m] /\ f[m] \in Seq(S)
      BY <2>1, <3>2, <3>3, <3>4
    <3>6. Good(m)
      BY <2>1, <3>2, <3>5
    <3> QED  BY <3>6 DEF Bad
  <2>4. CASE m \in B
    <3>1. m \notin A /\ ~ (\A j \in B : m < j)
      BY <2>1, <2>4
    <3>2. f[m] = f[m - 1] /\ g[m] = Append(g[m - 1], seq[m]) /\ h[m] = Append(h[m - 1], seq[m])
      BY <1>5, <2>4, <3>1
    <3>3. /\ Append(g[m - 1], seq[m]) \in Seq(S)
          /\ Append(f[m - 1] \o g[m - 1], seq[m]) = f[m - 1] \o Append(g[m - 1], seq[m])
      <4> DEFINE s == f[m - 1]
                 t == g[m - 1]
                 x == seq[m]
      <4>1. s \in Seq(S) /\ t \in Seq(S) /\ x \in S
        BY <2>1
      <4> HIDE DEF s, t, x
      <4>2. Append(s \o t, x) = s \o Append(t, x)
        <5>1. s \o t \in Seq(S) /\ <<x>> \in Seq(S)
          BY <4>1
        <5>2. Append(s \o t, x) = (s \o t) \o <<x>>
          BY <4>1, <5>1, AppendIsConcat
        <5>3. Append(t, x) = t \o <<x>>
          BY <4>1, AppendIsConcat
        <5>4. (s \o t) \o <<x>> = s \o (t \o <<x>>)
          BY <4>1, <5>1, ConcatAssociative
        <5> QED  BY <5>2, <5>3, <5>4, Zenon
      <4>3. Append(t, x) \in Seq(S)
        BY <4>1
      <4> QED  BY <4>2, <4>3 DEF s, t, x
    <3>4. Good(m)
      <4>1. h[m] = f[m] \o g[m] /\ g[m] \in Seq(S) /\ f[m] \in Seq(S)
        BY <2>1, <3>2, <3>3
      <4> QED  BY <3>1, <4>1
    <3> QED  BY <3>4 DEF Bad
  <2>5. CASE m \notin A \cup B
    <3>1. f[m] = f[m - 1] /\ g[m] = g[m - 1] /\ h[m] = h[m - 1]
      BY <1>5, <2>5
    <3>2. Good(m)
      BY <2>1, <2>2, <3>1
    <3> QED  BY <3>2 DEF Bad
  <2> QED  BY <2>3, <2>4, <2>5
<1>8. Bad \subseteq 0..Len(seq)
  OBVIOUS
<1> HIDE DEF Bad
<1>9. Bad = {}
  BY <1>0, <1>6, <1>7, <1>8, FirstFailure
<1>10. Len(seq) \in 0..Len(seq)
  BY <1>0
<1>11. Good(Len(seq))
  BY <1>9, <1>10 DEF Bad
<1> QED  BY <1>1, <1>2, <1>3, <1>11

-----------------------------------------------------------------------------
(***************************************************************************)
(* Texts, and the ends of them.                                            *)
(***************************************************************************)
LEMMA SeqOfElements ==
    ASSUME NEW S, NEW R, NEW s \in Seq(S), \A i \in 1..Len(s) : s[i] \in R
    PROVE  s \in Seq(R)
BY ElementOfSeq, SeqDef, LenProperties

LEMMA TextIs ==
    ASSUME NEW S, NEW kinds \in Seq(S)
    PROVE  /\ Text(kinds) \in Seq(S \X Nat) /\ Len(Text(kinds)) = Len(kinds)
           /\ \A n \in 1..Len(kinds) : Text(kinds)[n] = <<kinds[n], n>>
<1>1. DOMAIN kinds = 1..Len(kinds) /\ Len(kinds) \in Nat
  OBVIOUS
<1>2. \A n \in 1..Len(kinds) : <<kinds[n], n>> \in S \X Nat
  OBVIOUS
<1> QED  BY <1>1, <1>2 DEF Text

\* A text from one paragraph on.
LEMMA FromIs ==
    ASSUME NEW S, NEW text \in Seq(S), NEW n \in 1..(Len(text) + 1)
    PROVE  /\ From(text, n) \in Seq(S) /\ Len(From(text, n)) = Len(text) + 1 - n
           /\ \A i \in 1..(Len(text) + 1 - n) : From(text, n)[i] = text[n + i - 1]
BY SubSeqProperties DEF From

LEMMA FromIsSuffix ==
    ASSUME NEW S, NEW text \in Seq(S), NEW n \in 1..(Len(text) + 1)
    PROVE  IsSuffix(From(text, n), text)
<1>1. Len(text) \in Nat /\ n \in Nat
  OBVIOUS
<1> DEFINE part == From(text, n)
           size == Len(text) + 1 - n
<1>2. size \in 0..Len(text) /\ part \in Seq(S) /\ Len(part) = size
  BY <1>1, FromIs
<1>3. \A i \in 1..size : part[size - i + 1] = text[Len(text) - i + 1]
  <2>1. ASSUME NEW i \in 1..size PROVE part[size - i + 1] = text[Len(text) - i + 1]
    <3>1. size - i + 1 \in 1..size /\ n + (size - i + 1) - 1 = Len(text) - i + 1
      BY <1>1
    <3> QED  BY <3>1, FromIs
  <2> QED  BY <2>1
<1> HIDE DEF part, size
<1>4. /\ Reverse(part) \in Seq(S) /\ Len(Reverse(part)) = size
      /\ \A i \in 1..size : Reverse(part)[i] = part[size - i + 1]
  BY <1>2 DEF Reverse
<1>5. /\ Reverse(text) \in Seq(S) /\ Len(Reverse(text)) = Len(text)
      /\ \A i \in 1..Len(text) : Reverse(text)[i] = text[Len(text) - i + 1]
  BY <1>1 DEF Reverse
<1>6. SubSeq(Reverse(part), 1, size) = SubSeq(Reverse(text), 1, size)
  BY <1>1, <1>2, <1>3, <1>4, <1>5
<1>7. IsPrefix(Reverse(part), Reverse(text))
  BY <1>1, <1>2, <1>4, <1>5, <1>6 DEF IsPrefix
<1> QED  BY <1>7 DEF IsSuffix, part

LEMMA WholeIsEnd == ASSUME NEW S, NEW text \in Seq(S) PROVE EndOf(text, text)
<1>1. IsPrefix(Reverse(text), Reverse(text))
  BY DEF IsPrefix, Reverse
<1> QED  BY <1>1 DEF EndOf, IsSuffix

\* extractActualOutput returns the text from one paragraph on, and that paragraph is no
\* tagged thinking if there was tagged thinking at the start at most.
LEMMA ActualOutputIs ==
    ASSUME NEW text \in Texts
    PROVE  \E n \in 1..(Len(text) + 1) :
              /\ ActualOutput(text) = From(text, n)
              /\ ThinksOnce(text) /\ n \in 1..Len(text) => Kind(text, n) # "think"
<1>0. text \in Seq(ParagraphKinds \X Nat) /\ Len(text) \in Nat
  BY DEF Texts
<1> DEFINE kinds == UNION {Markers[m] : m \in DOMAIN Markers}
<1>1. DOMAIN Markers = 1..4
  BY DEF Markers
<1>2. \A m \in 1..4 : Markers[m] \subseteq kinds /\ "think" \notin Markers[m]
  BY <1>1 DEF Markers
<1>3. "think" \notin kinds
  BY <1>1, <1>2
<1> HIDE DEF kinds
<1>4. ASSUME NEW K, "think" \notin K, Cuts(text, K) # {}
      PROVE  Min(Cuts(text, K)) \in 2..Len(text) /\ Kind(text, Min(Cuts(text, K))) # "think"
  <2>1. Cuts(text, K) \in SUBSET Nat
    BY <1>0 DEF Cuts
  <2>2. Min(Cuts(text, K)) \in Cuts(text, K)
    BY <1>4, <2>1, MinIsLeast
  <2> QED  BY <1>4, <2>2 DEF Cuts
<1>5. ASSUME NEW K, "think" \notin K, Cuts(text, K) # {},
             ActualOutput(text) = From(text, Min(Cuts(text, K)))
      PROVE  \E n \in 1..(Len(text) + 1) :
                /\ ActualOutput(text) = From(text, n)
                /\ ThinksOnce(text) /\ n \in 1..Len(text) => Kind(text, n) # "think"
  <2>1. Min(Cuts(text, K)) \in 1..(Len(text) + 1)
    BY <1>0, <1>4, <1>5
  <2> QED  BY <1>4, <1>5, <2>1
<1>6. CASE text # << >> /\ Kind(text, 1) \in {"think", "tags"}
  <2>1. ActualOutput(text) = Tail(text) /\ 2 \in 1..(Len(text) + 1)
    BY <1>0, <1>6 DEF ActualOutput
  <2>2. Tail(text) = From(text, 2)
    BY <1>0, <1>6 DEF From
  <2>3. ThinksOnce(text) /\ 2 \in 1..Len(text) => Kind(text, 2) # "think"
    BY <1>0 DEF ThinksOnce
  <2> QED  BY <2>1, <2>2, <2>3
<1>7. CASE ~ (text # << >> /\ Kind(text, 1) \in {"think", "tags"}) /\ HasHeader(text)
  <2>1. ActualOutput(text) = From(text, Min(Cuts(text, kinds)))
    BY <1>7 DEF ActualOutput, kinds
  <2>2. Cuts(text, kinds) # {}
    BY <1>7 DEF HasHeader, kinds
  <2> QED  BY <1>3, <1>5, <2>1, <2>2
<1>8. CASE ~ (text # << >> /\ Kind(text, 1) \in {"think", "tags"}) /\ ~ HasHeader(text)
  <2> DEFINE marked == {m \in DOMAIN Markers : Marked(text, m)}
  <2>1. ActualOutput(text) = IF marked = {} THEN text
                             ELSE From(text, Min(Cuts(text, Markers[Min(marked)])))
    BY <1>8 DEF ActualOutput
  <2>2. CASE marked = {}
    <3>1. ActualOutput(text) = From(text, 1) /\ 1 \in 1..(Len(text) + 1)
      BY <1>0, <2>1, <2>2 DEF From
    <3>2. 1 \in 1..Len(text) => Kind(text, 1) # "think"
      BY <1>0, <1>8
    <3> QED  BY <3>1, <3>2
  <2>3. CASE marked # {}
    <3>1. marked \in SUBSET Nat /\ marked \subseteq 1..4
      BY <1>1
    <3>2. Min(marked) \in marked /\ Min(marked) \in 1..4
      BY <2>3, <3>1, MinIsLeast
    <3>3. Cuts(text, Markers[Min(marked)]) # {}
      BY <3>2 DEF Marked
    <3>4. ActualOutput(text) = From(text, Min(Cuts(text, Markers[Min(marked)])))
      BY <2>1, <2>3
    <3> HIDE DEF marked
    <3> QED  BY <1>2, <1>5, <3>2, <3>3, <3>4
  <2> QED  BY <2>2, <2>3
<1> QED  BY <1>6, <1>7, <1>8

\* The end of a text is one of the paragraphs of it.
LEMMA EndOfText ==
    ASSUME NEW S, NEW text \in Seq(S), NEW n \in 1..(Len(text) + 1),
           From(text, n) = << >> => text = << >>
    PROVE  EndOf(From(text, n), text)
BY FromIsSuffix DEF EndOf

LEMMA StoredIsEnd ==
    ASSUME NEW text \in Texts
    PROVE  /\ OutputToStore(text) \in Texts
           /\ EndOf(OutputToStore(text), text)
           /\ ThinksOnce(text) => ThinksOnce(OutputToStore(text))
<1>0. text \in Seq(ParagraphKinds \X Nat)
  BY DEF Texts
<1>1. CASE OutputToStore(text) = text
  BY <1>0, <1>1, WholeIsEnd
<1>2. CASE OutputToStore(text) = ActualOutput(text) /\ ActualOutput(text) # << >>
  <2>1. PICK n \in 1..(Len(text) + 1) : ActualOutput(text) = From(text, n)
    BY ActualOutputIs
  <2>2. From(text, n) \in Texts
    BY <1>0, FromIs DEF Texts
  <2>3. EndOf(From(text, n), text)
    BY <1>0, <1>2, <2>1, EndOfText
  <2>4. ASSUME ThinksOnce(text) PROVE ThinksOnce(From(text, n))
    <3>1. Len(text) \in Nat /\ Len(From(text, n)) = Len(text) + 1 - n
      BY <1>0, FromIs
    <3>2. ASSUME NEW i \in 2..Len(From(text, n)) PROVE Kind(From(text, n), i) # "think"
      <4>1. i \in 1..(Len(text) + 1 - n) /\ n + i - 1 \in 2..Len(text)
        BY <3>1
      <4>2. From(text, n)[i] = text[n + i - 1]
        BY <1>0, <4>1, FromIs
      <4> QED  BY <2>4, <4>1, <4>2 DEF ThinksOnce, Kind
    <3> QED  BY <3>2 DEF ThinksOnce
  <2> QED  BY <1>2, <2>1, <2>2, <2>3, <2>4
<1> QED  BY <1>1, <1>2 DEF OutputToStore

LEMMA ResponseIs ==
    ASSUME NEW text \in Texts
    PROVE  /\ Response(text) \in Texts /\ Response(text) # << >>
           /\ ThinksOnce(text) => ThinksOnce(Response(text))
<1>1. CASE text = << >>
  <2>1. Response(text) = Text(<<"json">>) /\ <<"json">> \in Seq(ParagraphKinds)
    BY <1>1 DEF Response, ParagraphKinds
  <2>2. Response(text) \in Texts /\ Len(Response(text)) = 1
    BY <2>1, TextIs DEF Texts
  <2>3. Response(text) # << >> /\ ThinksOnce(Response(text))
    BY <2>2 DEF ThinksOnce, Texts
  <2> QED  BY <2>2, <2>3
<1>2. CASE text # << >>
  BY <1>2 DEF Response
<1> QED  BY <1>1, <1>2

\* What is handed on, if it can be used, is the end of the response, without thinking.
LEMMA HandedIsEnd ==
    ASSUME NEW text \in Texts, ThinksOnce(text), Usable(Handed(text))
    PROVE  EndOf(Handed(text), Response(text)) /\ Kind(Handed(text), 1) # "think"
<1> DEFINE whole == Response(text)
<1>0. whole \in Texts /\ whole \in Seq(ParagraphKinds \X Nat) /\ whole # << >> /\ ThinksOnce(whole)
  BY ResponseIs DEF Texts
<1>1. CASE Kind(whole, 1) = "tags"
  <2>1. Handed(text) = whole
    BY <1>1 DEF Handed
  <2>2. EndOf(whole, whole)
    BY <1>0, WholeIsEnd
  <2> QED  BY <1>1, <2>1, <2>2
<1>2. CASE Kind(whole, 1) # "tags"
  <2>1. PICK n \in 1..(Len(whole) + 1) :
            /\ ActualOutput(whole) = From(whole, n)
            /\ ThinksOnce(whole) /\ n \in 1..Len(whole) => Kind(whole, n) # "think"
    BY <1>0, ActualOutputIs
  <2>2. Handed(text) = From(whole, n)
    BY <1>2, <2>1 DEF Handed
  <2> HIDE DEF whole
  <2>3. From(whole, n) \in Seq(ParagraphKinds \X Nat) /\ Len(From(whole, n)) = Len(whole) + 1 - n
    BY <1>0, FromIs
  <2>4. From(whole, n) # << >>
    BY <2>2, <2>3 DEF Usable
  <2>5. EndOf(From(whole, n), whole)
    BY <1>0, <2>4, EndOfText
  <2>6. n \in 1..Len(whole) /\ 1 \in 1..(Len(whole) + 1 - n)
    BY <1>0, <2>3, <2>4
  <2>7. From(whole, n)[1] = whole[n]
    BY <1>0, <2>6, FromIs
  <2>8. Kind(From(whole, n), 1) # "think"
    BY <1>0, <2>1, <2>6, <2>7 DEF Kind
  <2> QED  BY <2>2, <2>5, <2>8 DEF whole
<1> QED  BY <1>1, <1>2

-----------------------------------------------------------------------------
(***************************************************************************)
(* The replies of the providers.                                           *)
(***************************************************************************)
LEMMA ContentIs ==
    ASSUME NEW a, NEW reply \in Replies
    PROVE  /\ ContentOf(a, reply) \in Texts
           /\ ThinkingComesFirst => ThinksOnce(ContentOf(a, reply))
<1>1. CASE reply.text # << >>
  <2>1. ContentOf(a, reply) = Text(reply.text) /\ reply.text \in Seq(ParagraphKinds)
    BY <1>1, RepliesAssumption DEF ContentOf, IsReply
  <2>2. ContentOf(a, reply) \in Texts
    BY <2>1, TextIs DEF Texts
  <2>3. ASSUME ThinkingComesFirst PROVE ThinksOnce(Text(reply.text))
    <3>1. \A n \in 2..Len(reply.text) : reply.text[n] # "think"
      BY <2>3 DEF ThinkingComesFirst
    <3>2. Len(Text(reply.text)) = Len(reply.text)
      BY <2>1, TextIs
    <3>3. \A n \in 1..Len(reply.text) : Text(reply.text)[n] = <<reply.text[n], n>>
      BY <2>1, TextIs
    <3> QED  BY <3>1, <3>2, <3>3 DEF ThinksOnce, Kind
  <2> QED  BY <2>1, <2>2, <2>3
<1>2. CASE reply.text = << >> /\ reply.thinking /\ a.response = "ollama"
  <2>1. ContentOf(a, reply) = Text(<<"thinking">>) /\ <<"thinking">> \in Seq(ParagraphKinds)
    BY <1>2 DEF ContentOf, ParagraphKinds
  <2>2. ContentOf(a, reply) \in Texts /\ Len(ContentOf(a, reply)) = 1
    BY <2>1, TextIs DEF Texts
  <2> QED  BY <2>2 DEF ThinksOnce
<1>3. CASE reply.text = << >> /\ ~ (reply.thinking /\ a.response = "ollama")
  BY <1>3 DEF ContentOf, Texts, ThinksOnce
<1> QED  BY <1>1, <1>2, <1>3

\* Tool calls are calls of tools, parsed from the reply or the text.
LEMMA CallsTyped ==
    ASSUME NEW a, NEW reply \in Replies, NEW tools
    PROVE  CallsOf(a, reply, tools) \in Seq(Tool)
<1>1. reply.calls \in Seq(Tool) /\ reply.mentions \in Seq(Tool)
  BY RepliesAssumption DEF IsReply
<1>2. \A positions : Kept(reply.mentions, positions) \in Seq(Tool)
  BY <1>1, KeptElements
<1>3. NativeCalls(a, reply) \in Seq(Tool)
  BY <1>1 DEF NativeCalls
<1> QED  BY <1>2, <1>3 DEF CallsOf

-----------------------------------------------------------------------------
(***************************************************************************)
(* Streams.                                                                *)
(***************************************************************************)
LineKinds == ParagraphKinds \cup {"done", "junk"}

LEMMA LinesAre ==
    ASSUME NEW reply, IsBody(reply)
    PROVE  /\ Text(reply.lines) \in Seq(LineKinds \X Nat)
           /\ Len(Text(reply.lines)) = Len(reply.lines) /\ Len(reply.lines) \in Nat
           /\ DOMAIN reply.lines = 1..Len(reply.lines)
           /\ \A n \in 1..Len(reply.lines) : Text(reply.lines)[n] = <<reply.lines[n], n>>
<1> DEFINE lines == reply.lines
<1>1. lines \in Seq(LineKinds)
  BY DEF IsBody, LineKinds
<1> HIDE DEF lines
<1>2. /\ Text(lines) \in Seq(LineKinds \X Nat) /\ Len(Text(lines)) = Len(lines)
      /\ \A n \in 1..Len(lines) : Text(lines)[n] = <<lines[n], n>>
  BY <1>1, TextIs
<1>3. Len(lines) \in Nat /\ DOMAIN lines = 1..Len(lines)
  BY <1>1
<1> QED  BY <1>2, <1>3 DEF lines

NoSecondThinking(reply) ==
    \A n \in DOMAIN reply.lines, m \in DOMAIN reply.lines :
        m < n /\ reply.lines[n] = "think" => reply.lines[m] \notin ParagraphKinds

\* What is kept of lines that are passed on is a text, with the thinking it had.
LEMMA PassedOnIs ==
    ASSUME NEW reply, IsBody(reply), NEW format, NEW positions,
           positions \subseteq DOMAIN reply.lines,
           \A n \in positions : Yields(format, reply.lines[n])
    PROVE  /\ Kept(Text(reply.lines), positions) \in Texts
           /\ NoSecondThinking(reply) => ThinksOnce(Kept(Text(reply.lines), positions))
<1> DEFINE lines == Text(reply.lines)
           kept == Kept(lines, positions)
<1>1. /\ lines \in Seq(LineKinds \X Nat) /\ Len(lines) = Len(reply.lines)
      /\ DOMAIN reply.lines = 1..Len(reply.lines)
      /\ \A n \in 1..Len(reply.lines) : lines[n] = <<reply.lines[n], n>>
  BY LinesAre
<1>2. kept \in Seq(LineKinds \X Nat) /\ FromPositions(lines, positions, kept, Len(lines))
  BY <1>1, KeptElements
<1> HIDE DEF lines, kept
<1>3. \A p \in positions \cap (1..Len(lines)) :
          p \in Nat /\ lines[p] = <<reply.lines[p], p>> /\ reply.lines[p] \in ParagraphKinds
  BY <1>1 DEF Yields
<1>4. \A i \in 1..Len(kept) : kept[i] \in ParagraphKinds \X Nat
  BY <1>2, <1>3 DEF FromPositions
<1>5. kept \in Texts
  BY <1>2, <1>4, SeqOfElements DEF Texts
<1>6. ASSUME NoSecondThinking(reply), NEW i \in 2..Len(kept) PROVE Kind(kept, i) # "think"
  <2>1. PICK p \in positions \cap (1..Len(lines)), q \in positions \cap (1..Len(lines)) :
            q < p /\ kept[i] = lines[p]
    BY <1>2 DEF FromPositions
  <2>2. reply.lines[q] \in ParagraphKinds /\ kept[i] = <<reply.lines[p], p>>
    BY <1>3, <2>1
  <2>3. reply.lines[p] # "think"
    BY <1>1, <1>6, <2>1, <2>2 DEF NoSecondThinking
  <2> QED  BY <2>2, <2>3 DEF Kind
<1> QED  BY <1>5, <1>6 DEF ThinksOnce, kept, lines

LEMMA ReadIs ==
    ASSUME NEW reply, IsBody(reply), NEW format, NEW from, NEW end
    PROVE  /\ TextRead(reply, format, from, end) \in Texts
           /\ NoSecondThinking(reply) => ThinksOnce(TextRead(reply, format, from, end))
BY PassedOnIs DEF TextRead

\* What a read passes on comes after what had been passed on: no line is lost or passed
\* on twice, wherever the network cuts the body.
LEMMA ReadOn ==
    ASSUME NEW reply, IsBody(reply), NEW format, NEW from \in Nat, NEW end \in Nat, from <= end
    PROVE  TextRead(reply, format, 0, from) \o TextRead(reply, format, Carried(from), end)
               = TextRead(reply, format, 0, end)
<1> DEFINE lines == Text(reply.lines)
           A == {n \in DOMAIN reply.lines : 0 <= 3 * (n - 1) /\ 3 * n <= from /\ Yields(format, reply.lines[n])}
           B == {n \in DOMAIN reply.lines :
                    Carried(from) <= 3 * (n - 1) /\ 3 * n <= end /\ Yields(format, reply.lines[n])}
           C == {n \in DOMAIN reply.lines : 0 <= 3 * (n - 1) /\ 3 * n <= end /\ Yields(format, reply.lines[n])}
<1>1. lines \in Seq(LineKinds \X Nat) /\ DOMAIN reply.lines = 1..Len(reply.lines)
  BY LinesAre
<1>2. Len(reply.lines) \in Nat
  BY LinesAre
<1>3. A \in SUBSET Nat /\ B \in SUBSET Nat
  BY <1>1, <1>2
<1>4. \A n \in 1..Len(reply.lines) : (Carried(from) <= 3 * (n - 1)) <=> ~ (3 * n <= from)
  BY <1>2 DEF Carried
<1>5. \A i \in A, j \in B : i < j
  <2>1. ASSUME NEW i \in A, NEW j \in B PROVE i < j
    <3>1. i \in Nat /\ j \in Nat /\ 3 * i <= from /\ ~ (3 * j <= from)
      BY <1>1, <1>2, <1>4
    <3> QED  BY <3>1
  <2> QED  BY <2>1
<1>6. A \cup B = C
  <2>1. ASSUME NEW n \in 1..Len(reply.lines) PROVE n \in A \cup B <=> n \in C
    <3>1. n \in Nat /\ 0 <= 3 * (n - 1)
      BY <1>2
    <3>2. 3 * n <= from => 3 * n <= end
      BY <3>1
    <3> QED  BY <1>1, <1>4, <3>1, <3>2
  <2>2. A \subseteq 1..Len(reply.lines) /\ B \subseteq 1..Len(reply.lines) /\ C \subseteq 1..Len(reply.lines)
    BY <1>1
  <2> HIDE DEF A, B, C
  <2> QED  BY <2>1, <2>2
<1>7. Kept(lines, A \cup B) = Kept(lines, A) \o Kept(lines, B)
  <2> HIDE DEF A, B, C, lines
  <2> QED  BY <1>1, <1>3, <1>5, KeptJoined
<1>8. Kept(lines, C) = Kept(lines, A) \o Kept(lines, B)
  <2> HIDE DEF A, B, C, lines
  <2> QED  BY <1>6, <1>7
<1> QED  BY <1>8 DEF TextRead

\* When nothing has been read, nothing has been passed on.
LEMMA NothingRead ==
    ASSUME NEW reply, IsBody(reply), NEW format PROVE TextRead(reply, format, 0, 0) = << >>
<1> DEFINE A == {n \in DOMAIN reply.lines : 0 <= 3 * (n - 1) /\ 3 * n <= 0 /\ Yields(format, reply.lines[n])}
<1>1. A = {}
  BY LinesAre
<1>2. Kept(Text(reply.lines), A) = << >>
  BY <1>1, LinesAre, KeptNothing
<1> QED  BY <1>2 DEF TextRead

\* When all has been read, what was written has been passed on.
LEMMA AllRead ==
    ASSUME NEW reply, IsBody(reply), NEW format
    PROVE  TextRead(reply, format, 0, Size(reply)) = TextWritten(reply, format)
<1> DEFINE A == {n \in DOMAIN reply.lines :
                    0 <= 3 * (n - 1) /\ 3 * n <= Size(reply) /\ Yields(format, reply.lines[n])}
           B == {n \in DOMAIN reply.lines :
                    Yields(format, reply.lines[n]) /\ (reply.ended \/ n < Len(reply.lines))}
<1>1. A = B
  <2>1. DOMAIN reply.lines = 1..Len(reply.lines) /\ Len(reply.lines) \in Nat
    BY LinesAre
  <2>2. \A n \in 1..Len(reply.lines) :
            /\ 0 <= 3 * (n - 1)
            /\ (3 * n <= Size(reply)) <=> (reply.ended \/ n < Len(reply.lines))
    <3>1. CASE reply.ended
      BY <2>1, <3>1 DEF Size
    <3>2. CASE ~ reply.ended
      BY <2>1, <3>2 DEF Size
    <3> QED  BY <3>1, <3>2
  <2> QED  BY <2>1, <2>2
<1> QED  BY <1>1 DEF TextRead, TextWritten

LEMMA SizeIs == ASSUME NEW reply, IsBody(reply) PROVE Size(reply) \in Nat
<1>1. Len(reply.lines) \in Nat
  BY LinesAre
<1>2. CASE reply.ended
  BY <1>1, <1>2 DEF Size
<1>3. CASE ~ reply.ended
  <2>1. Len(reply.lines) # 0
    BY <1>3 DEF IsBody
  <2> QED  BY <1>1, <1>3, <2>1 DEF Size
<1> QED  BY <1>2, <1>3

LEMMA NoBodyIs == IsBody(NoBody) /\ Size(NoBody) = 0 /\ NoSecondThinking(NoBody)
BY DEF NoBody, IsBody, Size, NoSecondThinking

-----------------------------------------------------------------------------
(***************************************************************************)
(* What a step changes: variables of its own task, and few of those.       *)
(***************************************************************************)
Step(t) == Begin(t) \/ ExecutionStep(t) \/ Approve(t) \/ Reject(t) \/ EditRole(t)

\* Steps of an execution that neither begin nor end it.
Goes(t) ==
    \/ ReadContext(t) \/ StreamAnswers(t) \/ ReadStream(t) \/ StreamEnds(t)
    \/ StreamBreaks(t) \/ Complete(t) \/ NextTool(t) \/ CheckBudget(t) \/ CheckLoopLimit(t)
    \/ CheckWhitelist(t) \/ ExecuteTool(t)

ReadsRole(t) == ReadRole(t) /\ role[t] # NoRole
Retries(t) == CompleteFails(t) /\ UNCHANGED <<dbVars, pc, toolVars, content, tokens>>
Failing(t) == \E error \in Errors : Throws(t, error)

LEMMA StepKinds ==
    ASSUME NEW t \in Task, Step(t)
    PROVE  \/ Begin(t) \/ ReadsRole(t) \/ Goes(t) \/ Retries(t)
           \/ (pc[t] \notin Idle \cup {"waiting"} /\ Failing(t))
           \/ CreateApproval(t) \/ WaitForApproval(t) \/ Finish(t) \/ Requeue(t)
           \/ Approve(t) \/ Reject(t) \/ EditRole(t)
<1>1. CASE ReadRole(t)
  BY <1>1 DEF ReadRole, ReadsRole, Failing, Errors, Idle
<1>2. CASE CompleteFails(t)
  BY <1>2 DEF CompleteFails, Retries, Failing, Errors, Idle
<1>3. CASE CheckBudgetFails(t)
  BY <1>3 DEF CheckBudgetFails, Failing, Errors, Idle
<1> QED  BY <1>1, <1>2, <1>3 DEF Step, ExecutionStep, Goes

\* The steps in between leave the database, the grant and the state of the task alone.
LEMMA GoesMoves ==
    ASSUME ControlTypeOK, NEW t \in Task, Goes(t)
    PROVE  /\ UNCHANGED <<dbVars, granted, whitelist>>
           /\ pc[t] \notin Idle \cup {"waiting"}
           /\ \E s \in Steps \ (Idle \cup {"waiting"}) : pc' = [pc EXCEPT ![t] = s]
<1>1. UNCHANGED <<dbVars, granted, whitelist>>
  BY DEF Goes, ReadContext, StreamAnswers, ReadStream, StreamEnds, StreamBreaks, Complete,
         NextTool, CheckBudget, CheckLoopLimit, CheckWhitelist, ExecuteTool, toolVars
<1>2. pc[t] \notin Idle \cup {"waiting"}
  BY DEF Goes, ReadContext, StreamAnswers, ReadStream, StreamEnds, StreamBreaks, Complete,
         NextTool, CheckBudget, CheckLoopLimit, CheckWhitelist, ExecuteTool, Idle
<1>3. CASE ReadStream(t)
  <2>1. pc' = pc /\ pc[t] = "read"
    BY <1>3 DEF ReadStream
  <2>2. pc' = [pc EXCEPT ![t] = "read"]
    BY <2>1 DEF ControlTypeOK
  <2>3. "read" \in Steps \ (Idle \cup {"waiting"})
    BY DEF Idle, Steps
  <2> QED  BY <1>1, <1>2, <2>2, <2>3
<1>4. CASE ReadContext(t) \/ StreamAnswers(t) \/ StreamEnds(t) \/ StreamBreaks(t)
  <2>1. \E s \in {"complete_tools", "complete", "stream", "finish", "read"} : Goto(t, s)
    <3>1. CASE ReadContext(t)
      BY <3>1 DEF ReadContext, FirstStep
    <3>2. CASE StreamAnswers(t)
      BY <3>2, Zenon DEF StreamAnswers
    <3> QED  BY <1>4, <3>1, <3>2 DEF StreamEnds, StreamBreaks
  <2> QED  BY <1>1, <1>2, <2>1 DEF Goto, Idle, Steps
<1>5. CASE Complete(t)
  BY <1>5 DEF Complete, Goto, Idle, Steps
<1>6. CASE NextTool(t) \/ CheckBudget(t) \/ CheckLoopLimit(t) \/ CheckWhitelist(t)
           \/ ExecuteTool(t)
  BY <1>6 DEF NextTool, CheckBudget, CheckLoopLimit, CheckWhitelist, ExecuteTool, Denied,
              Goto, Idle, Steps
<1> QED  BY <1>1, <1>2, <1>3, <1>4, <1>5, <1>6 DEF Goes

\* Only a tool that runs can be late, when the budget has been used up.
LEMMA LateMoves ==
    ASSUME ControlTypeOK, NEW t \in Task, Goes(t)
    PROVE  \/ late' = late
           \/ late' = [late EXCEPT ![t] = @ + 1] /\ Spent >= Limit /\ pc[t] = "run_tool"
              /\ pc' = [pc EXCEPT ![t] = "tools"]
<1>1. CASE ExecuteTool(t)
  <2>1. late' = [late EXCEPT ![t] = IF Spent >= Limit THEN @ + 1 ELSE @] /\ pc[t] = "run_tool"
        /\ pc' = [pc EXCEPT ![t] = "tools"]
    BY <1>1 DEF ExecuteTool, Goto
  <2>2. CASE Spent >= Limit
    BY <2>1, <2>2
  <2>3. CASE ~ (Spent >= Limit)
    BY <2>1, <2>3 DEF ControlTypeOK
  <2> QED  BY <2>2, <2>3
<1>2. CASE ~ ExecuteTool(t)
  BY <1>2 DEF Goes, ReadContext, StreamAnswers, ReadStream, StreamEnds, StreamBreaks, Complete,
         NextTool, CheckBudget, CheckLoopLimit, CheckWhitelist, toolVars
<1> QED  BY <1>1, <1>2

LEMMA ReadsRoleMoves ==
    ASSUME NEW t \in Task, ReadsRole(t)
    PROVE  /\ UNCHANGED <<dbVars, granted, late, tokens>>
           /\ whitelist' = [whitelist EXCEPT ![t] = role[t]] /\ role[t] # NoRole
           /\ pc[t] = "role"
           /\ \E s \in Steps \ (Idle \cup Judged \cup {"waiting"}) : pc' = [pc EXCEPT ![t] = s]
BY DEF ReadsRole, ReadRole, Goto, FirstStep, Idle, Judged, Steps, replyVars

LEMMA FailingMoves ==
    ASSUME NEW t \in Task, Failing(t)
    PROVE  /\ taskState' = [taskState EXCEPT ![t] = "FAILED"]
           /\ \E s \in Idle : pc' = [pc EXCEPT ![t] = s]
           /\ granted' = [granted EXCEPT ![t] = {}]
           /\ whitelist' = [whitelist EXCEPT ![t] = {}]
           /\ tokens' = [tokens EXCEPT ![t] = 0]
           /\ UNCHANGED <<usage, role, approval, late>>
BY DEF Failing, Throws, Return, Goto, Idle

\* Whatever is asked about, a step of one task leaves it alone for another.
LEMMA Elsewhere ==
    ASSUME ControlTypeOK, NEW t \in Task, Step(t), NEW p \in Task, p # t
    PROVE  /\ taskState'[p] = taskState[p] /\ pc'[p] = pc[p]
           /\ approval'[p] = approval[p] /\ role'[p] = role[p]
           /\ granted'[p] = granted[p] /\ late'[p] = late[p] /\ usage'[p] = usage[p]
<1>1. CASE Begin(t)
  BY <1>1 DEF Begin, Goto, ControlTypeOK
<1>2. CASE ReadsRole(t)
  BY <1>2, ReadsRoleMoves DEF dbVars, ControlTypeOK
<1>3. CASE Goes(t)
  <2>1. late'[p] = late[p]
    BY <1>3, LateMoves DEF ControlTypeOK
  <2> QED  BY <1>3, <2>1, GoesMoves DEF dbVars, ControlTypeOK
<1>4. CASE Retries(t)
  BY <1>4 DEF Retries, dbVars, toolVars
<1>5. CASE Failing(t)
  BY <1>5, FailingMoves DEF ControlTypeOK
<1>6. CASE CreateApproval(t) \/ WaitForApproval(t) \/ Finish(t) \/ Requeue(t)
  BY <1>6 DEF CreateApproval, WaitForApproval, Finish, Requeue, Return, Goto, toolVars,
              ControlTypeOK
<1>7. CASE Approve(t) \/ Reject(t) \/ EditRole(t)
  BY <1>7 DEF Approve, Reject, EditRole, toolVars, ControlTypeOK
<1> QED  BY <1>1, <1>2, <1>3, <1>4, <1>5, <1>6, <1>7, StepKinds

-----------------------------------------------------------------------------
(***************************************************************************)
(* The types of the variables that the control is about.                   *)
(***************************************************************************)

\* The tokens of a reply are a count.
LEMMA TokensTyped ==
    ASSUME NEW t \in Task, NEW reply \in Replies PROVE TokensOf(adapter[t], reply) \in Nat
BY RepliesAssumption DEF TokensOf, IsReply

LEMMA AllowedTyped == ASSUME NEW tools \in (SUBSET Tool) \cup {NoRole} PROVE Allowed(tools) \subseteq Tool
BY DEF Allowed

LEMMA GoesTyped == ASSUME ControlTypeOK, NEW t \in Task, Goes(t) PROVE ControlTypeOK'
<1>1. UNCHANGED <<dbVars, granted, whitelist>> /\ pc' \in [Task -> Steps]
  BY GoesMoves DEF ControlTypeOK
<1>2. tokens' \in [Task -> Nat]
  <2>1. CASE Complete(t)
    <3>1. PICK reply \in Replies : tokens' = [tokens EXCEPT ![t] = TokensOf(adapter[t], reply)]
      BY <2>1 DEF Complete
    <3> QED  BY <3>1, TokensTyped DEF ControlTypeOK
  <2>2. CASE StreamAnswers(t)
    BY <2>2 DEF StreamAnswers, ControlTypeOK
  <2>3. CASE ~ (Complete(t) \/ StreamAnswers(t))
    <3>1. tokens' = tokens
      BY <2>3 DEF Goes, ReadContext, ReadStream, StreamEnds, StreamBreaks, NextTool,
                  CheckBudget, CheckLoopLimit, CheckWhitelist, ExecuteTool, replyVars
    <3> QED  BY <3>1 DEF ControlTypeOK
  <2> QED  BY <2>1, <2>2, <2>3
<1>3. late' \in [Task -> Nat]
  <2>1. late' = late \/ late' = [late EXCEPT ![t] = @ + 1]
    BY LateMoves
  <2> QED  BY <2>1 DEF ControlTypeOK
<1> QED  BY <1>1, <1>2, <1>3 DEF ControlTypeOK, dbVars

LEMMA StepTyped == ASSUME ControlTypeOK, NEW t \in Task, Step(t) PROVE ControlTypeOK'
<1>1. CASE Begin(t)
  <2>1. Allowed(role[t]) \subseteq Tool
    BY AllowedTyped DEF ControlTypeOK
  <2> QED  BY <1>1, <2>1 DEF Begin, Goto, Steps, ControlTypeOK
<1>2. CASE ReadsRole(t)
  BY <1>2, ReadsRoleMoves DEF dbVars, ControlTypeOK
<1>3. CASE Retries(t)
  BY <1>3 DEF Retries, dbVars, toolVars, ControlTypeOK
<1>4. CASE Failing(t)
  BY <1>4, FailingMoves DEF ControlTypeOK, Idle, Steps
<1>5. CASE CreateApproval(t) \/ Requeue(t)
  BY <1>5 DEF CreateApproval, Requeue, Goto, Steps, replyVars, toolVars, ControlTypeOK
<1>6. CASE WaitForApproval(t) \/ Finish(t)
  <2>1. /\ pc' = [pc EXCEPT ![t] = "none"]
        /\ granted' = [granted EXCEPT ![t] = {}]
        /\ whitelist' = [whitelist EXCEPT ![t] = {}]
        /\ tokens' = [tokens EXCEPT ![t] = 0]
        /\ UNCHANGED <<role, approval, late>>
    BY <1>6 DEF WaitForApproval, Finish, Return, Goto
  <2>2. \/ UNCHANGED <<taskState, usage>>
        \/ /\ taskState' = [taskState EXCEPT ![t] = "SUCCEEDED"]
           /\ usage' = [usage EXCEPT ![t] = tokens[t]]
    BY <1>6 DEF WaitForApproval, Finish
  <2> QED  BY <2>1, <2>2 DEF Steps, ControlTypeOK
<1>7. CASE Approve(t) \/ Reject(t)
  BY <1>7 DEF Approve, Reject, replyVars, toolVars, ControlTypeOK
<1>8. CASE EditRole(t)
  <2>1. PICK new \in (Whitelists[t] \cup {NoRole}) :
            /\ role' = [role EXCEPT ![t] = new]
            /\ granted' = [granted EXCEPT ![t] =
                  IF pc[t] \in {"none", "cooldown"} THEN @ ELSE @ \cup Allowed(new)]
    BY <1>8 DEF EditRole
  <2>2. new \in (SUBSET Tool) \cup {NoRole}
    BY ActionsAssumption
  <2>3. Allowed(new) \subseteq Tool
    BY <2>2, AllowedTyped
  <2> QED  BY <1>8, <2>1, <2>2, <2>3 DEF EditRole, replyVars, ControlTypeOK
<1> QED  BY <1>1, <1>2, <1>3, <1>4, <1>5, <1>6, <1>7, <1>8, GoesTyped, StepKinds

-----------------------------------------------------------------------------
(***************************************************************************)
(* The control: tasks, approvals, calls and the roles that allow them.     *)
(***************************************************************************)

\* A step leaves the state of its task consistent with the place in its execution.
LEMMA StepRuns ==
    ASSUME ControlTypeOK, NEW t \in Task, Step(t), RunsItsTask(t), Asks(t)
    PROVE  RunsItsTask(t)' /\ Asks(t)'
<1> USE DEF RunsItsTask, Asks, ControlTypeOK
<1>1. CASE Begin(t)
  BY <1>1 DEF Begin, Goto, Idle
<1>2. CASE ReadsRole(t)
  BY <1>2, ReadsRoleMoves DEF Idle, dbVars
<1>3. CASE Goes(t)
  BY <1>3, GoesMoves DEF Idle, dbVars
<1>4. CASE Retries(t)
  BY <1>4 DEF Retries, dbVars
<1>5. CASE pc[t] \notin Idle \cup {"waiting"} /\ Failing(t)
  BY <1>5, FailingMoves DEF Idle
<1>6. CASE CreateApproval(t) \/ Requeue(t)
  BY <1>6 DEF CreateApproval, Requeue, Goto, Idle
<1>7. CASE WaitForApproval(t)
  BY <1>7 DEF WaitForApproval, Goto, Idle
<1>8. CASE Finish(t)
  BY <1>8 DEF Finish, Goto, Idle
<1>9. CASE Approve(t) \/ Reject(t) \/ EditRole(t)
  BY <1>9 DEF Approve, Reject, EditRole, Idle
<1> QED  BY <1>1, <1>2, <1>3, <1>4, <1>5, <1>6, <1>7, <1>8, <1>9, StepKinds

\* A result is final: neither the state of a succeeded task nor its usage changes.
LEMMA SucceededStays ==
    ASSUME ControlTypeOK, NEW t \in Task, Step(t), RunsItsTask(t), Asks(t),
           NEW p \in Task, taskState[p] = "SUCCEEDED"
    PROVE  taskState'[p] = "SUCCEEDED" /\ usage'[p] = usage[p]
<1>1. CASE p # t
  BY <1>1, Elsewhere
<1>2. CASE p = t
  <2> USE <1>2 DEF RunsItsTask, Asks
  <2>1. CASE ReadsRole(t)
    BY <2>1, ReadsRoleMoves DEF dbVars
  <2>2. CASE Goes(t)
    BY <2>2, GoesMoves DEF dbVars
  <2>3. CASE Retries(t) \/ EditRole(t)
    BY <2>3 DEF Retries, EditRole, dbVars
  <2>4. ~ (pc[t] \notin Idle \cup {"waiting"} /\ Failing(t))
    OBVIOUS
  <2>5. CASE CreateApproval(t)
    BY <2>5 DEF CreateApproval
  <2>6. ~ (Begin(t) \/ WaitForApproval(t) \/ Finish(t) \/ Requeue(t) \/ Approve(t) \/ Reject(t))
    BY DEF Begin, WaitForApproval, Finish, Requeue, Approve, Reject, Idle
  <2> QED  BY <2>1, <2>2, <2>3, <2>4, <2>5, <2>6, StepKinds
<1> QED  BY <1>1, <1>2

\* The calls that are left are always calls of tools.
LEMMA StepCalls ==
    ASSUME ControlTypeOK, calls \in [Task -> Seq(Tool)], NEW t \in Task, Step(t), CallsLeft(t)
    PROVE  \E left \in Seq(Tool) : calls' = [calls EXCEPT ![t] = left]
<1> DEFINE Left == \E left \in Seq(Tool) : calls' = [calls EXCEPT ![t] = left]
<1>1. CASE calls' = calls
  <2>1. calls[t] \in Seq(Tool) /\ calls = [calls EXCEPT ![t] = calls[t]]
    OBVIOUS
  <2> QED  BY <1>1, <2>1
<1>2. CASE calls' = [calls EXCEPT ![t] = << >>]
  <2>1. << >> \in Seq(Tool)
    OBVIOUS
  <2> QED  BY <1>2, <2>1
<1>3. CASE calls' = [calls EXCEPT ![t] = Tail(@)] /\ calls[t] # << >>
  <2>1. Tail(calls[t]) \in Seq(Tool)
    BY <1>3
  <2> QED  BY <1>3, <2>1
<1>4. CASE Complete(t)
  <2>1. PICK reply \in Replies :
            calls' = [calls EXCEPT ![t] =
                IF pc[t] = "complete" THEN << >> ELSE CallsOf(adapter[t], reply, whitelist[t])]
    BY <1>4 DEF Complete
  <2>2. CallsOf(adapter[t], reply, whitelist[t]) \in Seq(Tool)
    BY CallsTyped
  <2>3. CASE pc[t] = "complete"
    BY <1>2, <2>1, <2>3
  <2>4. CASE pc[t] # "complete"
    BY <2>1, <2>2, <2>4
  <2> QED  BY <2>3, <2>4
<1>5. CASE Goes(t) /\ ~ Complete(t)
  <2>1. CASE NextTool(t)
    BY <1>1, <1>3, <2>1 DEF NextTool, Denied
  <2>2. CASE CheckBudget(t) \/ CheckLoopLimit(t) \/ CheckWhitelist(t) \/ ExecuteTool(t)
    <3>1. pc[t] \in Judged \cup {"budget"}
      BY <2>2 DEF CheckBudget, CheckLoopLimit, CheckWhitelist, ExecuteTool, Judged
    <3>2. calls[t] # << >>
      BY <3>1 DEF CallsLeft
    <3> QED  BY <1>1, <1>3, <2>2, <3>2
             DEF CheckBudget, CheckLoopLimit, CheckWhitelist, ExecuteTool, Denied
  <2> QED  BY <1>1, <1>5, <2>1, <2>2
           DEF Goes, ReadContext, StreamAnswers, ReadStream, StreamEnds, StreamBreaks, toolVars
<1>6. CASE Begin(t) \/ ReadsRole(t) \/ Retries(t) \/ CreateApproval(t) \/ Requeue(t)
           \/ Approve(t) \/ Reject(t) \/ EditRole(t)
  <2>1. calls' = calls
    BY <1>6 DEF Begin, ReadsRole, ReadRole, Retries, CreateApproval, Requeue, Approve, Reject,
                EditRole, toolVars
  <2> QED  BY <1>1, <2>1
<1>7. CASE Failing(t) \/ WaitForApproval(t) \/ Finish(t)
  <2>1. calls' = [calls EXCEPT ![t] = << >>]
    BY <1>7 DEF Failing, Throws, WaitForApproval, Finish, Return
  <2> QED  BY <1>2, <2>1
<1> QED  BY <1>4, <1>5, <1>6, <1>7, StepKinds

\* When the step reaches a call that is to be evaluated, that call is there.
LEMMA StepLeaves ==
    ASSUME ControlTypeOK, NEW t \in Task, Step(t), CallsLeft(t) PROVE CallsLeft(t)'
<1> USE DEF CallsLeft, ControlTypeOK
<1>1. CASE Begin(t)
  BY <1>1 DEF Begin, Goto, Judged
<1>2. CASE ReadsRole(t)
  <2>1. \E s \in {"context", "complete", "stream", "complete_tools"} : Goto(t, s)
    BY <1>2 DEF ReadsRole, ReadRole, FirstStep
  <2> QED  BY <2>1 DEF Goto, Judged
<1>3. CASE Goes(t)
  <2>1. CASE NextTool(t)
    BY <2>1 DEF NextTool, Denied, Goto, Judged
  <2>2. CASE CheckBudget(t) \/ CheckLoopLimit(t) \/ CheckWhitelist(t) \/ ExecuteTool(t)
    BY <2>2 DEF CheckBudget, CheckLoopLimit, CheckWhitelist, ExecuteTool, Denied, Goto, Judged
  <2>3. CASE ReadContext(t) \/ StreamEnds(t) \/ StreamBreaks(t) \/ Complete(t)
    BY <2>3 DEF ReadContext, FirstStep, StreamEnds, StreamBreaks, Complete, Goto, Judged
  <2>4. CASE StreamAnswers(t)
    <3>1. Goto(t, "finish") \/ Goto(t, "read")
      BY <2>4 DEF StreamAnswers
    <3> QED  BY <3>1 DEF Goto, Judged
  <2>5. CASE ReadStream(t)
    BY <2>5 DEF ReadStream, Judged
  <2> QED  BY <1>3, <2>1, <2>2, <2>3, <2>4, <2>5 DEF Goes
<1>4. CASE Retries(t) \/ Approve(t) \/ Reject(t) \/ EditRole(t)
  BY <1>4 DEF Retries, Approve, Reject, EditRole, toolVars
<1>5. CASE Failing(t)
  BY <1>5, FailingMoves DEF Judged, Idle
<1>6. CASE CreateApproval(t) \/ WaitForApproval(t) \/ Finish(t) \/ Requeue(t)
  BY <1>6 DEF CreateApproval, WaitForApproval, Finish, Requeue, Goto, Judged
<1> QED  BY <1>1, <1>2, <1>3, <1>4, <1>5, <1>6, StepKinds

\* What the role allows has been granted, also when it is edited meanwhile.
LEMMA StepGrants ==
    ASSUME ControlTypeOK, NEW t \in Task, Step(t), RoleGranted(t) PROVE RoleGranted(t)'
<1> USE DEF RoleGranted, ControlTypeOK
<1>1. CASE Begin(t)
  BY <1>1 DEF Begin
<1>2. CASE ReadsRole(t)
  BY <1>2, ReadsRoleMoves DEF dbVars, Idle
<1>3. CASE Goes(t)
  BY <1>3, GoesMoves DEF dbVars
<1>4. CASE Retries(t)
  BY <1>4 DEF Retries, dbVars, toolVars
<1>5. CASE Failing(t)
  BY <1>5, FailingMoves
<1>6. CASE CreateApproval(t)
  BY <1>6 DEF CreateApproval, toolVars, Idle
<1>7. CASE WaitForApproval(t) \/ Finish(t) \/ Requeue(t)
  BY <1>7 DEF WaitForApproval, Finish, Requeue, Goto, Idle
<1>8. CASE Approve(t) \/ Reject(t)
  BY <1>8 DEF Approve, Reject, toolVars
<1>9. CASE EditRole(t)
  BY <1>9 DEF EditRole, Idle
<1> QED  BY <1>1, <1>2, <1>3, <1>4, <1>5, <1>6, <1>7, <1>8, <1>9, StepKinds

\* A tool is run, or its approval asked for, only after its role has allowed it.
Granted(t) == pc[t] \in {"run_tool", "approval"} => Head(calls[t]) \in granted[t]

LEMMA StepGranted ==
    ASSUME ControlTypeOK, NEW t \in Task, Step(t), RoleGranted(t), Granted(t) PROVE Granted(t)'
<1> USE DEF Granted, ControlTypeOK
<1>1. CASE Begin(t)
  BY <1>1 DEF Begin, Goto
<1>2. CASE ReadsRole(t)
  BY <1>2, ReadsRoleMoves DEF Judged
<1>3. CASE Goes(t)
  <2>1. CASE CheckWhitelist(t)
    <3>1. CASE Denied(t)
      BY <3>1 DEF Denied, Goto
    <3>2. CASE ~ Denied(t)
      <4>1. InWhitelist(t, Head(calls[t])) /\ calls' = calls /\ pc[t] = "whitelist"
            /\ granted' = granted
        BY <2>1, <3>2 DEF CheckWhitelist
      <4>2. Head(calls[t]) \in granted[t]
        BY <4>1 DEF InWhitelist, RoleGranted, Idle
      <4> QED  BY <4>1, <4>2
    <3> QED  BY <3>1, <3>2
  <2>2. CASE NextTool(t) \/ CheckBudget(t) \/ CheckLoopLimit(t) \/ ExecuteTool(t)
    BY <2>2 DEF NextTool, CheckBudget, CheckLoopLimit, ExecuteTool, Denied, Goto
  <2>3. CASE ReadContext(t) \/ StreamEnds(t) \/ StreamBreaks(t) \/ Complete(t)
    BY <2>3 DEF ReadContext, FirstStep, StreamEnds, StreamBreaks, Complete, Goto
  <2>4. CASE StreamAnswers(t)
    <3>1. Goto(t, "finish") \/ Goto(t, "read")
      BY <2>4 DEF StreamAnswers
    <3> QED  BY <3>1 DEF Goto
  <2>5. CASE ReadStream(t)
    BY <2>5 DEF ReadStream
  <2> QED  BY <1>3, <2>1, <2>2, <2>3, <2>4, <2>5 DEF Goes
<1>4. CASE Retries(t) \/ Approve(t) \/ Reject(t)
  BY <1>4 DEF Retries, Approve, Reject, toolVars
<1>5. CASE EditRole(t)
  BY <1>5 DEF EditRole
<1>6. CASE Failing(t)
  BY <1>6, FailingMoves DEF Idle
<1>7. CASE CreateApproval(t) \/ WaitForApproval(t) \/ Finish(t) \/ Requeue(t)
  BY <1>7 DEF CreateApproval, WaitForApproval, Finish, Requeue, Goto
<1> QED  BY <1>1, <1>2, <1>3, <1>4, <1>5, <1>6, <1>7, StepKinds

-----------------------------------------------------------------------------
(***************************************************************************)
(* The budget: what has been used is finite, and never given back.         *)
(***************************************************************************)
Finished == {t \in Task : taskState[t] = "SUCCEEDED"}

LEMMA TokensAreFinite ==
    ASSUME NEW succeeded \in SUBSET Task, NEW tokensOf \in [Task -> Nat]
    PROVE  IsFiniteSet(UNION {{t} \X (1..tokensOf[t]) : t \in succeeded})
<1> DEFINE used == [t \in succeeded |-> {t} \X (1..tokensOf[t])]
           parts == {used[t] : t \in succeeded}
<1>1. IsFiniteSet(succeeded)
  BY TaskAssumption, FS_Subset
<1>2. IsFiniteSet(parts)
  <2>1. used \in Surjection(succeeded, parts)
    BY DEF Surjection
  <2> HIDE DEF used, parts
  <2> QED  BY <1>1, <2>1, FS_Surjection
<1>3. ASSUME NEW t \in succeeded PROVE IsFiniteSet(used[t])
  <2>1. IsFiniteSet({t})
    BY FS_Singleton
  <2>2. IsFiniteSet(1..tokensOf[t])
    <3>1. tokensOf[t] \in Int /\ 1 \in Int
      OBVIOUS
    <3> QED  BY <3>1, FS_Interval
  <2> QED  BY <2>1, <2>2, FS_Product
<1>4. IsFiniteSet(UNION parts)
  <2>1. \A part \in parts : IsFiniteSet(part)
    BY <1>3
  <2> HIDE DEF parts
  <2> QED  BY <1>2, <2>1, FS_UNION
<1> QED  BY <1>4

\* In this state and in the next, the tokens used are a count.
LEMMA SpentIsCount ==
    ASSUME ControlTypeOK, ControlTypeOK'
    PROVE  /\ IsFiniteSet(TokensUsed) /\ Spent \in Nat
           /\ IsFiniteSet(TokensUsed') /\ Spent' \in Nat
<1>1. Finished \in SUBSET Task /\ Finished' \in SUBSET Task
  BY DEF Finished
<1>2. usage \in [Task -> Nat] /\ usage' \in [Task -> Nat]
  BY DEF ControlTypeOK
<1>3. IsFiniteSet(UNION {{t} \X (1..usage[t]) : t \in Finished})
  BY <1>1, <1>2, TokensAreFinite
<1>4. IsFiniteSet(UNION {{t} \X (1..usage'[t]) : t \in Finished'})
  BY <1>1, <1>2, TokensAreFinite
<1>5. TokensUsed = UNION {{t} \X (1..usage[t]) : t \in Finished}
  BY DEF TokensUsed, Finished
<1>6. TokensUsed' = UNION {{t} \X (1..usage'[t]) : t \in Finished'}
  BY DEF TokensUsed, Finished
<1>7. IsFiniteSet(TokensUsed) /\ IsFiniteSet(TokensUsed')
  BY <1>3, <1>4, <1>5, <1>6
<1> QED  BY <1>7, FS_CardinalityType DEF Spent

LEMMA SpentGrows ==
    ASSUME ControlTypeOK, ControlTypeOK', NEW t \in Task, Step(t), RunsItsTask(t), Asks(t)
    PROVE  Spent <= Spent'
<1>1. \A p \in Finished : p \in Finished' /\ usage'[p] = usage[p]
  <2>1. ASSUME NEW p \in Finished PROVE p \in Finished' /\ usage'[p] = usage[p]
    BY SucceededStays DEF Finished
  <2> QED  BY <2>1
<1>2. TokensUsed = UNION {{p} \X (1..usage[p]) : p \in Finished}
  BY DEF TokensUsed, Finished
<1>3. TokensUsed' = UNION {{p} \X (1..usage'[p]) : p \in Finished'}
  BY DEF TokensUsed, Finished
<1>4. TokensUsed \subseteq TokensUsed'
  BY <1>1, <1>2, <1>3
<1>6. IsFiniteSet(TokensUsed')
  BY SpentIsCount
<1>7. Cardinality(TokensUsed) <= Cardinality(TokensUsed')
  BY <1>4, <1>6, FS_Subset
<1> QED  BY <1>7 DEF Spent

LEMMA LimitIsCount == Limit \in Nat
BY LimitsAssumption DEF Limit

\* Once the budget has been used up, no call passes its check.
LEMMA BudgetHolds ==
    ASSUME ControlTypeOK, ControlTypeOK', NEW t \in Task, Step(t),
           Spent >= Limit, pc[t] \notin Judged
    PROVE  pc'[t] \notin Judged
<1> USE DEF ControlTypeOK
<1>1. ~ WithinBudget
  <2>1. InProgress \subseteq Task
    BY DEF InProgress
  <2>2. Cardinality(InProgress) \in Nat
    BY <2>1, TaskAssumption, FS_Subset, FS_CardinalityType
  <2> QED  BY <2>2, SpentIsCount, LimitIsCount DEF WithinBudget
<1>2. CASE Begin(t)
  BY <1>2 DEF Begin, Goto, Judged
<1>3. CASE ReadsRole(t)
  BY <1>3, ReadsRoleMoves
<1>4. CASE Goes(t)
  <2>1. CASE CheckBudget(t)
    BY <1>1, <2>1 DEF CheckBudget, Denied, Goto, Judged
  <2>2. CASE NextTool(t) \/ CheckLoopLimit(t) \/ CheckWhitelist(t) \/ ExecuteTool(t)
    BY <2>2 DEF NextTool, CheckLoopLimit, CheckWhitelist, ExecuteTool, Denied, Goto, Judged
  <2>3. CASE ReadContext(t) \/ StreamEnds(t) \/ StreamBreaks(t) \/ Complete(t)
    BY <2>3 DEF ReadContext, FirstStep, StreamEnds, StreamBreaks, Complete, Goto, Judged
  <2>4. CASE StreamAnswers(t)
    <3>1. Goto(t, "finish") \/ Goto(t, "read")
      BY <2>4 DEF StreamAnswers
    <3> QED  BY <3>1 DEF Goto, Judged
  <2>5. CASE ReadStream(t)
    BY <2>5 DEF ReadStream
  <2> QED  BY <1>4, <2>1, <2>2, <2>3, <2>4, <2>5 DEF Goes
<1>5. CASE Retries(t) \/ Approve(t) \/ Reject(t) \/ EditRole(t)
  BY <1>5 DEF Retries, Approve, Reject, EditRole
<1>6. CASE Failing(t)
  BY <1>6, FailingMoves DEF Judged, Idle
<1>7. CASE CreateApproval(t) \/ WaitForApproval(t) \/ Finish(t) \/ Requeue(t)
  BY <1>7 DEF CreateApproval, WaitForApproval, Finish, Requeue, Goto, Judged
<1> QED  BY <1>2, <1>3, <1>4, <1>5, <1>6, <1>7, StepKinds

\* A tool runs late only as the last one of its task.
LEMMA StepStops ==
    ASSUME ControlTypeOK, ControlTypeOK', NEW t \in Task, Step(t), RunsItsTask(t), Asks(t),
           NEW p \in Task, Stopped(p), late[p] <= 1
    PROVE  Stopped(p)' /\ late'[p] <= 1
<1>1. Spent \in Nat /\ Spent' \in Nat /\ Limit \in Nat /\ Limit' = Limit
  BY SpentIsCount, LimitIsCount DEF Limit
<1>2. Spent >= Limit => Spent' >= Limit'
  BY <1>1, SpentGrows
<1>3. pc'[p] \in Judged /\ Spent >= Limit => pc[p] \in Judged
  BY BudgetHolds, Elsewhere
<1>4. CASE late'[p] = late[p]
  BY <1>2, <1>3, <1>4 DEF Stopped
<1>5. CASE late'[p] # late[p]
  <2>1. p = t
    BY <1>5, Elsewhere
  <2>2. Goes(t)
    <3>1. ~ Goes(t) => late' = late
      BY StepKinds, ReadsRoleMoves, FailingMoves
         DEF Begin, Retries, CreateApproval, WaitForApproval, Finish, Requeue, Approve, Reject,
             EditRole, toolVars
    <3> QED  BY <1>5, <3>1
  <2>3. /\ late' = [late EXCEPT ![t] = @ + 1] /\ Spent >= Limit /\ pc[t] = "run_tool"
        /\ pc' = [pc EXCEPT ![t] = "tools"]
    BY <1>5, <2>2, LateMoves
  <2>4. late[t] = 0
    BY <2>1, <2>3 DEF Stopped, Judged, ControlTypeOK
  <2>5. late'[t] = 1 /\ pc'[t] = "tools"
    BY <2>3, <2>4 DEF ControlTypeOK
  <2> QED  BY <1>2, <2>1, <2>3, <2>5 DEF Stopped, Judged
<1> QED  BY <1>4, <1>5

LEMMA ControlInitial == ExecutionInit => ControlInv
<1> SUFFICES ASSUME ExecutionInit PROVE ControlInv
  OBVIOUS
<1> USE DEF ExecutionInit
<1>1. ControlTypeOK
  BY DEF ControlTypeOK, Steps
<1>2. \A t \in Task : RunsItsTask(t) /\ Asks(t)
  BY DEF RunsItsTask, Asks, Idle
<1>3. \A t \in Task : CallsLeft(t) /\ RoleGranted(t) /\ Stopped(t)
  BY DEF CallsLeft, RoleGranted, Stopped, Judged, Idle
<1>4. ToolsGranted /\ BudgetStopsTools
  BY DEF ToolsGranted, BudgetStopsTools
<1>5. calls \in [Task -> Seq(Tool)]
  OBVIOUS
<1> QED  BY <1>1, <1>2, <1>3, <1>4, <1>5 DEF ControlInv

LEMMA ControlUnmoved == ControlInv /\ UNCHANGED executionVars => ControlInv'
BY DEF executionVars, dbVars, replyVars, toolVars, ControlInv, ControlTypeOK, RunsItsTask, Asks,
       CallsLeft, RoleGranted, Stopped, Spent, TokensUsed, ToolsGranted, BudgetStopsTools

LEMMA ControlStep == ControlInv /\ [ExecutionNext]_executionVars => ControlInv'
<1>1. CASE UNCHANGED executionVars
  BY <1>1, ControlUnmoved
<1>2. ASSUME ControlInv, NEW t \in Task, Step(t) PROVE ControlInv'
  <2>1. ControlTypeOK /\ ControlTypeOK'
    BY <1>2, StepTyped DEF ControlInv
  <2>2. RunsItsTask(t) /\ Asks(t)
    BY <1>2 DEF ControlInv
  <2>3. \A p \in Task : (RunsItsTask(p) /\ Asks(p))'
    <3>1. (RunsItsTask(t) /\ Asks(t))'
      BY <1>2, <2>1, <2>2, StepRuns
    <3>2. ASSUME NEW p \in Task, p # t PROVE (RunsItsTask(p) /\ Asks(p))'
      BY <1>2, <2>1, <3>2, Elsewhere DEF ControlInv, RunsItsTask, Asks
    <3> QED  BY <3>1, <3>2
  <2>4. PICK left \in Seq(Tool) : calls' = [calls EXCEPT ![t] = left]
    BY <1>2, <2>1, StepCalls DEF ControlInv
  <2>5. calls' \in [Task -> Seq(Tool)] /\ \A p \in Task \ {t} : calls'[p] = calls[p]
    BY <1>2, <2>4 DEF ControlInv
  <2>6. \A p \in Task : CallsLeft(p)'
    <3>1. CallsLeft(t)'
      BY <1>2, <2>1, StepLeaves DEF ControlInv
    <3>2. ASSUME NEW p \in Task, p # t PROVE CallsLeft(p)'
      BY <1>2, <2>1, <2>5, <3>2, Elsewhere DEF ControlInv, CallsLeft
    <3> QED  BY <3>1, <3>2
  <2>7. \A p \in Task : RoleGranted(p)'
    <3>1. RoleGranted(t)'
      BY <1>2, <2>1, StepGrants DEF ControlInv
    <3>2. ASSUME NEW p \in Task, p # t PROVE RoleGranted(p)'
      BY <1>2, <2>1, <3>2, Elsewhere DEF ControlInv, RoleGranted
    <3> QED  BY <3>1, <3>2
  <2>8. ToolsGranted'
    <3>1. Granted(t)'
      BY <1>2, <2>1, StepGranted DEF ControlInv, ToolsGranted, Granted
    <3>2. ASSUME NEW p \in Task, p # t PROVE Granted(p)'
      BY <1>2, <2>1, <2>5, <3>2, Elsewhere DEF ControlInv, ToolsGranted, Granted
    <3> QED  BY <3>1, <3>2 DEF ToolsGranted, Granted
  <2>9. \A p \in Task : Stopped(p)' /\ late'[p] <= 1
    BY <1>2, <2>1, <2>2, StepStops DEF ControlInv, BudgetStopsTools
  <2> QED  BY <2>1, <2>3, <2>5, <2>6, <2>7, <2>8, <2>9 DEF ControlInv, BudgetStopsTools
<1> QED  BY <1>1, <1>2 DEF ExecutionNext, Step

\* Executions, approvals and grants agree in every state of every schedule.
THEOREM ControlInvariance == ExecutionSpec => []ControlInv
BY ControlInitial, ControlStep, PTL DEF ExecutionSpec

\* Whatever the provider calls and however the role is edited meanwhile, no tool runs, and
\* no approval is asked for, that the role has not allowed since the execution began.
THEOREM GrantedBeforeUse == ExecutionSpec => []ToolsGranted
<1>1. ControlInv => ToolsGranted
  BY DEF ControlInv
<1> QED  BY <1>1, ControlInvariance, PTL

\* Of any number of tasks that share a budget, each runs at most one tool more when the
\* budget has been used up.
THEOREM BudgetKept == ExecutionSpec => []BudgetStopsTools
<1>1. ControlInv => BudgetStopsTools
  BY DEF ControlInv
<1> QED  BY <1>1, ControlInvariance, PTL

-----------------------------------------------------------------------------
(***************************************************************************)
(* The request: its retries, and how far a streamed reply has been read.   *)
(***************************************************************************)
requestVars == <<retryCount, adapter, attempt, body, pos>>

\* An adapter makes one or two attempts.
LEMMA AttemptsAre == ASSUME NEW a \in Adapters \cup {NoAdapter} PROVE a.attempts \in {1, 2}
<1>1. NoAdapter.attempts = 1
  BY DEF NoAdapter, Adapter
<1>2. \A name \in DOMAIN GatewayPresets : GatewayPresets[name].attempts = 1
  BY DEF GatewayPresets, CompatibleWithOpenAI, GatewayPreset, Adapter
<1>3. \A b \in AllAdapters : b.attempts \in {1, 2}
  BY <1>2 DEF AllAdapters, OllamaAdapter, GeminiAdapter, OpenAICompatibleAdapter, Adapter
<1> QED  BY <1>1, <1>3, AdaptersAssumption

LEMMA SizesAre == ASSUME NEW b \in Bodies \cup {NoBody} PROVE IsBody(b) /\ Size(b) \in Nat
BY BodiesAssumption, NoBodyIs, SizeIs

\* Steps that leave the request alone, and do not start it again.
Leaves(t) ==
    /\ UNCHANGED <<dependsOn, requestVars>>
    /\ \E s \in Steps \ Idle :
          /\ pc' = [pc EXCEPT ![t] = s]
          /\ s \in Unread => pc[t] \in Unread
    /\ runState' \in {runState, "EXECUTING", "WAITING_APPROVAL", "PAUSED"}

LEMMA LeavesMoves ==
    ASSUME ControlTypeOK, NEW t \in Task, RunsItsTask(t), Asks(t),
           \/ ReadsRole(t) \/ (Goes(t) /\ ~ StreamAnswers(t) /\ ~ ReadStream(t))
           \/ CreateApproval(t)
    PROVE  Leaves(t)
<1> USE DEF Leaves, dbVars, replyVars, requestVars
<1>1. CASE ReadsRole(t)
  <2>1. \E s \in {"context", "complete", "stream", "complete_tools"} : Goto(t, s)
    BY <1>1 DEF ReadsRole, ReadRole, FirstStep
  <2>2. UNCHANGED <<dependsOn, requestVars, runState>> /\ pc[t] \in Unread
    BY <1>1 DEF ReadsRole, ReadRole, Unread
  <2> QED  BY <2>1, <2>2 DEF Goto, Steps, Idle
<1>2. CASE ReadContext(t)
  <2>1. \E s \in {"complete", "stream", "complete_tools"} : Goto(t, s)
    BY <1>2 DEF ReadContext, FirstStep
  <2>2. UNCHANGED <<dependsOn, requestVars, runState>> /\ pc[t] \in Unread
    BY <1>2 DEF ReadContext, Unread
  <2> QED  BY <2>1, <2>2 DEF Goto, Steps, Idle
<1>3. CASE StreamEnds(t) \/ StreamBreaks(t) \/ Complete(t)
  <2>1. \E s \in {"finish", "complete", "tools"} : Goto(t, s)
    BY <1>3 DEF StreamEnds, StreamBreaks, Complete
  <2>2. UNCHANGED <<dependsOn, requestVars, runState>>
    BY <1>3 DEF StreamEnds, StreamBreaks, Complete
  <2> QED  BY <2>1, <2>2 DEF Goto, Steps, Idle, Unread
<1>4. CASE NextTool(t) \/ CheckBudget(t) \/ CheckLoopLimit(t) \/ CheckWhitelist(t)
           \/ ExecuteTool(t)
  <2>1. \E s \in {"finish", "tools", "budget"} \cup Judged : Goto(t, s)
    BY <1>4 DEF NextTool, CheckBudget, CheckLoopLimit, CheckWhitelist, ExecuteTool, Denied, Judged
  <2>2. UNCHANGED <<dependsOn, requestVars, runState>>
    BY <1>4 DEF NextTool, CheckBudget, CheckLoopLimit, CheckWhitelist, ExecuteTool
  <2> QED  BY <2>1, <2>2 DEF Goto, Steps, Idle, Unread, Judged
<1>5. CASE CreateApproval(t)
  <2>1. pc' = [pc EXCEPT ![t] = "waiting"]
    BY <1>5 DEF CreateApproval, Goto
  <2>2. UNCHANGED <<dependsOn, requestVars, runState>>
    BY <1>5 DEF CreateApproval
  <2>3. "waiting" \in Steps \ Idle /\ "waiting" \notin Unread
    BY DEF Steps, Idle, Unread
  <2> QED  BY <2>1, <2>2, <2>3
<1> QED  BY <1>1, <1>2, <1>3, <1>4, <1>5 DEF Goes

\* Operators move neither the request nor the execution.
LEMMA OperatorsLeave ==
    ASSUME NEW t \in Task, Approve(t) \/ Reject(t) \/ EditRole(t)
    PROVE  /\ UNCHANGED <<dependsOn, requestVars, pc, told, content>>
           /\ runState' \in {runState, "EXECUTING", "WAITING_APPROVAL", "PAUSED"}
BY DEF Approve, Reject, EditRole, replyVars, requestVars

LEMMA RetriesMoves ==
    ASSUME ControlTypeOK, NEW t \in Task, Retries(t)
    PROVE  /\ attempt' = [attempt EXCEPT ![t] = @ + 1] /\ attempt[t] + 1 < adapter[t].attempts
           /\ UNCHANGED <<dependsOn, runState, retryCount, adapter, body, pos, told, pc>>
           /\ pc[t] \in {"complete", "complete_tools"}
<1>1. pc' = pc /\ pc[t] \in {"complete", "complete_tools"}
  BY DEF Retries, CompleteFails
<1>2. ~ \E error \in Errors : Throws(t, error)
  BY <1>1, FailingMoves DEF Failing, Idle, ControlTypeOK
<1> QED  BY <1>1, <1>2 DEF Retries, CompleteFails, TriesAgain, dbVars

\* When an execution is over, its request is as it was at first.
LEMMA FailingRequest ==
    ASSUME NEW t \in Task, Failing(t)
    PROVE  /\ attempt' = [attempt EXCEPT ![t] = 0] /\ pos' = [pos EXCEPT ![t] = 0]
           /\ adapter' = [adapter EXCEPT ![t] = NoAdapter]
           /\ body' = [body EXCEPT ![t] = NoBody]
           /\ \/ pc' = [pc EXCEPT ![t] = "none"]
              \/ pc' = [pc EXCEPT ![t] = "cooldown"] /\ retryCount[t] < MaxRetries
           /\ UNCHANGED <<dependsOn, runState, retryCount, output>>
           /\ told' = [told EXCEPT ![t] = NothingTold]
           /\ content' = [content EXCEPT ![t] = << >>]
BY DEF Failing, Throws, Return, Goto

LEMMA RequestOwn ==
    ASSUME RequestTypeOK, ControlTypeOK, NEW t \in Task, Step(t), RunsItsTask(t), Asks(t),
           Requested(t)
    PROVE  RequestTypeOK' /\ Requested(t)'
<1>0. /\ Size(body[t]) \in Nat /\ adapter[t].attempts \in {1, 2}
      /\ Size(NoBody) = 0 /\ NoAdapter.attempts \in {1, 2}
      /\ MaxRetries \in Nat
  BY SizesAre, AttemptsAre, NoBodyIs, LimitsAssumption DEF RequestTypeOK
<1> USE DEF Requested, RequestTypeOK, ControlTypeOK
<1>1. CASE Begin(t)
  <2>1. PICK chosen \in Adapters : adapter' = [adapter EXCEPT ![t] = chosen]
    BY <1>1 DEF Begin
  <2>2. chosen.attempts \in {1, 2}
    BY AttemptsAre
  <2>3. /\ pc[t] = "none" /\ pc' = [pc EXCEPT ![t] = "role"]
        /\ body' = [body EXCEPT ![t] = NoBody]
        /\ UNCHANGED <<dependsOn, runState, retryCount, attempt, pos>>
    BY <1>1 DEF Begin, Goto
  <2> QED  BY <1>0, <2>1, <2>2, <2>3 DEF Idle, Unread
<1>2. CASE Leaves(t)
  BY <1>2 DEF Leaves, requestVars, Idle
<1>3. CASE Approve(t) \/ Reject(t) \/ EditRole(t)
  BY <1>3, OperatorsLeave DEF requestVars
<1>4. CASE StreamAnswers(t)
  <2>1. pc[t] = "stream" /\ UNCHANGED <<dependsOn, runState, retryCount, adapter, attempt, pos>>
    BY <1>4 DEF StreamAnswers, dbVars
  <2>2. /\ body' = body \/ \E reply \in Bodies : body' = [body EXCEPT ![t] = reply]
        /\ \E s \in {"finish", "read"} : pc' = [pc EXCEPT ![t] = s]
    BY <1>4 DEF StreamAnswers, Goto
  <2>3. body' \in [Task -> Bodies \cup {NoBody}] /\ Size(body'[t]) \in Nat
    BY <1>0, <2>2, SizesAre
  <2>4. pos[t] = 0
    BY <2>1 DEF Unread
  <2>5. PICK s \in {"finish", "read"} : pc' = [pc EXCEPT ![t] = s]
    BY <2>2
  <2>6. pos'[t] = 0 /\ pos'[t] <= Size(body'[t])
    BY <2>1, <2>3, <2>4
  <2>7. pc'[t] \notin Idle \cup {"cooldown"}
    BY <2>5 DEF Idle
  <2>8. Requested(t)'
    BY <2>1, <2>6, <2>7 DEF Idle
  <2> QED  BY <2>1, <2>3, <2>8
<1>5. CASE ReadStream(t)
  <2>1. PICK end \in (pos[t] + 1)..Size(body[t]) : pos' = [pos EXCEPT ![t] = end]
    BY <1>5 DEF ReadStream
  <2>2. /\ pc[t] = "read"
        /\ UNCHANGED <<dependsOn, runState, retryCount, adapter, attempt, body, pc>>
    BY <1>5 DEF ReadStream, dbVars
  <2>3. end \in Nat /\ end <= Size(body[t])
    BY <1>0, <2>1
  <2> QED  BY <2>1, <2>2, <2>3 DEF Idle, Unread
<1>6. CASE Retries(t)
  BY <1>0, <1>6, RetriesMoves DEF Idle
<1>7. CASE Failing(t)
  <2>1. /\ attempt' = [attempt EXCEPT ![t] = 0] /\ pos' = [pos EXCEPT ![t] = 0]
        /\ adapter' = [adapter EXCEPT ![t] = NoAdapter]
        /\ body' = [body EXCEPT ![t] = NoBody]
        /\ UNCHANGED <<dependsOn, runState, retryCount>>
    BY <1>7, FailingRequest
  <2>2. pc'[t] = "cooldown" => retryCount[t] < MaxRetries
    BY <1>7, FailingRequest
  <2>3. RequestTypeOK'
    BY <2>1
  <2>4. attempt'[t] = 0 /\ pos'[t] = 0 /\ adapter'[t] = NoAdapter /\ body'[t] = NoBody
    BY <2>1
  <2>5. Requested(t)'
    BY <1>0, <2>1, <2>2, <2>4
  <2> QED  BY <2>3, <2>5
<1>8. CASE WaitForApproval(t)
  <2>1. /\ attempt' = [attempt EXCEPT ![t] = 0] /\ pos' = [pos EXCEPT ![t] = 0]
        /\ adapter' = [adapter EXCEPT ![t] = NoAdapter]
        /\ body' = [body EXCEPT ![t] = NoBody]
        /\ pc' = [pc EXCEPT ![t] = "none"]
        /\ UNCHANGED <<dependsOn, retryCount>>
    BY <1>8 DEF WaitForApproval, Return, Goto
  <2>2. runState' \in {runState, "WAITING_APPROVAL"}
    BY <1>8 DEF WaitForApproval
  <2> QED  BY <1>0, <2>1, <2>2
<1>9. CASE Finish(t)
  <2>1. /\ attempt' = [attempt EXCEPT ![t] = 0] /\ pos' = [pos EXCEPT ![t] = 0]
        /\ pc' = [pc EXCEPT ![t] = "none"]
        /\ UNCHANGED <<dependsOn, runState, retryCount, adapter, body>>
    BY <1>9 DEF Finish, Return, Goto
  <2> QED  BY <1>0, <2>1
<1>10. CASE Requeue(t)
  <2>1. /\ pc[t] = "cooldown" /\ pc' = [pc EXCEPT ![t] = "none"]
        /\ retryCount' = [retryCount EXCEPT ![t] = @ + 1]
        /\ UNCHANGED <<dependsOn, runState, adapter, attempt, body, pos>>
    BY <1>10 DEF Requeue, Goto, replyVars
  <2> QED  BY <1>0, <2>1 DEF Idle, Unread
<1> QED  BY <1>1, <1>2, <1>3, <1>4, <1>5, <1>6, <1>7, <1>8, <1>9, <1>10, StepKinds, LeavesMoves

LEMMA RequestElsewhere ==
    ASSUME RequestTypeOK, ControlTypeOK, NEW t \in Task, Step(t), RunsItsTask(t), Asks(t),
           NEW p \in Task, p # t
    PROVE  /\ retryCount'[p] = retryCount[p] /\ adapter'[p] = adapter[p]
           /\ attempt'[p] = attempt[p] /\ body'[p] = body[p] /\ pos'[p] = pos[p]
<1> USE DEF RequestTypeOK
<1>1. CASE Begin(t)
  BY <1>1 DEF Begin
<1>2. CASE Leaves(t)
  BY <1>2 DEF Leaves, requestVars
<1>3. CASE Approve(t) \/ Reject(t) \/ EditRole(t)
  BY <1>3, OperatorsLeave DEF requestVars
<1>4. CASE StreamAnswers(t)
  <2>1. UNCHANGED <<retryCount, adapter, attempt, pos>>
    BY <1>4 DEF StreamAnswers, dbVars
  <2>2. body' = body \/ \E reply \in Bodies : body' = [body EXCEPT ![t] = reply]
    BY <1>4 DEF StreamAnswers
  <2> QED  BY <2>1, <2>2
<1>5. CASE ReadStream(t)
  BY <1>5 DEF ReadStream, dbVars
<1>6. CASE Retries(t)
  BY <1>6, RetriesMoves
<1>7. CASE Failing(t)
  BY <1>7, FailingRequest
<1>8. CASE WaitForApproval(t) \/ Finish(t) \/ Requeue(t)
  BY <1>8 DEF WaitForApproval, Finish, Requeue, Return, replyVars
<1> QED  BY <1>1, <1>2, <1>3, <1>4, <1>5, <1>6, <1>7, <1>8, StepKinds, LeavesMoves

LEMMA RequestInitial == ExecutionInit => RequestInv
<1> SUFFICES ASSUME ExecutionInit PROVE RequestInv
  OBVIOUS
<1>1. RequestTypeOK
  BY PlansAssumption, LimitsAssumption DEF ExecutionInit, RequestTypeOK
<1>2. \A t \in Task : Requested(t)
  <2>1. NoAdapter.attempts = 1
    BY DEF NoAdapter, Adapter
  <2> QED  BY <2>1, NoBodyIs DEF ExecutionInit, Requested
<1> QED  BY <1>1, <1>2 DEF RequestInv

LEMMA RequestStep ==
    ControlInv /\ RequestInv /\ [ExecutionNext]_executionVars => RequestInv'
<1>1. CASE UNCHANGED executionVars
  BY <1>1 DEF executionVars, dbVars, replyVars, toolVars, RequestInv, RequestTypeOK, Requested
<1>2. ASSUME ControlInv, RequestInv, NEW t \in Task, Step(t) PROVE RequestInv'
  <2>1. ControlTypeOK /\ RunsItsTask(t) /\ Asks(t) /\ RequestTypeOK /\ Requested(t)
    BY <1>2 DEF ControlInv, RequestInv
  <2>2. RequestTypeOK' /\ Requested(t)'
    BY <1>2, <2>1, RequestOwn
  <2>3. ASSUME NEW p \in Task, p # t PROVE Requested(p)'
    BY <1>2, <2>1, <2>3, Elsewhere, RequestElsewhere DEF RequestInv, Requested
  <2> QED  BY <2>2, <2>3 DEF RequestInv
<1> QED  BY <1>1, <1>2 DEF ExecutionNext, Step

\* Neither the retries of a task nor those of a request exceed their limits, and a stream
\* is read from its beginning to its end and not beyond.
THEOREM RequestInvariance == ExecutionSpec => []RequestInv
BY ControlInitial, ControlStep, RequestInitial, RequestStep, PTL DEF ExecutionSpec

-----------------------------------------------------------------------------
(***************************************************************************)
(* The text: what has been read, what is stored and what is handed on.     *)
(***************************************************************************)

\* The text that a step leaves to its task as the content, with at most one thinking.
Writes(t, text) ==
    /\ text \in Texts /\ content' = [content EXCEPT ![t] = text]
    /\ ThinkingComesFirst /\ ThinksOnce(content[t]) => ThinksOnce(text)

LEMMA Unwritten ==
    ASSUME TextTypeOK, NEW t \in Task, content' = content PROVE Writes(t, content[t])
BY DEF TextTypeOK, Writes

LEMMA Emptied ==
    ASSUME TextTypeOK, NEW t \in Task, content' = [content EXCEPT ![t] = << >>]
    PROVE  Writes(t, << >>)
<1>1. << >> \in Texts /\ ThinksOnce(<< >>)
  BY DEF Texts, ThinksOnce
<1> QED  BY <1>1 DEF TextTypeOK, Writes

\* What became of a call is noted only where no reply would be mixed with it.
LEMMA NotedIs ==
    ASSUME TextTypeOK, NEW t \in Task, Noted(t), UNCHANGED <<body, adapter>>,
           WholeText(t, content[t])
    PROVE  /\ Writes(t, content'[t])
           /\ WholeText(t, content[t])'
<1> DEFINE text == content[t]
           results == \A n \in DOMAIN text : Kind(text, n) = "result"
           longer == Append(text, <<"result", Len(text) + 1>>)
<1>1. text \in Seq(ParagraphKinds \X Nat) /\ content \in [Task -> Texts]
  BY DEF TextTypeOK, Texts
<1>2. CASE ~ results
  <2>1. content' = content
    BY <1>1, <1>2 DEF Noted
  <2> QED  BY <2>1, Unwritten DEF WholeText
<1>3. CASE results
  <2>1. content' = [content EXCEPT ![t] = longer]
    BY <1>3 DEF Noted
  <2>2. <<"result", Len(text) + 1>> \in ParagraphKinds \X Nat
    BY <1>1 DEF ParagraphKinds
  <2>3. longer \in Seq(ParagraphKinds \X Nat) /\ longer # << >> /\ Len(longer) = Len(text) + 1
    BY <1>1, <2>2
  <2>4. \A n \in 1..(Len(text) + 1) : Kind(longer, n) = "result"
    <3>1. ASSUME NEW n \in 1..(Len(text) + 1) PROVE Kind(longer, n) = "result"
      <4>1. CASE n = Len(text) + 1
        BY <1>1, <2>2, <4>1 DEF Kind
      <4>2. CASE n # Len(text) + 1
        <5>1. n \in 1..Len(text) /\ n \in DOMAIN text
          BY <1>1, <4>2
        <5>2. longer[n] = text[n]
          BY <1>1, <2>2, <5>1
        <5> QED  BY <1>3, <5>1, <5>2 DEF Kind
      <4> QED  BY <4>1, <4>2
    <3> QED  BY <3>1
  <2>5. DOMAIN longer = 1..(Len(text) + 1)
    BY <2>3
  <2>6. content'[t] = longer
    BY <1>1, <2>1
  <2> HIDE DEF longer
  <2>7. WholeText(t, content[t])'
    BY <2>3, <2>4, <2>5, <2>6 DEF WholeText
  <2>8. ThinksOnce(longer)
    BY <1>1, <2>3, <2>4 DEF ThinksOnce
  <2> QED  BY <2>1, <2>3, <2>6, <2>7, <2>8 DEF Writes, Texts
<1> QED  BY <1>2, <1>3

\* What a stream has delivered is the beginning of what was written.
LEMMA StreamIsRead ==
    ASSUME TextTypeOK, RequestTypeOK, NEW t \in Task, Requested(t), ReadSoFar(t), ReadStream(t)
    PROVE  Writes(t, content'[t]) /\ ReadSoFar(t)'
<1> DEFINE format == adapter[t].streaming
<1>1. PICK end \in (pos[t] + 1)..Size(body[t]) :
          /\ pos' = [pos EXCEPT ![t] = end]
          /\ content' = [content EXCEPT ![t] =
                content[t] \o TextRead(body[t], format, Carried(pos[t]), end)]
  BY DEF ReadStream
<1>2. pc[t] = "read" /\ UNCHANGED <<pc, adapter, body>>
  BY DEF ReadStream
<1>3. IsBody(body[t]) /\ Size(body[t]) \in Nat /\ pos[t] \in Nat
  BY SizesAre DEF RequestTypeOK
<1>4. end \in Nat /\ pos[t] <= end
  BY <1>1, <1>3
<1>5. content[t] = TextRead(body[t], format, 0, pos[t])
  BY <1>2 DEF ReadSoFar
<1>6. TextRead(body[t], format, 0, pos[t]) \o TextRead(body[t], format, Carried(pos[t]), end)
          = TextRead(body[t], format, 0, end)
  BY <1>3, <1>4, ReadOn
<1>7. content' = [content EXCEPT ![t] = TextRead(body[t], format, 0, end)]
  BY <1>1, <1>5, <1>6
<1>8. content'[t] = TextRead(body[t], format, 0, end) /\ pos'[t] = end
  BY <1>1, <1>7 DEF TextTypeOK, RequestTypeOK
<1>9. ReadSoFar(t)'
  BY <1>2, <1>8 DEF ReadSoFar, Unread, Idle, Received, Judged
<1>10. /\ TextRead(body[t], format, 0, end) \in Texts
       /\ NoSecondThinking(body[t]) => ThinksOnce(TextRead(body[t], format, 0, end))
  BY <1>3, ReadIs
<1>11. ThinkingComesFirst => NoSecondThinking(body[t])
  <2>1. CASE body[t] = NoBody
    BY <2>1, NoBodyIs
  <2>2. CASE body[t] \in Bodies
    BY <2>2 DEF ThinkingComesFirst, NoSecondThinking
  <2> QED  BY <2>1, <2>2 DEF RequestTypeOK
<1> QED  BY <1>7, <1>8, <1>9, <1>10, <1>11 DEF Writes

\* A reply that has been received is whole, as it came or without its thinking.
LEMMA ReceivedIs ==
    ASSUME NEW t \in Task, NEW reply \in Replies
    PROVE  /\ ContentOf(adapter[t], reply) \in Texts
           /\ WholeText(t, ContentOf(adapter[t], reply))
           /\ OutputToStore(ContentOf(adapter[t], reply)) \in Texts
           /\ WholeText(t, OutputToStore(ContentOf(adapter[t], reply)))
           /\ ThinkingComesFirst => /\ ThinksOnce(ContentOf(adapter[t], reply))
                                    /\ ThinksOnce(OutputToStore(ContentOf(adapter[t], reply)))
<1> DEFINE text == ContentOf(adapter[t], reply)
<1>1. text \in Texts /\ (ThinkingComesFirst => ThinksOnce(text))
  BY ContentIs
<1>2. EndOf(text, text)
  BY <1>1, WholeIsEnd DEF Texts
<1>3. /\ OutputToStore(text) \in Texts /\ EndOf(OutputToStore(text), text)
      /\ ThinksOnce(text) => ThinksOnce(OutputToStore(text))
  BY <1>1, StoredIsEnd
<1> QED  BY <1>1, <1>2, <1>3 DEF WholeText

\* The answer to stream(): the reply itself, or a body of which nothing has been read.
LEMMA AnswerIs ==
    ASSUME TextTypeOK, RequestTypeOK, ControlTypeOK, NEW t \in Task, Requested(t), ReadSoFar(t),
           StreamAnswers(t)
    PROVE  Writes(t, content'[t]) /\ ReadSoFar(t)'
<1>0. pc[t] = "stream" /\ UNCHANGED <<adapter, pos>> /\ content[t] = << >> /\ pos[t] = 0
  BY DEF StreamAnswers, ReadSoFar, Requested, Unread
<1>1. CASE adapter[t].streaming = "none"
  <2>1. PICK reply \in Replies : content' = [content EXCEPT ![t] = ContentOf(adapter[t], reply)]
    BY <1>1 DEF StreamAnswers
  <2>2. UNCHANGED body /\ pc' = [pc EXCEPT ![t] = "finish"]
    BY <1>1 DEF StreamAnswers, Goto
  <2>3. content'[t] = ContentOf(adapter[t], reply) /\ pc'[t] = "finish"
    BY <2>1, <2>2 DEF TextTypeOK, ControlTypeOK
  <2>4. Writes(t, content'[t]) /\ WholeText(t, content'[t])
    BY <2>1, <2>3, ReceivedIs DEF Writes
  <2>5. WholeText(t, content[t])'
    BY <1>0, <2>2, <2>4 DEF WholeText
  <2> QED  BY <2>3, <2>4, <2>5 DEF ReadSoFar, Unread, Idle
<1>2. CASE adapter[t].streaming # "none"
  <2>1. PICK reply \in Bodies : body' = [body EXCEPT ![t] = reply]
    BY <1>2 DEF StreamAnswers
  <2>2. UNCHANGED content /\ pc' = [pc EXCEPT ![t] = "read"]
    BY <1>2 DEF StreamAnswers, Goto
  <2>3. body'[t] = reply /\ pc'[t] = "read" /\ IsBody(reply)
    BY <2>1, <2>2, BodiesAssumption DEF RequestTypeOK, ControlTypeOK
  <2>4. TextRead(reply, adapter[t].streaming, 0, 0) = << >>
    BY <2>3, NothingRead
  <2>5. ReadSoFar(t)'
    BY <1>0, <2>2, <2>3, <2>4 DEF ReadSoFar, Unread, Idle, Received, Judged
  <2> QED  BY <2>2, <2>5, Unwritten
<1> QED  BY <1>1, <1>2

LEMMA CompletedIs ==
    ASSUME TextTypeOK, ControlTypeOK, NEW t \in Task, Complete(t)
    PROVE  Writes(t, content'[t]) /\ ReadSoFar(t)'
<1>1. PICK reply \in Replies : content' = [content EXCEPT ![t] = Completed(t, reply)]
  BY DEF Complete
<1>2. Goto(t, "finish") \/ Goto(t, "tools")
  BY DEF Complete
<1>3. pc'[t] \in {"finish", "tools"} /\ UNCHANGED <<adapter, body>>
  BY <1>2 DEF Complete, Goto, ControlTypeOK
<1>4. content'[t] = Completed(t, reply)
  BY <1>1 DEF TextTypeOK
<1>5. /\ Completed(t, reply) \in Texts /\ WholeText(t, Completed(t, reply))
      /\ ThinkingComesFirst => ThinksOnce(Completed(t, reply))
  BY ReceivedIs DEF Completed
<1>6. WholeText(t, content[t])'
  BY <1>3, <1>4, <1>5 DEF WholeText
<1> QED  BY <1>1, <1>3, <1>4, <1>5, <1>6 DEF Writes, ReadSoFar, Unread, Idle

\* While the calls are made, the reply stays what it was.
LEMMA CallsKeepText ==
    ASSUME TextTypeOK, ControlTypeOK, NEW t \in Task, ReadSoFar(t),
           \/ NextTool(t) \/ CheckBudget(t) \/ CheckLoopLimit(t) \/ CheckWhitelist(t)
           \/ ExecuteTool(t)
    PROVE  Writes(t, content'[t]) /\ ReadSoFar(t)'
<1>1. pc[t] \in Received /\ UNCHANGED <<adapter, body, pos>>
  BY DEF NextTool, CheckBudget, CheckLoopLimit, CheckWhitelist, ExecuteTool, Received, Judged
<1>2. \E s \in {"finish", "tools", "budget"} \cup Judged : Goto(t, s)
  BY DEF NextTool, CheckBudget, CheckLoopLimit, CheckWhitelist, ExecuteTool, Denied, Judged
<1>3. pc'[t] \in Received
  BY <1>2 DEF Goto, ControlTypeOK, Received
<1>4. content' = content \/ Noted(t)
  BY DEF NextTool, CheckBudget, CheckLoopLimit, CheckWhitelist, ExecuteTool, Denied
<1>5. WholeText(t, content[t])
  BY <1>1 DEF ReadSoFar
<1>6. Writes(t, content'[t]) /\ WholeText(t, content[t])'
  <2>1. CASE content' = content
    BY <1>1, <1>5, <2>1, Unwritten DEF WholeText
  <2>2. CASE Noted(t)
    BY <1>1, <1>5, <2>2, NotedIs
  <2> QED  BY <1>4, <2>1, <2>2
<1>7. pc'[t] \notin Unread \cup {"read"}
  BY <1>3 DEF Received, Unread, Idle, Judged
<1> QED  BY <1>6, <1>7 DEF ReadSoFar

LEMMA TextOwn ==
    ASSUME TextTypeOK, RequestTypeOK, ControlTypeOK, NEW t \in Task, Step(t),
           Requested(t), ReadSoFar(t), RunsItsTask(t), Asks(t)
    PROVE  Writes(t, content'[t]) /\ ReadSoFar(t)'
<1>1. CASE Begin(t)
  <2>1. content' = content /\ content[t] = << >>
    BY <1>1 DEF Begin, ReadSoFar, Unread, Idle
  <2>2. pc'[t] = "role"
    BY <1>1 DEF Begin, Goto, ControlTypeOK
  <2>3. ReadSoFar(t)'
    BY <2>1, <2>2 DEF ReadSoFar, Received, Judged
  <2> QED  BY <2>1, <2>3, Unwritten
<1>2. CASE ReadsRole(t) \/ ReadContext(t)
  <2>1. content' = content /\ content[t] = << >>
    BY <1>2 DEF ReadsRole, ReadRole, ReadContext, replyVars, ReadSoFar, Unread
  <2>2. pc'[t] \in {"context", "stream", "complete", "complete_tools"}
    <3>1. \E s \in {"context", "complete", "stream", "complete_tools"} : Goto(t, s)
      BY <1>2 DEF ReadsRole, ReadRole, ReadContext, FirstStep
    <3> QED  BY <3>1 DEF Goto, ControlTypeOK
  <2>3. ReadSoFar(t)'
    BY <2>1, <2>2 DEF ReadSoFar, Received, Judged
  <2> QED  BY <2>1, <2>3, Unwritten
<1>3. CASE StreamEnds(t)
  <2>1. /\ pc[t] = "read" /\ pc' = [pc EXCEPT ![t] = "finish"] /\ pos[t] = Size(body[t])
        /\ UNCHANGED <<content, body, adapter>>
    BY <1>3 DEF StreamEnds, Goto, replyVars
  <2>2. content[t] = TextRead(body[t], adapter[t].streaming, 0, Size(body[t]))
    BY <2>1 DEF ReadSoFar
  <2>3. IsBody(body[t])
    BY SizesAre DEF RequestTypeOK
  <2>4. content[t] = TextWritten(body[t], adapter[t].streaming)
    BY <2>2, <2>3, AllRead
  <2>5. WholeText(t, content[t])'
    BY <2>1, <2>4 DEF WholeText
  <2>6. pc'[t] = "finish"
    BY <2>1 DEF ControlTypeOK
  <2>7. ReadSoFar(t)'
    BY <2>5, <2>6 DEF ReadSoFar, Unread, Idle
  <2> QED  BY <2>1, <2>7, Unwritten
<1>4. CASE StreamBreaks(t) \/ CreateApproval(t)
  <2>1. content' = content
    BY <1>4 DEF StreamBreaks, CreateApproval, replyVars
  <2>2. pc'[t] \in {"complete", "waiting"}
    BY <1>4 DEF StreamBreaks, CreateApproval, Goto, ControlTypeOK
  <2>3. ReadSoFar(t)'
    BY <2>2 DEF ReadSoFar, Unread, Idle, Received, Judged
  <2> QED  BY <2>1, <2>3, Unwritten
<1>5. CASE Retries(t)
  <2>1. /\ content' = content /\ UNCHANGED pc
        /\ pc[t] \in {"complete", "complete_tools"}
    BY <1>5, RetriesMoves DEF Retries
  <2>2. ReadSoFar(t)'
    BY <2>1 DEF ReadSoFar, Unread, Idle, Received, Judged
  <2> QED  BY <2>1, <2>2, Unwritten
<1>6. CASE Approve(t) \/ Reject(t) \/ EditRole(t)
  <2>1. UNCHANGED <<content, pc, adapter, body, pos>>
    BY <1>6, OperatorsLeave DEF requestVars
  <2>2. ReadSoFar(t)'
    BY <2>1 DEF ReadSoFar, WholeText
  <2> QED  BY <2>1, <2>2, Unwritten
<1>7. CASE Failing(t) \/ WaitForApproval(t) \/ Finish(t)
  <2>1. content' = [content EXCEPT ![t] = << >>] /\ \E s \in Idle : pc' = [pc EXCEPT ![t] = s]
    <3>1. CASE Failing(t)
      BY <3>1, FailingRequest, FailingMoves
    <3>2. CASE WaitForApproval(t) \/ Finish(t)
      BY <3>2 DEF WaitForApproval, Finish, Return, Goto, Idle
    <3> QED  BY <1>7, <3>1, <3>2
  <2>2. content'[t] = << >> /\ pc'[t] \in Idle
    BY <2>1 DEF TextTypeOK, ControlTypeOK
  <2>3. ReadSoFar(t)'
    BY <2>2 DEF ReadSoFar, Idle, Received, Judged
  <2> QED  BY <2>1, <2>2, <2>3, Emptied
<1>8. CASE Requeue(t)
  <2>1. content' = content /\ pc' = [pc EXCEPT ![t] = "none"] /\ pc[t] = "cooldown"
    BY <1>8 DEF Requeue, Goto, replyVars
  <2>2. content'[t] = << >> /\ pc'[t] = "none"
    BY <2>1 DEF ReadSoFar, Unread, Idle, ControlTypeOK
  <2>3. ReadSoFar(t)'
    BY <2>2 DEF ReadSoFar, Received, Judged
  <2> QED  BY <2>1, <2>3, Unwritten
<1> QED  BY <1>1, <1>2, <1>3, <1>4, <1>5, <1>6, <1>7, <1>8, StepKinds, AnswerIs, CompletedIs,
            CallsKeepText, StreamIsRead DEF Goes

\* Only the end of an execution writes an output, and only its context is told to it.
LEMMA OutputMoves ==
    ASSUME ControlTypeOK, NEW t \in Task, Step(t), RunsItsTask(t), Asks(t)
    PROVE  /\ dependsOn' = dependsOn
           /\ \/ output' = output
              \/ Finish(t) /\ output' = [output EXCEPT ![t] = content[t]]
           /\ \/ told' = told
              \/ told' = [told EXCEPT ![t] = NothingTold]
              \/ ReadContext(t)
<1>1. CASE Begin(t) \/ CreateApproval(t) \/ Requeue(t)
  BY <1>1 DEF Begin, CreateApproval, Requeue, replyVars
<1>2. CASE ReadsRole(t)
  BY <1>2 DEF ReadsRole, ReadRole, dbVars, replyVars
<1>3. CASE Goes(t)
  <2>1. told' = told \/ ReadContext(t)
    BY <1>3 DEF Goes, StreamAnswers, ReadStream, StreamEnds, StreamBreaks, Complete, NextTool,
                CheckBudget, CheckLoopLimit, CheckWhitelist, ExecuteTool, replyVars
  <2> QED  BY <1>3, <2>1, GoesMoves DEF dbVars
<1>4. CASE Retries(t)
  BY <1>4, RetriesMoves DEF Retries, dbVars
<1>5. CASE Failing(t)
  BY <1>5, FailingRequest
<1>6. CASE WaitForApproval(t) \/ Finish(t)
  BY <1>6 DEF WaitForApproval, Finish, Return
<1>7. CASE Approve(t) \/ Reject(t) \/ EditRole(t)
  <2>1. output' = output
    BY <1>7 DEF Approve, Reject, EditRole
  <2> QED  BY <1>7, <2>1, OperatorsLeave
<1> QED  BY <1>1, <1>2, <1>3, <1>4, <1>5, <1>6, <1>7, StepKinds

\* A task that is SUCCEEDED has just finished, or was and keeps its output, reply and all.
LEMMA SucceededKeeps ==
    ASSUME ControlTypeOK, RequestTypeOK, TextTypeOK, NEW t \in Task, Step(t), RunsItsTask(t), Asks(t),
           NEW p \in Task, taskState'[p] = "SUCCEEDED"
    PROVE  \/ p = t /\ Finish(t)
           \/ /\ taskState[p] = "SUCCEEDED" /\ output'[p] = output[p]
              /\ body'[p] = body[p] /\ adapter'[p] = adapter[p]
<1>1. CASE p # t
  <2>1. output'[p] = output[p]
    BY <1>1, OutputMoves DEF TextTypeOK
  <2> QED  BY <1>1, <2>1, Elsewhere, RequestElsewhere
<1>2. CASE p = t /\ ~ Finish(t)
  <2>1. output'[t] = output[t]
    BY <1>2, OutputMoves
  <2>2. CASE Begin(t) \/ Failing(t) \/ Requeue(t) \/ Reject(t)
    BY <1>2, <2>2, FailingMoves DEF Begin, Requeue, Reject, ControlTypeOK
  <2>3. CASE Goes(t)
    BY <1>2, <2>3, GoesMoves DEF dbVars, RunsItsTask
  <2>4. CASE WaitForApproval(t)
    BY <1>2, <2>4 DEF WaitForApproval, RunsItsTask
  <2>5. CASE Approve(t)
    BY <1>2, <2>5 DEF Approve, Asks, ControlTypeOK
  <2>6. CASE ReadsRole(t) \/ CreateApproval(t)
    <3>1. UNCHANGED <<taskState, requestVars>>
      BY <2>6, LeavesMoves, ReadsRoleMoves DEF Leaves, CreateApproval, dbVars
    <3> QED  BY <1>2, <2>1, <3>1 DEF requestVars
  <2>7. CASE Retries(t)
    <3>1. UNCHANGED <<taskState, adapter, body>>
      BY <2>7, RetriesMoves DEF Retries, dbVars
    <3> QED  BY <1>2, <2>1, <3>1
  <2>8. CASE EditRole(t)
    <3>1. UNCHANGED <<taskState, adapter, body>>
      BY <2>8, OperatorsLeave DEF EditRole, requestVars
    <3> QED  BY <1>2, <2>1, <3>1
  <2> QED  BY <1>2, <2>2, <2>3, <2>4, <2>5, <2>6, <2>7, <2>8, StepKinds
<1> QED  BY <1>1, <1>2

\* The text that a task finishes with is whole.
LEMMA FinishesWhole ==
    ASSUME ControlTypeOK, TextTypeOK, NEW t \in Task, Finish(t), ReadSoFar(t)
    PROVE  WholeText(t, output[t])' /\ output'[t] = content[t]
<1>1. WholeText(t, content[t])
  BY DEF Finish, ReadSoFar, Received
<1>2. output'[t] = content[t] /\ UNCHANGED <<body, adapter>>
  BY DEF Finish, TextTypeOK
<1> QED  BY <1>1, <1>2 DEF WholeText

LEMMA ToldTyped ==
    ASSUME ControlTypeOK, RequestTypeOK, TextTypeOK, NEW t \in Task, Step(t), RunsItsTask(t), Asks(t)
    PROVE  /\ told' = [p \in Task |-> told'[p]]
           /\ \A p \in Task : DOMAIN told'[p] \subseteq dependsOn'[p]
<1>0. dependsOn' = dependsOn
  BY OutputMoves
<1>1. CASE told' = told
  BY <1>0, <1>1 DEF TextTypeOK
<1>2. CASE told' = [told EXCEPT ![t] = NothingTold]
  <2>1. DOMAIN NothingTold = {}
    BY DEF NothingTold
  <2> QED  BY <1>0, <1>2, <2>1 DEF TextTypeOK
<1>3. CASE ReadContext(t)
  <2> DEFINE done == {d \in dependsOn[t] : taskState[d] = "SUCCEEDED"}
             new == [d \in {e \in done : Usable(Handed(output[e]))} |-> Handed(output[d])]
  <2>1. told' = [told EXCEPT ![t] = new]
    BY <1>3 DEF ReadContext
  <2>2. DOMAIN new \subseteq dependsOn[t]
    OBVIOUS
  <2> HIDE DEF new
  <2> QED  BY <1>0, <2>1, <2>2 DEF TextTypeOK
<1> QED  BY <1>1, <1>2, <1>3, OutputMoves

LEMMA TextInitial == ExecutionInit => TextInv
<1> SUFFICES ASSUME ExecutionInit PROVE TextInv
  OBVIOUS
<1>1. << >> \in Texts /\ DOMAIN NothingTold = {}
  BY DEF Texts, NothingTold
<1>2. TextTypeOK
  BY <1>1 DEF ExecutionInit, TextTypeOK
<1>3. OutputWhole /\ \A t \in Task : ReadSoFar(t)
  BY DEF ExecutionInit, OutputWhole, ReadSoFar, Received, Judged
<1> QED  BY <1>2, <1>3 DEF TextInv

LEMMA TextStep ==
    ControlInv /\ RequestInv /\ TextInv /\ [ExecutionNext]_executionVars => TextInv'
<1>1. CASE UNCHANGED executionVars
  BY <1>1 DEF executionVars, dbVars, replyVars, toolVars, TextInv, TextTypeOK, OutputWhole,
              ReadSoFar, WholeText
<1>2. ASSUME ControlInv, RequestInv, TextInv, NEW t \in Task, Step(t) PROVE TextInv'
  <2>1. /\ ControlTypeOK /\ RunsItsTask(t) /\ Asks(t)
        /\ RequestTypeOK /\ Requested(t) /\ TextTypeOK /\ ReadSoFar(t)
    BY <1>2 DEF ControlInv, RequestInv, TextInv
  <2>2. Writes(t, content'[t]) /\ ReadSoFar(t)'
    BY <1>2, <2>1, TextOwn
  <2>3. content' \in [Task -> Texts] /\ \A p \in Task \ {t} : content'[p] = content[p]
    BY <2>1, <2>2 DEF Writes, TextTypeOK
  <2>4. output' \in [Task -> Texts]
    BY <1>2, <2>1, OutputMoves DEF TextTypeOK
  <2>5. TextTypeOK'
    BY <1>2, <2>1, <2>3, <2>4, ToldTyped DEF TextTypeOK
  <2>6. ASSUME NEW p \in Task PROVE ReadSoFar(p)'
    <3>1. CASE p # t
      BY <1>2, <2>1, <2>3, <3>1, Elsewhere, RequestElsewhere DEF TextInv, ReadSoFar, WholeText
    <3> QED  BY <2>2, <3>1
  <2>7. ASSUME NEW p \in Task, taskState'[p] = "SUCCEEDED" PROVE WholeText(p, output[p])'
    <3>1. CASE p = t /\ Finish(t)
      BY <2>1, <3>1, FinishesWhole
    <3>2. CASE ~ (p = t /\ Finish(t))
      BY <1>2, <2>1, <2>7, <3>2, SucceededKeeps DEF TextInv, OutputWhole, WholeText
    <3> QED  BY <3>1, <3>2
  <2>8. OutputWhole'
    BY <2>7 DEF OutputWhole, WholeText
  <2> QED  BY <2>5, <2>6, <2>8 DEF TextInv
<1> QED  BY <1>1, <1>2 DEF ExecutionNext, Step

\* States, approvals, grants, retries, positions and texts agree in every state.
THEOREM ExecutionInvariance == ExecutionSpec => []ExecutionInv
<1>1. ControlInv /\ RequestInv /\ TextInv => ExecutionTypeOK
  <2> SUFFICES ASSUME ControlInv, RequestInv, TextInv PROVE ExecutionTypeOK
    OBVIOUS
  <2> USE DEF ControlInv, ControlTypeOK, RequestInv, RequestTypeOK, TextInv, TextTypeOK
  <2>1. attempt \in [Task -> 0..1]
    <3>1. ASSUME NEW t \in Task PROVE attempt[t] \in 0..1
      <4>1. adapter[t].attempts \in {1, 2} /\ attempt[t] \in Nat
        BY AttemptsAre
      <4>2. attempt[t] < adapter[t].attempts
        BY DEF Requested
      <4> QED  BY <4>1, <4>2
    <3> QED  BY <3>1
  <2>2. ASSUME NEW t \in Task PROVE attempt[t] < adapter[t].attempts /\ pos[t] \in 0..Size(body[t])
    BY SizesAre DEF Requested
  <2> QED  BY <2>1, <2>2 DEF ExecutionTypeOK
<1>2. ControlInv /\ RequestInv /\ TextInv => ExecutionInv
  BY <1>1 DEF ExecutionInv
<1> QED  BY <1>2, ControlInitial, ControlStep, RequestInitial, RequestStep, TextInitial, TextStep,
            PTL DEF ExecutionSpec

\* However a body is cut into reads and wherever a stream breaks, what is stored is one
\* reply as its provider wrote it, the end of one, or what became of its calls.
THEOREM OutputsAreWhole == ExecutionSpec => []OutputWhole
<1>1. ExecutionInv => OutputWhole
  BY DEF ExecutionInv, TextInv
<1> QED  BY <1>1, ExecutionInvariance, PTL

-----------------------------------------------------------------------------
(***************************************************************************)
(* What is handed on, when models think before they answer.                *)
(***************************************************************************)

\* Of the output of a succeeded task, the part without thinking is handed on.
LEMMA ContextIsOutput ==
    ASSUME ExecutionInv, NEW t \in Task, ReadContext(t), \A p \in Task : ThinksOnce(output[p]),
           NEW d \in DOMAIN told'[t]
    PROVE  /\ taskState[d] = "SUCCEEDED" /\ d \in Task
           /\ EndOf(told'[t][d], Response(output[d])) /\ Kind(told'[t][d], 1) # "think"
<1> DEFINE done == {d1 \in dependsOn[t] : taskState[d1] = "SUCCEEDED"}
           new == [d1 \in {e \in done : Usable(Handed(output[e]))} |-> Handed(output[d1])]
<1>1. told' = [told EXCEPT ![t] = new]
  BY DEF ReadContext
<1>2. told'[t] = new
  BY <1>1 DEF ExecutionInv, TextInv, TextTypeOK
<1>3. d \in done /\ Usable(Handed(output[d])) /\ told'[t][d] = Handed(output[d])
  BY <1>2
<1>4. taskState[d] = "SUCCEEDED" /\ d \in Task /\ output[d] \in Texts
  BY <1>3 DEF ExecutionInv, TextInv, TextTypeOK, RequestInv, RequestTypeOK
<1> HIDE DEF done, new
<1>5. EndOf(Handed(output[d]), Response(output[d])) /\ Kind(Handed(output[d]), 1) # "think"
  BY <1>3, <1>4, HandedIsEnd
<1> QED  BY <1>3, <1>4, <1>5

LEMMA ThinkingStep ==
    ASSUME ThinkingComesFirst, ExecutionInv, ExecutionInv', ThinkingInv,
           [ExecutionNext]_executionVars
    PROVE  ThinkingInv'
<1>1. CASE UNCHANGED executionVars
  BY <1>1 DEF executionVars, dbVars, replyVars, toolVars, ThinkingInv, ToldOfOutputs, HandedOn
<1>2. ASSUME NEW t \in Task, Step(t) PROVE ThinkingInv'
  <2>1. /\ ControlTypeOK /\ RunsItsTask(t) /\ Asks(t)
        /\ RequestTypeOK /\ Requested(t) /\ TextTypeOK /\ ReadSoFar(t)
    BY DEF ExecutionInv, ControlInv, RequestInv, TextInv
  <2>2. ASSUME NEW p \in Task PROVE ThinksOnce(content'[p])
    <3>1. Writes(t, content'[t])
      BY <1>2, <2>1, TextOwn
    <3>2. CASE p = t
      BY <3>1, <3>2 DEF Writes, ThinkingInv
    <3>3. CASE p # t
      BY <3>1, <3>3 DEF Writes, ThinkingInv, TextTypeOK, ExecutionInv, TextInv
    <3> QED  BY <3>2, <3>3
  <2>3. ASSUME NEW p \in Task PROVE ThinksOnce(output'[p])
    <3>1. output'[p] = output[p] \/ output'[p] = content[t]
      BY <1>2, <2>1, OutputMoves DEF TextTypeOK
    <3> QED  BY <3>1 DEF ThinkingInv
  <2>4. ASSUME NEW d \in Task, taskState[d] = "SUCCEEDED"
        PROVE  taskState'[d] = "SUCCEEDED" /\ output'[d] = output[d]
    <3>1. taskState'[d] = "SUCCEEDED"
      BY <1>2, <2>1, <2>4, SucceededStays
    <3>2. ~ (d = t /\ Finish(t))
      BY <2>1, <2>4 DEF Finish, RunsItsTask, Idle
    <3> QED  BY <1>2, <2>1, <3>1, <3>2, SucceededKeeps
  <2>5. ASSUME NEW p \in Task, NEW d \in DOMAIN told'[p]
        PROVE  /\ taskState'[d] = "SUCCEEDED"
               /\ EndOf(told'[p][d], Response(output'[d])) /\ Kind(told'[p][d], 1) # "think"
    <3>1. CASE told'[p] = told[p]
      <4>1. d \in Task /\ taskState[d] = "SUCCEEDED"
        BY <3>1 DEF ThinkingInv, ToldOfOutputs, ExecutionInv, TextInv, TextTypeOK, RequestInv,
                    RequestTypeOK
      <4>2. taskState'[d] = "SUCCEEDED" /\ output'[d] = output[d]
        BY <2>4, <4>1
      <4> QED  BY <3>1, <4>2 DEF ThinkingInv, HandedOn
    <3>2. CASE p = t /\ ReadContext(t)
      <4>1. /\ taskState[d] = "SUCCEEDED" /\ d \in Task
            /\ EndOf(told'[t][d], Response(output[d])) /\ Kind(told'[t][d], 1) # "think"
        BY <3>2, ContextIsOutput DEF ThinkingInv
      <4>2. taskState'[d] = "SUCCEEDED" /\ output'[d] = output[d]
        BY <2>4, <4>1
      <4> QED  BY <3>2, <4>1, <4>2
    <3>3. told'[p] = told[p] \/ (p = t /\ ReadContext(t)) \/ told'[p] = NothingTold
      BY <1>2, <2>1, OutputMoves DEF TextTypeOK, ReadContext
    <3>4. told'[p] # NothingTold
      BY DEF NothingTold
    <3> QED  BY <3>1, <3>2, <3>3, <3>4
  <2>6. ToldOfOutputs' /\ HandedOn'
    BY <2>5 DEF ToldOfOutputs, HandedOn
  <2> QED  BY <2>2, <2>3, <2>6 DEF ThinkingInv
<1> QED  BY <1>1, <1>2 DEF ExecutionNext, Step

LEMMA ThinkingInitial == ExecutionInit => ThinkingInv
<1> SUFFICES ASSUME ExecutionInit PROVE ThinkingInv
  OBVIOUS
<1>1. ThinksOnce(<< >>) /\ DOMAIN NothingTold = {}
  BY DEF ThinksOnce, NothingTold
<1> QED  BY <1>1 DEF ExecutionInit, ThinkingInv, ToldOfOutputs, HandedOn

\* An agent is told of the end of what another has written, and of none of its tagged
\* thinking, whatever happens to the other task meanwhile.
THEOREM OutputsAreHandedOn == ThinkingComesFirst => (ExecutionSpec => []HandedOn)
<1> SUFFICES ASSUME ThinkingComesFirst PROVE ExecutionSpec => []HandedOn
  OBVIOUS
<1>1. ExecutionInv /\ ExecutionInv' /\ ThinkingInv /\ [ExecutionNext]_executionVars => ThinkingInv'
  BY ThinkingStep
<1>2. ThinkingInv => HandedOn
  BY DEF ThinkingInv
<1> QED  BY <1>1, <1>2, ThinkingInitial, ExecutionInvariance, PTL DEF ExecutionSpec

=============================================================================
