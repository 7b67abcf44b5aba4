--------------------------- MODULE ChopInputProofs ---------------------------
(***************************************************************************)
(* Proofs about the lines chopclient reads, for any letters and commands,  *)
(* any buffer, however much is typed.                                      *)
(***************************************************************************)
EXTENDS ChopInput, ChopPacketProofs

-----------------------------------------------------------------------------
(* The lines of a text s: where each ends, and what is in it. *)

NL(s)        == {i \in 1..Len(s) : s[i] = LF}
Upto(s, p)   == {j \in NL(s) : j <= p}
EndOf(s, k)  == CHOOSE i \in NL(s) : Cardinality(Upto(s, i)) = k
StartOf(s, k) == IF k = 1 THEN 1 ELSE EndOf(s, k - 1) + 1
TextOf(s, k) == Stripped(SubSeq(s, StartOf(s, k), EndOf(s, k) - 1))

\* No line ends between the places a and b.
NoEnd(s, a, b) == \A i \in NL(s) : ~(a < i /\ i < b)

LEMMA UptoFinite ==
  ASSUME NEW s \in Seq(Chars), NEW p
  PROVE  /\ IsFiniteSet(NL(s)) /\ IsFiniteSet(Upto(s, p))
         /\ Cardinality(NL(s)) \in Nat /\ Cardinality(Upto(s, p)) \in Nat
         /\ Cardinality(Upto(s, p)) <= Cardinality(NL(s))
<1>1. Len(s) \in Nat
  OBVIOUS
<1>2. IsFiniteSet(1..Len(s))
  BY <1>1, FS_Interval
<1>3. NL(s) \in SUBSET (1..Len(s)) /\ Upto(s, p) \in SUBSET NL(s)
  BY DEF NL, Upto
<1>4. IsFiniteSet(NL(s))
  BY <1>2, <1>3, FS_Subset
<1> QED
  BY <1>3, <1>4, FS_Subset, FS_CardinalityType

\* One line end after another: one line more.
LEMMA UptoNext ==
  ASSUME NEW s \in Seq(Chars), NEW t \in 0..Len(s), NEW p \in NL(s), t < p,
         NoEnd(s, t, p)
  PROVE  Cardinality(Upto(s, p)) = Cardinality(Upto(s, t)) + 1
<1>1. Len(s) \in Nat /\ NL(s) \subseteq 1..Len(s)
  BY DEF NL
<1>2. Upto(s, p) = Upto(s, t) \cup {p}
  BY <1>1 DEF Upto, NoEnd
<1>3. p \notin Upto(s, t)
  BY <1>1 DEF Upto
<1> QED
  BY <1>2, <1>3, UptoFinite, FS_AddElement

LEMMA UptoZero ==
  ASSUME NEW s \in Seq(Chars)
  PROVE  Cardinality(Upto(s, 0)) = 0
<1>1. Upto(s, 0) = {}
  BY DEF Upto, NL
<1> QED
  BY <1>1, FS_EmptySet

LEMMA UptoGrows ==
  ASSUME NEW s \in Seq(Chars), NEW q \in NL(s), NEW p \in NL(s), q < p
  PROVE  Cardinality(Upto(s, q)) < Cardinality(Upto(s, p))
<1>1. Len(s) \in Nat /\ NL(s) \subseteq 1..Len(s)
  BY DEF NL
<1>2. Upto(s, q) \in SUBSET Upto(s, p) /\ p \in Upto(s, p) /\ p \notin Upto(s, q)
  BY <1>1 DEF Upto
<1>3. /\ Cardinality(Upto(s, q)) <= Cardinality(Upto(s, p))
      /\ Cardinality(Upto(s, p)) = Cardinality(Upto(s, q)) => Upto(s, p) = Upto(s, q)
  BY <1>2, UptoFinite, FS_Subset
<1>4. Cardinality(Upto(s, q)) \in Nat /\ Cardinality(Upto(s, p)) \in Nat
  BY UptoFinite
<1> QED
  BY <1>2, <1>3, <1>4

LEMMA EndOfIs ==
  ASSUME NEW s \in Seq(Chars), NEW p \in NL(s)
  PROVE  EndOf(s, Cardinality(Upto(s, p))) = p
<1> DEFINE k == Cardinality(Upto(s, p))
<1>1. \A i \in NL(s) : i \in Nat
  BY DEF NL
<1>2. ASSUME NEW i \in NL(s), Cardinality(Upto(s, i)) = k PROVE i = p
  <2>1. i \in Nat /\ p \in Nat /\ k \in Nat
    BY <1>1, UptoFinite
  <2>2. ~(i < p)
    <3> SUFFICES ASSUME i < p PROVE FALSE
      OBVIOUS
    <3>1. Cardinality(Upto(s, i)) < Cardinality(Upto(s, p))
      BY UptoGrows
    <3> QED
      BY <1>2, <2>1, <3>1
  <2>3. ~(p < i)
    <3> SUFFICES ASSUME p < i PROVE FALSE
      OBVIOUS
    <3>1. Cardinality(Upto(s, p)) < Cardinality(Upto(s, i))
      BY UptoGrows
    <3> QED
      BY <1>2, <2>1, <3>1
  <2> QED
    BY <2>1, <2>2, <2>3
<1>3. \E i \in NL(s) : Cardinality(Upto(s, i)) = k
  OBVIOUS
<1>4. EndOf(s, k) \in NL(s) /\ Cardinality(Upto(s, EndOf(s, k))) = k
  <2> HIDE DEF k
  <2> QED
    BY <1>3 DEF EndOf
<1> QED
  BY <1>2, <1>4

\* Every line that is complete has its end.
LEMMA EndExists ==
  ASSUME NEW s \in Seq(Chars), NEW k \in 1..Cardinality(NL(s))
  PROVE  /\ EndOf(s, k) \in NL(s)
         /\ Cardinality(Upto(s, EndOf(s, k))) = k
<1> DEFINE C(m) == Cardinality(Upto(s, m))
           Good(m) == \A j \in 1..C(m) : \E p \in NL(s) : C(p) = j
           U == {m \in Nat : m <= Len(s) => Good(m)}
<1>1. Len(s) \in Nat /\ NL(s) \subseteq 1..Len(s)
  BY DEF NL
<1>2. 0 \in U
  BY UptoZero
<1>3. ASSUME NEW m \in U PROVE m + 1 \in U
  <2> SUFFICES ASSUME m + 1 <= Len(s), NEW j \in 1..C(m + 1)
               PROVE  \E p \in NL(s) : C(p) = j
    OBVIOUS
  <2>1. m \in Nat /\ m <= Len(s) /\ Good(m) /\ m \in 0..Len(s)
    BY <1>1
  <2>2. C(m) \in Nat /\ C(m + 1) \in Nat
    BY UptoFinite
  <2>3. CASE m + 1 \in NL(s)
    <3>1. NoEnd(s, m, m + 1)
      BY <1>1, <2>1 DEF NoEnd
    <3>2. C(m + 1) = C(m) + 1
      BY <2>1, <2>3, <3>1, UptoNext
    <3>3. j \in 1..C(m) \/ j = C(m + 1)
      BY <2>2, <3>2
    <3> QED
      BY <2>1, <2>3, <3>3
  <2>4. CASE m + 1 \notin NL(s)
    <3>1. Upto(s, m + 1) = Upto(s, m)
      BY <1>1, <2>1, <2>4 DEF Upto
    <3> QED
      BY <2>1, <3>1
  <2> QED
    BY <2>3, <2>4
<1>4. U = Nat
  <2> HIDE DEF U
  <2>1. U \subseteq Nat
    BY DEF U
  <2> QED
    BY <1>2, <1>3, <2>1, Ind
<1>5. Good(Len(s))
  <2>1. Len(s) \in U
    BY <1>1, <1>4
  <2> QED
    BY <1>1, <2>1
<1>6. Upto(s, Len(s)) = NL(s)
  BY <1>1 DEF Upto
<1>7. PICK p \in NL(s) : Cardinality(Upto(s, p)) = k
  BY <1>5, <1>6
<1> QED
  BY <1>7, EndOfIs

\* What is typed later changes none of the lines there are.
LEMMA LinesStay ==
  ASSUME NEW s \in Seq(Chars), NEW c \in Chars
  PROVE  /\ Cardinality(NL(Append(s, c))) >= Cardinality(NL(s))
         /\ Cardinality(NL(Append(s, c))) \in Nat
         /\ \A k \in 1..Cardinality(NL(s)) : /\ EndOf(Append(s, c), k) = EndOf(s, k)
                                             /\ TextOf(Append(s, c), k) = TextOf(s, k)
<1> DEFINE r == Append(s, c)
           n == Len(s)
<1>1. /\ n \in Nat /\ r \in Seq(Chars) /\ Len(r) = n + 1
      /\ \A i \in 1..n : r[i] = s[i]
  BY AppendProperties
<1> HIDE DEF r
<1>2. NL(s) \in SUBSET NL(r) /\ NL(s) \subseteq 1..n /\ \A i \in NL(r) : i \in 1..n => i \in NL(s)
  BY <1>1 DEF NL
<1>3. /\ Cardinality(NL(r)) >= Cardinality(NL(s))
      /\ Cardinality(NL(r)) \in Nat /\ Cardinality(NL(s)) \in Nat
  <2>1. IsFiniteSet(NL(r)) /\ Cardinality(NL(r)) \in Nat /\ Cardinality(NL(s)) \in Nat
    BY <1>1, UptoFinite
  <2>2. Cardinality(NL(s)) <= Cardinality(NL(r))
    BY <1>2, <2>1, FS_Subset
  <2> QED
    BY <2>1, <2>2
<1>4. ASSUME NEW k \in 1..Cardinality(NL(s))
      PROVE  EndOf(r, k) = EndOf(s, k) /\ EndOf(s, k) \in 1..n
  <2> DEFINE p == EndOf(s, k)
  <2>1. p \in NL(s) /\ Cardinality(Upto(s, p)) = k
    BY EndExists
  <2> HIDE DEF p
  <2>2. p \in NL(r) /\ p \in 1..n
    BY <1>2, <2>1
  <2>3. Upto(r, p) = Upto(s, p)
    <3>1. NL(r) \subseteq Nat \ {0}
      BY <1>1 DEF NL
    <3>2. \A i \in NL(r) : i <= p => i \in 1..n
      BY <1>1, <2>2, <3>1
    <3> QED
      BY <1>2, <3>2 DEF Upto
  <2>4. EndOf(r, Cardinality(Upto(r, p))) = p
    BY <1>1, <2>2, EndOfIs
  <2> QED
    BY <2>1, <2>2, <2>3, <2>4 DEF p
<1>5. ASSUME NEW k \in 1..Cardinality(NL(s))
      PROVE  TextOf(r, k) = TextOf(s, k)
  <2>1. EndOf(r, k) = EndOf(s, k) /\ EndOf(s, k) \in 1..n
    BY <1>4
  <2>2. StartOf(r, k) = StartOf(s, k) /\ StartOf(s, k) \in Nat \ {0}
    <3>1. CASE k = 1
      BY <3>1 DEF StartOf
    <3>2. CASE k # 1
      <4>1. k - 1 \in 1..Cardinality(NL(s))
        BY <1>3, <3>2
      <4>2. EndOf(r, k - 1) = EndOf(s, k - 1) /\ EndOf(s, k - 1) \in 1..n
        BY <1>4, <4>1
      <4> QED
        BY <3>2, <4>2 DEF StartOf
    <3> QED
      BY <3>1, <3>2
  <2> DEFINE a == StartOf(s, k)
             b == EndOf(s, k) - 1
  <2>3. a \in Nat \ {0} /\ b \in Nat /\ b < n
    BY <1>1, <2>1, <2>2
  <2> HIDE DEF a, b
  <2>4. SubSeq(r, a, b) = SubSeq(s, a, b)
    <3>1. \A i \in 1..(b - a) + 1 : (a + i) - 1 \in 1..n /\ r[(a + i) - 1] = s[(a + i) - 1]
      BY <1>1, <2>3
    <3> QED
      BY <1>1, <2>3, <3>1
  <2> QED
    BY <2>1, <2>2, <2>4 DEF TextOf, a, b
<1> QED
  BY <1>3, <1>4, <1>5 DEF r

\* The first end after t is that of the line that t is in.
LEMMA LineFrom ==
  ASSUME NEW s \in Seq(Chars), NEW p \in NL(s), NEW t \in 0..Len(s), t < p,
         NoEnd(s, t, p), t = 0 \/ t \in NL(s)
  PROVE  LET k == Cardinality(Upto(s, p))
         IN  /\ k \in 1..Cardinality(NL(s))
             /\ StartOf(s, k) = t + 1 /\ EndOf(s, k) = p
             /\ k = Cardinality(Upto(s, t)) + 1
<1> DEFINE k == Cardinality(Upto(s, p))
           j == Cardinality(Upto(s, t))
<1>1. k = j + 1
  BY UptoNext
<1>2. j \in Nat /\ k \in Nat /\ k <= Cardinality(NL(s)) /\ Cardinality(NL(s)) \in Nat
  BY UptoFinite
<1>3. EndOf(s, k) = p
  BY EndOfIs
<1>4. CASE t = 0
  <2>1. j = 0
    BY <1>4, UptoZero
  <2> HIDE DEF j, k
  <2>2. k = 1
    BY <1>1, <2>1
  <2>3. StartOf(s, k) = 1
    BY <2>2 DEF StartOf
  <2> QED
    BY <1>1, <1>2, <1>3, <1>4, <2>3 DEF j, k
<1>5. CASE t # 0
  <2>1. t \in NL(s)
    BY <1>5
  <2>2. EndOf(s, j) = t
    BY <2>1, EndOfIs
  <2>3. t \in Upto(s, t) /\ IsFiniteSet(Upto(s, t))
    <3>1. t <= t
      BY <2>1 DEF NL
    <3> QED
      BY <2>1, <3>1, UptoFinite DEF Upto
  <2>4. j # 0
    BY <2>3, FS_EmptySet
  <2> HIDE DEF j, k
  <2>5. k # 1 /\ k - 1 = j
    BY <1>1, <1>2, <2>4
  <2>6. StartOf(s, k) = t + 1
    BY <2>2, <2>5 DEF StartOf
  <2> QED
    BY <1>1, <1>2, <1>3, <2>6 DEF j, k
<1> QED
  BY <1>4, <1>5

\* Where the line begins that t is in.
LEMMA LineBegins ==
  ASSUME NEW s \in Seq(Chars), NEW p \in NL(s), NEW t \in 0..Len(s), t < p,
         NoEnd(s, t, p)
  PROVE  \E q \in 0..t : NoEnd(s, q, p) /\ (q = 0 \/ q \in NL(s))
<1>1. Len(s) \in Nat /\ NL(s) \subseteq 1..Len(s)
  BY DEF NL
<1> DEFINE S == {0} \cup Upto(s, t)
<1>2. S \in SUBSET (0..t) /\ S # {} /\ t \in Nat
  BY <1>1 DEF Upto
<1>3. Max(S) \in S /\ \A y \in S : Max(S) >= y
  <2> HIDE DEF S
  <2> QED
    BY <1>2, Largest
<1> DEFINE q == Max(S)
<1>4. q \in 0..t /\ (q = 0 \/ q \in NL(s))
  BY <1>2, <1>3 DEF Upto
<1>5. NoEnd(s, q, p)
  <2> SUFFICES ASSUME NEW i \in NL(s), q < i, i < p PROVE FALSE
    BY DEF NoEnd
  <2>1. ~(t < i) /\ i \in Nat
    BY <1>1 DEF NoEnd
  <2>2. i \in S
    BY <1>2, <2>1 DEF Upto
  <2>3. q \in Nat /\ q >= i
    BY <1>2, <1>3, <1>4, <2>2
  <2> HIDE DEF q
  <2> QED
    BY <2>1, <2>3
<1> QED
  BY <1>4, <1>5

-----------------------------------------------------------------------------
(* Ends of texts. *)

LEMMA Piece ==
  ASSUME NEW X, NEW s \in Seq(X), NEW a \in Nat, NEW b \in Nat, a <= b, b <= Len(s)
  PROVE  /\ SubSeq(s, a + 1, b) \in Seq(X)
         /\ Len(SubSeq(s, a + 1, b)) = b - a
         /\ \A i \in 1..b - a : SubSeq(s, a + 1, b)[i] = s[a + i]
<1>1. Len(s) \in Nat
  OBVIOUS
<1> DEFINE m == b - a
<1>2. m \in Nat /\ (b - (a + 1)) + 1 = m /\ \A i \in 1..m : ((a + 1) + i) - 1 = a + i
  OBVIOUS
<1>3. \A i \in 1..m : a + i \in 1..Len(s)
  BY <1>1
<1> DEFINE u == [i \in 1..m |-> s[a + i]]
<1>4. u \in Seq(X) /\ Len(u) = m
  BY <1>2, <1>3
<1>5. SubSeq(s, a + 1, b) = u
  BY <1>1, <1>2, <1>3
<1> QED
  BY <1>4, <1>5

LEMMA Beginning ==
  ASSUME NEW X, NEW s \in Seq(X), NEW b \in Nat, b <= Len(s)
  PROVE  /\ SubSeq(s, 1, b) \in Seq(X)
         /\ Len(SubSeq(s, 1, b)) = b
         /\ \A i \in 1..b : SubSeq(s, 1, b)[i] = s[i]
<1>1. Len(s) \in Nat /\ \A i \in 1..b : i \in 1..Len(s)
  OBVIOUS
<1> DEFINE u == [i \in 1..b |-> s[i]]
<1>2. u \in Seq(X) /\ Len(u) = b
  BY <1>1
<1>3. SubSeq(s, 1, b) = u
  BY <1>1
<1> QED
  BY <1>2, <1>3

\* t is what s ends with.
Ending(t, s) == /\ Len(t) <= Len(s)
                /\ \A i \in 0..Len(t) - 1 : t[Len(t) - i] = s[Len(s) - i]

LEMMA EndingIsSuffix ==
  ASSUME NEW X, NEW s \in Seq(X), NEW t \in Seq(X), Ending(t, s)
  PROVE  IsSuffix(t, s)
<1> DEFINE m == Len(t)
           n == Len(s)
<1>1. m \in Nat /\ n \in Nat /\ m <= n
  BY DEF Ending
<1>2. \A i \in 1..m : (m - i) + 1 \in 1..m /\ (n - i) + 1 \in 1..n
  BY <1>1
<1>3. \A i \in 1..n : (n - i) + 1 \in 1..n
  BY <1>1
<1>4. \A i \in 1..m : t[(m - i) + 1] = s[(n - i) + 1]
  <2> SUFFICES ASSUME NEW i \in 1..m PROVE t[(m - i) + 1] = s[(n - i) + 1]
    OBVIOUS
  <2>1. i - 1 \in 0..m - 1 /\ m - (i - 1) = (m - i) + 1 /\ n - (i - 1) = (n - i) + 1
    BY <1>1
  <2>2. t[m - (i - 1)] = s[n - (i - 1)]
    BY <2>1 DEF Ending
  <2> QED
    BY <2>1, <2>2
<1> DEFINE T == Reverse(t)
           S == Reverse(s)
<1>5. T \in Seq(X) /\ Len(T) = m /\ \A i \in 1..m : T[i] = t[(m - i) + 1]
  BY <1>1, <1>2 DEF Reverse
<1>6. S \in Seq(X) /\ Len(S) = n /\ \A i \in 1..n : S[i] = s[(n - i) + 1]
  BY <1>1, <1>3 DEF Reverse
<1> HIDE DEF T, S, m, n
<1>7. \A i \in 1..m : T[i] = S[i]
  <2> SUFFICES ASSUME NEW i \in 1..m PROVE T[i] = S[i]
    OBVIOUS
  <2>1. i \in 1..n
    BY <1>1
  <2>2. T[i] = t[(m - i) + 1] /\ S[i] = s[(n - i) + 1]
    BY <1>5, <1>6, <2>1
  <2> QED
    BY <1>4, <2>2
<1>8. SubSeq(T, 1, m) = SubSeq(S, 1, m)
  <2> DEFINE u == SubSeq(T, 1, m)
             w == SubSeq(S, 1, m)
  <2>1. u \in Seq(X) /\ Len(u) = m /\ \A i \in 1..m : u[i] = T[i]
    BY <1>1, <1>5, Beginning
  <2>2. w \in Seq(X) /\ Len(w) = m /\ \A i \in 1..m : w[i] = S[i]
    BY <1>1, <1>6, Beginning
  <2> HIDE DEF u, w
  <2>3. u = w
    BY <1>7, <2>1, <2>2, SeqEqual
  <2> QED
    BY <2>3 DEF u, w
<1> QED
  BY <1>1, <1>5, <1>6, <1>8 DEF IsSuffix, IsPrefix, T, S, m, n

LEMMA StrippedType ==
  ASSUME NEW s \in Seq(Chars)
  PROVE  Stripped(s) \in Seq(Chars)
BY DEF Stripped, Front, Last

\* Without the newline, the end of a text is the end of the text without it.
LEMMA StrippedEnding ==
  ASSUME NEW s \in Seq(Chars), NEW t \in Seq(Chars), Ending(t, s)
  PROVE  IsSuffix(Stripped(t), Stripped(s))
<1> DEFINE m == Len(t)
           n == Len(s)
<1>1. m \in Nat /\ n \in Nat /\ m <= n /\ \A i \in 0..m - 1 : t[m - i] = s[n - i]
  BY DEF Ending
<1>2. t # <<>> <=> m # 0
  OBVIOUS
<1>3. s # <<>> <=> n # 0
  OBVIOUS
<1>4. CASE m = 0
  <2>1. t = <<>> /\ Stripped(t) = <<>>
    BY <1>2, <1>4 DEF Stripped
  <2>2. Stripped(s) \in Seq(Chars)
    BY StrippedType
  <2>3. Ending(Stripped(t), Stripped(s))
    BY <2>1, <2>2 DEF Ending
  <2> QED
    BY <2>1, <2>2, <2>3, EndingIsSuffix, StrippedType
<1>5. CASE m # 0 /\ Last(t) = CR
  <2>1. t[m] = s[n]
    <3>1. 0 \in 0..m - 1 /\ m - 0 = m /\ n - 0 = n
      BY <1>1, <1>5
    <3> QED
      BY <1>1, <3>1
  <2>2. Stripped(t) = SubSeq(t, 1, m - 1) /\ Stripped(s) = SubSeq(s, 1, n - 1)
    BY <1>1, <1>2, <1>3, <1>5, <2>1 DEF Stripped, Front, Last
  <2> DEFINE T == SubSeq(t, 1, m - 1)
             S == SubSeq(s, 1, n - 1)
  <2>3. /\ T \in Seq(Chars) /\ Len(T) = m - 1 /\ \A i \in 1..m - 1 : T[i] = t[i]
        /\ S \in Seq(Chars) /\ Len(S) = n - 1 /\ \A i \in 1..n - 1 : S[i] = s[i]
    <3>1. m - 1 \in Nat /\ n - 1 \in Nat /\ m - 1 <= m /\ n - 1 <= n
      BY <1>1, <1>5
    <3>2. T \in Seq(Chars) /\ Len(T) = m - 1 /\ \A i \in 1..m - 1 : T[i] = t[i]
      BY <3>1, Beginning
    <3>3. S \in Seq(Chars) /\ Len(S) = n - 1 /\ \A i \in 1..n - 1 : S[i] = s[i]
      BY <3>1, Beginning
    <3> QED
      BY <3>2, <3>3
  <2> HIDE DEF T, S, m, n
  <2>4. \A i \in 0..(m - 1) - 1 : T[(m - 1) - i] = S[(n - 1) - i]
    <3> SUFFICES ASSUME NEW i \in 0..(m - 1) - 1 PROVE T[(m - 1) - i] = S[(n - 1) - i]
      OBVIOUS
    <3>1. i + 1 \in 0..m - 1 /\ m - (i + 1) = (m - 1) - i /\ n - (i + 1) = (n - 1) - i
      BY <1>1, <1>5
    <3>2. (m - 1) - i \in 1..m - 1 /\ (n - 1) - i \in 1..n - 1
      BY <1>1, <1>5
    <3>3. t[m - (i + 1)] = s[n - (i + 1)]
      BY <1>1, <3>1
    <3> QED
      BY <2>3, <3>1, <3>2, <3>3
  <2>5. Ending(T, S)
    BY <1>1, <1>5, <2>3, <2>4 DEF Ending
  <2>6. IsSuffix(T, S)
    BY <2>3, <2>5, EndingIsSuffix
  <2> QED
    BY <2>2, <2>6 DEF T, S
<1>6. CASE m # 0 /\ Last(t) # CR
  <2>1. t[m] = s[n]
    <3>1. 0 \in 0..m - 1 /\ m - 0 = m /\ n - 0 = n
      BY <1>1, <1>6
    <3> QED
      BY <1>1, <3>1
  <2>2. Stripped(t) = t /\ Stripped(s) = s
    BY <1>1, <1>2, <1>3, <1>6, <2>1 DEF Stripped, Last
  <2> QED
    BY <2>2, EndingIsSuffix
<1> QED
  BY <1>4, <1>5, <1>6

-----------------------------------------------------------------------------
(* One read. *)

Contents == Chars \cup {NUL, Junk}

LEMMA CharsDiffer ==
  NUL \notin Chars /\ Junk \notin Chars /\ LF \in Chars /\ CR \in Chars
BY InputAssumption DEF Chars, LF, CR, NUL, Junk

\* The string in a buffer, when the first NUL of it is at m.
LEMMA CStringIs ==
  ASSUME NEW b \in [0..BUF -> Contents], NEW m \in 0..BUF, b[m] = NUL,
         \A i \in 0..BUF : i < m => b[i] # NUL
  PROVE  CString(b) = [i \in 1..m |-> b[i - 1]]
<1> DEFINE S == {i \in DOMAIN b : b[i] = NUL} \cup {Cardinality(DOMAIN b)}
<1>1. BUF \in Nat
  BY InputAssumption
<1>2. DOMAIN b = 0..BUF /\ Cardinality(0..BUF) = BUF + 1
  BY <1>1, FS_Interval
<1>3. /\ S \in SUBSET (0..BUF + 1) /\ BUF + 1 \in Nat /\ m \in S
      /\ \A i \in S : (i \in 0..BUF /\ b[i] = NUL) \/ i = BUF + 1
  BY <1>1, <1>2
<1>4. CString(b) = [i \in 1..Min(S) |-> b[i - 1]]
  BY DEF CString
<1> HIDE DEF S
<1>5. Min(S) \in S /\ \A y \in S : Min(S) <= y
  BY <1>3, Smallest
<1> DEFINE k == Min(S)
<1>6. k = m
  <2>1. k \in S /\ k <= m
    BY <1>3, <1>5
  <2>2. k \in Nat /\ m \in Nat /\ m <= BUF
    <3>1. m \in Nat /\ m <= BUF
      BY <1>1
    <3>2. k \in 0..BUF + 1
      BY <1>3, <2>1
    <3> HIDE DEF k
    <3> QED
      BY <1>1, <3>1, <3>2
  <2> HIDE DEF k
  <2>3. k \in 0..BUF /\ b[k] = NUL
    BY <1>1, <1>3, <2>1, <2>2
  <2>4. ~(k < m)
    BY <2>3
  <2> QED
    BY <2>1, <2>2, <2>4
<1> QED
  BY <1>4, <1>6

LEMMA FoundIs ==
  ASSUME NEW b \in [0..BUF -> Contents], NEW n \in 1..BUF, IsLine(b, n)
  PROVE  /\ find_newline(b, n) \in 0..n - 1
         /\ b[find_newline(b, n)] = LF
         /\ \A i \in 0..n - 1 : b[i] = LF => find_newline(b, n) <= i
<1> DEFINE S == {i \in 0..n - 1 : b[i] = LF}
<1>1. BUF \in Nat /\ n - 1 \in Nat
  BY InputAssumption
<1>2. S \in SUBSET (0..n - 1)
  OBVIOUS
<1>3. \E i \in 0..n - 1 : b[i] = LF
  BY DEF IsLine, find_newline
<1>4. S # {} /\ find_newline(b, n) = Min(S)
  BY <1>3 DEF find_newline
<1>5. Min(S) \in S /\ \A y \in S : Min(S) <= y
  <2> HIDE DEF S
  <2> QED
    BY <1>1, <1>2, <1>4, Smallest
<1>6. \A i \in 0..n - 1 : b[i] = LF => i \in S
  OBVIOUS
<1>7. \A i \in S : i \in 0..n - 1 /\ b[i] = LF
  OBVIOUS
<1> HIDE DEF S
<1> QED
  BY <1>4, <1>5, <1>6, <1>7

LEMMA RemovedType ==
  ASSUME NEW b \in [0..BUF -> Contents], NEW n
  PROVE  remove_newline(b, n) \in [0..BUF -> Contents]
<1>1. NUL \in Contents
  BY DEF Contents
<1> QED
  BY <1>1 DEF remove_newline

\* What is understood of a line: what is in it up to the newline, whatever
\* the buffer holds behind it.
LEMMA LineUnderstood ==
  ASSUME NEW b \in [0..BUF -> Contents], NEW n \in 1..BUF, IsLine(b, n),
         \A i \in 0..n - 1 : b[i] \in Chars
  PROVE  LET e == find_newline(b, n)
         IN  CString(remove_newline(b, n)) = Stripped([i \in 1..e |-> b[i - 1]])
<1> DEFINE e == find_newline(b, n)
           c == remove_newline(b, n)
           s == [i \in 1..e |-> b[i - 1]]
           m == IF e # 0 /\ b[e - 1] = CR THEN e - 1 ELSE e
<1>1. BUF \in Nat /\ n \in Nat /\ n <= BUF
  BY InputAssumption
<1>2. e \in 0..n - 1 /\ \A i \in 0..n - 1 : b[i] = LF => e <= i
  BY FoundIs
<1>3. c \in [0..BUF -> Contents]
  BY RemovedType
<1>4. \A i \in 0..BUF : c[i] = IF i = e \/ (i = e - 1 /\ b[i] = CR) THEN NUL ELSE b[i]
  BY DEF remove_newline
<1> HIDE DEF e, c
<1>5. e \in Nat /\ e \in 0..BUF /\ e < n
  BY <1>1, <1>2
<1>6. s \in Seq(Chars) /\ Len(s) = e
  <2>1. \A i \in 1..e : i - 1 \in 0..n - 1
    BY <1>1, <1>5
  <2> QED
    BY <1>5, <2>1
<1>7. m \in 0..BUF /\ c[m] = NUL /\ m <= e /\ (m = e \/ m = e - 1)
  <2>1. CASE e # 0 /\ b[e - 1] = CR
    <3>1. e # 0
      BY <2>1
    <3>2. e - 1 \in 0..BUF
      BY <1>1, <1>5, <3>1
    <3> QED
      BY <1>4, <1>5, <2>1, <3>2
  <2>2. CASE ~(e # 0 /\ b[e - 1] = CR)
    BY <1>4, <1>5, <2>2
  <2> QED
    BY <2>1, <2>2
<1>8. ASSUME NEW i \in 0..BUF, i < m PROVE c[i] # NUL /\ c[i] = b[i]
  <2>1. i # e /\ ~(i = e - 1 /\ b[i] = CR) /\ i \in 0..n - 1
    <3>1. CASE e # 0 /\ b[e - 1] = CR
      BY <1>1, <1>5, <1>8, <3>1
    <3>2. CASE ~(e # 0 /\ b[e - 1] = CR)
      BY <1>1, <1>5, <1>8, <3>2
    <3> QED
      BY <3>1, <3>2
  <2>2. c[i] = b[i] /\ b[i] \in Chars
    BY <1>4, <2>1
  <2> QED
    BY <2>2, CharsDiffer
<1>9. CString(c) = [i \in 1..m |-> c[i - 1]]
  <2> HIDE DEF m
  <2> QED
    BY <1>3, <1>7, <1>8, CStringIs
<1>10. [i \in 1..m |-> c[i - 1]] = [i \in 1..m |-> b[i - 1]]
  <2>1. \A i \in 1..m : i - 1 \in 0..BUF /\ i - 1 < m
    <3> HIDE DEF m
    <3> QED
      BY <1>1, <1>7
  <2>2. \A i \in 1..m : c[i - 1] = b[i - 1]
    <3> HIDE DEF m
    <3> QED
      BY <1>8, <2>1
  <2> QED
    BY <2>2
<1>11. CASE e # 0 /\ b[e - 1] = CR
  <2>1. m = e - 1 /\ e - 1 \in Nat
    BY <1>5, <1>11
  <2>2. s # <<>> /\ Last(s) = CR
    <3>1. s[e] = b[e - 1]
      BY <1>5, <1>11
    <3> QED
      BY <1>6, <1>11, <3>1 DEF Last
  <2>3. Front(s) = [i \in 1..e - 1 |-> s[i]]
    BY <1>5, <1>6, <2>1 DEF Front
  <2>4. Front(s) = [i \in 1..m |-> b[i - 1]]
    <3>1. \A i \in 1..e - 1 : s[i] = b[i - 1]
      BY <1>5
    <3> HIDE DEF s
    <3> QED
      BY <2>1, <2>3, <3>1
  <2> HIDE DEF s, m
  <2> QED
    BY <1>9, <1>10, <2>2, <2>4 DEF Stripped, c, e, s
<1>12. CASE ~(e # 0 /\ b[e - 1] = CR)
  <2>1. m = e
    BY <1>12
  <2>2. ~(s # <<>> /\ Last(s) = CR)
    <3> SUFFICES ASSUME s # <<>> PROVE Last(s) # CR
      OBVIOUS
    <3>1. e # 0
      <4> SUFFICES ASSUME e = 0 PROVE s = <<>>
        OBVIOUS
      <4> QED
        BY <1>6
    <3>2. s[e] = b[e - 1]
      BY <1>5, <3>1
    <3> QED
      BY <1>6, <1>12, <3>1, <3>2 DEF Last
  <2> QED
    BY <1>9, <1>10, <2>1, <2>2 DEF Stripped, c, e
<1> QED
  BY <1>11, <1>12 DEF e

-----------------------------------------------------------------------------
(* The invariant. *)

Made == [command : Commands] \cup [text : [0..BUF -> Contents]]

InputTyped ==
  /\ typed \in Seq(Chars) /\ taken \in 0..Len(typed)
  /\ buffer \in [0..BUF -> Contents]
  /\ sent \in Seq(Made)

\* From a terminal, a line is read from where it begins.
AtLine ==
  stdin = "terminal" /\ pc = "loop" =>
    IF sent = <<>> THEN taken = 0
    ELSE taken \in NL(typed) /\ Cardinality(Upto(typed, taken)) = Len(sent)

InputInv == InputTyped /\ AtLine /\ LinesArrive /\ NothingMadeUp

LEMMA SameLines ==
  /\ Newlines = NL(typed)
  /\ \A k : Line(k) = TextOf(typed, k)
<1>1. Newlines = NL(typed)
  BY DEF Newlines, NL
<1>2. \A k : LineEnd(k) = EndOf(typed, k)
  BY <1>1, Zenon DEF LineEnd, EndOf, Upto
<1>3. \A k : LineStart(k) = StartOf(typed, k)
  BY <1>2 DEF LineStart, StartOf
<1> QED
  BY <1>1, <1>2, <1>3 DEF Line, TextOf

LEMMA SameLinesNext ==
  /\ Newlines' = NL(typed')
  /\ \A k : Line(k)' = TextOf(typed', k)
<1>1. Newlines' = NL(typed')
  BY DEF Newlines, NL
<1>2. \A k : LineEnd(k)' = EndOf(typed', k)
  BY <1>1, Zenon DEF LineEnd, EndOf, Upto
<1>3. \A k : LineStart(k)' = StartOf(typed', k)
  BY <1>2 DEF LineStart, StartOf
<1> QED
  BY <1>1, <1>2, <1>3 DEF Line, TextOf

\* What is made of a buffer.
LEMMA PacketMade ==
  ASSUME NEW b \in [0..BUF -> Contents]
  PROVE  /\ PacketOf(b) \in Made
         /\ Meant(PacketOf(b)) = CString(b)
         /\ IsCommand(PacketOf(b)) <=> CString(b) \in Commands
<1>1. CASE CString(b) \in Commands
  <2>1. PacketOf(b) = [command |-> CString(b)]
    BY <1>1 DEF PacketOf
  <2>2. IsCommand(PacketOf(b))
    BY <2>1 DEF IsCommand
  <2>3. PacketOf(b) \in Made
    BY <1>1, <2>1 DEF Made
  <2> QED
    BY <1>1, <2>1, <2>2, <2>3 DEF Meant
<1>2. CASE CString(b) \notin Commands
  <2>1. PacketOf(b) = [text |-> b]
    BY <1>2 DEF PacketOf
  <2>2. ~IsCommand(PacketOf(b))
    BY <2>1 DEF IsCommand
  <2>3. PacketOf(b) \in Made
    BY <2>1 DEF Made
  <2>4. PacketOf(b).text = b /\ "command" \notin DOMAIN PacketOf(b)
    BY <2>1
  <2> QED
    BY <1>2, <2>2, <2>3, <2>4 DEF Meant
<1> QED
  BY <1>1, <1>2

LEMMA FilledIs ==
  ASSUME InputTyped, NEW n \in 1..BUF, MayRead(n)
  PROVE  /\ Filled(n) \in [0..BUF -> Contents]
         /\ taken + n <= Len(typed)
         /\ Len(Left) = Len(typed) - taken
         /\ \A i \in 0..n - 1 : /\ Filled(n)[i] = typed[taken + i + 1]
                                /\ Filled(n)[i] = Left[i + 1]
                                /\ Filled(n)[i] \in Chars
<1>1. BUF \in Nat /\ Len(typed) \in Nat /\ taken \in Nat /\ taken <= Len(typed)
  BY InputAssumption DEF InputTyped
<1>2. typed \in Seq(Chars) /\ buffer \in [0..BUF -> Contents]
  BY DEF InputTyped
<1>3. /\ Left \in Seq(Chars) /\ Len(Left) = Len(typed) - taken
      /\ \A i \in 1..Len(typed) - taken : Left[i] = typed[taken + i]
  BY <1>1, <1>2, Piece DEF Left
<1>4. n \in 1..Len(Left)
  BY DEF MayRead
<1>5. taken + n <= Len(typed) /\ n \in Nat /\ n <= Len(typed) - taken
  BY <1>1, <1>3, <1>4
<1>6. \A i \in 0..n - 1 : /\ i + 1 \in 1..Len(Left) /\ i \in 0..BUF /\ i < n
                          /\ taken + (i + 1) = taken + i + 1
  BY <1>1, <1>3, <1>5
<1>7. \A i \in 0..BUF : Filled(n)[i] = IF i < n THEN Left[i + 1]
                                       ELSE IF i = BUF THEN NUL ELSE buffer[i]
  BY DEF Filled
<1>8. \A i \in 0..n - 1 : Filled(n)[i] = Left[i + 1] /\ Left[i + 1] = typed[taken + i + 1]
  BY <1>3, <1>6, <1>7
<1>9. \A i \in 0..n - 1 : Left[i + 1] \in Chars
  BY <1>3, <1>6
<1>10. ASSUME NEW i \in 0..BUF PROVE Filled(n)[i] \in Contents
  <2>1. CASE i < n
    <3>1. i \in 0..n - 1
      BY <1>5, <2>1
    <3> QED
      BY <1>8, <1>9, <3>1 DEF Contents
  <2>2. CASE ~(i < n)
    BY <1>2, <1>7, <2>2 DEF Contents
  <2> QED
    BY <2>1, <2>2
<1>11. Filled(n) \in [0..BUF -> Contents]
  <2>1. Filled(n) = [i \in 0..BUF |-> Filled(n)[i]]
    BY DEF Filled
  <2> QED
    BY <1>10, <2>1
<1> QED
  BY <1>3, <1>5, <1>8, <1>9, <1>11

\* What one read takes from stdin: up to the first newline after what was
\* taken before, and from a terminal nothing behind it.
LEMMA ReadIs ==
  ASSUME InputTyped, NEW n \in 1..BUF, MayRead(n), IsLine(Filled(n), n)
  PROVE  \E p \in NL(typed) :
           /\ taken < p /\ NoEnd(typed, taken, p)
           /\ stdin = "terminal" => p = taken + n
           /\ CString(remove_newline(Filled(n), n))
                = Stripped(SubSeq(typed, taken + 1, p - 1))
<1> DEFINE b == Filled(n)
           e == find_newline(b, n)
           p == taken + e + 1
<1>1. BUF \in Nat /\ Len(typed) \in Nat /\ taken \in Nat /\ taken <= Len(typed)
  BY InputAssumption DEF InputTyped
<1>2. typed \in Seq(Chars)
  BY DEF InputTyped
<1>3. /\ b \in [0..BUF -> Contents] /\ taken + n <= Len(typed)
      /\ Len(Left) = Len(typed) - taken
      /\ \A i \in 0..n - 1 : /\ b[i] = typed[taken + i + 1]
                             /\ b[i] = Left[i + 1] /\ b[i] \in Chars
  BY FilledIs
<1>4. e \in 0..n - 1 /\ b[e] = LF /\ \A i \in 0..n - 1 : b[i] = LF => e <= i
  BY <1>3, FoundIs
<1>5. CString(remove_newline(b, n)) = Stripped([i \in 1..e |-> b[i - 1]])
  BY <1>3, LineUnderstood
<1> HIDE DEF b, e
<1>6. e \in Nat /\ n \in Nat /\ e < n /\ p \in 1..Len(typed) /\ taken < p
  BY <1>1, <1>3, <1>4
<1>7. p \in NL(typed)
  BY <1>3, <1>4, <1>6 DEF NL
<1>8. NoEnd(typed, taken, p)
  <2> SUFFICES ASSUME NEW i \in NL(typed), taken < i, i < p PROVE FALSE
    BY DEF NoEnd
  <2>1. i \in Nat /\ typed[i] = LF
    BY <1>1 DEF NL
  <2> DEFINE j == (i - taken) - 1
  <2>2. j \in 0..n - 1 /\ j < e /\ taken + j + 1 = i
    BY <1>1, <1>6, <2>1
  <2> HIDE DEF j
  <2>3. b[j] = LF
    BY <1>3, <2>1, <2>2
  <2>4. e <= j /\ j \in Nat
    BY <1>4, <2>2, <2>3
  <2> QED
    BY <1>6, <2>2, <2>4
<1>9. SubSeq(typed, taken + 1, p - 1) = [i \in 1..e |-> b[i - 1]]
  <2> DEFINE q == taken + e
             u == SubSeq(typed, taken + 1, q)
  <2>1. q \in Nat /\ q <= Len(typed) /\ taken <= q /\ q - taken = e /\ p - 1 = q
    BY <1>1, <1>6
  <2>2. u \in Seq(Chars) /\ Len(u) = e /\ \A i \in 1..e : u[i] = typed[taken + i]
    BY <1>1, <1>2, <2>1, Piece
  <2> HIDE DEF u, q, p
  <2>3. \A i \in 1..e : i - 1 \in 0..n - 1 /\ taken + (i - 1) + 1 = taken + i
    BY <1>1, <1>6
  <2>4. \A i \in 1..e : u[i] = b[i - 1]
    BY <1>3, <2>2, <2>3
  <2>5. u = [i \in 1..e |-> b[i - 1]]
    BY <2>2, <2>4
  <2> QED
    BY <2>1, <2>5 DEF u
<1>10. ASSUME stdin = "terminal" PROVE p = taken + n
  <2>1. e + 1 \in Ends
    <3>1. e + 1 \in 1..Len(Left)
      BY <1>1, <1>3, <1>6
    <3>2. Left[e + 1] = LF
      BY <1>3, <1>4
    <3> QED
      BY <3>1, <3>2 DEF Ends
  <2> DEFINE S == Ends \cup {BUF}
  <2>2. n = Min(S)
    BY <1>10, <2>1 DEF MayRead
  <2>3. S \in SUBSET (0..Len(typed) + BUF) /\ S # {} /\ Len(typed) + BUF \in Nat
    <3>1. Ends \subseteq 1..Len(typed) - taken
      BY <1>3 DEF Ends
    <3> QED
      BY <1>1, <3>1
  <2>4. e + 1 \in S
    BY <2>1
  <2> HIDE DEF S
  <2>5. \A y \in S : Min(S) <= y
    BY <2>3, Smallest
  <2>6. n <= e + 1
    BY <2>2, <2>4, <2>5
  <2> QED
    BY <1>1, <1>6, <2>6
<1> HIDE DEF p
<1> QED
  BY <1>5, <1>6, <1>7, <1>8, <1>9, <1>10 DEF b

-----------------------------------------------------------------------------
(* Each action keeps it. *)

LEMMA InputInit == Init => InputInv
<1> SUFFICES ASSUME Init PROVE InputInv
  OBVIOUS
<1>1. typed = <<>> /\ taken = 0 /\ sent = <<>> /\ buffer = [i \in 0..BUF |-> Junk]
  BY DEF Init
<1>2. InputTyped
  BY <1>1 DEF InputTyped, Contents
<1>3. AtLine
  BY <1>1 DEF AtLine
<1>4. Len(sent) = 0
  BY <1>1
<1> QED
  BY <1>2, <1>3, <1>4 DEF InputInv, LinesArrive, NothingMadeUp

\* A line that is read.
LEMMA LineReadKeeps ==
  ASSUME InputInv, NEW n \in 1..BUF, MayRead(n), IsLine(Filled(n), n),
         taken' = taken + n, buffer' = remove_newline(Filled(n), n),
         sent' = Append(sent, PacketOf(buffer')), pc = "loop", pc' = pc,
         typed' = typed, stdin' = stdin
  PROVE  InputInv'
<1> USE DEF InputInv
<1> DEFINE b == remove_newline(Filled(n), n)
           m == Len(sent)
           x == PacketOf(b)
<1>1. /\ BUF \in Nat /\ Len(typed) \in Nat /\ taken \in Nat /\ n \in Nat
      /\ typed \in Seq(Chars) /\ sent \in Seq(Made) /\ m \in Nat
  BY InputAssumption DEF InputTyped
<1>2. /\ Filled(n) \in [0..BUF -> Contents] /\ taken + n <= Len(typed)
  BY FilledIs
<1>3. b \in [0..BUF -> Contents]
  BY <1>2, RemovedType
<1>4. /\ x \in Made /\ Meant(x) = CString(b)
      /\ IsCommand(x) <=> CString(b) \in Commands
  BY <1>3, PacketMade
<1>5. PICK p \in NL(typed) :
           /\ taken < p /\ NoEnd(typed, taken, p)
           /\ stdin = "terminal" => p = taken + n
           /\ CString(b) = Stripped(SubSeq(typed, taken + 1, p - 1))
  BY ReadIs
<1> HIDE DEF b, x
<1>6. /\ sent' \in Seq(Made) /\ Len(sent') = m + 1 /\ sent'[m + 1] = x
      /\ \A k \in 1..m : sent'[k] = sent[k]
  BY <1>1, <1>4, AppendProperties DEF b, x
<1>7. InputTyped'
  BY <1>1, <1>2, <1>3, <1>6 DEF InputTyped, b
<1> DEFINE K == Cardinality(Upto(typed, p))
           N == Cardinality(NL(typed))
<1>8. N \in Nat /\ K \in Nat
  BY <1>1, UptoFinite
<1>9. /\ Newlines = NL(typed) /\ \A k : Line(k) = TextOf(typed, k)
      /\ Newlines' = NL(typed) /\ \A k : Line(k)' = TextOf(typed, k)
  BY SameLines, SameLinesNext
<1>10. taken \in 0..Len(typed)
  BY DEF InputTyped
<1>11. ASSUME stdin = "terminal"
       PROVE  /\ K = m + 1 /\ K \in 1..N /\ p = taken + n
              /\ Meant(x) = TextOf(typed, K)
  <2>1. (taken = 0 /\ m = 0) \/ (taken \in NL(typed) /\ Cardinality(Upto(typed, taken)) = m)
    BY <1>1, <1>11 DEF AtLine
  <2>2. Cardinality(Upto(typed, taken)) = m
    BY <1>1, <2>1, UptoZero
  <2>3. /\ K \in 1..N /\ StartOf(typed, K) = taken + 1 /\ EndOf(typed, K) = p
        /\ K = Cardinality(Upto(typed, taken)) + 1
    BY <1>1, <1>5, <1>10, <2>1, LineFrom
  <2> HIDE DEF K, N
  <2> QED
    BY <1>4, <1>5, <1>11, <2>2, <2>3 DEF TextOf
<1>12. AtLine'
  <2> SUFFICES ASSUME stdin = "terminal"
               PROVE  taken' \in NL(typed') /\ Cardinality(Upto(typed', taken')) = Len(sent')
    BY <1>1, <1>6 DEF AtLine
  <2> QED
    BY <1>6, <1>11
<1>13. LinesArrive'
  <2> SUFFICES ASSUME stdin = "terminal", NEW k \in 1..m + 1
               PROVE  /\ k <= N
                      /\ Meant(sent'[k]) = TextOf(typed, k)
                      /\ IsCommand(sent'[k]) <=> TextOf(typed, k) \in Commands
    BY <1>6, <1>9 DEF LinesArrive
  <2>1. CASE k \in 1..m
    <3>1. /\ k <= N /\ Meant(sent[k]) = TextOf(typed, k)
          /\ IsCommand(sent[k]) <=> TextOf(typed, k) \in Commands
      BY <1>9, <2>1 DEF LinesArrive
    <3> QED
      BY <1>6, <2>1, <3>1
  <2>2. CASE k = m + 1
    <3>1. K = m + 1 /\ K \in 1..N /\ Meant(x) = TextOf(typed, K)
      BY <1>11
    <3>2. sent'[k] = x /\ k = K
      BY <1>6, <2>2, <3>1
    <3> HIDE DEF K, N
    <3> QED
      BY <1>4, <1>8, <3>1, <3>2
  <2> QED
    BY <1>1, <2>1, <2>2
<1>14. NothingMadeUp'
  <2> SUFFICES ASSUME NEW k \in 1..m + 1
               PROVE  \E l \in 1..N : IsSuffix(Meant(sent'[k]), TextOf(typed, l))
    BY <1>6, <1>9 DEF NothingMadeUp
  <2>1. CASE k \in 1..m
    <3>1. \E l \in 1..N : IsSuffix(Meant(sent[k]), TextOf(typed, l))
      BY <1>9, <2>1 DEF NothingMadeUp
    <3> QED
      BY <1>6, <2>1, <3>1
  <2>2. CASE k = m + 1
    <3>1. PICK q \in 0..taken : NoEnd(typed, q, p) /\ (q = 0 \/ q \in NL(typed))
      BY <1>1, <1>5, <1>10, LineBegins
    <3>2. q \in 0..Len(typed) /\ q < p /\ q \in Nat /\ q <= taken /\ p \in Nat /\ p <= Len(typed)
      BY <1>1, <1>5, <1>10 DEF NL
    <3>3. K \in 1..N /\ StartOf(typed, K) = q + 1 /\ EndOf(typed, K) = p
      BY <1>1, <3>1, <3>2, LineFrom
    <3> DEFINE s == SubSeq(typed, q + 1, p - 1)
               t == SubSeq(typed, taken + 1, p - 1)
               d == p - 1
    <3>4. d \in Nat /\ d <= Len(typed) /\ taken <= d /\ q <= d
      BY <1>1, <1>5, <3>2
    <3>5. s \in Seq(Chars) /\ Len(s) = d - q /\ \A i \in 1..d - q : s[i] = typed[q + i]
      <4> HIDE DEF d
      <4>1. /\ SubSeq(typed, q + 1, d) \in Seq(Chars) /\ Len(SubSeq(typed, q + 1, d)) = d - q
            /\ \A i \in 1..d - q : SubSeq(typed, q + 1, d)[i] = typed[q + i]
        BY <1>1, <3>2, <3>4, Piece
      <4> QED
        BY <4>1 DEF d
    <3>6. t \in Seq(Chars) /\ Len(t) = d - taken /\ \A i \in 1..d - taken : t[i] = typed[taken + i]
      <4> HIDE DEF d
      <4>1. /\ SubSeq(typed, taken + 1, d) \in Seq(Chars)
            /\ Len(SubSeq(typed, taken + 1, d)) = d - taken
            /\ \A i \in 1..d - taken : SubSeq(typed, taken + 1, d)[i] = typed[taken + i]
        BY <1>1, <3>4, Piece
      <4> QED
        BY <4>1 DEF d
    <3> HIDE DEF s, t, d
    <3>7. Ending(t, s)
      <4>1. Len(t) <= Len(s)
        BY <1>1, <3>2, <3>4, <3>5, <3>6
      <4>2. ASSUME NEW i \in 0..Len(t) - 1 PROVE t[Len(t) - i] = s[Len(s) - i]
        <5>1. /\ (d - taken) - i \in 1..d - taken /\ (d - q) - i \in 1..d - q
              /\ taken + ((d - taken) - i) = q + ((d - q) - i)
          BY <1>1, <3>2, <3>4, <3>6
        <5> QED
          BY <3>5, <3>6, <5>1
      <4> QED
        BY <4>1, <4>2 DEF Ending
    <3>8. IsSuffix(Stripped(t), Stripped(s))
      BY <3>5, <3>6, <3>7, StrippedEnding
    <3>9. Stripped(s) = TextOf(typed, K)
      <4> HIDE DEF K, N
      <4> QED
        BY <3>3 DEF TextOf, s
    <3>10. Meant(sent'[k]) = Stripped(t)
      BY <1>4, <1>5, <1>6, <2>2 DEF t
    <3> HIDE DEF K, N
    <3> QED
      BY <3>3, <3>8, <3>9, <3>10
  <2> QED
    BY <1>1, <2>1, <2>2
<1> QED
  BY <1>7, <1>12, <1>13, <1>14

LEMMA ReadLineKeeps == InputInv /\ ReadLine => InputInv'
<1> SUFFICES ASSUME InputInv, ReadLine PROVE InputInv'
  OBVIOUS
<1>1. PICK n \in 1..BUF :
        /\ MayRead(n)
        /\ taken' = taken + n
        /\ buffer' = remove_newline(Filled(n), n)
        /\ IF IsLine(Filled(n), n)
           THEN sent' = Append(sent, PacketOf(buffer')) /\ UNCHANGED pc
           ELSE pc' = "exited" /\ UNCHANGED sent
  BY DEF ReadLine
<1>2. pc = "loop" /\ typed' = typed /\ stdin' = stdin
  BY DEF ReadLine
<1>3. CASE IsLine(Filled(n), n)
  BY <1>1, <1>2, <1>3, LineReadKeeps
<1>4. CASE ~IsLine(Filled(n), n)
  <2>1. pc' = "exited" /\ sent' = sent
    BY <1>1, <1>4
  <2>2. InputTyped'
    <3>1. Filled(n) \in [0..BUF -> Contents] /\ taken + n <= Len(typed)
      BY <1>1, FilledIs DEF InputInv
    <3>2. buffer' \in [0..BUF -> Contents]
      BY <1>1, <3>1, RemovedType
    <3>3. taken' \in 0..Len(typed)
      BY <1>1, <3>1 DEF InputInv, InputTyped
    <3> QED
      BY <1>2, <2>1, <3>2, <3>3 DEF InputInv, InputTyped
  <2>3. AtLine'
    BY <2>1 DEF AtLine
  <2>4. /\ Newlines' = Newlines /\ \A k : Line(k)' = Line(k)
    BY <1>2, SameLines, SameLinesNext
  <2>5. LinesArrive' /\ NothingMadeUp'
    BY <1>2, <2>1, <2>4 DEF InputInv, LinesArrive, NothingMadeUp
  <2> QED
    BY <2>2, <2>3, <2>5 DEF InputInv
<1> QED
  BY <1>3, <1>4

LEMMA TypeKeeps == InputInv /\ Type => InputInv'
<1> SUFFICES ASSUME InputInv, Type PROVE InputInv'
  OBVIOUS
<1> USE DEF InputInv
<1>1. PICK c \in Chars : typed' = Append(typed, c)
  BY DEF Type
<1>2. stdin' = stdin /\ taken' = taken /\ buffer' = buffer /\ sent' = sent /\ pc' = pc
  BY DEF Type
<1>3. typed \in Seq(Chars) /\ typed' \in Seq(Chars) /\ Len(typed') = Len(typed) + 1
      /\ Len(typed) \in Nat /\ \A i \in 1..Len(typed) : typed'[i] = typed[i]
  BY <1>1, AppendProperties DEF InputTyped
<1>4. InputTyped'
  BY <1>2, <1>3 DEF InputTyped
<1> DEFINE N == Cardinality(NL(typed))
           M == Cardinality(NL(typed'))
<1>5. /\ M >= N /\ M \in Nat /\ N \in Nat
      /\ \A k \in 1..N : EndOf(typed', k) = EndOf(typed, k) /\ TextOf(typed', k) = TextOf(typed, k)
  BY <1>1, <1>3, LinesStay, UptoFinite
<1>6. /\ Newlines = NL(typed) /\ \A k : Line(k) = TextOf(typed, k)
      /\ Newlines' = NL(typed') /\ \A k : Line(k)' = TextOf(typed', k)
  BY SameLines, SameLinesNext
<1> HIDE DEF N, M
<1>7. Len(sent) \in Nat
  BY DEF InputTyped
<1>8. AtLine'
  <2> SUFFICES ASSUME stdin = "terminal", pc = "loop", sent # <<>>
               PROVE  taken \in NL(typed') /\ Cardinality(Upto(typed', taken)) = Len(sent)
    BY <1>2 DEF AtLine, InputTyped
  <2>1. taken \in NL(typed) /\ Cardinality(Upto(typed, taken)) = Len(sent)
    BY DEF AtLine
  <2>2. taken \in NL(typed')
    BY <1>3, <2>1 DEF NL
  <2>3. Upto(typed', taken) = Upto(typed, taken)
    BY <1>3, <2>1 DEF NL, Upto
  <2> QED
    BY <2>1, <2>2, <2>3
<1>9. LinesArrive'
  <2> SUFFICES ASSUME stdin = "terminal", NEW k \in 1..Len(sent)
               PROVE  /\ k <= M
                      /\ Meant(sent[k]) = TextOf(typed', k)
                      /\ IsCommand(sent[k]) <=> TextOf(typed', k) \in Commands
    BY <1>2, <1>6 DEF LinesArrive, M
  <2>1. /\ k <= N /\ Meant(sent[k]) = TextOf(typed, k)
        /\ IsCommand(sent[k]) <=> TextOf(typed, k) \in Commands
    BY <1>6 DEF LinesArrive, N
  <2>2. k \in 1..N
    BY <1>5, <1>7, <2>1
  <2> QED
    BY <1>5, <2>1, <2>2
<1>10. NothingMadeUp'
  <2> SUFFICES ASSUME NEW k \in 1..Len(sent)
               PROVE  \E l \in 1..M : IsSuffix(Meant(sent[k]), TextOf(typed', l))
    BY <1>2, <1>6 DEF NothingMadeUp, M
  <2>1. PICK l \in 1..N : IsSuffix(Meant(sent[k]), TextOf(typed, l))
    BY <1>6 DEF NothingMadeUp, N
  <2>2. l \in 1..M /\ TextOf(typed', l) = TextOf(typed, l)
    BY <1>5, <2>1
  <2> QED
    BY <2>1, <2>2
<1> QED
  BY <1>4, <1>8, <1>9, <1>10

\* What does not read or type changes nothing of it, unless main exits.
LEMMA RestKeeps ==
  InputInv /\ (ReadEnd \/ EndInput \/ UNCHANGED vars) => InputInv'
<1> SUFFICES ASSUME InputInv, ReadEnd \/ EndInput \/ UNCHANGED vars PROVE InputInv'
  OBVIOUS
<1>1. /\ stdin' = stdin /\ typed' = typed /\ taken' = taken /\ buffer' = buffer
      /\ sent' = sent /\ (pc' = pc \/ pc' = "exited")
  BY DEF ReadEnd, EndInput, vars
<1>2. InputTyped'
  BY <1>1 DEF InputInv, InputTyped
<1>3. AtLine'
  BY <1>1 DEF InputInv, AtLine
<1>4. /\ Newlines' = Newlines /\ \A k : Line(k)' = Line(k)
  BY <1>1, SameLines, SameLinesNext
<1>5. LinesArrive' /\ NothingMadeUp'
  BY <1>1, <1>4 DEF InputInv, LinesArrive, NothingMadeUp
<1> QED
  BY <1>2, <1>3, <1>5 DEF InputInv

LEMMA InputInvariant == Spec => []InputInv
<1>1. InputInv /\ [Next]_vars => InputInv'
  BY ReadLineKeeps, TypeKeeps, RestKeeps DEF Next
<1> QED
  BY InputInit, <1>1, PTL DEF Spec

\* Whatever is typed at a terminal, however long the lines: chopclient sends
\* one packet for each line that it takes, in order, understood as typed, and
\* takes it for a command exactly when it is one (remove_newline, and main's
\* strcmp over a buffer that is never cleared).
THEOREM InputLines == Spec => []LinesArrive
BY InputInvariant, PTL DEF InputInv

\* Whatever comes through a pipe, and however read cuts it: what is sent is the
\* end of a line that was typed.
THEOREM InputReal == Spec => []NothingMadeUp
BY InputInvariant, PTL DEF InputInv
=============================================================================
