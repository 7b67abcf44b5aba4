--------------------------- MODULE ChopPacketProofs ---------------------------
(***************************************************************************)
(* Lemmas about packets, about the items a peer has written and the other  *)
(* has not read, and about sequences put together from pieces, which the   *)
(* proofs about the event loop, the session and the bytes share.           *)
(***************************************************************************)
EXTENDS ChopPacket, SequencesExt, SequenceTheorems, FiniteSetTheorems, WellFoundedInduction, TLAPS

-----------------------------------------------------------------------------
(* What parse_header makes of a packet. *)

\* The statuses the cases of Answer look at are different ones.
LEMMA StatusesDiffer ==
  /\ START_TEXT \notin {ENQUIRY, WAKEUP, IDLE, ESCAPE}
  /\ ENQUIRY \notin {WAKEUP, IDLE, ESCAPE}
  /\ WAKEUP \notin {IDLE, ESCAPE, NULL_BYTE}
  /\ IDLE \notin {ESCAPE, NULL_BYTE}
BY DEF START_TEXT, ENQUIRY, WAKEUP, IDLE, NULL_BYTE, ESCAPE

LEMMA FlagInByte ==
  ASSUME NEW p, NEW inc \in Byte, NEW out \in Byte
  PROVE  FlagOnHeader(p, inc) \in Byte /\ OutOnHeader(p, out) \in Byte
BY DEF FlagOnHeader, OutOnHeader, Byte, NULL_BYTE, IDLE, WAKEUP, ACKNOWLEDGE,
       ESCAPE, CANCEL

LEMMA FlagValues == NULL_BYTE \in Byte /\ CANCEL \in Byte
BY DEF Byte, NULL_BYTE, CANCEL

LEMMA AnswerIsPackets ==
  ASSUME NEW p, NEW inc
  PROVE  Answer(p, inc) \in SUBSET Packet
BY DEF Answer, Acknowledge, Refuse, assemble_header, Packet, Byte, START_TEXT,
       ENQUIRY, ACKNOWLEDGE, WAKEUP, NEG_ACKNOWLEDGE, IDLE, ESCAPE, NULL_BYTE,
       ENQUIRY_NORMAL, ENQUIRY_RETURN, ENQUIRY_TIME, ENQUIRY_RTIME, TIME_LEN

\* A header either marks its sender in both flags, and then nothing more is
\* read or written for it, or in none.
LEMMA HeaderMarks ==
  ASSUME NEW p, NEW inc, NEW out, inc # CANCEL, out # CANCEL
  PROVE  \/ /\ FlagOnHeader(p, inc) = CANCEL /\ OutOnHeader(p, out) = CANCEL
            /\ Answer(p, inc) = {} /\ ~HasData(p)
         \/ FlagOnHeader(p, inc) # CANCEL /\ OutOnHeader(p, out) # CANCEL
<1>1. CASE p.status = ACKNOWLEDGE /\ p.control1 = ESCAPE
  BY <1>1 DEF FlagOnHeader, OutOnHeader, Answer, HasData, DataLen, IsLongText, ACKNOWLEDGE,
     ESCAPE, WAKEUP, IDLE, START_TEXT, ENQUIRY, CANCEL
<1>2. CASE ~(p.status = ACKNOWLEDGE /\ p.control1 = ESCAPE)
  BY <1>2 DEF FlagOnHeader, OutOnHeader, ACKNOWLEDGE, ESCAPE, WAKEUP, IDLE,
     NULL_BYTE, CANCEL
<1> QED
  BY <1>1, <1>2

\* No answer has the status that marks a client.
LEMMA AnswerNotCancel ==
  ASSUME NEW p, NEW inc, NEW a \in Answer(p, inc)
  PROVE  a.status # CANCEL
BY DEF Answer, Acknowledge, Refuse, assemble_header, CANCEL, ACKNOWLEDGE,
   NEG_ACKNOWLEDGE, ENQUIRY

-----------------------------------------------------------------------------
(* Where packets begin. *)

\* Header x announces data, an item of its own.
Announces(x, data) == x # data /\ HasData(x)

\* The items q on a connection are framed, where e says whether the server
\* expects data; and whether data is the next thing the peer has to send.
Framed(q, e, data) ==
  \A k \in 1..Len(q) :
    q[k] = data <=> IF k = 1 THEN e ELSE Announces(q[k - 1], data)
Owing(q, e, data) == IF q = <<>> THEN e ELSE Announces(q[Len(q)], data)

\* One item is read: it tells what to expect next.
LEMMA FramedTail ==
  ASSUME NEW data, NEW Items, NEW q \in Seq(Items), q # <<>>, NEW e,
         Framed(q, e, data)
  PROVE  /\ Framed(Tail(q), Announces(Head(q), data), data)
         /\ Owing(Tail(q), Announces(Head(q), data), data) <=> Owing(q, e, data)
<1>1. /\ Len(q) \in Nat \ {0} /\ Len(Tail(q)) = Len(q) - 1 /\ Head(q) = q[1]
      /\ Tail(q) \in Seq(Items)
      /\ \A k \in 1..Len(q) - 1 : Tail(q)[k] = q[k + 1]
  BY HeadTailProperties
<1>2. Framed(Tail(q), Announces(Head(q), data), data)
  <2> SUFFICES ASSUME NEW k \in 1..Len(Tail(q))
               PROVE  Tail(q)[k] = data <=>
                        IF k = 1 THEN Announces(Head(q), data)
                        ELSE Announces(Tail(q)[k - 1], data)
    BY DEF Framed
  <2>1. k \in 1..Len(q) - 1 /\ k + 1 \in 1..Len(q) /\ k + 1 # 1 /\ (k + 1) - 1 = k
    BY <1>1
  <2>2. q[k + 1] = data <=> IF k + 1 = 1 THEN e ELSE Announces(q[(k + 1) - 1], data)
    BY <2>1 DEF Framed
  <2>2a. q[k + 1] = data <=> Announces(q[k], data)
    BY <2>1, <2>2
  <2>3. k # 1 => k - 1 \in 1..Len(q) - 1 /\ (k - 1) + 1 = k
    BY <2>1
  <2>4. Tail(q)[k] = q[k + 1] /\ (k # 1 => Tail(q)[k - 1] = q[k])
    BY <1>1, <2>1, <2>3
  <2>5. k = 1 => q[k] = Head(q)
    BY <1>1
  <2> QED
    BY <2>2a, <2>4, <2>5
<1>3. Tail(q) = <<>> <=> Len(q) = 1
  <2>1. Tail(q) = <<>> <=> Len(Tail(q)) = 0
    BY ONLY <1>1, EmptySeq
  <2> QED
    BY ONLY <1>1, <2>1
<1>4. Owing(Tail(q), Announces(Head(q), data), data) <=> Owing(q, e, data)
  <2>1. CASE Len(q) = 1
    BY <1>1, <1>3, <2>1 DEF Owing
  <2>2. CASE Len(q) # 1
    <3>1. /\ Tail(q) # <<>>
          /\ Len(q) - 1 \in 1..Len(q) - 1 /\ (Len(q) - 1) + 1 = Len(q)
      BY <1>1, <1>3, <2>2
    <3>2. Tail(q)[Len(Tail(q))] = q[Len(q)]
      BY <1>1, <3>1
    <3> QED
      BY <3>1, <3>2 DEF Owing
  <2> QED
    BY <2>1, <2>2
<1> QED
  BY <1>2, <1>4

\* One item arrives, and it is what was owed.
LEMMA FramedAppend ==
  ASSUME NEW data, NEW Items, NEW q \in Seq(Items), NEW x \in Items,
         NEW e \in BOOLEAN, Framed(q, e, data),
         x = data <=> Owing(q, e, data)
  PROVE  /\ Framed(Append(q, x), e, data)
         /\ Owing(Append(q, x), e, data) <=> Announces(x, data)
<1> DEFINE r == Append(q, x)
           n == Len(q)
<1>1. /\ n \in Nat /\ Len(r) = n + 1 /\ r[n + 1] = x
      /\ \A k \in 1..n : r[k] = q[k]
  BY AppendProperties
<1>2. q = <<>> <=> n = 0
  BY <1>1, EmptySeq
<1> HIDE DEF r, n
<1>3. Framed(r, e, data)
  <2> SUFFICES ASSUME NEW k \in 1..Len(r)
               PROVE  r[k] = data <=> IF k = 1 THEN e ELSE Announces(r[k - 1], data)
    BY DEF Framed
  <2>1. CASE k = n + 1
    <3>1. CASE n = 0
      BY <1>1, <1>2, <2>1, <3>1 DEF Owing
    <3>2. CASE n # 0
      <4>1. n \in 1..n /\ k - 1 = n /\ k # 1
        BY <1>1, <2>1, <3>2
      <4>2. Owing(q, e, data) <=> Announces(q[n], data)
        BY <1>2, <3>2 DEF Owing, n
      <4> QED
        BY <1>1, <2>1, <4>1, <4>2
    <3> QED
      BY <3>1, <3>2
  <2>2. CASE k # n + 1
    <3>1. k \in 1..n /\ (k # 1 => k - 1 \in 1..n)
      BY <1>1, <2>2
    <3>2. q[k] = data <=> IF k = 1 THEN e ELSE Announces(q[k - 1], data)
      BY <3>1 DEF Framed, n
    <3> QED
      BY <1>1, <3>1, <3>2
  <2> QED
    BY <2>1, <2>2
<1>4. Owing(r, e, data) <=> Announces(x, data)
  <2>1. r # <<>>
    BY <1>1
  <2> QED
    BY <1>1, <2>1 DEF Owing
<1> QED
  BY <1>3, <1>4 DEF r

LEMMA FramedEquiv ==
  ASSUME NEW data, NEW q, NEW e, NEW f, e <=> f
  PROVE  /\ Framed(q, e, data) <=> Framed(q, f, data)
         /\ Owing(q, e, data) <=> Owing(q, f, data)
BY DEF Framed, Owing

LEMMA FramedEmpty == ASSUME NEW data, NEW e PROVE Framed(<<>>, e, data)
BY DEF Framed

-----------------------------------------------------------------------------
(* Counting items. *)

\* Where the items q of the kind X are.
Places(q, X) == {k \in 1..Len(q) : q[k] \in X}

LEMMA CountFinite ==
  ASSUME NEW Items, NEW q \in Seq(Items), NEW X
  PROVE  /\ IsFiniteSet(Places(q, X)) /\ Cardinality(Places(q, X)) \in Nat
         /\ Cardinality(Places(q, X)) <= Len(q)
<1>1. Len(q) \in Nat
  OBVIOUS
<1>2. IsFiniteSet(1..Len(q)) /\ Cardinality(1..Len(q)) = Len(q)
  BY <1>1, FS_Interval
<1>3. Places(q, X) \in SUBSET (1..Len(q))
  BY DEF Places
<1> QED
  BY <1>2, <1>3, FS_Subset, FS_CardinalityType

LEMMA CountEmpty ==
  ASSUME NEW X
  PROVE  Cardinality(Places(<<>>, X)) = 0
<1>1. Places(<<>>, X) = {}
  BY DEF Places
<1> QED
  BY <1>1, FS_EmptySet

LEMMA CountAppend ==
  ASSUME NEW Items, NEW q \in Seq(Items), NEW x \in Items, NEW X
  PROVE  Cardinality(Places(Append(q, x), X))
           = Cardinality(Places(q, X)) + (IF x \in X THEN 1 ELSE 0)
<1> DEFINE r == Append(q, x)
           n == Len(q)
<1>1. /\ n \in Nat /\ Len(r) = n + 1 /\ r[n + 1] = x
      /\ \A k \in 1..n : r[k] = q[k]
  BY AppendProperties
<1> HIDE DEF r
<1>2. \A k : k \in 1..n + 1 <=> k \in 1..n \/ k = n + 1
  BY <1>1
<1>3. CASE x \in X
  <2>1. Places(r, X) = Places(q, X) \cup {n + 1}
    BY <1>1, <1>2, <1>3 DEF Places
  <2>2. n + 1 \notin Places(q, X)
    BY <1>1 DEF Places
  <2> QED
    BY <1>3, <2>1, <2>2, CountFinite, FS_AddElement DEF r
<1>4. CASE x \notin X
  <2>1. Places(r, X) = Places(q, X)
    BY <1>1, <1>2, <1>4 DEF Places
  <2>2. Cardinality(Places(q, X)) \in Nat
    BY CountFinite
  <2> QED
    BY <1>4, <2>1, <2>2 DEF r
<1> QED
  BY <1>3, <1>4

LEMMA CountTail ==
  ASSUME NEW Items, NEW q \in Seq(Items), q # <<>>, NEW X
  PROVE  Cardinality(Places(Tail(q), X))
           = Cardinality(Places(q, X)) - (IF Head(q) \in X THEN 1 ELSE 0)
<1> DEFINE S == Places(Tail(q), X)
           T == Places(q, X) \ {1}
           f == [k \in S |-> k + 1]
<1>1. /\ Len(q) \in Nat \ {0} /\ Len(Tail(q)) = Len(q) - 1 /\ Head(q) = q[1]
      /\ \A k \in 1..Len(q) - 1 : Tail(q)[k] = q[k + 1]
  BY HeadTailProperties
<1>2. \A k \in S : k \in 1..Len(q) - 1 /\ q[k + 1] \in X
  BY <1>1 DEF Places
<1>3. \A k \in S : k + 1 \in 1..Len(q) /\ k + 1 # 1
  BY <1>1, <1>2
<1>4. f \in [S -> T]
  BY <1>2, <1>3 DEF Places
<1>5. \A k \in T : k \in 1..Len(q) /\ k # 1 /\ q[k] \in X
  BY DEF Places
<1>6. \A k \in T : k - 1 \in 1..Len(q) - 1 /\ (k - 1) + 1 = k
  BY <1>1, <1>5
<1>7. \A k \in T : k - 1 \in S /\ f[k - 1] = k
  BY <1>1, <1>5, <1>6 DEF Places
<1>8. \A a, b \in S : f[a] = f[b] => a = b
  BY <1>2
<1> HIDE DEF S, T, f
<1>9. f \in Bijection(S, T)
  BY <1>4, <1>7, <1>8 DEF Bijection, Injection, Surjection, IsInjective
<1> USE DEF S, T
<1>10. IsFiniteSet(S) /\ IsFiniteSet(Places(q, X)) /\ Cardinality(Places(q, X)) \in Nat
  <2>1. Tail(q) \in Seq(Items)
    BY HeadTailProperties
  <2> QED
    BY <2>1, CountFinite
<1>11. Cardinality(T) = Cardinality(S)
  BY <1>9, <1>10, FS_Bijection DEF ExistsBijection
<1>12. 1 \in Places(q, X) <=> Head(q) \in X
  BY <1>1 DEF Places
<1>13. Cardinality(T) = Cardinality(Places(q, X)) - (IF 1 \in Places(q, X) THEN 1 ELSE 0)
  <2>1. Cardinality(T) = IF 1 \in Places(q, X) THEN Cardinality(Places(q, X)) - 1
                         ELSE Cardinality(Places(q, X))
    BY <1>10, FS_RemoveElement
  <2> QED
    BY <1>10, <2>1
<1> QED
  BY <1>11, <1>12, <1>13

-----------------------------------------------------------------------------
(* Numbers. *)

\* Induction, for a set.
LEMMA Ind ==
  ASSUME NEW S \in SUBSET Nat, 0 \in S, \A n \in S : n + 1 \in S
  PROVE  S = Nat
<1> SUFFICES ASSUME S # Nat PROVE FALSE
  OBVIOUS
<1>1. PICK m \in Nat \ S : \A k \in Nat \ S : ~(k < m)
  <2>1. IsWellFoundedOn(OpToRel(<, Nat), Nat)
    BY NatLessThanWellFounded
  <2>2. Nat \ S \subseteq Nat /\ Nat \ S # {}
    OBVIOUS
  <2>3. PICK m \in Nat \ S : \A k \in Nat \ S : ~ (<<k, m>> \in OpToRel(<, Nat))
    BY <2>1, <2>2, WFMin
  <2> QED
    BY <2>3 DEF OpToRel
<1>2. m # 0 /\ m - 1 \in Nat
  OBVIOUS
<1>3. m - 1 \in S
  BY <1>1, <1>2
<1> QED
  BY <1>1, <1>2, <1>3

\* The largest and the smallest number of a set.
LEMMA Largest ==
  ASSUME NEW n \in Nat, NEW S \in SUBSET (0..n), S # {}
  PROVE  Max(S) \in S /\ \A y \in S : Max(S) >= y
<1> DEFINE U == {k \in Nat : \A y \in S : y <= n - k}
           T == {k \in Nat : k \in 0..n => \A y \in S : y <= n - k}
<1>1. \E x \in S : \A y \in S : x >= y
  <2> SUFFICES ASSUME \A x \in S : \E y \in S : ~(x >= y) PROVE FALSE
    OBVIOUS
  <2>1. 0 \in T
    OBVIOUS
  <2>2. ASSUME NEW k \in T PROVE k + 1 \in T
    <3> SUFFICES ASSUME k + 1 \in 0..n, NEW y \in S PROVE y <= n - (k + 1)
      OBVIOUS
    <3>1. k \in 0..n /\ k \in Nat
      OBVIOUS
    <3>2. \A z \in S : z <= n - k /\ z \in Nat
      BY <3>1
    <3>3. PICK z \in S : ~(y >= z)
      OBVIOUS
    <3> QED
      BY <3>1, <3>2, <3>3
  <2>3. T = Nat
    <3> HIDE DEF T
    <3>1. T \subseteq Nat
      BY DEF T
    <3> QED
      BY <2>1, <2>2, <3>1, Ind
  <2>4. n \in T
    <3> HIDE DEF T
    <3> QED
      BY <2>3
  <2>5. \A y \in S : y = 0
    BY <2>4
  <2>6. PICK x \in S : TRUE
    OBVIOUS
  <2>7. x = 0 /\ \A y \in S : x >= y
    BY <2>5
  <2> QED
    BY <2>7
<1> QED
  BY <1>1 DEF Max

LEMMA Smallest ==
  ASSUME NEW n \in Nat, NEW S \in SUBSET (0..n), S # {}
  PROVE  Min(S) \in S /\ \A y \in S : Min(S) <= y
<1> DEFINE R == {n - x : x \in S}
<1>1. R \in SUBSET (0..n) /\ R # {}
  <2>1. \A x \in S : n - x \in 0..n
    OBVIOUS
  <2> QED
    BY <2>1
<1>2. Max(R) \in R /\ \A y \in R : Max(R) >= y
  BY <1>1, Largest
<1>3. PICK x \in S : Max(R) = n - x
  BY <1>2
<1>4. \A y \in S : x <= y
  <2> SUFFICES ASSUME NEW y \in S PROVE x <= y
    OBVIOUS
  <2>1. n - x >= n - y
    BY <1>2, <1>3
  <2> QED
    BY <2>1
<1> QED
  BY <1>4 DEF Min

-----------------------------------------------------------------------------
(* Sequences put together from pieces. *)

\* g[i] is what the first i sequences of s are together.
Joins(s, g) == \A i \in 1..Len(s) : g[i] = IF i = 1 THEN s[i] ELSE g[i-1] \o s[i]

LEMMA JoinsExists ==
  ASSUME NEW X, NEW s \in Seq(Seq(X))
  PROVE  \E g \in [1..Len(s) -> Seq(X)] : Joins(s, g)
<1> DEFINE n == Len(s)
           R(m, g) == \A i \in 1..m : g[i] = IF i = 1 THEN s[i] ELSE g[i-1] \o s[i]
           S == {m \in Nat : m <= n => \E g \in [1..m -> Seq(X)] : R(m, g)}
<1>1. n \in Nat /\ \A i \in 1..n : s[i] \in Seq(X)
  OBVIOUS
<1> HIDE DEF n
<1>2. 0 \in S
  <2>1. [i \in 1..0 |-> <<>>] \in [1..0 -> Seq(X)]
    OBVIOUS
  <2>2. \A g : R(0, g)
    OBVIOUS
  <2> QED
    BY <2>1, <2>2
<1>3. ASSUME NEW m \in S PROVE m + 1 \in S
  <2>1. m \in Nat /\ m + 1 \in Nat
    OBVIOUS
  <2> SUFFICES ASSUME m + 1 <= n PROVE \E g \in [1..m + 1 -> Seq(X)] : R(m + 1, g)
    BY <2>1
  <2>2. PICK g \in [1..m -> Seq(X)] : R(m, g)
    BY <1>1, <2>1
  <2> DEFINE x == IF m = 0 THEN s[m + 1] ELSE g[m] \o s[m + 1]
             h == [i \in 1..m + 1 |-> IF i = m + 1 THEN x ELSE g[i]]
  <2>3. x \in Seq(X)
    <3>1. s[m + 1] \in Seq(X)
      BY <1>1, <2>1
    <3>2. CASE m = 0
      BY <3>1, <3>2
    <3>3. CASE m # 0
      <4>1. g[m] \in Seq(X)
        BY <2>1, <2>2, <3>3
      <4>2. g[m] \o s[m + 1] \in Seq(X)
        BY <3>1, <4>1, ConcatProperties
      <4> QED
        BY <3>3, <4>2
    <3> QED
      BY <3>2, <3>3
  <2>4. h \in [1..m + 1 -> Seq(X)]
    <3> HIDE DEF x
    <3>1. \A i \in 1..m + 1 : i # m + 1 => i \in 1..m
      BY <2>1
    <3> QED
      BY <2>1, <2>3, <3>1
  <2>5. R(m + 1, h)
    <3> SUFFICES ASSUME NEW i \in 1..m + 1
                 PROVE  h[i] = IF i = 1 THEN s[i] ELSE h[i-1] \o s[i]
      OBVIOUS
    <3>1. CASE i = m + 1
      <4>1. h[i] = x
        BY <3>1
      <4>2. CASE m = 0
        BY <3>1, <4>1, <4>2
      <4>3. CASE m # 0
        <5>1. i # 1 /\ i - 1 = m /\ m \in 1..m + 1 /\ m # m + 1
          BY <2>1, <3>1, <4>3
        <5>2. h[i - 1] = g[m]
          BY <5>1
        <5> QED
          BY <3>1, <4>1, <4>3, <5>1, <5>2
      <4> QED
        BY <4>2, <4>3
    <3>2. CASE i # m + 1
      <4>1. i \in 1..m /\ h[i] = g[i]
        BY <2>1, <3>2
      <4>2. i # 1 => i - 1 \in 1..m + 1 /\ i - 1 # m + 1
        BY <2>1, <4>1
      <4>3. i # 1 => h[i - 1] = g[i - 1]
        BY <4>2
      <4> QED
        BY <2>2, <4>1, <4>3
    <3> QED
      BY <3>1, <3>2
  <2> QED
    BY <2>4, <2>5
<1>4. S = Nat
  <2> HIDE DEF S
  <2>1. S \subseteq Nat
    BY DEF S
  <2> QED
    BY <1>2, <1>3, <2>1, Ind
<1>5. \E g \in [1..n -> Seq(X)] : R(n, g)
  <2>1. n \in S /\ n <= n
    <3> HIDE DEF S
    <3> QED
      BY <1>1, <1>4
  <2> HIDE DEF R
  <2> QED
    BY <2>1
<1> QED
  BY <1>5 DEF Joins, n

LEMMA JoinsUnique ==
  ASSUME NEW X, NEW s \in Seq(Seq(X)), NEW g, NEW h, Joins(s, g), Joins(s, h)
  PROVE  \A i \in 1..Len(s) : g[i] = h[i]
<1> DEFINE S == {m \in Nat : m \in 1..Len(s) => g[m] = h[m]}
<1>1. 0 \in S
  OBVIOUS
<1>2. ASSUME NEW m \in S PROVE m + 1 \in S
  <2> SUFFICES ASSUME m + 1 \in 1..Len(s) PROVE g[m + 1] = h[m + 1]
    OBVIOUS
  <2>1. CASE m = 0
    BY <2>1 DEF Joins
  <2>2. CASE m # 0
    <3>1. m \in 1..Len(s) /\ m + 1 # 1 /\ (m + 1) - 1 = m
      BY <2>2
    <3>2. g[m] = h[m]
      BY <3>1
    <3> QED
      BY <3>1, <3>2 DEF Joins
  <2> QED
    BY <2>1, <2>2
<1>3. S = Nat
  <2> HIDE DEF S
  <2>1. S \subseteq Nat
    BY DEF S
  <2> QED
    BY <1>1, <1>2, <2>1, Ind
<1> QED
  BY <1>3

\* Whatever joins the sequences of s ends in FlattenSeq(s).
LEMMA FlattenJoins ==
  ASSUME NEW X, NEW s \in Seq(Seq(X)), Len(s) # 0, NEW g, Joins(s, g)
  PROVE  FlattenSeq(s) = g[Len(s)]
<1> DEFINE n == Len(s)
           D(h) == h = [i \in 1..n |-> IF i = 1 THEN s[i] ELSE h[i-1] \o s[i]]
           f == CHOOSE h : D(h)
<1>1. n \in Nat /\ n \in 1..n
  OBVIOUS
<1>2. PICK h \in [1..n -> Seq(X)] : Joins(s, h)
  BY JoinsExists
<1>3. D(h)
  <2>1. \A i \in 1..n : h[i] = IF i = 1 THEN s[i] ELSE h[i-1] \o s[i]
    BY <1>2 DEF Joins
  <2> QED
    BY <2>1
<1>4. D(f)
  <2> HIDE DEF D
  <2> QED
    BY <1>3
<1> HIDE DEF f
<1>5. Joins(s, f)
  BY <1>4 DEF Joins
<1>6. f[n] = g[n]
  BY <1>1, <1>5, JoinsUnique
<1>7. FlattenSeq(s) = f[n]
  BY DEF FlattenSeq, f
<1> QED
  BY <1>6, <1>7

LEMMA FlattenEmpty == FlattenSeq(<<>>) = <<>>
BY DEF FlattenSeq

LEMMA FlattenType ==
  ASSUME NEW X, NEW s \in Seq(Seq(X))
  PROVE  FlattenSeq(s) \in Seq(X)
<1>1. CASE Len(s) = 0
  <2>1. s = <<>>
    BY <1>1, EmptySeq
  <2>2. <<>> \in Seq(X)
    OBVIOUS
  <2> QED
    BY <2>1, <2>2, FlattenEmpty
<1>2. CASE Len(s) # 0
  <2>1. PICK g \in [1..Len(s) -> Seq(X)] : Joins(s, g)
    BY JoinsExists
  <2>2. FlattenSeq(s) = g[Len(s)]
    BY <1>2, <2>1, FlattenJoins
  <2>3. Len(s) \in 1..Len(s)
    BY <1>2
  <2> QED
    BY <2>1, <2>2, <2>3
<1> QED
  BY <1>1, <1>2

LEMMA FlattenAppend ==
  ASSUME NEW X, NEW s \in Seq(Seq(X)), NEW x \in Seq(X)
  PROVE  FlattenSeq(Append(s, x)) = FlattenSeq(s) \o x
<1> DEFINE n == Len(s)
           t == Append(s, x)
<1>1. /\ t \in Seq(Seq(X)) /\ n \in Nat /\ Len(t) = n + 1 /\ t[n + 1] = x
      /\ \A i \in 1..n : t[i] = s[i]
  BY AppendProperties
<1>2. PICK g \in [1..Len(t) -> Seq(X)] : Joins(t, g)
  BY <1>1, JoinsExists
<1> HIDE DEF t
<1>3. FlattenSeq(t) = g[n + 1]
  BY <1>1, <1>2, FlattenJoins
<1>4. CASE n = 0
  <2>1. s = <<>>
    BY <1>4, EmptySeq
  <2>2. g[n + 1] = x
    BY <1>1, <1>2, <1>4 DEF Joins
  <2>3. <<>> \o x = x
    OBVIOUS
  <2> QED
    BY <1>3, <2>1, <2>2, <2>3, FlattenEmpty DEF t
<1>5. CASE n # 0
  <2>1. Joins(s, g)
    <3> SUFFICES ASSUME NEW i \in 1..n PROVE g[i] = IF i = 1 THEN s[i] ELSE g[i-1] \o s[i]
      BY DEF Joins
    <3>1. i \in 1..Len(t) /\ t[i] = s[i]
      BY <1>1
    <3> QED
      BY <1>2, <3>1 DEF Joins
  <2>2. FlattenSeq(s) = g[n]
    BY <1>5, <2>1, FlattenJoins
  <2>3. g[n + 1] = g[n] \o x
    <3>1. n + 1 \in 1..Len(t) /\ n + 1 # 1 /\ (n + 1) - 1 = n
      BY <1>1, <1>5
    <3>2. g[n + 1] = g[(n + 1) - 1] \o t[n + 1]
      BY <1>2, <3>1 DEF Joins
    <3> QED
      BY ONLY <1>1, <3>1, <3>2
  <2> QED
    BY <1>3, <2>2, <2>3 DEF t
<1> QED
  BY <1>4, <1>5
=============================================================================
