-------------------------- MODULE ChopEndpointProofs --------------------------
(***************************************************************************)
(* Proofs about the bytes on one connection, for any messages, any window, *)
(* any way to cut the stream, and any failures.                            *)
(***************************************************************************)
EXTENDS ChopEndpoint, ChopPacketProofs

-----------------------------------------------------------------------------
(* The stream. *)

\* What a message is on the wire, and what the first i messages of ms are.
Wire(m)     == HeaderBytes(m.header) \o m.body
Cum(ms, i)  == Bytes(SubSeq(ms, 1, i))

LEMMA WireShape ==
  ASSUME NEW m \in Messages
  PROVE  /\ Wire(m) \in Seq(Byte) /\ Len(Wire(m)) = HEADER_LEN + Len(m.body)
         /\ Len(m.body) \in Nat /\ m.body \in Seq(Byte) /\ m.header \in Packet
         /\ Wire(m)[1] = 0 /\ Wire(m)[2] = m.header.status
         /\ Wire(m)[3] = m.header.control1 /\ Wire(m)[4] = m.header.control2
         /\ \A k \in 1..Len(m.body) : Wire(m)[HEADER_LEN + k] = m.body[k]
<1> DEFINE h == HeaderBytes(m.header)
           b == m.body
<1>1. m.header \in Packet /\ b \in Seq(Byte)
  BY EndpointAssumption
<1>2. h \in Seq(Byte) /\ Len(h) = 4
  BY <1>1 DEF HeaderBytes, Packet, Byte
<1>3. h[1] = 0 /\ h[2] = m.header.status /\ h[3] = m.header.control1 /\ h[4] = m.header.control2
  BY DEF HeaderBytes
<1> HIDE DEF h, b
<1>4. /\ h \o b \in Seq(Byte) /\ Len(h \o b) = Len(h) + Len(b)
      /\ \A k \in 1..Len(h) + Len(b) :
           (h \o b)[k] = IF k <= Len(h) THEN h[k] ELSE b[k - Len(h)]
  BY <1>1, <1>2, ConcatProperties
<1>5. Len(b) \in Nat
  BY <1>1
<1>6. /\ (h \o b)[1] = h[1] /\ (h \o b)[2] = h[2] /\ (h \o b)[3] = h[3] /\ (h \o b)[4] = h[4]
  BY <1>2, <1>4, <1>5
<1>7. \A k \in 1..Len(b) : (h \o b)[4 + k] = b[k]
  <2> SUFFICES ASSUME NEW k \in 1..Len(b) PROVE (h \o b)[4 + k] = b[k]
    OBVIOUS
  <2>1. 4 + k \in 1..Len(h) + Len(b) /\ ~(4 + k <= Len(h)) /\ (4 + k) - Len(h) = k
    BY <1>2, <1>5
  <2> QED
    BY <1>4, <2>1
<1>8. Wire(m) = h \o b
  BY DEF Wire, h, b
<1> QED
  BY <1>1, <1>2, <1>3, <1>4, <1>5, <1>6, <1>7, <1>8 DEF b, HEADER_LEN

LEMMA CumSteps ==
  ASSUME NEW X, \A m \in Messages : Wire(m) \in Seq(X), NEW ms \in Seq(Messages)
  PROVE  /\ Cum(ms, 0) = <<>>
         /\ \A i \in 1..Len(ms) : Cum(ms, i) = Cum(ms, i - 1) \o Wire(ms[i])
         /\ \A i \in 0..Len(ms) : Cum(ms, i) \in Seq(X)
         /\ Cum(ms, Len(ms)) = Bytes(ms)
<1> DEFINE n == Len(ms)
           S(i) == SubSeq(ms, 1, i)
           W(i) == [k \in 1..Len(S(i)) |-> Wire(S(i)[k])]
<1>1. n \in Nat /\ \A k \in 1..n : ms[k] \in Messages
  OBVIOUS
<1>2. ASSUME NEW i \in 0..n
      PROVE  /\ Len(S(i)) = i /\ \A k \in 1..i : S(i)[k] = ms[k]
  BY <1>1, SubSeqProperties
<1>3. ASSUME NEW i \in 0..n
      PROVE  W(i) = [k \in 1..i |-> Wire(ms[k])]
  <2> HIDE DEF S
  <2> QED
    BY <1>2
<1>4. ASSUME NEW i \in 0..n
      PROVE  W(i) \in Seq(Seq(X)) /\ Len(W(i)) = i /\ \A k \in 1..i : W(i)[k] = Wire(ms[k])
  <2>1. W(i) = [k \in 1..i |-> Wire(ms[k])]
    BY <1>3
  <2>2. [k \in 1..i |-> Wire(ms[k])] \in [1..i -> Seq(X)]
    BY <1>1
  <2> HIDE DEF W
  <2>3. i \in Nat /\ W(i) \in [1..i -> Seq(X)]
    BY <1>1, <2>1, <2>2
  <2>4. W(i) \in Seq(Seq(X)) /\ Len(W(i)) = i
    BY ONLY <2>3, SeqDef, LenProperties
  <2> QED
    BY <2>1, <2>4
<1>5. ASSUME NEW i \in 0..n PROVE Cum(ms, i) = FlattenSeq(W(i))
  BY DEF Cum, Bytes, Wire
<1>6. ASSUME NEW i \in 1..n
      PROVE  W(i) = Append(W(i - 1), Wire(ms[i]))
  <2>1. i - 1 \in 0..n /\ i \in 0..n /\ Wire(ms[i]) \in Seq(X)
    BY <1>1
  <2> DEFINE u == W(i)
             v == W(i - 1)
             x == Wire(ms[i])
  <2>2. /\ u \in Seq(Seq(X)) /\ Len(u) = i /\ \A k \in 1..i : u[k] = Wire(ms[k])
        /\ v \in Seq(Seq(X)) /\ Len(v) = i - 1 /\ \A k \in 1..i - 1 : v[k] = Wire(ms[k])
        /\ x \in Seq(X) /\ x = Wire(ms[i])
    BY <1>4, <2>1
  <2> HIDE DEF u, v, x, W, S
  <2>3. /\ Append(v, x) \in Seq(Seq(X)) /\ Len(Append(v, x)) = Len(v) + 1
        /\ Append(v, x)[Len(v) + 1] = x
        /\ \A k \in 1..Len(v) : Append(v, x)[k] = v[k]
    BY ONLY <2>2, AppendProperties
  <2>4. Len(Append(v, x)) = Len(u)
    BY <2>1, <2>2, <2>3
  <2>5. \A k \in 1..Len(u) : Append(v, x)[k] = u[k]
    <3> SUFFICES ASSUME NEW k \in 1..Len(u) PROVE Append(v, x)[k] = u[k]
      OBVIOUS
    <3>1. CASE k = i
      BY <2>1, <2>2, <2>3, <3>1
    <3>2. CASE k # i
      <4>1. k \in 1..Len(v) /\ k \in 1..i - 1 /\ k \in 1..i
        BY <2>1, <2>2, <3>2
      <4> QED
        BY <2>2, <2>3, <4>1
    <3> QED
      BY <3>1, <3>2
  <2>6. u = Append(v, x)
    BY ONLY <2>2, <2>3, <2>4, <2>5, SeqEqual
  <2> QED
    BY <2>6 DEF u, v, x
<1>7. Cum(ms, 0) = <<>>
  <2>1. 0 \in 0..n /\ W(0) \in Seq(Seq(X)) /\ Len(W(0)) = 0
    BY <1>1, <1>4
  <2> HIDE DEF W
  <2>2. W(0) = <<>>
    BY <2>1, EmptySeq
  <2> QED
    BY <1>5, <2>1, <2>2, FlattenEmpty
<1>8. ASSUME NEW i \in 1..n PROVE Cum(ms, i) = Cum(ms, i - 1) \o Wire(ms[i])
  <2>1. i - 1 \in 0..n /\ i \in 0..n /\ Wire(ms[i]) \in Seq(X)
    BY <1>1
  <2>2. W(i - 1) \in Seq(Seq(X)) /\ W(i) = Append(W(i - 1), Wire(ms[i]))
    BY <1>4, <1>6, <2>1
  <2>3. Cum(ms, i) = FlattenSeq(W(i)) /\ Cum(ms, i - 1) = FlattenSeq(W(i - 1))
    BY <1>5, <2>1
  <2> HIDE DEF W
  <2>4. FlattenSeq(W(i)) = FlattenSeq(W(i - 1)) \o Wire(ms[i])
    BY <2>1, <2>2, FlattenAppend
  <2> QED
    BY <2>3, <2>4
<1>9. ASSUME NEW i \in 0..n PROVE Cum(ms, i) \in Seq(X)
  <2>1. W(i) \in Seq(Seq(X)) /\ Cum(ms, i) = FlattenSeq(W(i))
    BY <1>4, <1>5
  <2> HIDE DEF W
  <2> QED
    BY <2>1, FlattenType
<1>10. Cum(ms, n) = Bytes(ms)
  <2>1. SubSeq(ms, 1, n) = ms
    BY SubSeqFull
  <2> QED
    BY <2>1 DEF Cum
<1> QED
  BY <1>7, <1>8, <1>9, <1>10

\* The bytes of the first messages are those of any longer stream.
LEMMA CumPrefix ==
  ASSUME NEW ms \in Seq(Messages), NEW i \in 0..Len(ms), NEW j \in 0..Len(ms), i <= j
  PROVE  /\ Len(Cum(ms, i)) <= Len(Cum(ms, j))
         /\ \A k \in 1..Len(Cum(ms, i)) : Cum(ms, j)[k] = Cum(ms, i)[k]
<1> DEFINE n == Len(ms)
           C(m) == Cum(ms, m)
           P(m) == /\ Len(C(i)) <= Len(C(m))
                   /\ \A k \in 1..Len(C(i)) : C(m)[k] = C(i)[k]
           S == {m \in Nat : i <= m /\ m <= n => P(m)}
<1>1. n \in Nat /\ i \in Nat /\ i <= n /\ j \in Nat /\ j <= n
  OBVIOUS
<1>2. \A m \in Messages : Wire(m) \in Seq(Byte)
  BY WireShape
<1>3. /\ \A m \in 0..n : C(m) \in Seq(Byte)
      /\ \A m \in 1..n : C(m) = C(m - 1) \o Wire(ms[m])
  BY <1>2, CumSteps
<1> HIDE DEF n, C
<1>4. 0 \in S
  <2>1. i <= 0 => i = 0
    BY <1>1
  <2>2. Len(C(0)) \in Nat
    BY <1>1, <1>3
  <2> QED
    BY <2>1, <2>2
<1>5. ASSUME NEW m \in S PROVE m + 1 \in S
  <2>1. m \in Nat /\ (i <= m /\ m <= n => P(m))
    OBVIOUS
  <2> SUFFICES ASSUME i <= m + 1, m + 1 <= n PROVE P(m + 1)
    BY <2>1
  <2>2. C(i) \in Seq(Byte) /\ Len(C(i)) \in Nat
    BY <1>1, <1>3
  <2>3. CASE i = m + 1
    BY <2>2, <2>3
  <2>4. CASE i # m + 1
    <3>1. i <= m /\ m <= n /\ m + 1 \in 1..n /\ (m + 1) - 1 = m /\ m \in 0..n
      BY <1>1, <2>1, <2>4
    <3>2. P(m)
      BY <2>1, <3>1
    <3> DEFINE w == Wire(ms[m + 1])
    <3>3. w \in Seq(Byte) /\ C(m) \in Seq(Byte) /\ C(m + 1) = C(m) \o w
      <4>1. ms[m + 1] \in Messages
        BY <3>1 DEF n
      <4>2. C(m + 1) = C((m + 1) - 1) \o Wire(ms[m + 1])
        BY <1>3, <3>1
      <4> QED
        BY <1>2, <1>3, <3>1, <4>1, <4>2
    <3> HIDE DEF w
    <3>4. /\ Len(C(m) \o w) = Len(C(m)) + Len(w)
          /\ \A k \in 1..Len(C(m)) + Len(w) :
               (C(m) \o w)[k] = IF k <= Len(C(m)) THEN C(m)[k] ELSE w[k - Len(C(m))]
      BY ONLY <3>3, ConcatProperties
    <3>5. Len(C(m)) \in Nat /\ Len(w) \in Nat
      BY <3>3
    <3>6. Len(C(i)) <= Len(C(m + 1))
      BY <2>2, <3>2, <3>3, <3>4, <3>5
    <3>7. ASSUME NEW k \in 1..Len(C(i)) PROVE C(m + 1)[k] = C(i)[k]
      <4>1. k \in 1..Len(C(m)) + Len(w) /\ k <= Len(C(m))
        BY <2>2, <3>2, <3>5
      <4> QED
        BY <3>2, <3>3, <3>4, <4>1
    <3> QED
      BY <3>6, <3>7
  <2> QED
    BY <2>3, <2>4
<1>6. j \in S
  <2> HIDE DEF S
  <2>1. S \subseteq Nat
    BY DEF S
  <2>2. S = Nat
    BY <1>4, <1>5, <2>1, Ind
  <2> QED
    BY <1>1, <2>2
<1>7. P(j)
  BY <1>1, <1>6
<1> QED
  BY <1>7 DEF C

\* Where messages begin and what is there.
LEMMA StreamShape ==
  ASSUME sent \in Seq(Messages)
  PROVE  /\ Stream \in Seq(Byte) /\ Len(sent) \in Nat
         /\ Start(1) = 0 /\ Start(Len(sent) + 1) = Len(Stream)
         /\ \A i \in 1..Len(sent) + 1 : Start(i) \in Nat /\ Start(i) <= Len(Stream)
         /\ \A i \in 1..Len(sent) :
              /\ sent[i] \in Messages
              /\ Start(i + 1) = Start(i) + HEADER_LEN + Len(sent[i].body)
              /\ \A k \in 1..HEADER_LEN + Len(sent[i].body) :
                   Stream[Start(i) + k] = Wire(sent[i])[k]
<1> DEFINE n == Len(sent)
           C(m) == Cum(sent, m)
<1>1. \A m \in Messages : Wire(m) \in Seq(Byte)
  BY WireShape
<1>2. /\ C(0) = <<>>
      /\ \A i \in 1..n : C(i) = C(i - 1) \o Wire(sent[i])
      /\ \A i \in 0..n : C(i) \in Seq(Byte)
      /\ C(n) = Stream
  BY <1>1, CumSteps DEF Stream
<1>3. n \in Nat /\ \A i \in 1..n : sent[i] \in Messages
  OBVIOUS
<1>4. \A i : Start(i) = Len(C(i - 1))
  BY DEF Start, Cum
<1> HIDE DEF n, C
<1>5. Start(1) = 0
  <2>1. 1 - 1 = 0 /\ Len(<<>>) = 0
    OBVIOUS
  <2> QED
    BY <1>2, <1>4, <2>1
<1>6. Start(n + 1) = Len(Stream)
  <2>1. (n + 1) - 1 = n
    BY <1>3
  <2> QED
    BY <1>2, <1>4, <2>1
<1>7. ASSUME NEW i \in 1..n + 1 PROVE Start(i) \in Nat /\ Start(i) <= Len(Stream)
  <2>1. i - 1 \in 0..n /\ n \in 0..n /\ i - 1 <= n
    BY <1>3
  <2>2. Len(C(i - 1)) <= Len(C(n))
    BY <2>1, CumPrefix DEF C, n
  <2>3. C(i - 1) \in Seq(Byte)
    BY <1>2, <2>1
  <2> QED
    BY <1>2, <1>4, <2>2, <2>3
<1>8. ASSUME NEW i \in 1..n
      PROVE  /\ Start(i + 1) = Start(i) + HEADER_LEN + Len(sent[i].body)
             /\ \A k \in 1..HEADER_LEN + Len(sent[i].body) :
                  Stream[Start(i) + k] = Wire(sent[i])[k]
  <2> DEFINE w == Wire(sent[i])
             c == C(i - 1)
             d == C(i)
             l == HEADER_LEN + Len(sent[i].body)
  <2>1. w \in Seq(Byte) /\ Len(w) = l /\ l \in Nat
    BY <1>3, WireShape DEF HEADER_LEN
  <2>2. c \in Seq(Byte) /\ d = c \o w /\ d \in Seq(Byte)
    <3>1. i - 1 \in 0..n /\ i \in 0..n
      BY <1>3
    <3> QED
      BY <1>2, <3>1
  <2>3. Start(i) = Len(c) /\ Start(i + 1) = Len(d)
    <3>1. (i + 1) - 1 = i
      BY <1>3
    <3> QED
      BY <1>4, <3>1
  <2>4. Len(d) <= Len(C(n)) /\ \A k \in 1..Len(d) : C(n)[k] = d[k]
    <3>1. i \in 0..n /\ n \in 0..n /\ i <= n
      BY <1>3
    <3> QED
      BY <3>1, CumPrefix DEF C, n
  <2> HIDE DEF w, c, d, l
  <2>5. /\ Len(c \o w) = Len(c) + Len(w)
        /\ \A k \in 1..Len(c) + Len(w) :
             (c \o w)[k] = IF k <= Len(c) THEN c[k] ELSE w[k - Len(c)]
    BY ONLY <2>1, <2>2, ConcatProperties
  <2>6. Len(c) \in Nat
    BY <2>2
  <2>7. Start(i + 1) = Start(i) + l
    BY <2>1, <2>2, <2>3, <2>5
  <2>8. ASSUME NEW k \in 1..l PROVE Stream[Start(i) + k] = w[k]
    <3>1. /\ Len(c) + k \in 1..Len(c) + Len(w) /\ ~(Len(c) + k <= Len(c))
          /\ (Len(c) + k) - Len(c) = k
      BY <2>1, <2>6
    <3>2. d[Len(c) + k] = w[k]
      BY <2>2, <2>5, <3>1
    <3>3. Len(c) + k \in 1..Len(d)
      BY <2>2, <2>5, <3>1
    <3>4. Stream[Len(c) + k] = d[Len(c) + k]
      BY <1>2, <2>4, <3>3
    <3> QED
      BY <2>3, <3>2, <3>4
  <2>9. l = HEADER_LEN + Len(sent[i].body)
    BY DEF l
  <2>10. Start(i) + l = Start(i) + HEADER_LEN + Len(sent[i].body)
    <3>1. Start(i) \in Nat /\ Len(sent[i].body) \in Nat
      BY <1>3, <2>3, <2>6, WireShape
    <3> QED
      BY <2>9, <3>1 DEF HEADER_LEN
  <2> QED
    BY <2>7, <2>8, <2>9, <2>10 DEF w
<1>9. Stream \in Seq(Byte)
  <2>1. n \in 0..n
    BY <1>3
  <2> QED
    BY <1>2, <2>1
<1> QED
  BY <1>3, <1>5, <1>6, <1>7, <1>8, <1>9 DEF n

-----------------------------------------------------------------------------
(* The stack of parse_long_header. *)

LEMMA OpenIs ==
  ASSUME NEW s \in Seq(Byte)
  PROVE  /\ Open(s) \in Seq(Byte)
         /\ Open(s) # <<>> => /\ Len(Open(s)) \in 1..Len(Open(s))
                              /\ Open(s)[Len(Open(s))] \in 1..255
<1> DEFINE S == {i \in DOMAIN s : s[i] > 0} \cup {0}
           m == Max(S)
<1>1. Len(s) \in Nat /\ DOMAIN s = 1..Len(s) /\ \A i \in 1..Len(s) : s[i] \in Byte
  OBVIOUS
<1>2. S \in SUBSET (0..Len(s)) /\ S # {}
  BY <1>1
<1>3. m \in S
  <2> HIDE DEF S
  <2> QED
    BY <1>1, <1>2, Largest
<1>4. m \in 0..Len(s) /\ (m # 0 => s[m] > 0)
  BY <1>1, <1>3
<1> DEFINE t == SubSeq(s, 1, m)
<1>5. t = Open(s)
  BY DEF Open
<1> HIDE DEF S, m
<1>6. /\ t \in Seq(Byte) /\ Len(t) = m
      /\ \A i \in 1..m : t[i] = s[i]
  BY <1>1, <1>4, SubSeqProperties
<1> HIDE DEF t
<1>7. t # <<>> => m # 0
  <2>1. t # <<>> => Len(t) \in Nat \ {0}
    BY ONLY <1>6, EmptySeq
  <2> QED
    BY <1>6, <2>1
<1>8. m # 0 => m \in 1..m /\ t[m] \in 1..255
  <2> SUFFICES ASSUME m # 0 PROVE m \in 1..m /\ t[m] \in 1..255
    OBVIOUS
  <2>1. m \in 1..m /\ m \in 1..Len(s)
    BY <1>1, <1>4
  <2>2. t[m] = s[m] /\ s[m] > 0 /\ s[m] \in 0..255
    BY <1>1, <1>4, <1>6, <2>1 DEF Byte
  <2> QED
    BY <2>1, <2>2
<1>9. t # <<>> => Len(t) \in 1..Len(t) /\ t[Len(t)] \in 1..255
  BY <1>6, <1>7, <1>8
<1> QED
  BY ONLY <1>5, <1>6, <1>9

LEMMA ReturnIs ==
  ASSUME nest \in Seq(Byte), ret \in BOOLEAN,
         NEW ok \in BOOLEAN, NEW s \in Seq(Byte), Return(ok, s)
  PROVE  /\ pc' \in {"done", "header"} /\ nest' \in Seq(Byte) /\ ret' \in BOOLEAN
         /\ s = <<>> => pc' = "done" /\ nest' = <<>> /\ ret' = ok
<1> DEFINE t == IF ok \/ s = <<>> THEN s ELSE Front(s)
           left == Open(t)
<1>1. t \in Seq(Byte)
  <2>1. CASE ok \/ s = <<>>
    BY <2>1
  <2>2. CASE ~(ok \/ s = <<>>)
    <3>1. Len(s) \in Nat /\ \A i \in 1..Len(s) - 1 : s[i] \in Byte
      OBVIOUS
    <3>2. SubSeq(s, 1, Len(s) - 1) \in Seq(Byte)
      BY <3>1, SubSeqProperties
    <3> QED
      BY <2>2, <3>2 DEF Front
  <2> QED
    BY <2>1, <2>2
<1>2. Return(ok, s) <=>
        IF left = <<>>
        THEN /\ pc' = "done" /\ nest' = <<>> /\ ret' = (ok \/ s # <<>>)
        ELSE /\ pc' = "header" /\ nest' = [left EXCEPT ![Len(left)] = @ - 1]
             /\ UNCHANGED ret
  BY DEF Return
<1> HIDE DEF t
<1>3. /\ left \in Seq(Byte)
      /\ left # <<>> => Len(left) \in 1..Len(left) /\ left[Len(left)] \in 1..255
  BY <1>1, OpenIs
<1> HIDE DEF left
<1>4. CASE left = <<>>
  BY <1>2, <1>4
<1>5. CASE left # <<>>
  <2>1. left[Len(left)] - 1 \in Byte
    BY <1>3, <1>5 DEF Byte
  <2>2. [left EXCEPT ![Len(left)] = left[Len(left)] - 1] \in Seq(Byte)
    BY <1>3, <1>5, <2>1, ExceptSeq
  <2>3. s # <<>>
    <3> SUFFICES ASSUME s = <<>> PROVE FALSE
      OBVIOUS
    <3>1. left = SubSeq(<<>>, 1, Max({i \in DOMAIN <<>> : <<>>[i] > 0} \cup {0}))
      BY DEF left, t, Open
    <3>2. {i \in DOMAIN <<>> : <<>>[i] > 0} \cup {0} = {0}
      OBVIOUS
    <3>3. Max({0}) = 0
      BY DEF Max
    <3>4. left = SubSeq(<<>>, 1, 0)
      BY <3>1, <3>2, <3>3
    <3> QED
      BY <1>5, <3>4, SubSeqEmpty
  <2> QED
    BY <1>2, <1>5, <2>2, <2>3
<1> QED
  BY <1>4, <1>5

-----------------------------------------------------------------------------
(* Types. *)

LEMMA SameStream ==
  ASSUME sent' = sent
  PROVE  Stream' = Stream /\ Starts' = Starts
BY DEF Stream, Starts, Start

LEMMA StreamType == ASSUME TypeOK PROVE Stream \in Seq(Byte) /\ Len(Stream) \in Nat
<1>1. sent \in Seq(Messages)
  BY DEF TypeOK
<1>2. Stream \in Seq(Byte)
  BY <1>1, StreamShape
<1> QED
  BY <1>2

\* What is read is the next bytes of the stream.
LEMMA PieceIs ==
  ASSUME TypeOK, NEW n \in Nat, n <= Available
  PROVE  /\ Piece(n) \in Seq(Byte) /\ Len(Piece(n)) = n
         /\ \A k \in 1..n : Piece(n)[k] = Stream[taken + k]
         /\ taken + n <= arrived
<1> DEFINE w == Stream
           t == taken
           q == SubSeq(w, t + 1, t + n)
<1>1. w \in Seq(Byte) /\ Len(w) \in Nat
  BY StreamType
<1>2. t \in Nat /\ t + n <= arrived /\ arrived \in Nat /\ arrived <= Len(w)
  BY <1>1 DEF TypeOK, Available
<1>3. q = Piece(n)
  BY DEF Piece
<1> HIDE DEF w, t
<1>4. \A i \in t + 1..t + n : w[i] \in Byte
  BY <1>1, <1>2
<1>5. /\ q \in Seq(Byte)
      /\ Len(q) = IF t + 1 <= t + n THEN (t + n) - (t + 1) + 1 ELSE 0
      /\ \A i \in 1..(t + n) - (t + 1) + 1 : q[i] = w[(t + 1) + i - 1]
  <2>1. t + 1 \in Int /\ t + n \in Int
    BY <1>2
  <2> QED
    BY ONLY <1>4, <2>1, SubSeqProperties
<1> HIDE DEF q
<1>6. Len(q) = n
  BY <1>2, <1>5
<1>7. \A k \in 1..n : q[k] = w[t + k]
  <2> SUFFICES ASSUME NEW k \in 1..n PROVE q[k] = w[t + k]
    OBVIOUS
  <2>1. k \in 1..(t + n) - (t + 1) + 1 /\ (t + 1) + k - 1 = t + k
    BY <1>2
  <2> QED
    BY <1>5, <2>1
<1> QED
  BY <1>2, <1>3, <1>5, <1>6, <1>7 DEF w, t

LEMMA HeaderRead ==
  ASSUME TypeOK, Available >= HEADER_LEN
  PROVE  LET p == HeaderOf(Piece(HEADER_LEN))
         IN  /\ p \in Packet
             /\ p.status = Stream[taken + 2] /\ p.control1 = Stream[taken + 3]
             /\ p.control2 = Stream[taken + 4]
             /\ taken + HEADER_LEN <= arrived
<1> DEFINE b == Piece(HEADER_LEN)
<1>1. /\ b \in Seq(Byte) /\ Len(b) = 4 /\ taken + HEADER_LEN <= arrived
      /\ \A k \in 1..4 : b[k] = Stream[taken + k]
  <2>1. HEADER_LEN \in Nat /\ HEADER_LEN <= Available
    BY DEF HEADER_LEN, TypeOK, Available
  <2> QED
    BY <2>1, PieceIs DEF HEADER_LEN
<1>2. HeaderOf(b) = [status |-> b[2], control1 |-> b[3], control2 |-> b[4]]
  BY DEF HeaderOf, assemble_header
<1> HIDE DEF b
<1>3. b[2] \in Byte /\ b[3] \in Byte /\ b[4] \in Byte
  <2>1. b \in Seq(Byte)
    BY <1>1
  <2>1a. Len(b) = 4
    BY <1>1
  <2>2. \A k \in 1..Len(b) : b[k] \in Byte
    BY ONLY <2>1
  <2>3. 2 \in 1..4 /\ 3 \in 1..4 /\ 4 \in 1..4
    OBVIOUS
  <2> QED
    BY ONLY <2>1a, <2>2, <2>3
<1>4. HeaderOf(b) \in Packet
  <2>1. \A x, y, z \in Byte : [status |-> x, control1 |-> y, control2 |-> z] \in Packet
    BY DEF Packet
  <2> QED
    BY ONLY <1>2, <1>3, <2>1
<1>5. b[2] = Stream[taken + 2] /\ b[3] = Stream[taken + 3] /\ b[4] = Stream[taken + 4]
  BY <1>1
<1> QED
  BY <1>1, <1>2, <1>4, <1>5 DEF b

\* What "%.*s" prints of a buffer: the bytes before its first NUL.
LEMMA CStringIs ==
  ASSUME NEW b \in Seq(Byte)
  PROVE  /\ CString(b) \in Seq(Byte) /\ Len(CString(b)) <= Len(b)
         /\ \A k \in 1..Len(CString(b)) : CString(b)[k] = b[k] /\ b[k] # NULL_BYTE
         /\ Len(CString(b)) < Len(b) => b[Len(CString(b)) + 1] = NULL_BYTE
<1> DEFINE l == Len(b)
           S == buf_contains_symbol(b, NULL_BYTE) \cup {l + 1}
           n == Min(S)
           c == SubSeq(b, 1, n - 1)
<1>1. CString(b) = c
  BY DEF CString
<1>2. l \in Nat /\ DOMAIN b = 1..l
  OBVIOUS
<1>3. S = {k \in 1..l : b[k] = NULL_BYTE} \cup {l + 1}
  BY <1>2 DEF buf_contains_symbol
<1> HIDE DEF S
<1>4. n \in S /\ \A y \in S : n <= y
  <2>1. S \in SUBSET (0..l + 1) /\ S # {} /\ l + 1 \in Nat
    BY <1>2, <1>3
  <2> QED
    BY <2>1, Smallest
<1> HIDE DEF n, l
<1>5. n \in 1..l + 1 /\ (n <= l => b[n] = NULL_BYTE) /\ \A k \in 1..n - 1 : b[k] # NULL_BYTE
  <2>1. n \in 1..l + 1 /\ (n <= l => b[n] = NULL_BYTE)
    BY <1>2, <1>3, <1>4
  <2>2. ASSUME NEW k \in 1..n - 1, b[k] = NULL_BYTE PROVE FALSE
    <3>1. k \in S /\ k < n
      BY <1>2, <1>3, <2>1, <2>2
    <3> QED
      BY <1>2, <1>4, <2>1, <3>1
  <2> QED
    BY <2>1, <2>2
<1>6. c \in Seq(Byte) /\ Len(c) = n - 1 /\ \A k \in 1..n - 1 : c[k] = b[k]
  <2>1. n - 1 \in Int /\ 1 \in Int /\ \A k \in 1..n - 1 : b[k] \in Byte
    BY <1>2, <1>5 DEF l
  <2>2. /\ c \in Seq(Byte)
        /\ Len(c) = IF 1 <= n - 1 THEN (n - 1) - 1 + 1 ELSE 0
        /\ \A k \in 1..(n - 1) - 1 + 1 : c[k] = b[1 + k - 1]
    BY ONLY <2>1, SubSeqProperties
  <2> HIDE DEF c
  <2>3. (n - 1) - 1 + 1 = n - 1 /\ (~(1 <= n - 1) => n - 1 = 0) /\ \A k \in 1..n - 1 : 1 + k - 1 = k
    BY <1>2, <1>5
  <2> QED
    BY <2>2, <2>3
<1> HIDE DEF c
<1>7. Len(c) <= l /\ (Len(c) < l => b[Len(c) + 1] = NULL_BYTE)
  <2>1. Len(c) + 1 = n
    BY <1>2, <1>5, <1>6
  <2> QED
    BY <1>2, <1>5, <1>6, <2>1
<1> QED
  BY <1>1, <1>5, <1>6, <1>7 DEF l

\* The texts of several buffers are printed one after the other.
LEMMA CStringsIs ==
  ASSUME NEW d \in Seq(Seq(Byte))
  PROVE  /\ CStrings(d) \in Seq(Byte)
         /\ \A b \in Seq(Byte) : CStrings(Append(d, b)) = CStrings(d) \o CString(b)
<1> DEFINE C(e) == [i \in 1..Len(e) |-> CString(e[i])]
<1>1. ASSUME NEW e \in Seq(Seq(Byte)) PROVE C(e) \in Seq(Seq(Byte)) /\ Len(C(e)) = Len(e)
  <2>1. \A i \in 1..Len(e) : CString(e[i]) \in Seq(Byte)
    BY CStringIs
  <2> QED
    BY <2>1
<1>2. CStrings(d) \in Seq(Byte)
  BY <1>1, FlattenType DEF CStrings
<1>3. ASSUME NEW b \in Seq(Byte) PROVE CStrings(Append(d, b)) = CStrings(d) \o CString(b)
  <2> DEFINE e == Append(d, b)
             c == CString(b)
  <2>1. /\ e \in Seq(Seq(Byte)) /\ Len(e) = Len(d) + 1 /\ e[Len(d) + 1] = b
        /\ \A i \in 1..Len(d) : e[i] = d[i]
    BY AppendProperties
  <2>2. c \in Seq(Byte)
    BY CStringIs
  <2> HIDE DEF e
  <2>3. C(e) \in Seq(Seq(Byte)) /\ Len(C(e)) = Len(e) /\ C(d) \in Seq(Seq(Byte)) /\ Len(C(d)) = Len(d)
    BY <1>1, <2>1
  <2>4. \A i \in 1..Len(e) : C(e)[i] = IF i <= Len(d) THEN C(d)[i] ELSE c
    BY <2>1
  <2> DEFINE x == C(e)
             y == C(d)
  <2> HIDE DEF C, c
  <2>5. Append(y, c) \in Seq(Seq(Byte)) /\ Len(Append(y, c)) = Len(y) + 1
        /\ Append(y, c)[Len(y) + 1] = c /\ \A i \in 1..Len(y) : Append(y, c)[i] = y[i]
    BY <2>2, <2>3, AppendProperties
  <2>6. Len(x) = Len(Append(y, c)) /\ \A i \in 1..Len(x) : x[i] = Append(y, c)[i]
    BY <2>1, <2>3, <2>4, <2>5
  <2>7. x \in Seq(Seq(Byte))
    BY <2>3
  <2>8. x = Append(y, c)
    <3> HIDE DEF x, y
    <3> QED
      BY ONLY <2>5, <2>6, <2>7, SeqEqual
  <2>9. FlattenSeq(x) = FlattenSeq(y) \o c
    BY <2>2, <2>3, <2>8, FlattenAppend
  <2> QED
    BY <2>9 DEF CStrings, C, c, e
<1> QED
  BY <1>2, <1>3

LEMMA PrintedIs ==
  ASSUME NEW p, NEW bufs \in Seq(Seq(Byte)), NEW mem \in Seq(Byte)
  PROVE  Printed(p, bufs, mem) \in SUBSET Seq(Byte \cup {Stale})
<1> DEFINE V == Byte \cup {Stale}
           time == [k \in 1..TIME_LEN |-> IF k <= Len(mem) THEN mem[k] ELSE Stale]
<1>1. CStrings(bufs) \in Seq(V)
  <2>1. CStrings(bufs) \in Seq(Byte)
    BY CStringsIs
  <2>2. \A x \in Seq(Byte) : x \in Seq(V)
    BY SeqMonotonic
  <2> QED
    BY <2>1, <2>2
<1>2. time \in Seq(V)
  <2>1. TIME_LEN \in Nat
    BY DEF TIME_LEN
  <2>2. \A k \in 1..TIME_LEN : time[k] \in V
    BY <2>1
  <2> HIDE DEF V
  <2> QED
    BY <2>1, <2>2
<1> HIDE DEF V, time
<1> QED
  BY <1>1, <1>2 DEF Printed, V, time

LEMMA HandledIs ==
  ASSUME TypeOK, NEW ok \in BOOLEAN, NEW bufs, NEW mem, Handled(ok, bufs, mem)
  PROVE  /\ pc' \in {"done", "header"} /\ nest' \in Seq(Byte) /\ ret' \in BOOLEAN
         /\ nest = <<>> => pc' = "done" /\ nest' = <<>>
         /\ nest = <<>> /\ ~ok => ret' = FALSE
         /\ printed' = Printed(pack, bufs, mem)
         /\ pack' = pack /\ at' = at /\ answer' = {} /\ need' = 0 /\ data' = bufs /\ first' = mem
<1> DEFINE o == ok /\ ~PrintFails(pack, bufs # <<>>)
<1>1. Return(o, nest)
  BY Zenon DEF Handled
<1>1a. /\ printed' = Printed(pack, bufs, mem)
       /\ pack' = pack /\ at' = at /\ answer' = {} /\ need' = 0 /\ data' = bufs /\ first' = mem
  BY DEF Handled
<1>2. nest \in Seq(Byte) /\ ret \in BOOLEAN
  BY DEF TypeOK
<1>3. o \in BOOLEAN /\ (~ok => o = FALSE)
  OBVIOUS
<1> HIDE DEF o
<1>4. /\ pc' \in {"done", "header"} /\ nest' \in Seq(Byte) /\ ret' \in BOOLEAN
      /\ nest = <<>> => pc' = "done" /\ nest' = <<>> /\ ret' = o
  BY <1>1, <1>2, <1>3, ReturnIs
<1> QED
  BY <1>1a, <1>3, <1>4

LEMMA KnownTruth == ASSUME NEW p PROVE Known(p) \in BOOLEAN
<1>0. ENQUIRY # ACKNOWLEDGE /\ ENQUIRY # NEG_ACKNOWLEDGE
  BY DEF ENQUIRY, ACKNOWLEDGE, NEG_ACKNOWLEDGE
<1> DEFINE a == p.status = ENQUIRY
           b == p.status \in {ACKNOWLEDGE, NEG_ACKNOWLEDGE}
           x == p.control1 \in ENQUIRY_NORMAL..ENQUIRY_RTIME
           y == p.control1 \in {START_TEXT, ENQUIRY, WAKEUP, IDLE, ESCAPE}
           z == p.status \in {NULL_BYTE, START_HEADER, START_TEXT, WAKEUP,
                              IDLE, ESCAPE}
<1>1. Known(p) = CASE a -> x [] b -> y [] OTHER -> z
  BY Zenon DEF Known
<1>2. ~(a /\ b) /\ a \in BOOLEAN /\ b \in BOOLEAN /\ x \in BOOLEAN /\ y \in BOOLEAN /\ z \in BOOLEAN
  BY <1>0
<1> HIDE DEF a, b, x, y, z
<1> QED
  BY ONLY <1>1, <1>2

LEMMA DataLenIsNat == ASSUME NEW p \in Packet PROVE DataLen(p) \in Nat
<1>1. p.control1 \in Nat /\ p.control2 \in Nat
  BY DEF Packet, Byte
<1>2. \A x, y \in Nat : x * y \in Nat
  OBVIOUS
<1>3. p.control1 * p.control2 \in Nat
  BY <1>1, <1>2
<1> QED
  BY <1>1, <1>3 DEF DataLen

\* What process_request does with the header p, up to the next read or write.
HeaderGives(p) ==
  /\ p.status = Stream[taken + 2] /\ p.control1 = Stream[taken + 3]
  /\ p.control2 = Stream[taken + 4]
  /\ pack' = p /\ need' = DataLen(p) /\ answer' = Answer(p, inc_flag)
  /\ inc_flag' = FlagOnHeader(p, inc_flag) /\ out_flag' = OutOnHeader(p, out_flag)
  /\ \/ /\ IsLongHeader(p)
        /\ pc' \in {"done", "header"} /\ nest' \in Seq(Byte) /\ ret' \in BOOLEAN
     \/ /\ ~IsLongHeader(p) /\ answer' = {} /\ ~IsLongText(p)
        /\ pc' \in {"done", "header"} /\ nest' \in Seq(Byte) /\ ret' \in BOOLEAN
        /\ nest = <<>> => pc' = "done" /\ nest' = <<>>
     \/ /\ ~IsLongHeader(p) /\ nest' = nest /\ ret' = ret
        /\ \/ IsLongText(p) /\ pc' = "text"
           \/ /\ ~IsLongText(p) /\ answer' # {}
              /\ pc' = IF need' > 0 THEN "data" ELSE "answer"

LEMMA ReadHeaderIs ==
  ASSUME TypeOK, ReadHeader
  PROVE  \E p \in Packet : HeaderGives(p)
<1> DEFINE p == HeaderOf(Piece(HEADER_LEN))
<1>1. /\ p \in Packet /\ p.status = Stream[taken + 2] /\ p.control1 = Stream[taken + 3]
      /\ p.control2 = Stream[taken + 4]
  BY HeaderRead DEF ReadHeader
<1>2. /\ pack' = p /\ need' = DataLen(p) /\ answer' = Answer(p, inc_flag)
      /\ inc_flag' = FlagOnHeader(p, inc_flag) /\ out_flag' = OutOnHeader(p, out_flag)
  BY DEF ReadHeader
<1>3. IF IsLongHeader(p) THEN Return(TRUE, Append(nest, p.control1))
      ELSE IF answer' = {} /\ ~IsLongText(p) THEN Return(Known(p), nest)
      ELSE /\ pc' = IF IsLongText(p) THEN "text"
                    ELSE IF need' > 0 THEN "data" ELSE "answer"
           /\ UNCHANGED <<nest, ret>>
  BY Zenon DEF ReadHeader
<1>4. nest \in Seq(Byte) /\ ret \in BOOLEAN
  BY DEF TypeOK
<1> HIDE DEF p
<1>5. CASE IsLongHeader(p)
  <2>1. Return(TRUE, Append(nest, p.control1))
    BY <1>3, <1>5
  <2>2. Append(nest, p.control1) \in Seq(Byte)
    <3>1. p.control1 \in Byte
      BY <1>1 DEF Packet
    <3> QED
      BY <1>4, <3>1, AppendProperties
  <2>3. pc' \in {"done", "header"} /\ nest' \in Seq(Byte) /\ ret' \in BOOLEAN
    BY <1>4, <2>1, <2>2, ReturnIs
  <2> QED
    BY <1>1, <1>2, <1>5, <2>3 DEF HeaderGives
<1>6. CASE ~IsLongHeader(p) /\ answer' = {} /\ ~IsLongText(p)
  <2>1. Return(Known(p), nest) /\ Known(p) \in BOOLEAN
    <3>1. Known(p) \in BOOLEAN
      BY KnownTruth
    <3> QED
      BY <1>3, <1>6, <3>1
  <2>2. /\ pc' \in {"done", "header"} /\ nest' \in Seq(Byte) /\ ret' \in BOOLEAN
        /\ nest = <<>> => pc' = "done" /\ nest' = <<>>
    <3> DEFINE k == Known(p)
    <3>1. Return(k, nest) /\ k \in BOOLEAN
      BY <2>1
    <3> HIDE DEF k
    <3> QED
      BY <1>4, <3>1, ReturnIs
  <2> QED
    BY <1>1, <1>2, <1>6, <2>2 DEF HeaderGives
<1>7. CASE ~IsLongHeader(p) /\ ~(answer' = {} /\ ~IsLongText(p))
  <2>1. /\ pc' = IF IsLongText(p) THEN "text" ELSE IF need' > 0 THEN "data" ELSE "answer"
        /\ nest' = nest /\ ret' = ret
    BY <1>3, <1>7
  <2> QED
    BY <1>1, <1>2, <1>7, <2>1 DEF HeaderGives
<1> QED
  BY <1>5, <1>6, <1>7

\* Window is at least one byte, so each buffer takes some.
LEMMA ExpectedIs ==
  ASSUME TypeOK
  PROVE  Expected \in Nat /\ Expected <= need /\ (need > 0 => Expected > 0)
BY EndpointAssumption DEF Expected, TypeOK

LEMMA TypesInit == ASSUME Init PROVE TypeOK
<1>1. sent \in Seq(Messages)
  <2>1. PICK n \in 1..MaxMessages : sent \in [1..n -> Messages]
    BY DEF Init
  <2>2. n \in Nat
    BY EndpointAssumption
  <2> QED
    BY <2>1, <2>2
<1>2. Stream \in Seq(Byte)
  BY <1>1, StreamShape
<1>3. assemble_header(NULL_BYTE, 0, 0) \in Packet
  BY DEF assemble_header, Packet, NULL_BYTE, Byte
<1>4. <<>> \in Seq(Byte) /\ <<>> \in Seq(Seq(Byte))
  OBVIOUS
<1>5. arrived \in 0..Len(Stream) /\ taken \in 0..arrived /\ at \in 0..taken
  BY <1>2 DEF Init
<1> QED
  BY <1>1, <1>3, <1>4, <1>5, FlagValues DEF Init, TypeOK

\* What reading does to the types: the rest of the state is as it was.
LEMMA TypesRead ==
  ASSUME TypeOK, caller' = caller, sent' = sent, arrived' = arrived,
         link' \in {link, "fin"}, taken' \in taken..arrived,
         pc' \in {"select", "header", "data", "text", "answer", "done", "closed"},
         nest' \in Seq(Byte), ret' \in BOOLEAN, pack' \in Packet,
         data' \in Seq(Seq(Byte)), need' \in Nat, answer' \in SUBSET Packet,
         inc_flag' \in Byte, out_flag' \in Byte, at' \in 0..taken',
         first' \in Seq(Byte),
         printed' \in SUBSET Seq(Byte \cup {Stale}),
         lost' \in {lost, lost \cup {"error"}, lost \cup {"text"}},
         escaped' \in BOOLEAN
  PROVE  TypeOK'
<1>1. Stream' = Stream
  BY SameStream
<1>2. taken \in Nat /\ arrived \in Nat /\ Len(Stream) \in Nat
  BY StreamType DEF TypeOK
<1>3. arrived' \in 0..Len(Stream') /\ taken' \in 0..arrived'
  BY <1>1, <1>2 DEF TypeOK
<1>4. lost' \subseteq {"error", "text"} /\ link' \in {"open", "fin", "rst"}
  BY DEF TypeOK
<1>5. caller' \in Callers /\ sent' \in Seq(Messages)
  BY DEF TypeOK
<1> QED
  BY <1>3, <1>4, <1>5 DEF TypeOK

\* The end of a handler keeps the types.
LEMMA TypesHandled ==
  ASSUME TypeOK, NEW ok \in BOOLEAN, NEW bufs \in Seq(Seq(Byte)), NEW mem \in Seq(Byte),
         Handled(ok, bufs, mem),
         caller' = caller, sent' = sent, arrived' = arrived,
         link' \in {link, "fin"}, taken' \in taken..arrived,
         inc_flag' \in Byte, out_flag' \in Byte,
         lost' \in {lost, lost \cup {"error"}, lost \cup {"text"}}, escaped' \in BOOLEAN
  PROVE  TypeOK'
<1>1. /\ pc' \in {"done", "header"} /\ nest' \in Seq(Byte) /\ ret' \in BOOLEAN
      /\ printed' = Printed(pack, bufs, mem) /\ first' = mem
      /\ pack' = pack /\ at' = at /\ answer' = {} /\ need' = 0 /\ data' = bufs
  BY HandledIs
<1>2. at' \in 0..taken'
  BY <1>1 DEF TypeOK
<1>2a. printed' \in SUBSET Seq(Byte \cup {Stale}) /\ first' \in Seq(Byte)
  BY <1>1, PrintedIs
<1>3. pack' \in Packet
  BY <1>1 DEF TypeOK
<1>4. need' \in Nat /\ answer' \in SUBSET Packet /\ data' \in Seq(Seq(Byte))
  BY <1>1
<1> QED
  BY <1>1, <1>2, <1>2a, <1>3, <1>4, TypesRead

LEMMA FirstType ==
  ASSUME TypeOK, NEW b \in Seq(Byte)
  PROVE  First(b) \in Seq(Byte)
BY DEF First, TypeOK

LEMMA TypesStep == ASSUME TypeOK, Next PROVE TypeOK'
<1> USE DEF sentVars, packVars, flagVars, callVars
<1>0. /\ taken \in taken..arrived /\ arrived \in taken..arrived /\ at \in 0..taken
      /\ at \in 0..arrived /\ taken \in Nat /\ arrived \in Nat
  BY StreamType DEF TypeOK
<1>0a. /\ Append(data, <<>>) \in Seq(Seq(Byte)) /\ <<>> \in Seq(Seq(Byte))
       /\ First(<<>>) \in Seq(Byte) /\ <<>> \in Seq(Byte)
  <2>1. <<>> \in Seq(Byte) /\ data \in Seq(Seq(Byte))
    BY DEF TypeOK
  <2>2. First(<<>>) \in Seq(Byte)
    BY <2>1, FirstType
  <2>3. Append(data, <<>>) \in Seq(Seq(Byte))
    BY <2>1, AppendProperties
  <2> QED
    BY <2>1, <2>2, <2>3
<1>0c. Return(FALSE, nest) =>
         pc' \in {"done", "header"} /\ nest' \in Seq(Byte) /\ ret' \in BOOLEAN
  BY ReturnIs DEF TypeOK
<1>1. CASE Begin
  BY <1>0, <1>0a, <1>1, TypesRead DEF Begin, TypeOK
<1>2. CASE ReadHeader
  <2>1. PICK p \in Packet :
           /\ pack' = p /\ need' = DataLen(p) /\ answer' = Answer(p, inc_flag)
           /\ inc_flag' = FlagOnHeader(p, inc_flag) /\ out_flag' = OutOnHeader(p, out_flag)
           /\ pc' \in {"data", "text", "answer", "done", "header"}
           /\ nest' \in Seq(Byte) /\ ret' \in BOOLEAN
    <3>1. PICK p \in Packet :
           /\ pack' = p /\ need' = DataLen(p) /\ answer' = Answer(p, inc_flag)
           /\ inc_flag' = FlagOnHeader(p, inc_flag) /\ out_flag' = OutOnHeader(p, out_flag)
           /\ \/ pc' \in {"done", "header"} /\ nest' \in Seq(Byte) /\ ret' \in BOOLEAN
              \/ pc' \in {"data", "text", "answer"} /\ nest' = nest /\ ret' = ret
      <4>1. PICK p \in Packet : HeaderGives(p)
        BY <1>2, ReadHeaderIs
      <4> QED
        BY <4>1 DEF HeaderGives
    <3>2. nest \in Seq(Byte) /\ ret \in BOOLEAN
      BY DEF TypeOK
    <3> QED
      BY <3>1, <3>2
  <2>2. DataLen(p) \in Nat
    BY DataLenIsNat
  <2>3. /\ Answer(p, inc_flag) \in SUBSET Packet
        /\ FlagOnHeader(p, inc_flag) \in Byte /\ OutOnHeader(p, out_flag) \in Byte
    BY AnswerIsPackets, FlagInByte DEF TypeOK
  <2>4. taken' \in taken..arrived /\ at' \in 0..taken'
    BY <1>0, <1>2, HeaderRead DEF ReadHeader, HEADER_LEN
  <2>5. caller' = caller /\ sent' = sent /\ arrived' = arrived /\ link' = link
        /\ printed' = {} /\ data' = data /\ lost' = lost /\ escaped' = escaped
        /\ first' = first
    BY <1>2 DEF ReadHeader
  <2>6. data \in Seq(Seq(Byte)) /\ first \in Seq(Byte) /\ escaped \in BOOLEAN
    BY DEF TypeOK
  <2> QED
    BY <2>1, <2>2, <2>3, <2>4, <2>5, <2>6, TypesRead
<1>3. CASE ReadHeaderShort
  BY <1>0, <1>0c, <1>3, TypesRead DEF ReadHeaderShort, TypeOK
<1>4. CASE ReadHeaderEnd
  BY <1>0, <1>0c, <1>4, TypesRead, FlagValues DEF ReadHeaderEnd, TypeOK
<1>5. CASE ReadHeaderFails
  BY <1>0, <1>0c, <1>5, TypesRead DEF ReadHeaderFails, TypeOK
<1>6. CASE ReadData
  <2>1. Expected \in Nat /\ Expected <= need /\ Expected <= Available
    BY <1>6, ExpectedIs DEF ReadData, TypeOK, Available
  <2>2. Piece(Expected) \in Seq(Byte) /\ taken + Expected <= arrived
    BY <2>1, PieceIs
  <2>3. data' \in Seq(Seq(Byte))
    <3>1. data \in Seq(Seq(Byte)) /\ data' = Append(data, Piece(Expected))
      BY <1>6 DEF ReadData, TypeOK
    <3> QED
      BY <2>2, <3>1, AppendProperties
  <2>4. need' \in Nat /\ taken' \in taken..arrived /\ at' \in 0..taken'
    BY <1>0, <1>6, <2>1, <2>2 DEF ReadData, TypeOK
  <2>5. pc' \in {"answer", "data"} /\ first' \in Seq(Byte)
    BY <1>6, <2>2, FirstType DEF ReadData
  <2> QED
    BY <1>6, <2>3, <2>4, <2>5, TypesRead DEF ReadData, TypeOK
<1>7. CASE ReadDataShort
  <2> DEFINE d == Append(data, <<>>)
             m == First(Piece(Available))
  <2>1. Handled(FALSE, d, m) /\ d \in Seq(Seq(Byte))
    BY <1>0a, <1>7 DEF ReadDataShort
  <2>1a. m \in Seq(Byte)
    <3>1. Available \in Nat
      BY <1>0 DEF Available
    <3> QED
      BY <3>1, PieceIs, FirstType
  <2>2. /\ caller' = caller /\ sent' = sent /\ arrived' = arrived /\ link' = link
        /\ taken' \in taken..arrived /\ inc_flag' \in Byte /\ out_flag' \in Byte
        /\ lost' = lost \cup {"error"} /\ escaped' \in BOOLEAN
    BY <1>0, <1>7 DEF ReadDataShort, TypeOK
  <2> HIDE DEF d, m
  <2> QED
    BY <2>1, <2>1a, <2>2, TypesHandled
<1>8. CASE ReadDataEnd
  <2> DEFINE d == Append(data, <<>>)
             m == First(<<>>)
  <2>1. Handled(FALSE, d, m) /\ m \in Seq(Byte) /\ d \in Seq(Seq(Byte))
    BY <1>0a, <1>8 DEF ReadDataEnd
  <2>2. /\ caller' = caller /\ sent' = sent /\ arrived' = arrived /\ link' = link
        /\ taken' \in taken..arrived /\ inc_flag' \in Byte /\ out_flag' \in Byte
        /\ lost' = lost /\ escaped' \in BOOLEAN
    BY <1>0, <1>8, FlagValues DEF ReadDataEnd, TypeOK
  <2> HIDE DEF d, m
  <2> QED
    BY <2>1, <2>2, TypesHandled
<1>9. CASE ReadText
  <2> DEFINE n == IF Available < Window THEN Available ELSE Window
             ends == buf_contains_symbol(Piece(n), END_TEXT)
             b == SubSeq(Piece(n), 1, Min(ends) - 1)
  <2>1. n \in Nat /\ n <= Available
    BY <1>0, <1>9, EndpointAssumption DEF ReadText, Available
  <2>2. Piece(n) \in Seq(Byte) /\ Len(Piece(n)) = n /\ taken + n <= arrived
    BY <2>1, PieceIs
  <2>3. taken' = taken + n /\ taken' \in taken..arrived /\ at \in 0..taken'
    BY <1>0, <1>9, <2>1, <2>2 DEF ReadText
  <2> HIDE DEF n
  <2>4. CASE ends = {}
    <3>1. /\ data' = Append(data, Piece(n)) /\ first' = First(Piece(n))
          /\ UNCHANGED <<callVars, pack, need, answer, at, printed, lost>>
      BY <1>9, <2>4 DEF ReadText, n
    <3>2. data' \in Seq(Seq(Byte))
      <4>1. data \in Seq(Seq(Byte))
        BY DEF TypeOK
      <4> QED
        BY <2>2, <3>1, <4>1, AppendProperties
    <3>3. first' \in Seq(Byte)
      BY <2>2, <3>1, FirstType
    <3> QED
      BY <1>9, <2>3, <3>1, <3>2, <3>3, TypesRead DEF ReadText, TypeOK
  <2>5. CASE ends # {}
    <3>1. /\ Handled(TRUE, Append(data, Piece(Min(ends) - 1)), First(Piece(n)))
          /\ lost' = IF Min(ends) < n THEN lost \cup {"text"} ELSE lost
      BY <1>9, <2>5 DEF ReadText, n
    <3>2. Min(ends) \in 1..n
      <4>1. ends \in SUBSET (1..n)
        BY <2>1, <2>2 DEF buf_contains_symbol
      <4>2. ends \in SUBSET (0..n)
        BY <4>1
      <4> HIDE DEF ends
      <4> QED
        BY <2>1, <2>5, <4>1, <4>2, Smallest
    <3>3. Min(ends) - 1 \in Nat /\ Min(ends) - 1 <= Available
      BY <1>0, <2>1, <3>2 DEF Available
    <3> DEFINE m == Min(ends) - 1
    <3>4. Piece(m) \in Seq(Byte)
      <4> HIDE DEF m
      <4> QED
        BY <3>3, PieceIs DEF m
    <3>5. Append(data, Piece(m)) \in Seq(Seq(Byte))
      <4>1. data \in Seq(Seq(Byte))
        BY DEF TypeOK
      <4> HIDE DEF m
      <4> QED
        BY <3>4, <4>1, AppendProperties
    <3> DEFINE d == Append(data, Piece(m))
               x == First(Piece(n))
    <3>6. Handled(TRUE, d, x) /\ d \in Seq(Seq(Byte)) /\ x \in Seq(Byte)
      BY <2>2, <3>1, <3>5, FirstType
    <3>7. /\ caller' = caller /\ sent' = sent /\ arrived' = arrived /\ link' = link
          /\ inc_flag' \in Byte /\ out_flag' \in Byte
          /\ lost' \in {lost, lost \cup {"text"}} /\ escaped' \in BOOLEAN
      BY <1>9, <3>1 DEF ReadText, TypeOK
    <3> HIDE DEF d, x
    <3> QED
      BY <2>3, <3>6, <3>7, TypesHandled
  <2> QED
    BY <2>4, <2>5
<1>10. CASE ReadTextEnd
  <2> DEFINE d == Append(data, <<>>)
             m == First(<<>>)
  <2>1. Handled(TRUE, d, m) /\ m \in Seq(Byte) /\ d \in Seq(Seq(Byte))
    BY <1>0a, <1>10 DEF ReadTextEnd
  <2>2. /\ caller' = caller /\ sent' = sent /\ arrived' = arrived /\ link' = link
        /\ taken' \in taken..arrived /\ inc_flag' \in Byte /\ out_flag' \in Byte
        /\ lost' = lost /\ escaped' \in BOOLEAN
    BY <1>0, <1>10 DEF ReadTextEnd, TypeOK
  <2> HIDE DEF d, m
  <2> QED
    BY <2>1, <2>2, TypesHandled
<1>11. CASE ReadBodyFails
  <2> DEFINE d == Append(data, <<>>)
             m == First(<<>>)
  <2>1. Handled(FALSE, d, m) /\ m \in Seq(Byte) /\ d \in Seq(Seq(Byte))
    BY <1>0a, <1>11 DEF ReadBodyFails
  <2>2. /\ caller' = caller /\ sent' = sent /\ arrived' = arrived /\ link' = "fin"
        /\ taken' \in taken..arrived /\ inc_flag' \in Byte /\ out_flag' \in Byte
        /\ lost' = lost /\ escaped' \in BOOLEAN
    BY <1>0, <1>11 DEF ReadBodyFails, TypeOK
  <2> HIDE DEF d, m
  <2> QED
    BY <2>1, <2>2, TypesHandled
<1>12. CASE AppendFails
  <2>1. Handled(FALSE, data, first) /\ first \in Seq(Byte) /\ data \in Seq(Seq(Byte))
    BY <1>12 DEF AppendFails, TypeOK
  <2>2. /\ caller' = caller /\ sent' = sent /\ arrived' = arrived /\ link' = link
        /\ taken' \in taken..arrived /\ inc_flag' \in Byte /\ out_flag' \in Byte
        /\ lost' = lost \cup {"error"} /\ escaped' \in BOOLEAN
    BY <1>0, <1>12 DEF AppendFails, TypeOK
  <2> QED
    BY <2>1, <2>2, TypesHandled
<1>13. CASE WriteAnswer
  <2>1. Handled(TRUE, data, first) /\ first \in Seq(Byte) /\ data \in Seq(Seq(Byte))
    BY <1>13 DEF WriteAnswer, TypeOK
  <2>2. inc_flag' \in Byte /\ out_flag' \in Byte /\ escaped' \in BOOLEAN
    <3>1. PICK a \in answer :
            /\ out_flag' = IF MarksClosed(a) THEN CANCEL ELSE NULL_BYTE
            /\ inc_flag' = IF MarksClosed(a) THEN CANCEL ELSE inc_flag
            /\ escaped' = (escaped \/ a = Acknowledge(ESCAPE))
      BY <1>13 DEF WriteAnswer
    <3> QED
      BY <3>1, FlagValues DEF TypeOK
  <2>3. /\ caller' = caller /\ sent' = sent /\ arrived' = arrived /\ link' = link
        /\ taken' \in taken..arrived /\ lost' = lost
    BY <1>0, <1>13 DEF WriteAnswer
  <2> QED
    BY <2>1, <2>2, <2>3, TypesHandled
<1>14. CASE WriteFails
  <2>1. Handled(FALSE, data, first) /\ first \in Seq(Byte) /\ data \in Seq(Seq(Byte))
    BY <1>14 DEF WriteFails, TypeOK
  <2>2. out_flag' \in Byte
    <3>1. PICK a \in answer : out_flag' \in {out_flag, a.status}
      BY <1>14 DEF WriteFails
    <3>2. a.status \in Byte
      BY DEF TypeOK, Packet
    <3> QED
      BY <3>1, <3>2 DEF TypeOK
  <2>3. /\ caller' = caller /\ sent' = sent /\ arrived' = arrived /\ link' = link
        /\ taken' \in taken..arrived /\ lost' = lost /\ inc_flag' \in Byte
        /\ escaped' \in BOOLEAN
    BY <1>0, <1>14 DEF WriteFails, TypeOK
  <2> QED
    BY <2>1, <2>2, <2>3, TypesHandled
<1>15. CASE Done
  BY <1>0, <1>15, TypesRead DEF Done, TypeOK
<1>16. CASE Arrive
  <2>1. Stream' = Stream
    BY <1>16, SameStream DEF Arrive
  <2>2. arrived' \in 0..Len(Stream') /\ taken \in 0..arrived'
    BY <1>0, <1>16, <2>1, StreamType DEF Arrive
  <2> QED
    BY <1>16, <2>2 DEF Arrive, TypeOK
<1>17. CASE HangUp
  <2>1. Stream' = Stream
    BY <1>17, SameStream DEF HangUp
  <2> QED
    BY <1>17, <2>1 DEF HangUp, TypeOK
<1> QED
  BY <1>1, <1>2, <1>3, <1>4, <1>5, <1>6, <1>7, <1>8, <1>9, <1>10, <1>11, <1>12,
     <1>13, <1>14, <1>15, <1>16, <1>17 DEF Next, Steps, Failures

LEMMA TypesStutter == ASSUME TypeOK, UNCHANGED vars PROVE TypeOK'
<1>1. sent' = sent
  BY DEF vars, sentVars
<1>2. Stream' = Stream
  BY <1>1, SameStream
<1> QED
  BY <1>2 DEF TypeOK, vars, sentVars, packVars, flagVars, callVars

\* Every variable has its type, for any messages and any way to cut them.
THEOREM EndpointTypes == Spec => []TypeOK
<1>1. Init => TypeOK
  BY TypesInit
<1>2. TypeOK /\ [Next]_vars => TypeOK'
  BY TypesStep, TypesStutter
<1> QED
  BY <1>1, <1>2, PTL DEF Spec

-----------------------------------------------------------------------------
(* Keeping step with the peer. *)

\* Where a message begins, or the stream ends.
Begins == {Start(i) : i \in 1..Len(sent) + 1}

\* At c, the thread is inside message i: a is where it began, p its header, t
\* what has been read and d what read_data still wants.
Within(i, c, a, p, t, d) ==
  /\ a = Start(i) /\ p = sent[i].header
  /\ c = "data" => ~IsLongText(p) /\ d > 0 /\ t + d = Start(i + 1)
  /\ c = "text" => IsLongText(p) /\ a + HEADER_LEN <= t /\ t < Start(i + 1)
  /\ c = "answer" => t = Start(i + 1)

Follows(c, a, p, t, d) ==
  IF c \in {"data", "text", "answer"}
  THEN \E i \in 1..Len(sent) : Within(i, c, a, p, t, d)
  ELSE t \in Begins

\* The thread is between two messages, or at its place in one.
Aligned == Follows(pc, at, pack, taken, need)

\* All that will ever arrive has been read.
Dried == link # "open" /\ Available = 0

\* A call came up short or failed, or a text ended inside a buffer.
Slips == ReadHeaderShort \/ ReadDataShort \/ AppendFails

LEMMA AlignedNext ==
  ASSUME sent' = sent
  PROVE  Aligned' <=> Follows(pc', at', pack', taken', need')
BY DEF Aligned, Follows, Within, Begins, Start

LEMMA BodyLength ==
  ASSUME NEW m \in Messages
  PROVE  /\ ~IsLongText(m.header) => Len(m.body) = DataLen(m.header)
         /\ IsLongText(m.header) =>
              /\ Len(m.body) > 0
              /\ \A k \in 1..Len(m.body) : m.body[k] = END_TEXT <=> k = Len(m.body)
BY EndpointAssumption DEF BodyFits

\* A packet that is not answered has no data, but for a long text.
LEMMA NoData ==
  ASSUME NEW p \in Packet, NEW inc,
         IsLongHeader(p) \/ (Answer(p, inc) = {} /\ ~IsLongText(p))
  PROVE  DataLen(p) = 0 /\ ~IsLongText(p)
<1>1. CASE IsLongHeader(p)
  BY <1>1 DEF IsLongHeader, IsLongText, DataLen, START_HEADER, START_TEXT, ENQUIRY
<1>2. CASE Answer(p, inc) = {} /\ ~IsLongText(p)
  <2>1. p.status # START_TEXT
    BY <1>2 DEF Answer
  <2>2. ~(p.status = ENQUIRY /\ p.control1 = ENQUIRY_TIME)
    <3> SUFFICES ASSUME p.status = ENQUIRY, p.control1 = ENQUIRY_TIME PROVE FALSE
      OBVIOUS
    <3> QED
      BY <1>2, <2>1 DEF Answer, ENQUIRY, START_TEXT, ENQUIRY_NORMAL, ENQUIRY_TIME
  <2> QED
    BY <1>2, <2>1, <2>2 DEF DataLen
<1> QED
  BY <1>1, <1>2

LEMMA SamePacket ==
  ASSUME NEW p \in Packet, NEW q \in Packet, p.status = q.status,
         p.control1 = q.control1, p.control2 = q.control2
  PROVE  p = q
BY DEF Packet

\* A header read where a message begins is the header of that message.
LEMMA HeaderInStep ==
  ASSUME TypeOK, taken \in Begins, Available >= HEADER_LEN
  PROVE  \E i \in 1..Len(sent) :
           /\ taken = Start(i) /\ sent[i] \in Messages
           /\ Start(i + 1) = taken + HEADER_LEN + Len(sent[i].body)
           /\ \A p \in Packet :
                /\ p.status = Stream[taken + 2] /\ p.control1 = Stream[taken + 3]
                /\ p.control2 = Stream[taken + 4]
                => p = sent[i].header
<1>1. sent \in Seq(Messages) /\ Len(sent) \in Nat
  BY DEF TypeOK
<1>2. /\ Start(Len(sent) + 1) = Len(Stream)
      /\ \A i \in 1..Len(sent) :
              /\ sent[i] \in Messages
              /\ Start(i + 1) = Start(i) + HEADER_LEN + Len(sent[i].body)
              /\ \A k \in 1..HEADER_LEN + Len(sent[i].body) :
                   Stream[Start(i) + k] = Wire(sent[i])[k]
  BY <1>1, StreamShape
<1>3. PICK i \in 1..Len(sent) + 1 : taken = Start(i)
  BY DEF Begins
<1>4. taken # Len(Stream)
  BY StreamType DEF TypeOK, Available, HEADER_LEN
<1>5. i \in 1..Len(sent)
  BY <1>1, <1>2, <1>3, <1>4
<1> DEFINE m == sent[i]
<1>6. /\ m \in Messages /\ Start(i + 1) = taken + HEADER_LEN + Len(m.body)
      /\ \A k \in 1..HEADER_LEN + Len(m.body) : Stream[taken + k] = Wire(m)[k]
  BY <1>2, <1>3, <1>5
<1> HIDE DEF m
<1>7. /\ Len(m.body) \in Nat /\ m.header \in Packet
      /\ Wire(m)[2] = m.header.status /\ Wire(m)[3] = m.header.control1
      /\ Wire(m)[4] = m.header.control2
  BY <1>6, WireShape
<1>8. /\ Stream[taken + 2] = Wire(m)[2] /\ Stream[taken + 3] = Wire(m)[3]
      /\ Stream[taken + 4] = Wire(m)[4]
  <2>1. /\ 2 \in 1..HEADER_LEN + Len(m.body) /\ 3 \in 1..HEADER_LEN + Len(m.body)
        /\ 4 \in 1..HEADER_LEN + Len(m.body)
    BY <1>7 DEF HEADER_LEN
  <2> QED
    BY <1>6, <2>1
<1>9. ASSUME NEW p \in Packet, p.status = Stream[taken + 2],
             p.control1 = Stream[taken + 3], p.control2 = Stream[taken + 4]
      PROVE  p = m.header
  BY <1>7, <1>8, <1>9, SamePacket
<1> QED
  BY <1>3, <1>5, <1>6, <1>9 DEF m

LEMMA AlignHeader ==
  ASSUME TypeOK, Aligned, ReadHeader
  PROVE  /\ Aligned'
         /\ \E m \in Messages : pack' = m.header
<1>1. taken \in Begins /\ Available >= HEADER_LEN /\ sent' = sent
  BY DEF ReadHeader, Aligned, Follows, sentVars
<1>2. PICK i \in 1..Len(sent) :
           /\ taken = Start(i) /\ sent[i] \in Messages
           /\ Start(i + 1) = taken + HEADER_LEN + Len(sent[i].body)
           /\ \A p \in Packet :
                /\ p.status = Stream[taken + 2] /\ p.control1 = Stream[taken + 3]
                /\ p.control2 = Stream[taken + 4]
                => p = sent[i].header
  BY <1>1, HeaderInStep
<1>3. PICK p \in Packet : HeaderGives(p)
  BY ReadHeaderIs
<1> DEFINE m == sent[i]
<1>4. p = m.header /\ pack' = m.header /\ m \in Messages
  BY <1>2, <1>3 DEF HeaderGives
<1>5. at' = taken /\ taken' = taken + HEADER_LEN
  BY DEF ReadHeader
<1>6. /\ Len(m.body) \in Nat /\ taken \in Nat
      /\ ~IsLongText(p) => Len(m.body) = DataLen(p)
      /\ IsLongText(p) => Len(m.body) > 0
  BY <1>4, BodyLength, WireShape DEF TypeOK
<1>7. /\ at' = Start(i) /\ Start(i + 1) = taken' + Len(m.body)
      /\ taken' \in Nat /\ at' + HEADER_LEN <= taken'
  BY <1>2, <1>5, <1>6 DEF HEADER_LEN
<1>8. need' = DataLen(p) /\ answer' = Answer(p, inc_flag)
  BY <1>3 DEF HeaderGives
<1>8a. DataLen(p) \in Nat
  BY DataLenIsNat
<1> HIDE DEF m
<1>9. Follows(pc', at', pack', taken', need')
  <2>1. i + 1 \in 1..Len(sent) + 1
    BY DEF TypeOK
  <2>2. CASE /\ IsLongHeader(p) \/ (answer' = {} /\ ~IsLongText(p))
             /\ pc' \in {"done", "header"}
    <3>1. DataLen(p) = 0 /\ ~IsLongText(p)
      BY <1>8, <2>2, NoData
    <3>2. taken' = Start(i + 1)
      BY <1>6, <1>7, <3>1
    <3> QED
      BY <2>1, <2>2, <3>2 DEF Follows, Begins
  <2>3. CASE IsLongText(p) /\ pc' = "text"
    <3>1. taken' < Start(i + 1)
      BY <1>6, <1>7, <2>3
    <3>2. Within(i, pc', at', pack', taken', need')
      BY <1>4, <1>7, <2>3, <3>1 DEF Within, m
    <3> QED
      BY <2>3, <3>2 DEF Follows
  <2>4. CASE ~IsLongText(p) /\ pc' = IF need' > 0 THEN "data" ELSE "answer"
    <3>1. taken' + need' = Start(i + 1)
      BY <1>6, <1>7, <1>8, <2>4
    <3>2. need' \in Nat /\ (pc' = "answer" => need' = 0)
      BY <1>8, <1>8a, <2>4
    <3>3. pc' = "answer" => taken' = Start(i + 1)
      BY <1>7, <3>1, <3>2
    <3>4. Within(i, pc', at', pack', taken', need')
      BY <1>4, <1>7, <2>4, <3>1, <3>3 DEF Within, m
    <3> QED
      BY <2>4, <3>4 DEF Follows
  <2> QED
    BY <1>3, <2>2, <2>3, <2>4 DEF HeaderGives
<1> QED
  BY <1>1, <1>4, <1>9, AlignedNext

\* END_TEXT is the last byte of a long text, so a buffer that has it ends the
\* text, and one that has not leaves some of the text to be read.
LEMMA TextEnds ==
  ASSUME TypeOK, NEW i \in 1..Len(sent), Within(i, "text", at, pack, taken, need),
         NEW n \in 1..Available
  PROVE  LET ends == buf_contains_symbol(Piece(n), END_TEXT)
         IN  /\ ends = {} => taken + n < Start(i + 1)
             /\ ends # {} => Min(ends) \in 1..n /\ taken + Min(ends) = Start(i + 1)
<1> DEFINE b == Piece(n)
           ends == buf_contains_symbol(b, END_TEXT)
           m == sent[i]
           l == Len(m.body)
           e == Start(i + 1)
<1>1. /\ m \in Messages /\ e = at + HEADER_LEN + l /\ pack = m.header
      /\ \A k \in 1..HEADER_LEN + l : Stream[at + k] = Wire(m)[k]
  <2>1. at = Start(i) /\ pack = m.header
    BY DEF Within
  <2>2. sent \in Seq(Messages)
    BY DEF TypeOK
  <2> QED
    BY <2>1, <2>2, StreamShape
<1>2. /\ IsLongText(pack) /\ at + HEADER_LEN <= taken /\ taken < e
      /\ at \in Nat /\ taken \in Nat /\ arrived \in Nat /\ n \in Nat /\ n <= Available
  BY StreamType DEF Within, TypeOK, Available
<1>3. b \in Seq(Byte) /\ Len(b) = n /\ \A k \in 1..n : b[k] = Stream[taken + k]
  BY <1>2, PieceIs
<1>4. ends = {k \in 1..n : Stream[taken + k] = END_TEXT}
  <2>1. DOMAIN b = 1..n
    BY <1>3
  <2> QED
    BY <1>3, <2>1 DEF buf_contains_symbol
<1> HIDE DEF ends, b, e, m, l
<1>5. /\ l \in Nat /\ l > 0
      /\ \A k \in 1..l : Wire(m)[HEADER_LEN + k] = m.body[k]
      /\ \A k \in 1..l : m.body[k] = END_TEXT <=> k = l
  BY <1>1, <1>2, BodyLength, WireShape DEF l
\* Of the rest of the text, only its last byte is END_TEXT.
<1>6. ASSUME NEW j \in Nat, taken < j, j <= e
      PROVE  Stream[j] = END_TEXT <=> j = e
  <2> DEFINE k == j - (at + HEADER_LEN)
  <2>1. k \in 1..l /\ HEADER_LEN + k \in 1..HEADER_LEN + l /\ at + (HEADER_LEN + k) = j
    BY <1>1, <1>2, <1>5, <1>6 DEF HEADER_LEN
  <2>2. k = l <=> j = e
    BY <1>1, <1>2, <1>5, <1>6 DEF HEADER_LEN
  <2> HIDE DEF k
  <2>3. Stream[j] = m.body[k]
    BY <1>1, <1>5, <2>1
  <2> QED
    BY <1>5, <2>1, <2>2, <2>3
<1>7. e \in Nat
  BY <1>1, <1>2, <1>5 DEF HEADER_LEN
<1>8. ASSUME ends = {} PROVE taken + n < e
  <2> SUFFICES ASSUME e <= taken + n PROVE FALSE
    BY <1>2, <1>7
  <2>1. e - taken \in 1..n /\ taken + (e - taken) = e
    BY <1>2, <1>7
  <2>2. Stream[e] = END_TEXT
    BY <1>2, <1>6, <1>7
  <2>3. e - taken \in ends
    BY <1>4, <2>1, <2>2
  <2> QED
    BY <1>8, <2>3
<1>9. ASSUME ends # {} PROVE Min(ends) \in 1..n /\ taken + Min(ends) = e
  <2> DEFINE k == Min(ends)
  <2>1. ends \in SUBSET (0..n)
    BY <1>2, <1>4
  <2>2. k \in ends /\ \A y \in ends : k <= y
    BY <1>2, <1>9, <2>1, Smallest
  <2> HIDE DEF k
  <2>3. k \in 1..n /\ Stream[taken + k] = END_TEXT
    BY <1>4, <2>2
  <2>4. taken + k <= e
    <3> SUFFICES ASSUME e < taken + k PROVE FALSE
      BY <1>2, <1>7, <2>3
    <3>1. e - taken \in 1..n /\ taken + (e - taken) = e /\ e - taken < k
      BY <1>2, <1>7, <2>3
    <3>2. Stream[e] = END_TEXT
      BY <1>2, <1>6, <1>7
    <3>3. e - taken \in ends
      BY <1>4, <3>1, <3>2
    <3> QED
      BY <1>2, <1>7, <2>2, <2>3, <3>1, <3>3
  <2>5. taken + k \in Nat /\ taken < taken + k
    BY <1>2, <2>3
  <2>6. taken + k = e
    BY <1>6, <2>3, <2>4, <2>5
  <2> QED
    BY <2>3, <2>6 DEF k
<1> QED
  BY <1>8, <1>9 DEF ends, b, e

\* Within a message, the end of it is where the next one begins.
LEMMA EndsHere ==
  ASSUME TypeOK, NEW i \in 1..Len(sent), NEW c, NEW a, NEW p, NEW t, NEW d,
         t = Start(i + 1), c \in {"done", "header"}
  PROVE  Follows(c, a, p, t, d)
<1>1. i + 1 \in 1..Len(sent) + 1
  BY DEF TypeOK
<1> QED
  BY <1>1 DEF Follows, Begins

\* A buffer that is filled leaves the thread inside the message.
LEMMA DataWithin ==
  ASSUME TypeOK, NEW i \in 1..Len(sent), Within(i, "data", at, pack, taken, need), ReadData
  PROVE  Within(i, pc', at', pack', taken', need')
<1> DEFINE e == Start(i + 1)
           x == Expected
<1>1. taken \in Nat /\ arrived \in Nat /\ taken <= arrived
  BY StreamType DEF TypeOK
<1>2. /\ need' = need - x /\ taken' = taken + x /\ at' = at
      /\ pack' = pack /\ pc' = IF need <= Window THEN "answer" ELSE "data"
  BY DEF ReadData, LastData
<1>3. ~IsLongText(pack) /\ need > 0 /\ taken + need = e /\ need \in Nat
  BY DEF Within, TypeOK
<1>4. /\ x \in Nat /\ x <= need /\ (need <= Window => x = need)
      /\ (~(need <= Window) => x < need)
  BY <1>3, EndpointAssumption DEF Expected
<1> HIDE DEF e, x
<1>5. taken' + need' = e /\ need' \in Nat /\ (~(need <= Window) => need' > 0)
      /\ (need <= Window => taken' = e)
  BY <1>1, <1>2, <1>3, <1>4
<1> QED
  BY <1>2, <1>3, <1>5 DEF Within, e

\* So does a piece of a long text that does not reach the end of it.
LEMMA TextWithin ==
  ASSUME TypeOK, NEW i \in 1..Len(sent), Within(i, "text", at, pack, taken, need),
         NEW n \in 1..Available, taken' = taken + n, pc' = "text", at' = at,
         pack' = pack, need' = need, taken' < Start(i + 1)
  PROVE  Within(i, pc', at', pack', taken', need')
<1>1. taken \in Nat /\ at \in Nat /\ n \in Nat
  BY StreamType DEF TypeOK, Available
<1>2. at + HEADER_LEN <= taken
  BY DEF Within
<1>3. at' + HEADER_LEN <= taken'
  BY <1>1, <1>2 DEF HEADER_LEN
<1> QED
  BY <1>3 DEF Within

\* Whatever happens, a thread in step stays in step, unless a call slips, a
\* text ends inside a buffer, or nothing more will ever be read.
LEMMA AlignStep ==
  ASSUME TypeOK, Aligned, Next, ~Slips
  PROVE  Aligned' \/ Dried' \/ "text" \in lost'
<1> USE DEF sentVars, packVars, flagVars, callVars
<1>0. taken \in Nat /\ arrived \in Nat /\ taken <= arrived
  BY StreamType DEF TypeOK
<1>1. CASE Begin
  BY <1>1, AlignedNext DEF Begin, Aligned, Follows
<1>2. CASE ReadHeader
  BY <1>2, AlignHeader
<1>3. CASE ReadHeaderEnd \/ ReadHeaderFails \/ ReadDataEnd \/ ReadTextEnd \/ ReadBodyFails
  BY <1>3 DEF ReadHeaderEnd, ReadHeaderFails, ReadDataEnd, ReadTextEnd, ReadBodyFails,
     Dried, Available
<1>4. CASE ReadData
  <2>1. PICK i \in 1..Len(sent) : Within(i, "data", at, pack, taken, need)
    BY <1>4 DEF ReadData, Aligned, Follows
  <2>2. sent' = sent /\ pc' \in {"data", "answer"}
    BY <1>4 DEF ReadData
  <2>3. Within(i, pc', at', pack', taken', need')
    BY <1>4, <2>1, DataWithin
  <2>4. Follows(pc', at', pack', taken', need')
    BY <2>2, <2>3 DEF Follows
  <2> QED
    BY <2>2, <2>4, AlignedNext
<1>5. CASE ReadText
  <2>1. PICK i \in 1..Len(sent) : Within(i, "text", at, pack, taken, need)
    BY <1>5 DEF ReadText, Aligned, Follows
  <2> DEFINE n == IF Available < Window THEN Available ELSE Window
             ends == buf_contains_symbol(Piece(n), END_TEXT)
             e == Start(i + 1)
  <2>2. n \in 1..Available
    BY <1>0, <1>5, EndpointAssumption DEF ReadText, Available
  <2>3. sent' = sent /\ taken' = taken + n
    BY <1>5 DEF ReadText
  <2>4. /\ ends = {} => /\ UNCHANGED <<callVars, pack, need, at>>
        /\ ends # {} => /\ Handled(TRUE, Append(data, Piece(Min(ends) - 1)), First(Piece(n)))
                        /\ lost' = IF Min(ends) < n THEN lost \cup {"text"} ELSE lost
    BY <1>5 DEF ReadText
  <2>5. /\ ends = {} => taken + n < e
        /\ ends # {} => Min(ends) \in 1..n /\ taken + Min(ends) = e
    <3> HIDE DEF n
    <3> QED
      BY <2>1, <2>2, TextEnds
  <2>6. CASE ends = {}
    <3>1. pc' = "text" /\ at' = at /\ pack' = pack /\ need' = need /\ taken' < e
      BY <1>5, <2>3, <2>4, <2>5, <2>6 DEF ReadText
    <3>2. Within(i, pc', at', pack', taken', need')
      BY <2>1, <2>2, <2>3, <3>1, TextWithin DEF e
    <3>3. Follows(pc', at', pack', taken', need')
      BY <3>1, <3>2 DEF Follows
    <3> QED
      BY <2>3, <3>3, AlignedNext
  <2>7. CASE ends # {} /\ Min(ends) = n
    <3>1. pc' \in {"done", "header"}
      BY <2>4, <2>7 DEF Handled, Return
    <3>2. taken' = e
      BY <2>3, <2>5, <2>7
    <3>3. Follows(pc', at', pack', taken', need')
      BY <3>1, <3>2, EndsHere
    <3> QED
      BY <2>3, <3>3, AlignedNext
  <2>8. CASE ends # {} /\ Min(ends) # n
    <3>1. Min(ends) < n
      BY <2>2, <2>5, <2>8, <1>0 DEF Available
    <3> QED
      BY <2>4, <2>8, <3>1
  <2> QED
    BY <2>6, <2>7, <2>8
<1>6. CASE WriteAnswer \/ WriteFails
  <2>1. PICK i \in 1..Len(sent) : Within(i, "answer", at, pack, taken, need)
    BY <1>6 DEF WriteAnswer, WriteFails, Aligned, Follows
  <2>2. taken' = Start(i + 1) /\ sent' = sent /\ pc' \in {"done", "header"}
    BY <1>6, <2>1 DEF WriteAnswer, WriteFails, Within, Handled, Return
  <2>3. Follows(pc', at', pack', taken', need')
    BY <2>2, EndsHere
  <2> QED
    BY <2>2, <2>3, AlignedNext
<1>7. CASE Done
  BY <1>7, AlignedNext DEF Done, Aligned, Follows
<1>8. CASE Arrive \/ HangUp
  BY <1>8, AlignedNext DEF Arrive, HangUp, Aligned
<1> QED
  BY <1>1, <1>2, <1>3, <1>4, <1>5, <1>6, <1>7, <1>8 DEF Next, Steps, Failures, Slips

\* Once all has been read, no step reads more.
LEMMA DriedStep ==
  ASSUME TypeOK, Dried, Next
  PROVE  Dried' /\ lost' \in {lost, lost \cup {"error"}}
<1> USE DEF sentVars, packVars, flagVars, callVars, Dried, Available
<1>0. taken \in Nat /\ arrived = taken
  BY StreamType DEF TypeOK
<1>1. CASE Begin \/ Done \/ Arrive \/ HangUp
  BY <1>1 DEF Begin, Done, Arrive, HangUp
<1>2. CASE ReadHeader \/ ReadHeaderShort \/ ReadDataShort \/ ReadText
  <2>1. ~(0 \in 1..HEADER_LEN - 1) /\ ~(0 \in 1..Expected - 1) /\ ~(0 >= HEADER_LEN)
    BY DEF HEADER_LEN
  <2> QED
    BY <1>0, <1>2, <2>1 DEF ReadHeader, ReadHeaderShort, ReadDataShort, ReadText
<1>3. CASE ReadHeaderEnd \/ ReadHeaderFails
  BY <1>3 DEF ReadHeaderEnd, ReadHeaderFails
<1>4. CASE ReadData
  <2>1. pc = "data" /\ 0 >= Expected /\ taken' = taken + Expected /\ link' = link
        /\ arrived' = arrived /\ lost' = lost
    BY <1>0, <1>4 DEF ReadData
  <2>2. Expected = 0
    BY <2>1, ExpectedIs
  <2> QED
    BY <1>0, <2>1, <2>2
<1>5. CASE ReadDataEnd \/ ReadTextEnd \/ ReadBodyFails \/ AppendFails
  BY <1>5 DEF ReadDataEnd, ReadTextEnd, ReadBodyFails, AppendFails
<1>6. CASE WriteAnswer \/ WriteFails
  BY <1>6 DEF WriteAnswer, WriteFails
<1> QED
  BY <1>1, <1>2, <1>3, <1>4, <1>5, <1>6 DEF Next, Steps, Failures

LEMMA LostGrows == ASSUME Next PROVE lost \subseteq lost'
BY DEF Next, Steps, Failures, Begin, ReadHeader, ReadHeaderShort, ReadHeaderEnd,
   ReadHeaderFails, ReadData, ReadDataShort, ReadDataEnd, ReadText, ReadTextEnd,
   ReadBodyFails, AppendFails, WriteAnswer, WriteFails, Done, Arrive, HangUp

LEMMA StaysAligned ==
  ASSUME UNCHANGED vars
  PROVE  (Aligned' <=> Aligned) /\ (Dried' <=> Dried)
<1>1. sent' = sent
  BY DEF vars, sentVars
<1> QED
  BY <1>1, AlignedNext DEF Aligned, Dried, Available, vars, sentVars, packVars, callVars

\* The invariant: as long as nothing is lost, the thread is in step, or all
\* that will ever come has been read.
Steady == lost = {} => Aligned \/ Dried

LEMMA SteadyInvariance == Spec => []Steady
<1>1. Init => Steady
  <2> SUFFICES ASSUME Init PROVE Aligned
    BY DEF Steady
  <2>1. sent \in Seq(Messages)
    BY TypesInit DEF TypeOK
  <2>2. 1 \in 1..Len(sent) + 1 /\ Start(1) = 0
    BY <2>1, StreamShape
  <2>3. pc = "select" /\ taken = Start(1)
    BY <2>2 DEF Init
  <2> QED
    BY <2>2, <2>3 DEF Aligned, Follows, Begins
<1>2. TypeOK /\ Steady /\ [Next]_vars => Steady'
  <2>1. ASSUME TypeOK, Steady, Next PROVE Steady'
    <3> SUFFICES ASSUME lost' = {} PROVE Aligned' \/ Dried'
      BY DEF Steady
    <3>1. lost = {}
      BY <2>1, LostGrows
    <3>2. ~Slips
      BY DEF Slips, ReadHeaderShort, ReadDataShort, AppendFails
    <3>3. CASE Aligned
      BY <2>1, <3>2, <3>3, AlignStep
    <3>4. CASE Dried
      BY <2>1, <3>4, DriedStep
    <3> QED
      BY <2>1, <3>1, <3>3, <3>4 DEF Steady
  <2>2. ASSUME Steady, UNCHANGED vars PROVE Steady'
    BY <2>2, StaysAligned DEF Steady, vars
  <2> QED
    BY <2>1, <2>2
<1> QED
  BY <1>1, <1>2, EndpointTypes, PTL DEF Spec

\* A header is read only where the peer wrote one, until a call comes up short
\* or fails or a text ends inside a buffer: inside long headers too, whatever
\* is sent and however it is cut.
THEOREM EndpointInStep == Spec => []InStep
<1>1. TypeOK /\ Steady => InStep
  <2> SUFFICES ASSUME TypeOK, Steady, ReadsAHeader, lost = {} PROVE taken \in Starts
    BY DEF InStep
  <2>1. Available >= HEADER_LEN /\ pc = "header"
    BY DEF ReadsAHeader
  <2>2. taken \in Begins
    BY <2>1 DEF Steady, Dried, Aligned, Follows, HEADER_LEN
  <2>3. PICK i \in 1..Len(sent) : taken = Start(i)
    BY <2>1, <2>2, HeaderInStep
  <2> QED
    BY <2>3 DEF Starts
<1> QED
  BY <1>1, SteadyInvariance, EndpointTypes, PTL

-----------------------------------------------------------------------------
(* Without long headers no handler runs inside another. *)

\* A handler that is not inside a long header returns to process_request.
LEMMA HandlerReturns ==
  ASSUME TypeOK, nest = <<>>, NEW ok \in BOOLEAN, NEW bufs, NEW mem,
         Handled(ok, bufs, mem)
  PROVE  pc' = "done" /\ nest' = <<>> /\ (~ok => ret' = FALSE)
BY HandledIs

LEMMA ReturnFails ==
  ASSUME TypeOK, nest = <<>>, Return(FALSE, nest)
  PROVE  pc' = "done" /\ nest' = <<>> /\ ret' = FALSE
BY ReturnIs DEF TypeOK

LEMMA BufferAdded ==
  ASSUME TypeOK, NEW b \in Seq(Byte)
  PROVE  Append(data, b) \in Seq(Seq(Byte))
BY AppendProperties DEF TypeOK

\* A slip that is not inside a long header fails the call.
LEMMA SlipFails ==
  ASSUME TypeOK, nest = <<>>, Slips
  PROVE  pc' = "done" /\ nest' = <<>> /\ ret' = FALSE
<1>1. CASE ReadHeaderShort
  BY <1>1, ReturnFails DEF ReadHeaderShort
<1>2. CASE ReadDataShort
  <2> DEFINE d == Append(data, <<>>)
  <2>2. Handled(FALSE, d, First(Piece(Available)))
    BY <1>2 DEF ReadDataShort
  <2> HIDE DEF d
  <2> QED
    BY <2>2, HandlerReturns
<1>3. CASE AppendFails
  <2>1. Handled(FALSE, data, first)
    BY <1>3 DEF AppendFails
  <2> QED
    BY <2>1, HandlerReturns
<1> QED
  BY <1>1, <1>2, <1>3 DEF Slips

\* The steps that end a handler.
Ends ==
  \/ ReadHeaderShort \/ ReadHeaderEnd \/ ReadHeaderFails \/ ReadDataShort
  \/ ReadDataEnd \/ ReadTextEnd \/ ReadBodyFails \/ AppendFails \/ WriteAnswer
  \/ WriteFails

LEMMA HandlerEnds ==
  ASSUME TypeOK, nest = <<>>, Ends
  PROVE  pc' = "done" /\ nest' = <<>>
<1>1. CASE ReadHeaderShort \/ ReadHeaderEnd \/ ReadHeaderFails
  BY <1>1, ReturnFails DEF ReadHeaderShort, ReadHeaderEnd, ReadHeaderFails
<1>2. CASE ~(ReadHeaderShort \/ ReadHeaderEnd \/ ReadHeaderFails)
  <2>1. \E ok \in BOOLEAN : \E d, m : Handled(ok, d, m)
    BY <1>2 DEF Ends, ReadDataShort, ReadDataEnd, ReadTextEnd, ReadBodyFails, AppendFails,
       WriteAnswer, WriteFails
  <2> QED
    BY <2>1, HandlerReturns
<1> QED
  BY <1>1, <1>2

\* Unless a long header is read, no handler starts inside another.
LEMMA NestStep ==
  ASSUME TypeOK, nest = <<>>, Next, ReadHeader => ~IsLongHeader(pack')
  PROVE  nest' = <<>>
<1> USE DEF sentVars, packVars, flagVars, callVars
<1>1. CASE ReadHeader
  <2>1. PICK p \in Packet : HeaderGives(p)
    BY <1>1, ReadHeaderIs
  <2>2. ~IsLongHeader(p)
    BY <1>1, <2>1 DEF HeaderGives
  <2> QED
    BY <2>1, <2>2 DEF HeaderGives
<1>2. CASE Begin \/ ReadData \/ Done \/ Arrive \/ HangUp
  BY <1>2 DEF Begin, ReadData, Done, Arrive, HangUp
<1>3. CASE ReadText
  <2> DEFINE n == IF Available < Window THEN Available ELSE Window
             ends == buf_contains_symbol(Piece(n), END_TEXT)
             d == Append(data, Piece(Min(ends) - 1))
             m == First(Piece(n))
  <2>1. IF ends = {} THEN nest' = nest ELSE Handled(TRUE, d, m)
    BY <1>3 DEF ReadText
  <2>2. CASE ends = {}
    BY <2>1, <2>2
  <2>3. CASE ends # {}
    <3>1. Handled(TRUE, d, m)
      BY <2>1, <2>3
    <3> HIDE DEF d, m
    <3> QED
      BY <3>1, HandlerReturns
  <2> QED
    BY <2>2, <2>3
<1>4. CASE Ends
  BY <1>4, HandlerEnds
<1> QED
  BY <1>1, <1>2, <1>3, <1>4 DEF Next, Steps, Failures, Ends

-----------------------------------------------------------------------------
(* chopclient. *)

\* No message is a long header.
Plain == \A m \in Messages : ~IsLongHeader(m.header)

\* The invariant of chopclient: it is in step, or has read all there will be,
\* or is about to exit because a call failed.
ClientSteady ==
  caller = "chopclient" /\ "text" \notin lost =>
    nest = <<>> /\ (Aligned \/ Dried \/ (pc \in {"done", "closed"} /\ ~ret))

LEMMA ClientStep ==
  ASSUME Plain, TypeOK, ClientSteady, Next
  PROVE  ClientSteady'
<1> USE DEF sentVars, packVars, flagVars, callVars
<1> SUFFICES ASSUME caller' = "chopclient", "text" \notin lost'
             PROVE  nest' = <<>> /\ (Aligned' \/ Dried' \/ (pc' \in {"done", "closed"} /\ ~ret'))
  BY DEF ClientSteady
<1>1. caller = "chopclient" /\ "text" \notin lost
  <2>1. caller' = caller
    BY DEF Next, Steps, Failures, Begin, ReadHeader, ReadHeaderShort, ReadHeaderEnd,
       ReadHeaderFails, ReadData, ReadDataShort, ReadDataEnd, ReadText, ReadTextEnd,
       ReadBodyFails, AppendFails, WriteAnswer, WriteFails, Done, Arrive, HangUp
  <2> QED
    BY <2>1, LostGrows
<1>2. nest = <<>> /\ (Aligned \/ Dried \/ (pc \in {"done", "closed"} /\ ~ret))
  BY <1>1 DEF ClientSteady
<1>3. CASE Aligned
  <2>1. ReadHeader => ~IsLongHeader(pack')
    BY <1>3, AlignHeader DEF Plain
  <2>2. nest' = <<>>
    BY <1>2, <2>1, NestStep
  <2>3. CASE Slips
    BY <1>2, <2>2, <2>3, SlipFails
  <2>4. CASE ~Slips
    BY <1>3, <2>2, <2>4, AlignStep
  <2> QED
    BY <2>3, <2>4
<1>4. CASE Dried
  <2>1. ~ReadHeader
    BY <1>4 DEF Dried, ReadHeader, HEADER_LEN
  <2>2. nest' = <<>>
    BY <1>2, <2>1, NestStep
  <2> QED
    BY <1>4, <2>2, DriedStep
<1>5. CASE pc \in {"done", "closed"} /\ ~ret
  <2>1. Done \/ Arrive \/ HangUp
    BY <1>5 DEF Next, Steps, Failures, Begin, ReadHeader, ReadHeaderShort, ReadHeaderEnd,
       ReadHeaderFails, ReadData, ReadDataShort, ReadDataEnd, ReadText, ReadTextEnd,
       ReadBodyFails, AppendFails, WriteAnswer, WriteFails
  <2> QED
    BY <1>1, <1>2, <1>5, <2>1 DEF Done, Arrive, HangUp
<1> QED
  BY <1>2, <1>3, <1>4, <1>5

LEMMA ClientInvariance == ASSUME Plain PROVE Spec => []ClientSteady
<1>1. Init => ClientSteady
  <2> SUFFICES ASSUME Init PROVE Aligned /\ nest = <<>>
    BY DEF ClientSteady
  <2>1. sent \in Seq(Messages)
    BY TypesInit DEF TypeOK
  <2>2. 1 \in 1..Len(sent) + 1 /\ Start(1) = 0
    BY <2>1, StreamShape
  <2>3. pc = "select" /\ taken = Start(1) /\ nest = <<>>
    BY <2>2 DEF Init
  <2> QED
    BY <2>2, <2>3 DEF Aligned, Follows, Begins
<1>2. TypeOK /\ ClientSteady /\ [Next]_vars => ClientSteady'
  <2>1. ASSUME ClientSteady, UNCHANGED vars PROVE ClientSteady'
    BY <2>1, StaysAligned DEF ClientSteady, vars, sentVars, callVars
  <2> QED
    BY <2>1, ClientStep
<1> QED
  BY <1>1, <1>2, EndpointTypes, PTL DEF Spec

\* chopclient, which exits at the first error, takes nothing for a header but
\* what the peer wrote as one, however short its reads and whatever fails.
\* Only a text that ends inside a buffer can bring it out of step, and a long
\* header, whose handler hides the errors of the packets inside it.
THEOREM ClientHeadersAreSent == ASSUME Plain PROVE Spec => []ClientKeepsStep
<1>1. TypeOK /\ ClientSteady => ClientKeepsStep
  <2> SUFFICES ASSUME TypeOK, ClientSteady, caller = "chopclient", "text" \notin lost,
                      ReadsAHeader
               PROVE  taken \in Starts
    BY DEF ClientKeepsStep, HeadersAreSent
  <2>1. Available >= HEADER_LEN /\ pc = "header"
    BY DEF ReadsAHeader
  <2>2. taken \in Begins
    BY <2>1 DEF ClientSteady, Dried, Aligned, Follows, HEADER_LEN
  <2>3. PICK i \in 1..Len(sent) : taken = Start(i)
    BY <2>1, <2>2, HeaderInStep
  <2> QED
    BY <2>3 DEF Starts
<1> QED
  BY <1>1, ClientInvariance, EndpointTypes, PTL

-----------------------------------------------------------------------------
(* While the thread is in step. *)

LEMMA KeptBefore == ASSUME [Next]_vars, Kept' PROVE Kept
<1>1. lost \subseteq lost'
  BY LostGrows DEF vars
<1>2. caller' = caller
  BY DEF Next, Steps, Failures, Begin, ReadHeader, ReadHeaderShort, ReadHeaderEnd,
     ReadHeaderFails, ReadData, ReadDataShort, ReadDataEnd, ReadText, ReadTextEnd,
     ReadBodyFails, AppendFails, WriteAnswer, WriteFails, Done, Arrive, HangUp,
     vars, sentVars
<1> QED
  BY <1>1, <1>2 DEF Kept

\* In step, no long header is read where none is sent, and a header only where
\* the peer wrote one.
LEMMA KeptHeader ==
  ASSUME Plain, TypeOK, Steady, ClientSteady, Kept, ReadHeader
  PROVE  ~IsLongHeader(pack') /\ taken \in Starts
<1>1. Available >= HEADER_LEN /\ pc = "header"
  BY DEF ReadHeader
<1>2. taken \in Begins
  BY <1>1 DEF Kept, Steady, ClientSteady, Dried, Aligned, Follows, HEADER_LEN
<1>3. PICK i \in 1..Len(sent) :
        /\ taken = Start(i) /\ sent[i] \in Messages
        /\ \A p \in Packet :
             /\ p.status = Stream[taken + 2] /\ p.control1 = Stream[taken + 3]
             /\ p.control2 = Stream[taken + 4]
             => p = sent[i].header
  BY <1>1, <1>2, HeaderInStep
<1>4. PICK p \in Packet : HeaderGives(p)
  BY ReadHeaderIs
<1>5. pack' = sent[i].header
  BY <1>3, <1>4 DEF HeaderGives
<1> QED
  BY <1>3, <1>5 DEF Plain, Starts

\* The header read last is one the peer wrote.
LEMMA KeptPlace ==
  ASSUME Plain, TypeOK, Steady, ClientSteady, Kept, at \in Starts, [Next]_vars
  PROVE  (at \in Starts)'
<1> USE DEF sentVars, packVars, flagVars, callVars
<1>1. sent' = sent
  BY DEF Next, Steps, Failures, Begin, ReadHeader, ReadHeaderShort, ReadHeaderEnd,
     ReadHeaderFails, ReadData, ReadDataShort, ReadDataEnd, ReadText, ReadTextEnd,
     ReadBodyFails, AppendFails, WriteAnswer, WriteFails, Done, Arrive, HangUp, vars
<1>2. at' \in Starts
  <2>1. CASE ReadHeader
    BY <2>1, KeptHeader DEF ReadHeader
  <2>2. CASE ~ReadHeader
    <3>1. at' = at
      BY <2>2 DEF Next, Steps, Failures, Begin, ReadHeaderShort, ReadHeaderEnd,
         ReadHeaderFails, ReadData, ReadDataShort, ReadDataEnd, ReadText, ReadTextEnd,
         ReadBodyFails, AppendFails, WriteAnswer, WriteFails, Done, Arrive, HangUp, vars,
         Handled
    <3> QED
      BY <3>1
  <2> QED
    BY <2>1, <2>2
<1> QED
  BY <1>1, <1>2, SameStream

LEMMA FirstPlace == ASSUME Init PROVE at \in Starts
<1>1. TypeOK
  BY TypesInit
<1>2. sent \in Seq(Messages) /\ Start(1) = 0
  BY <1>1, StreamShape DEF TypeOK
<1>3. 1 \in 1..Len(sent)
  <2>1. PICK n \in 1..MaxMessages : sent \in [1..n -> Messages]
    BY DEF Init
  <2>2. n \in Nat /\ n >= 1
    BY EndpointAssumption
  <2> QED
    BY <2>1, <2>2
<1> QED
  BY <1>2, <1>3 DEF Init, Starts

-----------------------------------------------------------------------------
(* Escapes. *)

\* The invariant: once an escape has been acknowledged, the client is marked as
\* closed and the thread is on its way to end the connection.
EscapeSteady ==
  /\ nest = <<>>
  /\ escaped => inc_flag = CANCEL /\ out_flag = CANCEL /\ pc \in {"done", "closed"}

LEMMA EscapeStep ==
  ASSUME TypeOK, EscapeSteady, Next, ReadHeader => ~IsLongHeader(pack')
  PROVE  EscapeSteady'
<1> USE DEF sentVars, packVars, flagVars, callVars
<1>1. nest' = <<>>
  BY NestStep DEF EscapeSteady
<1>2. ASSUME escaped'
      PROVE  inc_flag' = CANCEL /\ out_flag' = CANCEL /\ pc' \in {"done", "closed"}
  <2>1. CASE escaped
    <3>1. inc_flag = CANCEL /\ out_flag = CANCEL /\ pc \in {"done", "closed"}
      BY <2>1 DEF EscapeSteady
    <3>2. Done \/ Arrive \/ HangUp
      BY <3>1 DEF Next, Steps, Failures, Begin, ReadHeader, ReadHeaderShort, ReadHeaderEnd,
         ReadHeaderFails, ReadData, ReadDataShort, ReadDataEnd, ReadText, ReadTextEnd,
         ReadBodyFails, AppendFails, WriteAnswer, WriteFails
    <3> QED
      BY <3>1, <3>2 DEF Done, Arrive, HangUp, is_client_status
  <2>2. CASE ~escaped
    <3>1. WriteAnswer
      BY <1>2, <2>2 DEF Next, Steps, Failures, Begin, ReadHeader, ReadHeaderShort,
         ReadHeaderEnd, ReadHeaderFails, ReadData, ReadDataShort, ReadDataEnd, ReadText,
         ReadTextEnd, ReadBodyFails, AppendFails, WriteFails, Done, Arrive, HangUp
    <3>2. PICK a \in answer :
            /\ out_flag' = IF MarksClosed(a) THEN CANCEL ELSE NULL_BYTE
            /\ inc_flag' = IF MarksClosed(a) THEN CANCEL ELSE inc_flag
            /\ escaped' = (escaped \/ a = Acknowledge(ESCAPE))
      BY <3>1 DEF WriteAnswer
    <3>3. MarksClosed(a)
      BY <1>2, <2>2, <3>2 DEF MarksClosed
    <3>4. pc' = "done"
      BY <3>1, HandlerEnds DEF Ends, EscapeSteady
    <3> QED
      BY <3>2, <3>3, <3>4
  <2> QED
    BY <2>1, <2>2
<1> QED
  BY <1>1, <1>2 DEF EscapeSteady

\* When an escape has been acknowledged while the thread is in step, the
\* connection is closed before another request is awaited, whatever the bytes of
\* the data, provided the peer sends no long header.
THEOREM EndpointEscape == ASSUME Plain PROVE Spec => []EscapeCloses
<1>1. Init => EscapeSteady
  BY DEF Init, EscapeSteady
<1>2. /\ TypeOK /\ Steady /\ ClientSteady /\ [Next]_vars /\ (Kept => EscapeSteady)
      => (Kept => EscapeSteady)'
  <2> SUFFICES ASSUME TypeOK, Steady, ClientSteady, [Next]_vars,
                      Kept => EscapeSteady, Kept'
               PROVE  EscapeSteady'
    OBVIOUS
  <2>1. Kept
    BY KeptBefore
  <2>2. CASE Next
    BY <2>1, <2>2, KeptHeader, EscapeStep
  <2>3. CASE UNCHANGED vars
    BY <2>1, <2>3 DEF EscapeSteady, vars, flagVars, callVars
  <2> QED
    BY <2>2, <2>3
<1>3. (Kept => EscapeSteady) => EscapeCloses
  BY DEF EscapeSteady, EscapeCloses
<1> QED
  BY <1>1, <1>2, <1>3, EndpointTypes, SteadyInvariance, ClientInvariance, PTL DEF Spec

-----------------------------------------------------------------------------
(* What is printed. *)

\* x is a prefix of the body of m, byte by byte.
Like(x, m) ==
  /\ x \in Seq(Byte) /\ Len(x) <= Len(m.body)
  /\ \A k \in 1..Len(x) : x[k] = m.body[k]

\* The length of the first buffer of the data of m.
FirstLen(m) == IF Len(m.body) < Window THEN Len(m.body) ELSE Window

\* The buffers d, whose first has mem in its memory, hold part of the data of m,
\* or what is printed of it, whole.
Fits(m, d, mem) ==
  /\ Like(FlattenSeq(d), m)
  /\ OneString(m) => CStrings(d) = CString(FlattenSeq(d))
  /\ IsLongText(m.header) => Len(FlattenSeq(d)) < Len(m.body)
  /\ ~IsLongText(m.header) /\ d # <<>> => Like(mem, m)
Full(m, d, mem) ==
  IF IsLongText(m.header) THEN Len(FlattenSeq(d)) = Len(m.body) - 1
  ELSE /\ Len(FlattenSeq(d)) = Len(m.body)
       /\ d # <<>> => Len(mem) = FirstLen(m)

\* No byte of m stops "%.*s".
NoNul(m) == \A k \in 1..Len(m.body) : m.body[k] # NULL_BYTE

\* Messages begin at different places.
LEMMA StartsDiffer ==
  ASSUME sent \in Seq(Messages), NEW i \in 1..Len(sent), NEW j \in 1..Len(sent), i < j
  PROVE  Start(i) < Start(j)
<1>1. Start(i + 1) = Start(i) + HEADER_LEN + Len(sent[i].body) /\ sent[i] \in Messages
  BY StreamShape
<1>2. Len(sent[i].body) \in Nat
  BY <1>1, WireShape
<1>3. Start(i) \in Nat /\ Start(j) \in Nat
  <2>1. i \in 1..Len(sent) + 1 /\ j \in 1..Len(sent) + 1
    OBVIOUS
  <2> QED
    BY <2>1, StreamShape
<1>4. Start(i + 1) <= Start(j)
  <2>1. i \in 0..Len(sent) /\ j - 1 \in 0..Len(sent) /\ i <= j - 1 /\ (i + 1) - 1 = i
    OBVIOUS
  <2>2. Len(Cum(sent, i)) <= Len(Cum(sent, j - 1))
    BY <2>1, CumPrefix
  <2>3. Start(i + 1) = Len(Cum(sent, i)) /\ Start(j) = Len(Cum(sent, j - 1))
    BY <2>1 DEF Start, Cum
  <2> QED
    BY <2>2, <2>3
<1> DEFINE l == Len(sent[i].body)
           a == Start(i)
           b == Start(i + 1)
           c == Start(j)
<1>5. b = a + 4 + l /\ l \in Nat /\ a \in Nat /\ c \in Nat /\ b <= c
  BY <1>1, <1>2, <1>3, <1>4 DEF HEADER_LEN
<1> HIDE DEF l, a, b, c
<1>6. a < c
  BY <1>5
<1> QED
  BY <1>6 DEF a, c

LEMMA MessageIs ==
  ASSUME sent \in Seq(Messages), NEW i \in 1..Len(sent), at = Start(i)
  PROVE  Message = sent[i]
<1> DEFINE j == CHOOSE j \in 1..Len(sent) : Start(j) = at
<1>1. j \in 1..Len(sent) /\ Start(j) = at
  OBVIOUS
<1>2. Message = sent[j]
  BY DEF Message
<1> HIDE DEF j
<1>3. ~(i < j) /\ ~(j < i)
  <2>1. \A x, y \in 1..Len(sent) : x < y => Start(x) < Start(y)
    BY StartsDiffer
  <2>2. at \in Nat
    <3>1. i \in 1..Len(sent) + 1
      OBVIOUS
    <3> QED
      BY <3>1, StreamShape
  <2> QED
    BY <1>1, <2>1, <2>2
<1>4. i = j
  BY <1>1, <1>3
<1> QED
  BY <1>2, <1>4

\* The first n bytes of a sequence.
LEMMA BeginningIs ==
  ASSUME NEW b \in Seq(Byte), NEW n \in 0..Len(b)
  PROVE  /\ SubSeq(b, 1, n) \in Seq(Byte) /\ Len(SubSeq(b, 1, n)) = n
         /\ \A k \in 1..n : SubSeq(b, 1, n)[k] = b[k]
<1>1. n \in Int /\ 1 \in Int /\ \A k \in 1..n : b[k] \in Byte
  OBVIOUS
<1>2. /\ SubSeq(b, 1, n) \in Seq(Byte)
      /\ Len(SubSeq(b, 1, n)) = IF 1 <= n THEN n - 1 + 1 ELSE 0
      /\ \A k \in 1..n - 1 + 1 : SubSeq(b, 1, n)[k] = b[1 + k - 1]
  BY ONLY <1>1, SubSeqProperties
<1>3. n - 1 + 1 = n /\ (~(1 <= n) => n = 0) /\ \A k \in 1..n : 1 + k - 1 = k
  OBVIOUS
<1> QED
  BY <1>2, <1>3

\* What a message carries, byte by byte.
LEMMA CarriedIs ==
  ASSUME NEW m \in Messages
  PROVE  /\ Carried(m) \in Seq(Byte) /\ Like(Carried(m), m)
         /\ Len(Carried(m)) = IF IsLongText(m.header) THEN Len(m.body) - 1 ELSE Len(m.body)
<1> DEFINE b == m.body
           c == SubSeq(b, 1, Len(b) - 1)
<1>1. b \in Seq(Byte) /\ Len(b) \in Nat
  BY WireShape
<1>2. CASE IsLongText(m.header)
  <2>1. Len(b) - 1 \in 0..Len(b) /\ Carried(m) = c
    BY <1>1, <1>2, BodyLength DEF Carried, Front
  <2> DEFINE n == Len(b) - 1
  <2>2. c \in Seq(Byte) /\ Len(c) = n /\ \A k \in 1..n : c[k] = b[k]
    <3>1. n \in 0..Len(b)
      BY <2>1
    <3> HIDE DEF n, b
    <3> QED
      BY <1>1, <3>1, BeginningIs DEF n
  <2>3. n <= Len(b)
    BY <1>1
  <2> HIDE DEF c, n
  <2> QED
    BY <1>2, <2>1, <2>2, <2>3 DEF Like, n
<1>3. CASE ~IsLongText(m.header)
  BY <1>1, <1>3 DEF Carried, Like
<1> QED
  BY <1>2, <1>3

LEMMA LikePrefix ==
  ASSUME NEW m \in Messages, NEW x, NEW y, Like(x, m), Like(y, m), Len(x) <= Len(y)
  PROVE  IsPrefix(x, y) /\ (Len(x) = Len(y) => x = y)
<1>1. /\ x \in Seq(Byte) /\ y \in Seq(Byte) /\ Len(x) \in Nat /\ Len(y) \in Nat
      /\ \A k \in 1..Len(x) : x[k] = y[k]
  BY DEF Like
<1> DEFINE n == Len(x)
           u == SubSeq(y, 1, n)
<1>2. SubSeq(x, 1, n) = x
  BY <1>1, SubSeqFull
<1>3. /\ u \in Seq(Byte) /\ Len(u) = n /\ \A k \in 1..n : u[k] = y[k]
  <2>1. n \in 0..Len(y)
    BY <1>1
  <2> HIDE DEF n
  <2> QED
    BY <1>1, <2>1, BeginningIs
<1>4. u = x
  <2>1. Len(u) = Len(x) /\ \A k \in 1..Len(u) : u[k] = x[k]
    BY <1>1, <1>3
  <2> HIDE DEF u
  <2> QED
    BY ONLY <1>1, <1>3, <2>1, SeqEqual
<1>5. IsPrefix(x, y)
  BY <1>2, <1>4 DEF IsPrefix
<1>6. Len(x) = Len(y) => x = y
  BY <1>1, SeqEqual
<1> QED
  BY <1>5, <1>6

\* A sequence without NUL is a string up to its end.
LEMMA NoStop ==
  ASSUME NEW x \in Seq(Byte), \A k \in 1..Len(x) : x[k] # NULL_BYTE
  PROVE  CString(x) = x
<1> DEFINE c == CString(x)
<1>1. /\ c \in Seq(Byte) /\ Len(c) <= Len(x) /\ \A k \in 1..Len(c) : c[k] = x[k]
      /\ Len(c) < Len(x) => x[Len(c) + 1] = NULL_BYTE
  BY CStringIs
<1> HIDE DEF c
<1>2. Len(c) = Len(x)
  <2>1. Len(c) \in Nat /\ Len(x) \in Nat
    BY <1>1
  <2>2. Len(c) < Len(x) => Len(c) + 1 \in 1..Len(x)
    BY <2>1
  <2> QED
    BY <1>1, <2>1, <2>2
<1>3. c = x
  BY <1>1, <1>2, SeqEqual
<1> QED
  BY <1>3 DEF c

\* The string in the first part of a message is a prefix of that in a longer
\* one.
LEMMA StringPrefix ==
  ASSUME NEW m \in Messages, NEW x, NEW y, Like(x, m), Like(y, m), Len(x) <= Len(y)
  PROVE  IsPrefix(CString(x), CString(y)) /\ (Len(x) = Len(y) => CString(x) = CString(y))
<1> DEFINE u == CString(x)
           v == CString(y)
<1>1. /\ x \in Seq(Byte) /\ y \in Seq(Byte) /\ Len(x) \in Nat /\ Len(y) \in Nat
      /\ \A k \in 1..Len(x) : x[k] = m.body[k] /\ y[k] = m.body[k]
      /\ \A k \in 1..Len(y) : y[k] = m.body[k]
      /\ Len(x) <= Len(m.body) /\ Len(y) <= Len(m.body)
  BY DEF Like
<1>2. /\ u \in Seq(Byte) /\ Len(u) <= Len(x) /\ Len(u) \in Nat
      /\ \A k \in 1..Len(u) : u[k] = x[k] /\ x[k] # NULL_BYTE
  BY <1>1, CStringIs
<1>3. /\ v \in Seq(Byte) /\ Len(v) <= Len(y) /\ Len(v) \in Nat
      /\ \A k \in 1..Len(v) : v[k] = y[k]
      /\ Len(v) < Len(y) => y[Len(v) + 1] = NULL_BYTE
  BY <1>1, CStringIs
<1>4. Len(m.body) \in Nat
  BY WireShape
<1> HIDE DEF u, v
<1>5. Like(u, m)
  <2>1. Len(u) <= Len(m.body)
    BY <1>1, <1>2, <1>4
  <2>2. \A k \in 1..Len(u) : k \in 1..Len(x)
    BY <1>1, <1>2
  <2> QED
    BY <1>1, <1>2, <2>1, <2>2 DEF Like
<1>6. Like(v, m)
  <2>1. Len(v) <= Len(m.body)
    BY <1>1, <1>3, <1>4
  <2>2. \A k \in 1..Len(v) : k \in 1..Len(y)
    BY <1>1, <1>3
  <2> QED
    BY <1>1, <1>3, <2>1, <2>2 DEF Like
<1>7. Len(u) <= Len(v)
  <2> SUFFICES ASSUME Len(v) < Len(u) PROVE FALSE
    BY <1>2, <1>3
  <2> DEFINE k == Len(v) + 1
  <2>1. Len(v) < Len(y) /\ k \in 1..Len(u) /\ k \in 1..Len(x)
    BY <1>1, <1>2, <1>3
  <2> HIDE DEF k
  <2>2. x[k] # NULL_BYTE /\ x[k] = y[k]
    BY <1>1, <1>2, <2>1
  <2> QED
    BY <1>3, <2>1, <2>2 DEF k
<1>8. IsPrefix(u, v)
  BY <1>5, <1>6, <1>7, LikePrefix
<1>9. ASSUME Len(x) = Len(y) PROVE u = v
  <2>1. x = y
    BY <1>1, <1>9, SeqEqual
  <2> QED
    BY <2>1 DEF u, v
<1> QED
  BY <1>8, <1>9 DEF u, v

\* p is what was sent in m, the whole of it if all was read.
Right(m, p, whole) ==
  IF m.header.status = START_TEXT
  THEN OneString(m) =>
         /\ IsPrefix(p, CString(Carried(m)))
         /\ whole => p = CString(Carried(m))
  ELSE \A k \in 1..TIME_LEN :
         /\ p[k] # Stale => k <= Len(m.body) /\ p[k] = m.body[k]
         /\ whole /\ k <= Len(m.body) /\ k <= Window => p[k] # Stale

\* What is printed of buffers that hold part of the data is right.
LEMMA PrintsPart ==
  ASSUME NEW m \in Messages, NEW d \in Seq(Seq(Byte)), NEW mem \in Seq(Byte),
         Fits(m, d, mem), NEW whole \in BOOLEAN, whole => Full(m, d, mem),
         NEW x \in Printed(m.header, d, mem)
  PROVE  Right(m, x, whole)
<1> DEFINE f == FlattenSeq(d)
           c == Carried(m)
<1>1. /\ c \in Seq(Byte) /\ Like(c, m)
      /\ Len(c) = IF IsLongText(m.header) THEN Len(m.body) - 1 ELSE Len(m.body)
  BY CarriedIs
<1>2. Len(m.body) \in Nat
  BY WireShape
<1>3. CASE m.header.status = START_TEXT
  <2>0. START_TEXT # ENQUIRY
    BY DEF START_TEXT, ENQUIRY
  <2>1. x = CStrings(d)
    <3>1. Printed(m.header, d, mem) = {CStrings(d)}
      BY <1>3, <2>0 DEF Printed
    <3> QED
      BY <3>1
  <2> HIDE DEF f, c
  <2>2. Like(f, m) /\ (IsLongText(m.header) => Len(f) < Len(m.body)) /\ Len(f) \in Nat
        /\ Len(f) <= Len(m.body) /\ (OneString(m) => CStrings(d) = CString(f))
    BY DEF Fits, Like, f
  <2>3. Len(f) <= Len(c)
    BY <1>1, <1>2, <2>2
  <2>4. whole => Len(f) = Len(c)
    BY <1>1 DEF Full, f
  <2>5. IsPrefix(CString(f), CString(c)) /\ (Len(f) = Len(c) => CString(f) = CString(c))
    BY <1>1, <2>2, <2>3, StringPrefix
  <2> QED
    BY <1>3, <2>1, <2>2, <2>4, <2>5 DEF Right, c
<1>4. CASE m.header.status # START_TEXT
  <2>1. d # <<>> /\ ~IsLongText(m.header)
        /\ x = [k \in 1..TIME_LEN |-> IF k <= Len(mem) THEN mem[k] ELSE Stale]
    BY <1>4 DEF Printed, IsLongText
  <2>2. Len(mem) <= Len(m.body) /\ (\A k \in 1..Len(mem) : mem[k] = m.body[k])
        /\ Len(mem) \in Nat
    BY <2>1 DEF Fits, Like
  <2>3. whole => Len(mem) = FirstLen(m)
    BY <2>1 DEF Full
  <2>4. TIME_LEN \in Nat /\ Window \in Nat
    BY EndpointAssumption DEF TIME_LEN
  <2> HIDE DEF f, c
  <2>5. ASSUME NEW k \in 1..TIME_LEN
        PROVE  /\ x[k] # Stale => k <= Len(m.body) /\ x[k] = m.body[k]
               /\ whole /\ k <= Len(m.body) /\ k <= Window => x[k] # Stale
    <3>1. x[k] = IF k <= Len(mem) THEN mem[k] ELSE Stale
      BY <2>1
    <3>2. k \in Nat /\ k >= 1
      BY <2>4
    <3>3. CASE k <= Len(mem)
      <4>1. k \in 1..Len(mem) /\ x[k] = mem[k] /\ mem[k] \in Byte
        BY <2>2, <3>1, <3>2, <3>3
      <4>2. mem[k] # Stale
        <5>1. \A y \in Byte : y # Stale
          BY DEF Byte, Stale
        <5> QED
          BY ONLY <4>1, <5>1
      <4> QED
        BY <1>2, <2>2, <3>2, <4>1, <4>2
    <3>4. CASE ~(k <= Len(mem))
      <4>1. x[k] = Stale
        BY <3>1, <3>4
      <4>2. ~(whole /\ k <= Len(m.body) /\ k <= Window)
        BY <1>2, <2>2, <2>3, <2>4, <3>2, <3>4 DEF FirstLen
      <4> QED
        BY <4>1, <4>2
    <3> QED
      BY <3>3, <3>4
  <2> QED
    BY <1>4, <2>5 DEF Right
<1> QED
  BY <1>3, <1>4

\* A buffer that is added is printed after the others, if one of them has no NUL
\* or is empty.
LEMMA StringGrows ==
  ASSUME NEW m \in Messages, NEW d \in Seq(Seq(Byte)), NEW b \in Seq(Byte),
         CStrings(d) = CString(FlattenSeq(d)), Like(FlattenSeq(Append(d, b)), m),
         NoNul(m) \/ d = <<>> \/ b = <<>>
  PROVE  CStrings(Append(d, b)) = CString(FlattenSeq(Append(d, b)))
<1> DEFINE e == Append(d, b)
           f == FlattenSeq(d)
           g == FlattenSeq(e)
<1>1. g = f \o b /\ CStrings(e) = CStrings(d) \o CString(b) /\ f \in Seq(Byte)
      /\ CStrings(d) \in Seq(Byte) /\ CString(b) \in Seq(Byte) /\ CString(f) \in Seq(Byte)
  BY FlattenAppend, FlattenType, CStringsIs, CStringIs
<1>2. CString(<<>>) = <<>>
  <2> DEFINE n == <<>>
  <2>1. n \in Seq(Byte) /\ \A k \in 1..Len(n) : n[k] # NULL_BYTE
    OBVIOUS
  <2> HIDE DEF n
  <2> QED
    BY <2>1, NoStop DEF n
<1>3. CStrings(d) = CString(f)
  OBVIOUS
<1> HIDE DEF e, f, g
<1>4. CASE NoNul(m)
  <2>1. /\ g \in Seq(Byte) /\ Len(g) <= Len(m.body) /\ \A k \in 1..Len(g) : g[k] = m.body[k]
    BY DEF Like, g, e
  <2>2. \A k \in 1..Len(g) : g[k] # NULL_BYTE
    <3>1. Len(m.body) \in Nat /\ Len(g) \in Nat
      BY <2>1, WireShape
    <3>2. \A k \in 1..Len(g) : k \in 1..Len(m.body)
      BY <2>1, <3>1
    <3> QED
      BY <1>4, <2>1, <3>2 DEF NoNul
  <2>3. CString(g) = g
    BY <2>1, <2>2, NoStop
  <2>4. Len(f) \in Nat /\ Len(b) \in Nat /\ Len(g) = Len(f) + Len(b)
        /\ \A k \in 1..Len(f) + Len(b) : g[k] = IF k <= Len(f) THEN f[k] ELSE b[k - Len(f)]
    BY ONLY <1>1, ConcatProperties
  <2>5. CString(f) = f
    <3>1. \A k \in 1..Len(f) : f[k] # NULL_BYTE
      BY <2>2, <2>4
    <3> QED
      BY <1>1, <3>1, NoStop
  <2>6. CString(b) = b
    <3>1. ASSUME NEW k \in 1..Len(b) PROVE b[k] # NULL_BYTE
      <4>1. Len(f) + k \in 1..Len(g) /\ ~(Len(f) + k <= Len(f)) /\ (Len(f) + k) - Len(f) = k
        BY <2>4
      <4>2. g[Len(f) + k] = b[k]
        BY <2>4, <4>1
      <4> QED
        BY <2>2, <4>1, <4>2
    <3> QED
      BY <3>1, NoStop
  <2>7. CStrings(e) = CString(g)
    BY <1>1, <1>3, <2>3, <2>5, <2>6
  <2> QED
    BY <2>7 DEF e, g
<1>5. CASE d = <<>>
  <2>1. f = <<>>
    BY <1>5, FlattenEmpty DEF f
  <2>2. g = b /\ CStrings(e) = CString(b)
    BY <1>1, <1>2, <1>3, <2>1, ConcatEmptySeq
  <2>3. CStrings(e) = CString(g)
    BY <2>2
  <2> QED
    BY <2>3 DEF e, g
<1>6. CASE b = <<>>
  <2>1. g = f /\ CStrings(e) = CStrings(d)
    BY <1>1, <1>2, <1>6, ConcatEmptySeq
  <2>2. CStrings(e) = CString(g)
    BY <1>3, <2>1
  <2> QED
    BY <2>2 DEF e, g
<1> QED
  BY <1>4, <1>5, <1>6

\* The data d that the thread has read of message i, at c, and the memory f of
\* its first buffer.
Reading(i, c, t, d, f) ==
  /\ Like(FlattenSeq(d), sent[i])
  /\ Len(FlattenSeq(d)) = t - (Start(i) + HEADER_LEN)
  /\ OneString(sent[i]) => CStrings(d) = CString(FlattenSeq(d))
  /\ c # "text" => /\ ~IsLongText(sent[i].header)
                   /\ d # <<>> => /\ Like(f, sent[i]) /\ Len(f) = FirstLen(sent[i])
                                  /\ Len(sent[i].body) <= Window => t = Start(i + 1)

\* The next bytes of the stream are the next of the message that is being read.
LEMMA PieceLike ==
  ASSUME TypeOK, NEW i \in 1..Len(sent), NEW n \in Nat, n <= Available,
         Start(i) + HEADER_LEN <= taken, taken + n <= Start(i + 1)
  PROVE  \A k \in 1..n :
           Piece(n)[k] = sent[i].body[(taken - (Start(i) + HEADER_LEN)) + k]
<1> DEFINE m == sent[i]
           a == Start(i)
<1>1. /\ m \in Messages /\ Start(i + 1) = a + HEADER_LEN + Len(m.body)
      /\ \A k \in 1..HEADER_LEN + Len(m.body) : Stream[a + k] = Wire(m)[k]
      /\ a \in Nat
  <2>1. sent \in Seq(Messages) /\ i \in 1..Len(sent) + 1
    BY DEF TypeOK
  <2> QED
    BY <2>1, StreamShape
<1>2. taken \in Nat /\ \A k \in 1..n : Piece(n)[k] = Stream[taken + k]
  BY StreamType, PieceIs DEF TypeOK
<1> HIDE DEF m, a
<1>3. Len(m.body) \in Nat /\ \A k \in 1..Len(m.body) : Wire(m)[HEADER_LEN + k] = m.body[k]
  BY <1>1, WireShape
<1> SUFFICES ASSUME NEW k \in 1..n
             PROVE  Piece(n)[k] = m.body[(taken - (a + HEADER_LEN)) + k]
  BY DEF m, a
<1> DEFINE j == (taken - (a + HEADER_LEN)) + k
<1>4. a + HEADER_LEN <= taken /\ taken + n <= a + HEADER_LEN + Len(m.body)
  BY <1>1 DEF a
<1>5. j \in 1..Len(m.body) /\ HEADER_LEN + j \in 1..HEADER_LEN + Len(m.body)
      /\ a + (HEADER_LEN + j) = taken + k
  <2> DEFINE l == Len(m.body)
             t == taken
  <2>1. /\ l \in Nat /\ a \in Nat /\ t \in Nat /\ n \in Nat /\ k \in 1..n
        /\ a + 4 <= t /\ t + n <= a + 4 + l
    BY <1>1, <1>2, <1>3, <1>4 DEF HEADER_LEN
  <2> HIDE DEF l, t
  <2>2. /\ (t - (a + 4)) + k \in 1..l /\ 4 + ((t - (a + 4)) + k) \in 1..4 + l
        /\ a + (4 + ((t - (a + 4)) + k)) = t + k
    BY ONLY <2>1
  <2> QED
    BY <2>2 DEF HEADER_LEN, l, t
<1> HIDE DEF j
<1>6. Stream[taken + k] = m.body[j]
  BY <1>1, <1>3, <1>5
<1> QED
  BY <1>2, <1>6 DEF j

\* The first piece of a body.
LEMMA FirstPiece ==
  ASSUME TypeOK, NEW i \in 1..Len(sent), NEW n \in Nat, n <= Available,
         taken = Start(i) + HEADER_LEN, taken + n <= Start(i + 1)
  PROVE  Like(Piece(n), sent[i]) /\ Len(Piece(n)) = n
<1> DEFINE b == Piece(n)
           m == sent[i]
           z == taken - (Start(i) + HEADER_LEN)
           l == Len(m.body)
           a == Start(i)
           e == Start(i + 1)
<1>1. m \in Messages /\ a \in Nat /\ e = a + HEADER_LEN + l
  <2>1. sent \in Seq(Messages) /\ i \in 1..Len(sent) + 1
    BY DEF TypeOK
  <2> QED
    BY <2>1, StreamShape
<1>2. l \in Nat /\ taken \in Nat
  BY <1>1, WireShape, StreamType DEF TypeOK
<1>3. b \in Seq(Byte) /\ Len(b) = n
  BY PieceIs
<1>4. a + HEADER_LEN <= taken
  BY <1>1, <1>2 DEF HEADER_LEN
<1>5. \A k \in 1..n : b[k] = m.body[z + k]
  BY <1>4, PieceLike
<1>6. taken = a + HEADER_LEN /\ taken + n <= e
  OBVIOUS
<1> HIDE DEF a, e, l, m, b
<1>7. z = 0 /\ n <= l
  <2>1. z = taken - (a + HEADER_LEN)
    BY DEF a
  <2> HIDE DEF z
  <2> QED
    BY <1>1, <1>2, <1>6, <2>1 DEF HEADER_LEN
<1> HIDE DEF z
<1>8. \A k \in 1..n : b[k] = m.body[k]
  BY ONLY <1>5, <1>7
<1> QED
  BY <1>3, <1>7, <1>8 DEF Like, b, m, l

\* A buffer that is read adds the next bytes of the data.
LEMMA DataGrows ==
  ASSUME TypeOK, NEW i \in 1..Len(sent), NEW n \in Nat, n <= Available,
         Start(i) + HEADER_LEN <= taken, taken + n <= Start(i + 1),
         Like(FlattenSeq(data), sent[i]),
         Len(FlattenSeq(data)) = taken - (Start(i) + HEADER_LEN)
  PROVE  /\ Append(data, Piece(n)) \in Seq(Seq(Byte))
         /\ Like(FlattenSeq(Append(data, Piece(n))), sent[i])
         /\ Len(FlattenSeq(Append(data, Piece(n)))) = (taken + n) - (Start(i) + HEADER_LEN)
<1> DEFINE m == sent[i]
           a == Start(i)
           f == FlattenSeq(data)
           b == Piece(n)
<1>1. /\ m \in Messages /\ Start(i + 1) = a + HEADER_LEN + Len(m.body)
      /\ a \in Nat /\ taken \in Nat /\ Len(m.body) \in Nat
  <2>1. sent \in Seq(Messages) /\ i \in 1..Len(sent) + 1
    BY DEF TypeOK
  <2>2. m \in Messages
    BY <2>1
  <2> QED
    BY <2>1, <2>2, StreamShape, StreamType, WireShape DEF TypeOK
<1>2. b \in Seq(Byte) /\ Len(b) = n
  BY PieceIs
<1>3. \A k \in 1..n : b[k] = m.body[(taken - (a + HEADER_LEN)) + k]
  BY PieceLike
<1>4. data \in Seq(Seq(Byte)) /\ f \in Seq(Byte) /\ Len(f) = taken - (a + HEADER_LEN)
      /\ Len(f) \in Nat /\ \A k \in 1..Len(f) : f[k] = m.body[k]
  BY DEF Like, TypeOK
<1>5. Append(data, b) \in Seq(Seq(Byte)) /\ FlattenSeq(Append(data, b)) = f \o b
  <2>1. data \in Seq(Seq(Byte)) /\ b \in Seq(Byte)
    BY <1>2, <1>4
  <2> HIDE DEF b
  <2> QED
    BY ONLY <2>1, AppendProperties, FlattenAppend DEF f
<1>6. taken + n <= a + HEADER_LEN + Len(m.body) /\ n \in Nat
  BY <1>1 DEF a
<1> HIDE DEF m, a, f, b
<1> DEFINE g == f \o b
<1>7. /\ g \in Seq(Byte) /\ Len(g) = Len(f) + Len(b)
      /\ \A k \in 1..Len(f) + Len(b) : g[k] = IF k <= Len(f) THEN f[k] ELSE b[k - Len(f)]
  BY ONLY <1>2, <1>4, ConcatProperties
<1> HIDE DEF g
<1>8. Len(g) = (taken + n) - (a + HEADER_LEN) /\ Len(g) <= Len(m.body)
  <2> DEFINE l == Len(m.body)
             t == taken
             x == Len(f)
             y == Len(g)
  <2>1. /\ l \in Nat /\ a \in Nat /\ t \in Nat /\ n \in Nat /\ x \in Nat
        /\ x = t - (a + 4) /\ t + n <= a + 4 + l /\ y = x + n
    BY <1>1, <1>2, <1>4, <1>6, <1>7 DEF HEADER_LEN
  <2> HIDE DEF l, t, x, y
  <2>2. y = (t + n) - (a + 4) /\ y <= l
    BY ONLY <2>1
  <2> QED
    BY <2>2 DEF HEADER_LEN, l, t, y
<1>9. ASSUME NEW k \in 1..Len(g) PROVE g[k] = m.body[k]
  <2>1. k \in 1..Len(f) + Len(b)
    BY <1>7
  <2>2. CASE k <= Len(f)
    BY <1>4, <1>7, <2>1, <2>2
  <2>3. CASE ~(k <= Len(f))
    <3>1. k - Len(f) \in 1..n /\ (taken - (a + HEADER_LEN)) + (k - Len(f)) = k
      <4>1. (taken - (a + HEADER_LEN)) + (k - Len(f)) = Len(f) + (k - Len(f))
        BY <1>4
      <4>2. k \in Nat /\ k <= Len(f) + n
        BY <1>2, <1>4, <2>1
      <4> QED
        BY <1>4, <2>3, <4>1, <4>2
    <3>2. g[k] = b[k - Len(f)]
      BY <1>7, <2>1, <2>3
    <3>3. b[k - Len(f)] = m.body[(taken - (a + HEADER_LEN)) + (k - Len(f))]
      BY <1>3, <3>1
    <3> QED
      BY <3>1, <3>2, <3>3
  <2> QED
    BY <2>2, <2>3
<1>10. Like(g, m)
  BY <1>7, <1>8, <1>9 DEF Like
<1> QED
  BY <1>5, <1>8, <1>10 DEF g, m, a, b

\* What has been read fits the message, with or without a buffer that stayed
\* empty, although there may be something in its memory.
LEMMA DataFits ==
  ASSUME TypeOK, NEW i \in 1..Len(sent), Within(i, pc, at, pack, taken, need),
         Reading(i, pc, taken, data, first), pc \in {"data", "text", "answer"}
  PROVE  /\ Fits(sent[i], data, first)
         /\ \A x : (pc # "text" /\ data = <<>> => Like(x, sent[i])) =>
                     Fits(sent[i], Append(data, <<>>), First(x))
         /\ pc = "answer" => Full(sent[i], data, first)
<1> DEFINE m == sent[i]
           a == Start(i)
           f == FlattenSeq(data)
           d == Append(data, <<>>)
<1>1. /\ m \in Messages /\ Start(i + 1) = a + HEADER_LEN + Len(m.body)
      /\ a \in Nat /\ taken \in Nat /\ Len(m.body) \in Nat /\ data \in Seq(Seq(Byte))
  <2>1. sent \in Seq(Messages) /\ i \in 1..Len(sent) + 1
    BY DEF TypeOK
  <2>2. m \in Messages
    BY <2>1
  <2> QED
    BY <2>1, <2>2, StreamShape, StreamType, WireShape DEF TypeOK
<1>2. /\ Like(f, m) /\ Len(f) = taken - (a + HEADER_LEN)
      /\ OneString(m) => CStrings(data) = CString(f)
      /\ pc # "text" => /\ ~IsLongText(m.header)
                        /\ data # <<>> => Like(first, m) /\ Len(first) = FirstLen(m)
  BY DEF Reading
<1>3. /\ pack = m.header
      /\ pc = "text" => IsLongText(m.header) /\ taken < a + HEADER_LEN + Len(m.body)
      /\ pc = "answer" => taken = a + HEADER_LEN + Len(m.body)
  BY <1>1 DEF Within
<1>4. FlattenSeq(d) = f /\ d # <<>>
  <2>1. <<>> \in Seq(Byte) /\ data \in Seq(Seq(Byte))
    BY <1>1
  <2>2. f \in Seq(Byte)
    BY <1>2 DEF Like
  <2>3. FlattenSeq(d) = f \o <<>>
    BY ONLY <2>1, FlattenAppend
  <2>4. Len(d) = Len(data) + 1 /\ Len(data) \in Nat
    BY ONLY <2>1, AppendProperties
  <2> HIDE DEF f, d
  <2>5. d # <<>>
    BY <2>4
  <2> QED
    BY ONLY <2>2, <2>3, <2>5, ConcatEmptySeq
<1>5. OneString(m) => CStrings(d) = CString(FlattenSeq(d))
  <2>1. <<>> \in Seq(Byte) /\ Like(FlattenSeq(d), m)
    BY <1>2, <1>4
  <2> SUFFICES ASSUME OneString(m) PROVE CStrings(d) = CString(FlattenSeq(d))
    OBVIOUS
  <2>2. CStrings(data) = CString(FlattenSeq(data))
    BY <1>2
  <2> HIDE DEF m
  <2> QED
    BY <1>1, <2>1, <2>2, StringGrows
<1>6. IsLongText(m.header) => Len(f) < Len(m.body)
  <2> SUFFICES ASSUME IsLongText(m.header) PROVE Len(f) < Len(m.body)
    OBVIOUS
  <2>1. taken < a + HEADER_LEN + Len(m.body) /\ Len(f) = taken - (a + HEADER_LEN)
    BY <1>2, <1>3
  <2> DEFINE l == Len(m.body)
             t == taken
             x == Len(f)
  <2>2. /\ l \in Nat /\ a \in Nat /\ t \in Nat /\ x = t - (a + 4) /\ t < a + 4 + l
    BY <1>1, <2>1 DEF HEADER_LEN
  <2> HIDE DEF l, t, x, a
  <2>3. x < l
    BY ONLY <2>2
  <2> QED
    BY <2>3 DEF l, x
<1>7. pc = "text" <=> IsLongText(m.header)
  BY <1>2, <1>3
<1> HIDE DEF m, a, f, d
<1>8. Fits(m, data, first)
  BY <1>2, <1>6, <1>7 DEF Fits, f
<1>9. ASSUME NEW x, pc # "text" /\ data = <<>> => Like(x, m)
      PROVE  Fits(m, d, First(x))
  <2>1. ~IsLongText(m.header) => Like(First(x), m)
    BY <1>2, <1>7, <1>9 DEF First
  <2> QED
    BY <1>2, <1>4, <1>5, <1>6, <2>1 DEF Fits
<1>10. ASSUME pc = "answer" PROVE Full(m, data, first)
  <2>1. Len(f) = Len(m.body)
    BY <1>1, <1>2, <1>3, <1>10 DEF HEADER_LEN
  <2> QED
    BY <1>2, <1>10, <2>1 DEF Full, f
<1> QED
  BY <1>8, <1>9, <1>10 DEF m, d

\* What is printed, pr, of the packet p is what was sent of the message, when t
\* bytes have been read and l is lost.
Shows(pr, p, t, l) ==
  \A x \in pr :
    at \in Starts =>
      /\ p = Message.header
      /\ Right(Message, x, t >= at + HEADER_LEN + Len(Message.body) /\ l = {})
Shown == Shows(printed, pack, taken, lost)

\* The buffers d that are printed of message i, and the memory of the first.
Fine(i, d, mem, t, l) ==
  /\ at = Start(i) /\ pack = sent[i].header /\ Fits(sent[i], d, mem)
  /\ t >= Start(i + 1) /\ l = {} => Full(sent[i], d, mem)

LEMMA ShownNext ==
  ASSUME sent' = sent, at' = at, Shows(printed', pack', taken', lost')
  PROVE  Shown'
<1>1. Message' = Message /\ Starts' = Starts
  BY SameStream DEF Message, Start
<1> QED
  BY <1>1 DEF Shown, Shows, Right, Carried, OneString, CString, buf_contains_symbol

LEMMA ShownKept ==
  ASSUME Shown, sent' = sent, at' = at, printed' = printed, pack' = pack,
         (taken' = taken /\ lost' = lost) \/ lost' # {}
  PROVE  Shown'
<1>1. Shows(printed', pack', taken', lost')
  BY DEF Shown, Shows, Right
<1> QED
  BY <1>1, ShownNext

LEMMA NothingShown == ASSUME printed' = {} PROVE Shown'
BY DEF Shown, Shows

LEMMA HandledShows ==
  ASSUME TypeOK, sent' = sent, NEW ok \in BOOLEAN, NEW d \in Seq(Seq(Byte)),
         NEW mem \in Seq(Byte), Handled(ok, d, mem),
         at \in Starts => \E i \in 1..Len(sent) : Fine(i, d, mem, taken', lost')
  PROVE  Shown'
<1>1. printed' = Printed(pack, d, mem) /\ at' = at /\ pack' = pack
  BY DEF Handled
<1>2. ASSUME NEW x \in printed', at \in Starts
      PROVE  /\ pack' = Message.header
             /\ Right(Message, x, taken' >= at + HEADER_LEN + Len(Message.body) /\ lost' = {})
  <2>1. PICK i \in 1..Len(sent) : Fine(i, d, mem, taken', lost')
    BY <1>2
  <2> DEFINE m == sent[i]
             whole == taken' >= Start(i + 1) /\ lost' = {}
  <2>2. sent \in Seq(Messages)
    BY DEF TypeOK
  <2>3. Message = m /\ m \in Messages
    BY <2>1, <2>2, MessageIs DEF Fine
  <2>4. Start(i + 1) = at + HEADER_LEN + Len(m.body)
    BY <2>1, <2>2, StreamShape DEF Fine
  <2>5. pack = m.header /\ Fits(m, d, mem) /\ (whole => Full(m, d, mem)) /\ whole \in BOOLEAN
    BY <2>1 DEF Fine
  <2>6. x \in Printed(m.header, d, mem)
    BY <1>1, <1>2, <2>5
  <2> HIDE DEF m, whole
  <2>7. Right(m, x, whole)
    BY <2>3, <2>5, <2>6, PrintsPart
  <2> QED
    BY <1>1, <2>3, <2>4, <2>5, <2>7 DEF whole
<1>3. Shows(printed', pack', taken', lost')
  BY <1>2 DEF Shows
<1> QED
  BY <1>1, <1>3, ShownNext

\* In a message whose header was read where the peer wrote it, the thread is at
\* its place and has kept what it read.
Inside(c, pr, a, p, t, n, d, f) ==
  c \in {"data", "text", "answer"} =>
    /\ pr = {}
    /\ a \in Starts =>
         \E i \in 1..Len(sent) : Within(i, c, a, p, t, n) /\ Reading(i, c, t, d, f)

\* The invariant.
Showing ==
  /\ nest = <<>>
  /\ pc = "header" => data = <<>>
  /\ Inside(pc, printed, at, pack, taken, need, data, first)

LEMMA InsideNext ==
  ASSUME sent' = sent, nest' = <<>>, pc' = "header" => data' = <<>>,
         Inside(pc', printed', at', pack', taken', need', data', first')
  PROVE  Showing'
<1>1. Inside(pc, printed, at, pack, taken, need, data, first)'
  BY DEF Inside, Within, Reading, Like, FirstLen, Start, Starts, OneString, CStrings, CString,
     buf_contains_symbol
<1> QED
  BY <1>1 DEF Showing

\* The end of a handler that was reading or answering.
LEMMA EndShows ==
  ASSUME TypeOK, Showing, sent' = sent, pc \in {"data", "text", "answer"},
         NEW ok \in BOOLEAN, NEW d, NEW mem, Handled(ok, d, mem),
         \/ d = data /\ mem = first /\ ((pc = "answer" /\ taken' = taken) \/ lost' # {})
         \/ d = Append(data, <<>>) /\ mem = First(<<>>) /\ pc # "answer" /\ taken' = taken
         \/ /\ d = Append(data, <<>>) /\ mem = First(Piece(Available)) /\ pc = "data"
            /\ Available \in 1..Expected - 1 /\ lost' # {}
  PROVE  Shown'
<1>0. Available \in Nat /\ <<>> \in Seq(Byte) /\ taken \in Nat /\ need \in Nat
  BY StreamType DEF TypeOK, Available
<1>1. d \in Seq(Seq(Byte)) /\ mem \in Seq(Byte)
  <2>1. Append(data, <<>>) \in Seq(Seq(Byte)) /\ data \in Seq(Seq(Byte)) /\ first \in Seq(Byte)
    BY <1>0, BufferAdded DEF TypeOK
  <2>2. First(<<>>) \in Seq(Byte) /\ First(Piece(Available)) \in Seq(Byte)
    BY <1>0, PieceIs, FirstType
  <2> QED
    BY <2>1, <2>2
<1>2. ASSUME at \in Starts
      PROVE  \E i \in 1..Len(sent) : Fine(i, d, mem, taken', lost')
  <2>1. PICK i \in 1..Len(sent) :
          Within(i, pc, at, pack, taken, need) /\ Reading(i, pc, taken, data, first)
    BY <1>2 DEF Showing, Inside
  <2>2. /\ Fits(sent[i], data, first)
        /\ \A x : (pc # "text" /\ data = <<>> => Like(x, sent[i])) =>
                    Fits(sent[i], Append(data, <<>>), First(x))
        /\ pc = "answer" => Full(sent[i], data, first)
    BY <2>1, DataFits
  <2> DEFINE e == Start(i + 1)
             a == Start(i)
             l == Len(sent[i].body)
  <2>3. e \in Nat /\ a \in Nat /\ e = a + HEADER_LEN + l /\ l \in Nat
    <3>1. sent \in Seq(Messages) /\ i \in 1..Len(sent) + 1 /\ i + 1 \in 1..Len(sent) + 1
      BY DEF TypeOK
    <3>2. sent[i] \in Messages
      BY <3>1
    <3> QED
      BY <3>1, <3>2, StreamShape, WireShape
  <2>4. (pc = "data" => need > 0 /\ taken + need = e) /\ (pc = "text" => taken < e)
    BY <2>1 DEF Within
  <2>5. pc # "answer" => ~(taken >= e)
    <3> HIDE DEF e
    <3> QED
      BY <1>0, <2>3, <2>4
  <2>6. Like(<<>>, sent[i])
    <3>1. Len(<<>>) = 0 /\ <<>> \in Seq(Byte)
      OBVIOUS
    <3> QED
      BY <2>3, <3>1 DEF Like
  <2>7. ASSUME pc = "data", data = <<>>, Available \in 1..Expected - 1
        PROVE  Like(Piece(Available), sent[i])
    <3>1. Len(FlattenSeq(data)) = taken - (a + HEADER_LEN)
      BY <2>1 DEF Reading
    <3>2. Len(FlattenSeq(data)) = 0
      <4>1. Len(<<>>) = 0
        OBVIOUS
      <4> QED
        BY <2>7, <4>1, FlattenEmpty
    <3>3. Expected \in Nat /\ Expected <= need
      BY ExpectedIs
    <3>4. taken = a + HEADER_LEN /\ taken + Available <= e
      <4> DEFINE y == Len(FlattenSeq(data))
                 v == Available
                 x == Expected
                 t == taken
      <4>1. /\ y = t - (a + 4) /\ y = 0 /\ t \in Nat /\ a \in Nat /\ e \in Nat /\ v \in Nat
            /\ x \in Nat /\ x <= need /\ need \in Nat /\ t + need = e /\ v \in 1..x - 1
        BY <1>0, <2>3, <2>4, <2>7, <3>1, <3>2, <3>3 DEF HEADER_LEN
      <4> HIDE DEF y, v, x, t, a, e
      <4>2. t = a + 4 /\ t + v <= e
        BY ONLY <4>1
      <4> QED
        BY <4>2 DEF HEADER_LEN, t, v
    <3> HIDE DEF a, e
    <3>5. taken = Start(i) + HEADER_LEN /\ taken + Available <= Start(i + 1)
      BY <3>4 DEF a, e
    <3>6. Available <= Available
      BY <1>0
    <3> DEFINE n == Available
    <3>7. n \in Nat /\ n <= Available /\ taken + n <= Start(i + 1)
      BY <1>0, <3>5, <3>6
    <3> HIDE DEF n
    <3>8. Like(Piece(n), sent[i])
      BY <3>5, <3>7, FirstPiece
    <3> QED
      BY <3>8 DEF n
  <2>8. at = Start(i) /\ pack = sent[i].header
    BY <2>1 DEF Within
  <2>9. Fits(sent[i], d, mem)
    <3>1. CASE d = data /\ mem = first
      BY <2>2, <3>1
    <3>2. CASE d = Append(data, <<>>) /\ mem = First(<<>>)
      BY <2>2, <2>6, <3>2
    <3>3. CASE d = Append(data, <<>>) /\ mem = First(Piece(Available)) /\ pc = "data"
               /\ Available \in 1..Expected - 1
      BY <2>2, <2>7, <3>3
    <3> QED
      BY <3>1, <3>2, <3>3
  <2>10. taken' >= e /\ lost' = {} => Full(sent[i], d, mem)
    <3> HIDE DEF e
    <3> QED
      BY <2>2, <2>5
  <2> QED
    BY <2>8, <2>9, <2>10 DEF Fine
<1> QED
  BY <1>1, <1>2, HandledShows

LEMMA NoStrings == CStrings(<<>>) = <<>> /\ CString(<<>>) = <<>>
<1> DEFINE n == <<>>
<1>1. n \in Seq(Byte) /\ (\A k \in 1..Len(n) : n[k] # NULL_BYTE) /\ Len(n) = 0
  OBVIOUS
<1>2. [i \in 1..Len(n) |-> CString(n[i])] = n
  BY <1>1
<1>3. FlattenSeq(n) = n
  BY FlattenEmpty
<1> HIDE DEF n
<1>4. CString(n) = n
  BY <1>1, NoStop
<1>5. CStrings(n) = n
  BY <1>2, <1>3 DEF CStrings
<1> QED
  BY <1>4, <1>5 DEF n

LEMMA HeaderShows ==
  ASSUME TypeOK, Showing, ReadHeader, ~IsLongHeader(pack')
  PROVE  Showing' /\ Shown'
<1>1. sent' = sent /\ at' = taken /\ taken' = taken + HEADER_LEN /\ data' = data
      /\ printed' = {} /\ pc = "header"
  BY DEF ReadHeader, sentVars
<1>2. Shown'
  BY <1>1, NothingShown
<1>3. PICK p \in Packet : HeaderGives(p)
  BY ReadHeaderIs
<1>4. /\ pc' \in {"done", "data", "text", "answer"} /\ nest' = <<>> /\ pack' = p
      /\ pc' \in {"data", "answer"} => ~IsLongText(p)
  <2>1. ~IsLongHeader(p) /\ nest = <<>>
    BY <1>3 DEF HeaderGives, Showing
  <2> QED
    BY <1>3, <2>1 DEF HeaderGives
<1>5. ASSUME pc' \in {"data", "text", "answer"}, at' \in Starts
      PROVE  \E i \in 1..Len(sent) : /\ Within(i, pc', at', pack', taken', need')
                                     /\ Reading(i, pc', taken', data', first')
  <2>1. taken \in Begins
    <3>1. PICK i \in 1..Len(sent) : taken = Start(i)
      BY <1>1, <1>5 DEF Starts
    <3>2. i \in 1..Len(sent) + 1
      BY DEF TypeOK
    <3> QED
      BY <3>1, <3>2 DEF Begins
  <2>2. Aligned
    BY <1>1, <2>1 DEF Aligned, Follows
  <2>3. Follows(pc', at', pack', taken', need')
    BY <1>1, <2>2, AlignHeader, AlignedNext
  <2>4. PICK i \in 1..Len(sent) : Within(i, pc', at', pack', taken', need')
    BY <1>5, <2>3 DEF Follows
  <2>5. at' = Start(i) /\ pack' = sent[i].header
    BY <2>4 DEF Within
  <2>6. sent[i] \in Messages
    BY DEF TypeOK
  <2>7. data' = <<>> /\ FlattenSeq(data') = <<>> /\ CStrings(data') = CString(<<>>)
    BY <1>1, FlattenEmpty, NoStrings DEF Showing
  <2>8. Like(<<>>, sent[i])
    <3>1. <<>> \in Seq(Byte) /\ Len(<<>>) = 0 /\ Len(sent[i].body) \in Nat
      BY <2>6, WireShape
    <3> QED
      BY <3>1 DEF Like
  <2>9. Len(<<>>) = taken' - (Start(i) + HEADER_LEN)
    <3>1. taken \in Nat /\ Start(i) = taken /\ Len(<<>>) = 0
      BY <1>1, <2>5 DEF TypeOK
    <3> QED
      BY <1>1, <3>1 DEF HEADER_LEN
  <2>10. pc' # "text" => ~IsLongText(sent[i].header)
    BY <1>4, <1>5, <2>5
  <2>11. Reading(i, pc', taken', data', first')
    BY <2>7, <2>8, <2>9, <2>10 DEF Reading
  <2> QED
    BY <2>4, <2>11
<1>6. Inside(pc', printed', at', pack', taken', need', data', first')
  BY <1>1, <1>5 DEF Inside
<1> QED
  BY <1>1, <1>2, <1>4, <1>6, InsideNext

LEMMA DataShows ==
  ASSUME TypeOK, Showing, ReadData
  PROVE  Showing' /\ Shown'
<1> USE DEF sentVars
<1>1. /\ sent' = sent /\ at' = at /\ nest' = nest /\ printed' = printed /\ pc = "data"
      /\ pc' \in {"data", "answer"} /\ pack' = pack /\ lost' = lost
      /\ taken' = taken + Expected /\ data' = Append(data, Piece(Expected))
      /\ first' = First(Piece(Expected)) /\ Available >= Expected
  BY DEF ReadData
<1>2. printed = {} /\ nest = <<>>
  BY <1>1 DEF Showing, Inside
<1>3. Shown'
  BY <1>1, <1>2, NothingShown
<1>4. ASSUME at \in Starts
      PROVE  \E i \in 1..Len(sent) : /\ Within(i, pc', at', pack', taken', need')
                                     /\ Reading(i, pc', taken', data', first')
  <2>1. PICK i \in 1..Len(sent) :
          Within(i, "data", at, pack, taken, need) /\ Reading(i, "data", taken, data, first)
    BY <1>1, <1>4 DEF Showing, Inside
  <2>2. Within(i, pc', at', pack', taken', need')
    BY <2>1, DataWithin
  <2> DEFINE m == sent[i]
             x == Expected
             b == Piece(x)
             d == Append(data, b)
             mem == First(b)
             f == FlattenSeq(data)
             a == Start(i)
             e == Start(i + 1)
             l == Len(m.body)
  <2>3. /\ m \in Messages /\ l \in Nat /\ a \in Nat /\ taken \in Nat
        /\ e = a + HEADER_LEN + l
    <3>1. sent \in Seq(Messages) /\ i \in 1..Len(sent) + 1
      BY DEF TypeOK
    <3>2. m \in Messages
      BY <3>1
    <3> QED
      BY <3>1, <3>2, StreamShape, StreamType, WireShape DEF TypeOK
  <2>4. need > 0 /\ taken + need = e /\ ~IsLongText(m.header)
    BY <2>1 DEF Within
  <2>5. /\ Like(f, m) /\ Len(f) = taken - (a + HEADER_LEN)
        /\ OneString(m) => CStrings(data) = CString(f)
        /\ data # <<>> => /\ Like(first, m) /\ Len(first) = FirstLen(m)
                          /\ l <= Window => taken = e
    BY <2>1 DEF Reading
  <2>6. /\ x \in Nat /\ x <= need /\ x <= Available /\ need \in Nat
        /\ x = IF need < Window THEN need ELSE Window
    BY <1>1, ExpectedIs, StreamType DEF TypeOK, Available, Expected
  <2>7. Window \in Nat /\ Len(f) \in Nat
    BY <2>5, EndpointAssumption DEF Like
  <2>8. /\ a + HEADER_LEN <= taken /\ taken + x <= e
        /\ data # <<>> => ~(l <= Window)
        /\ Len(f) = 0 => /\ taken = a + HEADER_LEN /\ x = IF l < Window THEN l ELSE Window
                         /\ l <= Window => taken + x = e
    <3> DEFINE y == Len(f)
               t == taken
               some == data # <<>>
    <3>1. /\ y = t - (a + 4) /\ y \in Nat /\ t + need = e /\ a \in Nat /\ t \in Nat
          /\ x \in Nat /\ need \in Nat /\ x <= need /\ need > 0 /\ l \in Nat /\ Window \in Nat
          /\ e = a + 4 + l /\ x = IF need < Window THEN need ELSE Window
          /\ some => (l <= Window => t = e)
      BY <2>3, <2>4, <2>5, <2>6, <2>7 DEF HEADER_LEN
    <3> HIDE DEF a, e, y, x, l, t, some
    <3>2. /\ a + 4 <= t /\ t + x <= e
          /\ some => ~(l <= Window)
          /\ y = 0 => /\ t = a + 4 /\ x = IF l < Window THEN l ELSE Window
                      /\ l <= Window => t + x = e
      BY ONLY <3>1
    <3> QED
      BY <3>2 DEF HEADER_LEN, y, t, some
  <2>9. b \in Seq(Byte) /\ data \in Seq(Seq(Byte))
    <3> HIDE DEF x
    <3> QED
      BY <2>6, PieceIs DEF TypeOK
  <2>10. /\ d \in Seq(Seq(Byte)) /\ Like(FlattenSeq(d), m)
         /\ Len(FlattenSeq(d)) = (taken + x) - (a + HEADER_LEN)
    <3> HIDE DEF x
    <3> QED
      BY <2>5, <2>6, <2>8, DataGrows
  <2>11. ASSUME OneString(m) PROVE CStrings(d) = CString(FlattenSeq(d))
    <3>1. NoNul(m) \/ data = <<>>
      BY <2>8, <2>11 DEF OneString, NoNul
    <3>2. CStrings(data) = CString(FlattenSeq(data))
      BY <2>5, <2>11
    <3> HIDE DEF m, b
    <3> QED
      BY <2>3, <2>9, <2>10, <3>1, <3>2, StringGrows
  <2>12. Like(mem, m) /\ Len(mem) = FirstLen(m) /\ (l <= Window => taken + x = e)
    <3>1. CASE data # <<>>
      <4>1. mem = first
        BY <3>1 DEF First
      <4> HIDE DEF mem, m, x, e
      <4> QED
        BY <2>5, <2>8, <3>1, <4>1
    <3>2. CASE data = <<>>
      <4>1. mem = b
        BY <3>2 DEF First
      <4>2. Len(f) = 0
        <5>1. Len(<<>>) = 0
          OBVIOUS
        <5> QED
          BY <3>2, <5>1, FlattenEmpty
      <4>3. Like(b, m) /\ Len(b) = x
        <5>1. taken = Start(i) + HEADER_LEN /\ taken + x <= Start(i + 1)
          BY <2>8, <4>2
        <5> HIDE DEF x
        <5> QED
          BY <2>6, <5>1, FirstPiece
      <4>4. x = FirstLen(m) /\ (l <= Window => taken + x = e)
        BY <2>8, <4>2 DEF FirstLen
      <4> HIDE DEF mem, m, x, e, b
      <4> QED
        BY <4>1, <4>3, <4>4
    <3> QED
      BY <3>1, <3>2
  <2>13. data' = d /\ first' = mem /\ taken' = taken + x
    BY <1>1
  <2>14. Reading(i, pc', taken', data', first')
    <3> HIDE DEF d, mem, x
    <3>1. /\ Like(FlattenSeq(data'), m)
          /\ Len(FlattenSeq(data')) = taken' - (a + HEADER_LEN)
          /\ OneString(m) => CStrings(data') = CString(FlattenSeq(data'))
      BY <2>10, <2>11, <2>13
    <3>2. Like(first', m) /\ Len(first') = FirstLen(m) /\ (l <= Window => taken' = e)
      BY <2>12, <2>13
    <3> QED
      BY <2>4, <3>1, <3>2 DEF Reading
  <2> QED
    BY <2>2, <2>14
<1>5. Inside(pc', printed', at', pack', taken', need', data', first')
  BY <1>1, <1>2, <1>4 DEF Inside
<1> QED
  BY <1>1, <1>2, <1>3, <1>5, InsideNext

\* A piece of the text of a message is added to its buffers.
LEMMA TextGrows ==
  ASSUME TypeOK, NEW i \in 1..Len(sent), IsLongText(sent[i].header),
         NEW n \in Nat, n <= Available,
         Start(i) + HEADER_LEN <= taken, taken + n <= Start(i + 1),
         Reading(i, "text", taken, data, first)
  PROVE  LET d == Append(data, Piece(n))
         IN  /\ d \in Seq(Seq(Byte)) /\ Like(FlattenSeq(d), sent[i])
             /\ Len(FlattenSeq(d)) = (taken + n) - (Start(i) + HEADER_LEN)
             /\ OneString(sent[i]) => CStrings(d) = CString(FlattenSeq(d))
<1> DEFINE m == sent[i]
           b == Piece(n)
           d == Append(data, b)
<1>1. m \in Messages /\ data \in Seq(Seq(Byte))
  BY DEF TypeOK
<1>2. b \in Seq(Byte)
  BY PieceIs
<1>3. /\ Like(FlattenSeq(data), m) /\ Len(FlattenSeq(data)) = taken - (Start(i) + HEADER_LEN)
      /\ OneString(m) => CStrings(data) = CString(FlattenSeq(data))
  BY DEF Reading
<1>4. /\ d \in Seq(Seq(Byte)) /\ Like(FlattenSeq(d), m)
      /\ Len(FlattenSeq(d)) = (taken + n) - (Start(i) + HEADER_LEN)
  BY <1>3, DataGrows
<1>5. ASSUME OneString(m) PROVE CStrings(d) = CString(FlattenSeq(d))
  <2>1. NoNul(m)
    BY <1>5 DEF OneString, NoNul
  <2>2. CStrings(data) = CString(FlattenSeq(data))
    BY <1>3, <1>5
  <2> HIDE DEF m, b
  <2> QED
    BY <1>1, <1>2, <1>4, <2>1, <2>2, StringGrows
<1> HIDE DEF m, b
<1> QED
  BY <1>4, <1>5 DEF m, b

LEMMA TextShows ==
  ASSUME TypeOK, Showing, ReadText
  PROVE  Showing' /\ Shown'
<1> USE DEF sentVars, callVars
<1> DEFINE n == IF Available < Window THEN Available ELSE Window
           ends == buf_contains_symbol(Piece(n), END_TEXT)
<1>0. taken \in Nat /\ arrived \in Nat /\ taken <= arrived
  BY StreamType DEF TypeOK
<1>1. n \in 1..Available
  BY <1>0, EndpointAssumption DEF ReadText, Available
<1>2. /\ sent' = sent /\ pc = "text" /\ taken' = taken + n
      /\ ends = {} => /\ data' = Append(data, Piece(n)) /\ first' = First(Piece(n))
                      /\ UNCHANGED <<callVars, pack, need, answer, at, printed, lost>>
      /\ ends # {} => Handled(TRUE, Append(data, Piece(Min(ends) - 1)), First(Piece(n)))
  BY DEF ReadText
<1>3. printed = {} /\ nest = <<>>
  BY <1>2 DEF Showing, Inside
\* At the place of message i.
<1>4. ASSUME at \in Starts
      PROVE  \E i \in 1..Len(sent) :
               /\ Within(i, "text", at, pack, taken, need)
               /\ Reading(i, "text", taken, data, first)
               /\ sent[i] \in Messages /\ Start(i) \in Nat /\ Start(i + 1) \in Nat
               /\ Start(i + 1) = Start(i) + HEADER_LEN + Len(sent[i].body)
               /\ Len(sent[i].body) \in Nat
  <2>1. PICK i \in 1..Len(sent) :
          Within(i, "text", at, pack, taken, need) /\ Reading(i, "text", taken, data, first)
    BY <1>2, <1>4 DEF Showing, Inside
  <2>2. sent \in Seq(Messages) /\ i \in 1..Len(sent) + 1 /\ i + 1 \in 1..Len(sent) + 1
    BY DEF TypeOK
  <2>3. sent[i] \in Messages
    BY <2>2
  <2> QED
    BY <2>1, <2>2, <2>3, StreamShape, WireShape
<1> HIDE DEF n
<1>5. CASE ends = {}
  <2>1. /\ pc' = "text" /\ at' = at /\ pack' = pack /\ need' = need /\ nest' = nest
        /\ printed' = printed /\ lost' = lost /\ data' = Append(data, Piece(n))
    BY <1>2, <1>5
  <2>2. Shown'
    BY <1>3, <2>1, NothingShown
  <2>3. ASSUME at \in Starts
        PROVE  \E i \in 1..Len(sent) : /\ Within(i, pc', at', pack', taken', need')
                                       /\ Reading(i, pc', taken', data', first')
    <3>1. PICK i \in 1..Len(sent) :
               /\ Within(i, "text", at, pack, taken, need)
               /\ Reading(i, "text", taken, data, first)
               /\ Start(i + 1) \in Nat
      BY <1>4, <2>3
    <3>2. taken + n < Start(i + 1)
      BY <1>1, <1>5, <3>1, TextEnds
    <3>3. Within(i, pc', at', pack', taken', need')
      BY <1>1, <1>2, <2>1, <3>1, <3>2, TextWithin
    <3>4. /\ n \in Nat /\ n <= Available /\ taken + n <= Start(i + 1)
          /\ Start(i) + HEADER_LEN <= taken
      BY <1>0, <1>1, <3>1, <3>2 DEF Within, Available
    <3>5. IsLongText(sent[i].header)
      BY <3>1 DEF Within
    <3>6. /\ Like(FlattenSeq(data'), sent[i])
          /\ Len(FlattenSeq(data')) = (taken + n) - (Start(i) + HEADER_LEN)
          /\ OneString(sent[i]) => CStrings(data') = CString(FlattenSeq(data'))
      <4> DEFINE d == Append(data, Piece(n))
      <4>1. /\ Like(FlattenSeq(d), sent[i])
            /\ Len(FlattenSeq(d)) = (taken + n) - (Start(i) + HEADER_LEN)
            /\ OneString(sent[i]) => CStrings(d) = CString(FlattenSeq(d))
        BY <3>1, <3>4, <3>5, TextGrows
      <4>2. data' = d
        BY <2>1
      <4> HIDE DEF d
      <4> QED
        BY <4>1, <4>2
    <3>7. Reading(i, pc', taken', data', first')
      <4>1. pc' = "text" /\ taken' = taken + n
        BY <1>2, <2>1
      <4> QED
        BY ONLY <3>6, <4>1 DEF Reading
    <3> QED
      BY <3>3, <3>7
  <2>4. Inside(pc', printed', at', pack', taken', need', data', first')
    BY <1>3, <2>1, <2>3 DEF Inside
  <2> QED
    BY <1>2, <1>3, <2>1, <2>2, <2>4, InsideNext
<1>6. CASE ends # {}
  <2> DEFINE k == Min(ends) - 1
             d == Append(data, Piece(k))
             mem == First(Piece(n))
  <2>1. k \in Nat /\ k <= Available
    <3>1. Min(ends) \in 1..n
      <4>1. Len(Piece(n)) = n /\ Piece(n) \in Seq(Byte) /\ n \in Nat
        BY <1>0, <1>1, PieceIs DEF Available
      <4>2. ends \in SUBSET (1..n)
        BY <4>1 DEF buf_contains_symbol
      <4>3. ends \in SUBSET (0..n)
        BY <4>2
      <4> HIDE DEF ends
      <4> QED
        BY <1>6, <4>1, <4>2, <4>3, Smallest
    <3> QED
      BY <1>0, <1>1, <3>1 DEF Available
  <2>2. Handled(TRUE, d, mem)
    BY <1>2, <1>6
  <2> HIDE DEF k
  <2>3. d \in Seq(Seq(Byte))
    BY <2>1, PieceIs, BufferAdded
  <2>4. mem \in Seq(Byte)
    <3>1. Piece(n) \in Seq(Byte)
      BY <1>0, <1>1, PieceIs DEF Available
    <3> QED
      BY <3>1, FirstType
  <2>5. ASSUME at \in Starts
        PROVE  \E i \in 1..Len(sent) : Fine(i, d, mem, taken', lost')
    <3>1. PICK i \in 1..Len(sent) :
               /\ Within(i, "text", at, pack, taken, need)
               /\ Reading(i, "text", taken, data, first)
               /\ Start(i + 1) \in Nat /\ Start(i) \in Nat /\ Len(sent[i].body) \in Nat
               /\ Start(i + 1) = Start(i) + HEADER_LEN + Len(sent[i].body)
      BY <1>4, <2>5
    <3>2. taken + Min(ends) = Start(i + 1) /\ Min(ends) \in 1..n
      BY <1>1, <1>6, <3>1, TextEnds
    <3>3. taken + k = Start(i + 1) - 1
      BY <1>0, <3>1, <3>2 DEF k
    <3>4. taken + k <= Start(i + 1) /\ Start(i) + HEADER_LEN <= taken
      BY <3>1, <3>3 DEF Within
    <3>5. IsLongText(sent[i].header) /\ at = Start(i) /\ pack = sent[i].header
      BY <3>1 DEF Within
    <3>6. /\ Like(FlattenSeq(d), sent[i])
          /\ Len(FlattenSeq(d)) = (taken + k) - (Start(i) + HEADER_LEN)
          /\ OneString(sent[i]) => CStrings(d) = CString(FlattenSeq(d))
      BY <2>1, <3>1, <3>4, <3>5, TextGrows
    <3>7. Len(FlattenSeq(d)) = Len(sent[i].body) - 1
      <4> DEFINE y == Len(FlattenSeq(d))
                 a == Start(i)
                 l == Len(sent[i].body)
                 e == Start(i + 1)
      <4>1. y = (taken + k) - (a + 4) /\ taken + k = e - 1 /\ e = a + 4 + l /\ a \in Nat
            /\ l \in Nat /\ taken \in Nat /\ k \in Nat
        BY <1>0, <2>1, <3>1, <3>3, <3>6 DEF HEADER_LEN
      <4> HIDE DEF y, a, l, e
      <4>2. y = l - 1
        BY ONLY <4>1
      <4> QED
        BY <4>2 DEF y, l
    <3>8. Fits(sent[i], d, mem) /\ Full(sent[i], d, mem)
      <4>1. Len(FlattenSeq(d)) < Len(sent[i].body)
        BY <3>1, <3>7
      <4> HIDE DEF d, mem
      <4> QED
        BY <3>5, <3>6, <3>7, <4>1 DEF Fits, Full
    <3> HIDE DEF d, mem
    <3>9. Fine(i, d, mem, taken', lost')
      BY <3>5, <3>8 DEF Fine
    <3> QED
      BY <3>9
  <2> HIDE DEF d, mem
  <2>6. Shown'
    BY <1>2, <2>2, <2>3, <2>4, <2>5, HandledShows
  <2>7. pc' = "done" /\ nest' = <<>>
    BY <1>3, <2>2, HandlerReturns
  <2>8. Inside(pc', printed', at', pack', taken', need', data', first')
    BY <2>7 DEF Inside
  <2> QED
    BY <1>2, <2>6, <2>7, <2>8, InsideNext
<1> QED
  BY <1>5, <1>6

LEMMA ShowingStep ==
  ASSUME TypeOK, Showing, Shown, Next, ReadHeader => ~IsLongHeader(pack')
  PROVE  Showing' /\ Shown'
<1> USE DEF sentVars, packVars, flagVars, callVars
<1>0. nest = <<>>
  BY DEF Showing
<1>1. CASE ReadHeader
  BY <1>1, HeaderShows
<1>2. CASE ReadData
  BY <1>2, DataShows
<1>3. CASE ReadText
  BY <1>3, TextShows
<1>4. CASE Begin \/ Done
  <2>1. /\ sent' = sent /\ at' = at /\ printed' = printed /\ taken' = taken /\ lost' = lost
        /\ nest' = nest /\ pack' = pack /\ pc' \in {"header", "select", "closed"}
        /\ pc' = "header" => data' = <<>>
    BY <1>4 DEF Begin, Done
  <2>2. Inside(pc', printed', at', pack', taken', need', data', first')
    BY <2>1 DEF Inside
  <2> QED
    BY <1>0, <2>1, <2>2, InsideNext, ShownKept
<1>5. CASE Arrive \/ HangUp
  <2>1. /\ sent' = sent /\ at' = at /\ printed' = printed /\ taken' = taken /\ lost' = lost
        /\ nest' = nest /\ pc' = pc /\ data' = data /\ pack' = pack /\ need' = need
        /\ first' = first
    BY <1>5 DEF Arrive, HangUp
  <2>2. Inside(pc', printed', at', pack', taken', need', data', first')
    BY <2>1 DEF Showing
  <2>3. pc' = "header" => data' = <<>>
    BY <2>1 DEF Showing
  <2> QED
    BY <1>0, <2>1, <2>2, <2>3, InsideNext, ShownKept
<1>6. CASE Ends
  <2>1. pc' = "done" /\ nest' = <<>>
    BY <1>0, <1>6, HandlerEnds
  <2>2. sent' = sent
    BY <1>6 DEF Ends, ReadHeaderShort, ReadHeaderEnd, ReadHeaderFails, ReadDataShort,
       ReadDataEnd, ReadTextEnd, ReadBodyFails, AppendFails, WriteAnswer, WriteFails
  <2>3. Showing'
    <3>1. Inside(pc', printed', at', pack', taken', need', data', first')
      BY <2>1 DEF Inside
    <3> QED
      BY <2>1, <2>2, <3>1, InsideNext
  <2>4. CASE ReadHeaderShort \/ ReadHeaderEnd \/ ReadHeaderFails
    <3>1. /\ at' = at /\ printed' = printed /\ pack' = pack
          /\ (taken' = taken /\ lost' = lost) \/ lost' # {}
      BY <2>4 DEF ReadHeaderShort, ReadHeaderEnd, ReadHeaderFails
    <3> QED
      BY <2>2, <2>3, <3>1, ShownKept
  <2>5. CASE ReadDataShort
    <3> DEFINE d == Append(data, <<>>)
               mem == First(Piece(Available))
    <3>1. /\ pc = "data" /\ Available \in 1..Expected - 1 /\ lost' # {}
          /\ Handled(FALSE, d, mem)
      BY <2>5 DEF ReadDataShort
    <3>2. d = Append(data, <<>>) /\ mem = First(Piece(Available))
      OBVIOUS
    <3> HIDE DEF d, mem
    <3> QED
      BY <2>2, <2>3, <3>1, <3>2, EndShows
  <2>6. CASE ReadDataEnd \/ ReadTextEnd \/ ReadBodyFails
    <3> DEFINE d == Append(data, <<>>)
               mem == First(<<>>)
    <3>1. /\ pc \in {"data", "text"} /\ taken' = taken
          /\ Handled(TRUE, d, mem) \/ Handled(FALSE, d, mem)
      BY <2>6 DEF ReadDataEnd, ReadTextEnd, ReadBodyFails
    <3>2. d = Append(data, <<>>) /\ mem = First(<<>>)
      OBVIOUS
    <3> HIDE DEF d, mem
    <3> QED
      BY <2>2, <2>3, <3>1, <3>2, EndShows
  <2>7. CASE AppendFails \/ WriteAnswer \/ WriteFails
    <3>1. /\ pc \in {"data", "text", "answer"}
          /\ (pc = "answer" /\ taken' = taken) \/ lost' # {}
          /\ Handled(TRUE, data, first) \/ Handled(FALSE, data, first)
      BY <2>7 DEF AppendFails, WriteAnswer, WriteFails
    <3> QED
      BY <2>2, <2>3, <3>1, EndShows
  <2> QED
    BY <1>6, <2>4, <2>5, <2>6, <2>7 DEF Ends
<1> QED
  BY <1>1, <1>2, <1>3, <1>4, <1>5, <1>6 DEF Next, Steps, Failures, Ends

LEMMA ShowingStays ==
  ASSUME Showing, Shown, UNCHANGED vars
  PROVE  Showing' /\ Shown'
<1>1. /\ sent' = sent /\ at' = at /\ printed' = printed /\ taken' = taken /\ lost' = lost
      /\ nest' = nest /\ pc' = pc /\ data' = data /\ pack' = pack /\ need' = need
      /\ first' = first
  BY DEF vars, sentVars, packVars, callVars
<1>2. Inside(pc', printed', at', pack', taken', need', data', first')
  BY <1>1 DEF Showing
<1>3. nest' = <<>> /\ (pc' = "header" => data' = <<>>)
  BY <1>1 DEF Showing
<1> QED
  BY <1>1, <1>2, <1>3, InsideNext, ShownKept

LEMMA ShowingInit == Init => Showing /\ Shown
BY DEF Init, Showing, Inside, Shown, Shows

\* What is printed while the thread is in step is what the peer sent: of a text
\* in one buffer or without NUL, the string up to its first NUL or a prefix of
\* it, and all of it if all was read; of a time, each of the eight bytes is the
\* peer's or was never read, and those in the first buffer are there if all was
\* read.  This for any bytes, windows and cuts, provided the peer sends no long
\* header.
THEOREM EndpointPrints == ASSUME Plain PROVE Spec => []PrintsWhatWasSent
<1> DEFINE I == Kept => Showing /\ Shown /\ at \in Starts
<1>1. Init => I
  BY ShowingInit, FirstPlace
<1>2. TypeOK /\ Steady /\ ClientSteady /\ [Next]_vars /\ I => I'
  <2> SUFFICES ASSUME TypeOK, Steady, ClientSteady, [Next]_vars,
                      Kept => Showing /\ Shown /\ at \in Starts, Kept'
               PROVE  Showing' /\ Shown' /\ (at \in Starts)'
    OBVIOUS
  <2>1. Kept /\ Showing /\ Shown /\ at \in Starts
    BY KeptBefore
  <2>2. (at \in Starts)'
    BY <2>1, KeptPlace
  <2>3. CASE Next
    BY <2>1, <2>2, <2>3, KeptHeader, ShowingStep
  <2>4. CASE UNCHANGED vars
    BY <2>1, <2>2, <2>4, ShowingStays
  <2> QED
    BY <2>3, <2>4
<1>3. I => PrintsWhatWasSent
  <2> SUFFICES ASSUME Shown, at \in Starts, NEW x \in printed
               PROVE  IF pack.status = START_TEXT THEN TextShown(x) ELSE TimeShown(x)
    BY DEF PrintsWhatWasSent
  <2>1. pack = Message.header /\ Right(Message, x, AllRead)
    BY DEF Shown, Shows, AllRead
  <2> QED
    BY <2>1 DEF Right, TextShown, TimeShown
<1> QED
  BY <1>1, <1>2, <1>3, EndpointTypes, SteadyInvariance, ClientInvariance, PTL DEF Spec
=============================================================================
