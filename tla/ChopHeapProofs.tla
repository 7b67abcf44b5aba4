---------------------------- MODULE ChopHeapProofs ----------------------------
(***************************************************************************)
(* Proofs about the heap of the two programs, for any number of slots, of  *)
(* buffers and of failures.                                                *)
(***************************************************************************)
EXTENDS ChopHeap, FiniteSetTheorems, SequenceTheorems, TLAPS

Objects == Nat \ {0}

\* The owners of objects, and what each of them owns.
Owners ==
  {"host", "array", "newcli", "pack", "out", "clients", "data", "segment"}
Parts ==
  [host |-> {host} \ {NULL}, array |-> {array} \ {NULL}, newcli |-> {newcli} \ {NULL},
   pack |-> {pack} \ {NULL}, out |-> {out} \ {NULL}, clients |-> Held,
   data |-> Buffers(data), segment |-> Buffers(segment)]

AllOf(P) == UNION {P[k] : k \in Owners}

\* No object of P has two owners, and all are on the heap h; and what is on the
\* heap and not owned.
Sound(h, P) ==
  /\ \A k, l \in Owners : k # l => P[k] \cap P[l] = {}
  /\ AllOf(P) \subseteq h
LostOf(h, P) == h \ AllOf(P)

\* From P to Q the owner o gets the objects N, or no owner has the objects X any more.
Gets(P, Q, o, N) == \A k \in Owners : Q[k] = IF k = o THEN P[k] \cup N ELSE P[k]
Drops(P, Q, X)   == X \subseteq AllOf(P) /\ \A k \in Owners : Q[k] = P[k] \ X

\* The owners G give up all they have, or o hands it to r.
Quits(P, Q, G)     == \A k \in Owners : Q[k] = IF k \in G THEN {} ELSE P[k]
Passes(P, Q, o, r) ==
  \A k \in Owners : Q[k] = IF k = o THEN {} ELSE IF k = r THEN P[r] \cup P[o] ELSE P[k]

\* LossIsFailure for n lost objects and the faults f.
Within(n, f) ==
  /\ n <= f["accept"] + f["malloc"] + 3 * f["write"]
  /\ n >= f["accept"] + f["write"]

Types ==
  /\ heap \in SUBSET Objects /\ IsFiniteSet(heap)
  /\ host \in Nat /\ array \in Nat /\ newcli \in Nat /\ pack \in Nat /\ out \in Nat
  /\ clients \in [Slots -> Nat] /\ current \in Slots
  /\ data \in Seq(Objects \X Objects) /\ segment \in Seq(Objects \X Objects)
  /\ faults \in [FaultKinds -> Nat]

\* Where the program is says which pointers it holds.
Stages ==
  /\ pc = "start" =>
       host = NULL /\ array = NULL /\ \A i \in Slots : clients[i] = NULL
  /\ newcli # NULL <=> pc = "accept"
  /\ out # NULL <=> pc \in {"segment", "write"}
  /\ pc # "write" => segment = <<>>
  /\ pc = "handling" => pack # NULL
  /\ pc \in {"start", "setup", "select", "accept", "returned"} => pack = NULL
  /\ pack = NULL => data = <<>>

\* Within a part no object is there twice.
OneSlot(c) == \A i, j \in Slots : c[i] = c[j] /\ c[i] # NULL => i = j
Pairs(list) == Cardinality(Buffers(list)) = 2 * Len(list)
NoTwice == OneSlot(clients) /\ Pairs(data) /\ Pairs(segment) /\ Len(segment) <= 1

HInv ==
  /\ Types /\ Stages /\ NoTwice /\ Sound(heap, Parts)
  /\ Within(Cardinality(LostOf(heap, Parts)), faults)

-----------------------------------------------------------------------------
(* A new object. *)

LEMMA NatLeast ==
  ASSUME NEW T \in SUBSET Nat, T # {}
  PROVE  \E m \in T : \A k \in T : m <= k
<1>1. IsWellFoundedOn(OpToRel(<, Nat), Nat)
  BY NatLessThanWellFounded
<1>2. PICK m \in T : \A k \in T : ~ (<<k, m>> \in OpToRel(<, Nat))
  BY <1>1, WFMin
<1>3. \A k \in T : ~ (k < m)
  BY <1>2 DEF OpToRel
<1> QED
  BY <1>3

\* The lowest number that is free is one of those Fresh chooses from.
LEMMA FreshIsNew ==
  ASSUME NEW h \in SUBSET Objects, IsFiniteSet(h)
  PROVE  Fresh(h) \in Objects /\ Fresh(h) \notin h
<1> DEFINE n == Cardinality(h)
           T == {i \in Nat : i # 0 /\ i \notin h}
<1>1. n \in Nat
  BY FS_CardinalityType
<1>2. T # {}
  <2>1. IsFiniteSet(1..n + 1) /\ Cardinality(1..n + 1) = n + 1
    BY <1>1, FS_Interval
  <2>2. ~(1..n + 1 \subseteq h)
    <3>1. ASSUME 1..n + 1 \subseteq h PROVE n + 1 <= n
      <4>1. Cardinality(1..n + 1) <= Cardinality(h)
        BY <3>1, FS_Subset
      <4> QED
        BY <2>1, <4>1
    <3> QED
      BY <1>1, <3>1
  <2> QED
    BY <1>1, <2>2
<1>3. PICK m \in T : \A k \in T : m <= k
  BY <1>2, NatLeast
<1>4. 1..m - 1 \subseteq h
  BY <1>3
<1>5. m \in 1..n + 1
  <2>1. IsFiniteSet(1..m - 1) /\ Cardinality(1..m - 1) = m - 1
    BY <1>3, FS_Interval
  <2>2. m - 1 <= n
    BY <1>4, <2>1, FS_Subset
  <2> QED
    BY <1>1, <1>3, <2>2
<1>6. \E i \in 1..n + 1 : i \notin h /\ 1..i - 1 \subseteq h
  BY <1>3, <1>4, <1>5
<1>7. Fresh(h) \in 1..n + 1 /\ Fresh(h) \notin h
  BY <1>6 DEF Fresh
<1> QED
  BY <1>1, <1>7 DEF Objects

LEMMA NewBufferIsNew ==
  ASSUME Types
  PROVE  \E a, b \in Objects : /\ NewBuffer = <<a, b>>
                               /\ a \notin heap /\ b \notin heap /\ a # b
<1> DEFINE a == Fresh(heap)
           b == Fresh(heap \cup {a})
<1>1. a \in Objects /\ a \notin heap
  BY FreshIsNew DEF Types
<1>2. heap \cup {a} \in SUBSET Objects /\ IsFiniteSet(heap \cup {a})
  BY <1>1, FS_AddElement DEF Types
<1>3. b \in Objects /\ b \notin heap \cup {a}
  BY <1>2, FreshIsNew
<1> QED
  BY <1>1, <1>3 DEF NewBuffer

-----------------------------------------------------------------------------
(* Lists of buffers. *)

LEMMA NoBuffers == Buffers(<<>>) = {} /\ Pairs(<<>>)
<1>1. Buffers(<<>>) = {}
  BY DEF Buffers
<1> QED
  BY <1>1, FS_EmptySet DEF Pairs

LEMMA BuffersAppend ==
  ASSUME NEW list \in Seq(Objects \X Objects), NEW a \in Objects, NEW b \in Objects
  PROVE  Buffers(Append(list, <<a, b>>)) = Buffers(list) \cup {a, b}
<1> DEFINE r == Append(list, <<a, b>>)
           n == Len(list)
<1>1. /\ n \in Nat /\ Len(r) = n + 1 /\ r[n + 1] = <<a, b>>
      /\ \A k \in 1..n : r[k] = list[k]
  BY AppendProperties
<1> HIDE DEF r
<1>2. \A k : k \in 1..n + 1 <=> k \in 1..n \/ k = n + 1
  BY <1>1
<1>3. r[n + 1][1] = a /\ r[n + 1][2] = b
  BY <1>1
<1>4. \A x : x \in Buffers(r) <=> x \in Buffers(list) \/ x = a \/ x = b
  <2>1. \A x : x \in Buffers(r) <=> \E k \in 1..n + 1 : x = r[k][1] \/ x = r[k][2]
    BY <1>1 DEF Buffers
  <2>2. \A x : x \in Buffers(list) <=> \E k \in 1..n : x = list[k][1] \/ x = list[k][2]
    BY DEF Buffers
  <2> QED
    BY <1>1, <1>2, <1>3, <2>1, <2>2
<1> QED
  BY <1>4 DEF r

LEMMA BuffersFinite ==
  ASSUME NEW list \in Seq(Objects \X Objects)
  PROVE  Buffers(list) \subseteq Objects
<1>1. \A k \in 1..Len(list) : list[k] \in Objects \X Objects
  OBVIOUS
<1> QED
  BY <1>1 DEF Buffers

\* A buffer that is new makes one pair more.
LEMMA PairsAppend ==
  ASSUME NEW list \in Seq(Objects \X Objects), Pairs(list), IsFiniteSet(Buffers(list)),
         NEW a \in Objects, NEW b \in Objects, a # b,
         a \notin Buffers(list), b \notin Buffers(list)
  PROVE  /\ Append(list, <<a, b>>) \in Seq(Objects \X Objects)
         /\ Pairs(Append(list, <<a, b>>))
         /\ Buffers(Append(list, <<a, b>>)) = Buffers(list) \cup {a, b}
<1> DEFINE B == Buffers(list)
<1>1. IsFiniteSet(B \cup {a}) /\ Cardinality(B \cup {a}) = Cardinality(B) + 1
  BY FS_AddElement
<1>2. Cardinality((B \cup {a}) \cup {b}) = Cardinality(B) + 2
  <2>1. b \notin B \cup {a} /\ Cardinality(B) \in Nat
    BY FS_CardinalityType
  <2>2. Cardinality((B \cup {a}) \cup {b}) = Cardinality(B \cup {a}) + 1
    BY <1>1, <2>1, FS_AddElement
  <2> QED
    BY <1>1, <2>1, <2>2
<1>3. (B \cup {a}) \cup {b} = B \cup {a, b}
  OBVIOUS
<1>4. <<a, b>> \in Objects \X Objects
  OBVIOUS
<1>5. /\ Append(list, <<a, b>>) \in Seq(Objects \X Objects)
      /\ Len(Append(list, <<a, b>>)) = Len(list) + 1
  BY <1>4, AppendProperties
<1>a. Buffers(Append(list, <<a, b>>)) = B \cup {a, b}
  BY BuffersAppend
<1>6. Cardinality(Buffers(Append(list, <<a, b>>))) = Cardinality(B) + 2
  BY ONLY <1>2, <1>3, <1>a
<1>7. Len(list) \in Nat
  OBVIOUS
<1> QED
  BY <1>5, <1>6, <1>7, <1>a DEF Pairs

-----------------------------------------------------------------------------
(* What becomes of the owners P and the heap h. *)

\* One owner gets new objects.
LEMMA Grows ==
  ASSUME NEW h, NEW P, NEW Q, Sound(h, P), NEW o \in Owners, NEW N, N \cap h = {},
         NEW j, j = h \cup N, Gets(P, Q, o, N)
  PROVE  Sound(j, Q) /\ LostOf(j, Q) = LostOf(h, P)
<1> USE DEF Gets
<1>1. \A k \in Owners : P[k] \subseteq h
  BY DEF Sound, AllOf
<1>2. \A k, l \in Owners : k # l => Q[k] \cap Q[l] = {}
  BY <1>1 DEF Sound
<1>3. AllOf(Q) = AllOf(P) \cup N
  <2>1. \A x : x \in AllOf(Q) <=> \E k \in Owners : x \in Q[k]
    BY DEF AllOf
  <2>2. \A x : x \in AllOf(P) <=> \E k \in Owners : x \in P[k]
    BY DEF AllOf
  <2>3. \A x : x \in AllOf(Q) <=> x \in AllOf(P) \/ x \in N
    BY <2>1, <2>2
  <2> QED
    BY <2>3
<1> QED
  BY <1>2, <1>3 DEF Sound, LostOf

\* The objects X are given up.
LEMMA Shrinks ==
  ASSUME NEW P, NEW Q, NEW X, Drops(P, Q, X)
  PROVE  AllOf(Q) = AllOf(P) \ X
<1>1. \A x : x \in AllOf(Q) <=> \E k \in Owners : x \in Q[k]
  BY DEF AllOf
<1>2. \A x : x \in AllOf(P) <=> \E k \in Owners : x \in P[k]
  BY DEF AllOf
<1>3. \A x : x \in AllOf(Q) <=> x \in AllOf(P) /\ x \notin X
  BY <1>1, <1>2 DEF Drops
<1> QED
  BY <1>3

\* They are freed.
LEMMA Freeing ==
  ASSUME NEW h, NEW P, NEW Q, Sound(h, P), NEW X, Drops(P, Q, X), NEW j, j = h \ X
  PROVE  Sound(j, Q) /\ LostOf(j, Q) = LostOf(h, P)
<1>1. AllOf(Q) = AllOf(P) \ X /\ X \subseteq AllOf(P) /\ AllOf(P) \subseteq h
  BY Shrinks DEF Drops, Sound
<1>2. \A k, l \in Owners : k # l => Q[k] \cap Q[l] = {}
  BY DEF Drops, Sound
<1> QED
  BY <1>1, <1>2 DEF Sound, LostOf

\* They are lost.
LEMMA Losing ==
  ASSUME NEW h, NEW P, NEW Q, Sound(h, P), NEW X, Drops(P, Q, X)
  PROVE  Sound(h, Q) /\ LostOf(h, Q) = LostOf(h, P) \cup X /\ LostOf(h, P) \cap X = {}
<1>1. AllOf(Q) = AllOf(P) \ X /\ X \subseteq AllOf(P) /\ AllOf(P) \subseteq h
  BY Shrinks DEF Drops, Sound
<1>2. \A k, l \in Owners : k # l => Q[k] \cap Q[l] = {}
  BY DEF Drops, Sound
<1> QED
  BY <1>1, <1>2 DEF Sound, LostOf

\* The owners G give up all they have.
LEMMA GiveUp ==
  ASSUME NEW h, NEW P, NEW Q, Sound(h, P), NEW G, G \subseteq Owners,
         NEW X, X = UNION {P[k] : k \in G}, Quits(P, Q, G)
  PROVE  Drops(P, Q, X)
<1> USE DEF Quits
<1>1. \A x : x \in X <=> \E k \in G : x \in P[k]
  OBVIOUS
<1>2. X \subseteq AllOf(P)
  BY <1>1 DEF AllOf
<1>3. \A k \in Owners : Q[k] = P[k] \ X
  BY <1>1 DEF Sound
<1> QED
  BY <1>2, <1>3 DEF Drops

\* Objects change hands.
LEMMA Moves ==
  ASSUME NEW h, NEW P, NEW Q, Sound(h, P), NEW o \in Owners, NEW r \in Owners, o # r,
         Passes(P, Q, o, r)
  PROVE  Sound(h, Q) /\ LostOf(h, Q) = LostOf(h, P)
<1> USE DEF Passes
<1>1. \A k, l \in Owners : k # l => Q[k] \cap Q[l] = {}
  BY DEF Sound
<1>2. AllOf(Q) = AllOf(P)
  <2>1. \A x : x \in AllOf(Q) <=> \E k \in Owners : x \in Q[k]
    BY DEF AllOf
  <2>2. \A x : x \in AllOf(P) <=> \E k \in Owners : x \in P[k]
    BY DEF AllOf
  <2>3. \A x : x \in AllOf(Q) <=> x \in AllOf(P)
    BY <2>1, <2>2
  <2> QED
    BY <2>3
<1> QED
  BY <1>1, <1>2 DEF Sound, LostOf

LEMMA LossStep ==
  ASSUME NEW n \in Nat, NEW m \in Nat, NEW f \in [FaultKinds -> Nat], NEW g, Within(n, f),
         \/ g = f /\ m = n
         \/ g = [f EXCEPT !["malloc"] = @ + 1] /\ m \in n..n + 1
         \/ g = [f EXCEPT !["accept"] = @ + 1] /\ m = n + 1
         \/ g = [f EXCEPT !["write"] = @ + 1] /\ m \in n + 1..n + 3
  PROVE  Within(m, g) /\ g \in [FaultKinds -> Nat]
BY DEF Within, FaultKinds

-----------------------------------------------------------------------------
(* The steps. *)

LEMMA HeapInit == ASSUME HeapAssumption, Init PROVE HInv
<1>1. Types
  <2>1. 0 \in Slots
    BY DEF HeapAssumption, Slots
  <2>2. <<>> \in Seq(Objects \X Objects)
    OBVIOUS
  <2> QED
    BY <2>1, <2>2, FS_EmptySet DEF Types, Init, NULL
<1>2. Stages
  BY DEF Stages, Init
<1>3. NoTwice
  BY NoBuffers DEF NoTwice, Init, OneSlot
<1>4. \A k \in Owners : Parts[k] = {}
  BY NoBuffers DEF Init, Parts, Owners, Held
<1>5. AllOf(Parts) = {}
  BY <1>4 DEF AllOf
<1>6. Sound(heap, Parts)
  BY <1>4, <1>5 DEF Sound
<1>7. Cardinality(LostOf(heap, Parts)) = 0
  <2>1. LostOf(heap, Parts) = {}
    BY DEF LostOf, Init
  <2> QED
    BY <2>1, FS_EmptySet
<1>8. Within(0, faults)
  BY DEF Within, Init, FaultKinds
<1> QED
  BY <1>1, <1>2, <1>3, <1>6, <1>7, <1>8 DEF HInv

\* What is lost is finite, and so is what any owner has.
LEMMA Finite ==
  ASSUME HInv
  PROVE  /\ IsFiniteSet(LostOf(heap, Parts)) /\ Cardinality(LostOf(heap, Parts)) \in Nat
         /\ \A k \in Owners : Parts[k] \subseteq heap
         /\ \A k \in Owners : IsFiniteSet(Parts[k])
         /\ IsFiniteSet(heap)
<1>1. LostOf(heap, Parts) \subseteq heap
  BY DEF LostOf
<1>2. \A k \in Owners : Parts[k] \subseteq heap
  BY DEF HInv, Sound, AllOf
<1>3. IsFiniteSet(heap)
  BY DEF HInv, Types
<1> QED
  BY <1>1, <1>2, <1>3, FS_Subset, FS_CardinalityType

\* Steps that allocate nothing, free nothing and lose nothing.
LEMMA Idle ==
  ASSUME HInv, heap' = heap, Parts' = Parts,
         \/ faults' = faults
         \/ faults' = [faults EXCEPT !["malloc"] = @ + 1]
  PROVE  Sound(heap', Parts') /\ Within(Cardinality(LostOf(heap', Parts')), faults')
<1>1. Cardinality(LostOf(heap, Parts)) \in Nat
  BY Finite
<1> DEFINE n == Cardinality(LostOf(heap, Parts))
           f == faults
           g == faults'
<1>2. Cardinality(LostOf(heap', Parts')) = n
  BY DEF LostOf
<1>3. n \in Nat /\ f \in [FaultKinds -> Nat] /\ Within(n, f)
  BY <1>1 DEF HInv, Types
<1>4. g = f \/ g = [f EXCEPT !["malloc"] = @ + 1]
  OBVIOUS
<1>5. Within(n, g)
  <2> HIDE DEF n, f, g
  <2> QED
    BY <1>3, <1>4, LossStep
<1>6. Sound(heap', Parts')
  BY DEF HInv
<1> QED
  BY <1>2, <1>5, <1>6

\* Steps that allocate the objects N.
LEMMA Allocates ==
  ASSUME HInv, NEW o \in Owners, NEW N, N \cap heap = {}, heap' = heap \cup N,
         Gets(Parts, Parts', o, N), faults' = faults
  PROVE  Sound(heap', Parts') /\ Within(Cardinality(LostOf(heap', Parts')), faults')
<1>1. Sound(heap, Parts) /\ Within(Cardinality(LostOf(heap, Parts)), faults)
  BY DEF HInv
<1>2. Sound(heap', Parts') /\ LostOf(heap', Parts') = LostOf(heap, Parts)
  BY <1>1, Grows
<1> QED
  BY <1>1, <1>2

\* Steps that free the objects X of their owners.
LEMMA Frees ==
  ASSUME HInv, NEW X, heap' = heap \ X, Drops(Parts, Parts', X), faults' = faults
  PROVE  Sound(heap', Parts') /\ Within(Cardinality(LostOf(heap', Parts')), faults')
<1>1. Sound(heap, Parts) /\ Within(Cardinality(LostOf(heap, Parts)), faults)
  BY DEF HInv
<1>2. Sound(heap', Parts') /\ LostOf(heap', Parts') = LostOf(heap, Parts)
  BY <1>1, Freeing
<1> QED
  BY <1>1, <1>2

\* Steps that lose the objects X.
LEMMA Loses ==
  ASSUME HInv, NEW X, heap' = heap, Drops(Parts, Parts', X),
         \/ faults' = [faults EXCEPT !["malloc"] = @ + 1] /\ Cardinality(X) <= 1
         \/ faults' = [faults EXCEPT !["accept"] = @ + 1] /\ Cardinality(X) = 1
         \/ faults' = [faults EXCEPT !["write"] = @ + 1] /\ Cardinality(X) \in 1..3
  PROVE  Sound(heap', Parts') /\ Within(Cardinality(LostOf(heap', Parts')), faults')
<1> DEFINE L == LostOf(heap, Parts)
           n == Cardinality(L)
           c == Cardinality(X)
           f == faults
           g == faults'
           m == Cardinality(LostOf(heap, Parts'))
<1>1. Sound(heap, Parts) /\ Within(n, f) /\ f \in [FaultKinds -> Nat]
  BY DEF HInv, Types
<1>2. IsFiniteSet(X) /\ c \in Nat
  <2>1. X \subseteq heap
    BY <1>1 DEF Sound, Drops
  <2> QED
    BY <2>1, Finite, FS_Subset, FS_CardinalityType
<1>3. IsFiniteSet(L) /\ n \in Nat
  BY Finite
<1>4. Sound(heap, Parts') /\ LostOf(heap, Parts') = L \cup X /\ L \cap X = {}
  BY <1>1, Losing
<1>5. m = n + c
  <2>1. Cardinality(L \cup X) = n + c - Cardinality(L \cap X)
    <3> HIDE DEF L
    <3> QED
      BY <1>2, <1>3, FS_Union
  <2>2. Cardinality(L \cap X) = 0
    BY <1>4, FS_EmptySet
  <2> HIDE DEF L
  <2> QED
    BY <1>2, <1>3, <1>4, <2>1, <2>2
<1>6. \/ g = [f EXCEPT !["malloc"] = @ + 1] /\ c <= 1
      \/ g = [f EXCEPT !["accept"] = @ + 1] /\ c = 1
      \/ g = [f EXCEPT !["write"] = @ + 1] /\ c \in 1..3
  OBVIOUS
<1> HIDE DEF L, n, c, f, g, m
<1>7. Within(m, g)
  <2>1. \/ g = [f EXCEPT !["malloc"] = @ + 1] /\ m \in n..n + 1
        \/ g = [f EXCEPT !["accept"] = @ + 1] /\ m = n + 1
        \/ g = [f EXCEPT !["write"] = @ + 1] /\ m \in n + 1..n + 3
    BY <1>2, <1>3, <1>5, <1>6
  <2>2. m \in Nat
    BY <1>2, <1>3, <1>5
  <2> QED
    BY <1>1, <1>3, <2>1, <2>2, LossStep
<1> QED
  BY <1>4, <1>7 DEF m, g

\* Steps that leave all owners alone.
LEMMA IdleStep ==
  ASSUME HInv, UNCHANGED <<heap, ptrVars, packVars, outVars>>, current' \in Slots, Stages',
         \/ faults' = faults
         \/ faults' = [faults EXCEPT !["malloc"] = @ + 1]
  PROVE  HInv'
<1>1. Parts' = Parts
  BY DEF Parts, Held, ptrVars, packVars, outVars
<1>2. Sound(heap', Parts') /\ Within(Cardinality(LostOf(heap', Parts')), faults')
  BY <1>1, Idle
<1>3. faults' \in [FaultKinds -> Nat]
  BY DEF HInv, Types, FaultKinds
<1>4. Types'
  BY <1>3 DEF HInv, Types, ptrVars, packVars, outVars
<1>5. NoTwice'
  BY DEF HInv, NoTwice, OneSlot, Pairs, ptrVars, packVars, outVars
<1> QED
  BY <1>2, <1>4, <1>5 DEF HInv

LEMMA IdleActions ==
  ASSUME HInv,
         \/ StartFails \/ SetupSocket \/ Exit \/ InitClientFails \/ InitPacketFails
         \/ AppendBufferFails \/ InitOutFails \/ Keep \/ ClientExits
  PROVE  HInv'
<1> USE DEF HInv
<1>1. Types /\ Stages
  OBVIOUS
<1>2. CASE StartFails
  <2>1. Stages'
    BY <1>1, <1>2 DEF StartFails, Stages, ptrVars, packVars, outVars
  <2> QED
    BY <1>1, <1>2, <2>1, IdleStep DEF StartFails, Fault, Types
<1>3. CASE SetupSocket
  <2>1. Stages'
    BY <1>1, <1>3 DEF SetupSocket, Stages, ptrVars, packVars, outVars
  <2> QED
    BY <1>1, <1>3, <2>1, IdleStep DEF SetupSocket, Types
<1>4. CASE Exit
  <2>1. Stages'
    BY <1>1, <1>4 DEF Exit, Stages, ptrVars, packVars, outVars
  <2> QED
    BY <1>1, <1>4, <2>1, IdleStep DEF Exit, Types
<1>5. CASE InitClientFails
  <2>1. Stages'
    BY <1>1, <1>5 DEF InitClientFails, Stages, ptrVars, packVars, outVars
  <2> QED
    BY <1>1, <1>5, <2>1, IdleStep DEF InitClientFails, Fault, Types
<1>6. CASE InitPacketFails
  <2>1. Stages'
    BY <1>1, <1>6 DEF InitPacketFails, Stages, ptrVars, packVars, outVars
  <2>2. current' \in Slots
    BY <1>6 DEF InitPacketFails
  <2> QED
    BY <1>1, <1>6, <2>1, <2>2, IdleStep DEF InitPacketFails, Fault
<1>7. CASE AppendBufferFails
  <2>1. Stages'
    BY <1>1, <1>7 DEF AppendBufferFails, Stages, ptrVars, packVars, outVars
  <2> QED
    BY <1>1, <1>7, <2>1, IdleStep DEF AppendBufferFails, Fault, Types
<1>8. CASE InitOutFails
  <2>1. Stages'
    BY <1>1, <1>8 DEF InitOutFails, GivesUp, MayWrite, Stages, ptrVars, packVars, outVars
  <2> QED
    BY <1>1, <1>8, <2>1, IdleStep DEF InitOutFails, Fault, Types
<1>9. CASE Keep
  <2>1. Stages'
    BY <1>1, <1>9 DEF Keep, Stages, ptrVars, packVars, outVars
  <2> QED
    BY <1>1, <1>9, <2>1, IdleStep DEF Keep, Types
<1>10. CASE ClientExits
  <2>1. Stages'
    BY <1>1, <1>10 DEF ClientExits, Stages, ptrVars, packVars, outVars
  <2> QED
    BY <1>1, <1>10, <2>1, IdleStep DEF ClientExits, Types
<1> QED
  BY <1>2, <1>3, <1>4, <1>5, <1>6, <1>7, <1>8, <1>9, <1>10

\* Steps that allocate one struct: for the variable of o.
LEMMA OneNew ==
  ASSUME HInv
  PROVE  /\ Fresh(heap) \in Objects /\ Fresh(heap) \notin heap
         /\ heap \cup {Fresh(heap)} \in SUBSET Objects
         /\ IsFiniteSet(heap \cup {Fresh(heap)})
         /\ {Fresh(heap)} \cap heap = {}
<1>1. heap \in SUBSET Objects /\ IsFiniteSet(heap)
  BY DEF HInv, Types
<1>2. Fresh(heap) \in Objects /\ Fresh(heap) \notin heap
  BY <1>1, FreshIsNew
<1> QED
  BY <1>1, <1>2, FS_AddElement

LEMMA InitClientStep == ASSUME HInv, InitClient PROVE HInv'
<1> DEFINE a == Fresh(heap)
<1>1. /\ a \in Objects /\ {a} \cap heap = {} /\ heap' = heap \cup {a} /\ newcli' = a
      /\ heap' \in SUBSET Objects /\ IsFiniteSet(heap')
  BY OneNew DEF InitClient
<1>2. Types /\ Stages /\ NoTwice
  BY DEF HInv
<1> HIDE DEF a
<1>3. Types'
  BY <1>1, <1>2 DEF Types, InitClient, packVars, outVars, Objects
<1>4. Stages'
  BY <1>1, <1>2 DEF Stages, InitClient, packVars, outVars, Objects, NULL
<1>5. NoTwice'
  BY <1>2 DEF NoTwice, OneSlot, Pairs, InitClient, packVars, outVars
<1>6. Gets(Parts, Parts', "newcli", {a})
  <2>1. newcli = NULL
    BY <1>2 DEF Stages, InitClient, NULL
  <2>2. Parts["newcli"] = {} /\ Parts'["newcli"] = {a}
    BY <1>1, <2>1 DEF Parts, Objects, NULL
  <2>3. \A k \in Owners \ {"newcli"} : Parts'[k] = Parts[k]
    <3>1. /\ host' = host /\ array' = array /\ pack' = pack /\ out' = out
          /\ clients' = clients /\ data' = data /\ segment' = segment
      BY DEF InitClient, packVars, outVars
    <3>2. Held' = Held
      BY <3>1 DEF Held
    <3> QED
      BY ONLY <3>1, <3>2 DEF Parts, Owners
  <2> QED
    BY <2>2, <2>3 DEF Gets
<1>7. Sound(heap', Parts') /\ Within(Cardinality(LostOf(heap', Parts')), faults')
  BY <1>1, <1>6, Allocates DEF Owners, InitClient
<1> QED
  BY <1>3, <1>4, <1>5, <1>7 DEF HInv

LEMMA InitPacketStep == ASSUME HInv, InitPacket PROVE HInv'
<1> DEFINE a == Fresh(heap)
<1>1. /\ a \in Objects /\ {a} \cap heap = {} /\ heap' = heap \cup {a} /\ pack' = a
      /\ heap' \in SUBSET Objects /\ IsFiniteSet(heap')
  BY OneNew DEF InitPacket
<1>2. Types /\ Stages /\ NoTwice
  BY DEF HInv
<1> HIDE DEF a
<1>3. Types'
  BY <1>1, <1>2 DEF Types, InitPacket, ptrVars, outVars, Objects
<1>4. Stages'
  BY <1>1, <1>2 DEF Stages, InitPacket, ptrVars, outVars, Objects, NULL
<1>5. NoTwice'
  BY <1>2 DEF NoTwice, OneSlot, Pairs, InitPacket, ptrVars, outVars
<1>6. Gets(Parts, Parts', "pack", {a})
  <2>1. pack = NULL
    BY <1>2 DEF Stages, InitPacket, NULL
  <2>2. Parts["pack"] = {} /\ Parts'["pack"] = {a}
    BY <1>1, <2>1 DEF Parts, Objects, NULL
  <2>3. \A k \in Owners \ {"pack"} : Parts'[k] = Parts[k]
    <3>1. /\ host' = host /\ array' = array /\ newcli' = newcli /\ out' = out
          /\ clients' = clients /\ data' = data /\ segment' = segment
      BY DEF InitPacket, ptrVars, outVars
    <3>2. Held' = Held
      BY <3>1 DEF Held
    <3> QED
      BY ONLY <3>1, <3>2 DEF Parts, Owners
  <2> QED
    BY <2>2, <2>3 DEF Gets
<1>7. Sound(heap', Parts') /\ Within(Cardinality(LostOf(heap', Parts')), faults')
  BY <1>1, <1>6, Allocates DEF Owners, InitPacket
<1> QED
  BY <1>3, <1>4, <1>5, <1>7 DEF HInv

LEMMA InitOutStep == ASSUME HInv, InitOut PROVE HInv'
<1> DEFINE a == Fresh(heap)
<1>1. /\ a \in Objects /\ {a} \cap heap = {} /\ heap' = heap \cup {a} /\ out' = a
      /\ heap' \in SUBSET Objects /\ IsFiniteSet(heap')
  BY OneNew DEF InitOut
<1>2. Types /\ Stages /\ NoTwice
  BY DEF HInv
<1> HIDE DEF a
<1>3. Types'
  BY <1>1, <1>2 DEF Types, InitOut, ptrVars, packVars, Objects
<1>4. Stages'
  BY <1>1, <1>2 DEF Stages, InitOut, MayWrite, ptrVars, packVars, Objects, NULL
<1>5. NoTwice'
  BY <1>2 DEF NoTwice, OneSlot, Pairs, InitOut, ptrVars, packVars
<1>6. Gets(Parts, Parts', "out", {a})
  <2>1. out = NULL
    BY <1>2 DEF Stages, InitOut, MayWrite, NULL
  <2>2. Parts["out"] = {} /\ Parts'["out"] = {a}
    BY <1>1, <2>1 DEF Parts, Objects, NULL
  <2>3. \A k \in Owners \ {"out"} : Parts'[k] = Parts[k]
    <3>1. /\ host' = host /\ array' = array /\ newcli' = newcli /\ pack' = pack
          /\ clients' = clients /\ data' = data /\ segment' = segment
      BY DEF InitOut, ptrVars, packVars
    <3>2. Held' = Held
      BY <3>1 DEF Held
    <3> QED
      BY ONLY <3>1, <3>2 DEF Parts, Owners
  <2> QED
    BY <2>2, <2>3 DEF Gets
<1>7. Sound(heap', Parts') /\ Within(Cardinality(LostOf(heap', Parts')), faults')
  BY <1>1, <1>6, Allocates DEF Owners, InitOut
<1> QED
  BY <1>3, <1>4, <1>5, <1>7 DEF HInv

LEMMA EstablishStep == ASSUME HInv, establish_server_connection PROVE HInv'
<1> DEFINE a == Fresh(heap)
<1>1. /\ a \in Objects /\ {a} \cap heap = {} /\ heap' = heap \cup {a}
      /\ clients' = [clients EXCEPT ![0] = a]
      /\ heap' \in SUBSET Objects /\ IsFiniteSet(heap')
  BY OneNew DEF establish_server_connection
<1>2. Types /\ Stages /\ NoTwice
  BY DEF HInv
<1> HIDE DEF a
<1>3. 0 \in Slots
  BY HeapAssumption DEF Slots
<1>4. clients \in [Slots -> Nat] /\ \A i \in Slots : clients[i] = NULL
  BY <1>2 DEF Types, Stages, establish_server_connection
<1>5. /\ clients' \in [Slots -> Nat] /\ clients'[0] = a
      /\ \A i \in Slots : i # 0 => clients'[i] = NULL
  BY <1>1, <1>3, <1>4 DEF Objects
<1>6. Types'
  BY <1>1, <1>2, <1>5 DEF Types, establish_server_connection, packVars, outVars
<1>7. Stages'
  BY <1>1, <1>2 DEF Stages, establish_server_connection, packVars, outVars
<1>8. NoTwice'
  <2>1. OneSlot(clients')
    BY <1>5 DEF OneSlot
  <2> QED
    BY <1>2, <2>1 DEF NoTwice, Pairs, establish_server_connection, packVars, outVars
<1>9. Gets(Parts, Parts', "clients", {a})
  <2>1. Held = {} /\ Held' = {a}
    BY <1>1, <1>3, <1>4, <1>5 DEF Held, Objects, NULL
  <2>2. Parts["clients"] = {} /\ Parts'["clients"] = {a}
    BY <2>1 DEF Parts
  <2>3. \A k \in Owners \ {"clients"} : Parts'[k] = Parts[k]
    <3>1. /\ host' = host /\ array' = array /\ newcli' = newcli /\ pack' = pack
          /\ out' = out /\ data' = data /\ segment' = segment
      BY DEF establish_server_connection, packVars, outVars
    <3> QED
      BY ONLY <3>1 DEF Parts, Owners
  <2> QED
    BY <2>2, <2>3 DEF Gets
<1>10. Sound(heap', Parts') /\ Within(Cardinality(LostOf(heap', Parts')), faults')
  BY <1>1, <1>9, Allocates DEF Owners, establish_server_connection
<1> QED
  BY <1>6, <1>7, <1>8, <1>10 DEF HInv

\* Both structs of the server: first one, then the other.
LEMMA InitServerStep == ASSUME HInv, init_server_struct PROVE HInv'
<1> DEFINE a == host'
           b == array'
           Q == [Parts EXCEPT !["host"] = {host'}]
<1>1. a = Fresh(heap) /\ b = Fresh(heap \cup {a}) /\ heap' = heap \cup {a, b}
  BY DEF init_server_struct
<1>2. /\ a \in Objects /\ {a} \cap heap = {}
      /\ heap \cup {a} \in SUBSET Objects /\ IsFiniteSet(heap \cup {a})
  BY <1>1, OneNew
<1>3. b \in Objects /\ b \notin heap \cup {a}
  BY <1>1, <1>2, FreshIsNew
<1>4. heap' \in SUBSET Objects /\ IsFiniteSet(heap')
  <2>1. (heap \cup {a}) \cup {b} = heap'
    BY <1>1
  <2>2. IsFiniteSet((heap \cup {a}) \cup {b})
    BY <1>2, FS_AddElement
  <2> QED
    BY <1>1, <1>2, <1>3, <2>1, <2>2
<1>5. Types /\ Stages /\ NoTwice
  BY DEF HInv
<1>6. Types'
  BY <1>2, <1>3, <1>4, <1>5 DEF Types, init_server_struct, packVars, outVars, Objects
<1>7. Stages'
  BY <1>5 DEF Stages, init_server_struct, packVars, outVars
<1>8. NoTwice'
  BY <1>5 DEF NoTwice, OneSlot, Pairs, init_server_struct, packVars, outVars
<1>9. host = NULL /\ array = NULL
  BY <1>5 DEF Stages, init_server_struct
<1>10. Gets(Parts, Q, "host", {a})
  BY <1>9 DEF Gets, Parts, Owners
<1>11. Gets(Q, Parts', "array", {b})
  <2>1. Q["array"] = {} /\ Parts'["array"] = {b}
    BY <1>3, <1>9 DEF Parts, Objects, NULL
  <2>2. Q["host"] = {a} /\ Parts'["host"] = {a}
    BY <1>2 DEF Parts, Objects, NULL
  <2>3. \A k \in Owners \ {"host", "array"} : Parts'[k] = Parts[k] /\ Q[k] = Parts[k]
    <3>1. /\ newcli' = newcli /\ pack' = pack /\ out' = out
          /\ clients' = clients /\ data' = data /\ segment' = segment
      BY DEF init_server_struct, packVars, outVars
    <3>2. Held' = Held
      BY <3>1 DEF Held
    <3> QED
      BY ONLY <3>1, <3>2 DEF Parts, Owners
  <2> HIDE DEF Q
  <2> QED
    BY <2>1, <2>2, <2>3 DEF Gets
<1>12. Sound(heap, Parts) /\ Within(Cardinality(LostOf(heap, Parts)), faults)
  BY DEF HInv
<1> HIDE DEF Q, a, b
<1>13. Sound(heap \cup {a}, Q) /\ LostOf(heap \cup {a}, Q) = LostOf(heap, Parts)
  <2> DEFINE h == heap \cup {a}
  <2>1. "host" \in Owners /\ {a} \cap heap = {} /\ h = heap \cup {a}
    BY <1>2 DEF Owners
  <2> HIDE DEF h
  <2>2. Sound(h, Q) /\ LostOf(h, Q) = LostOf(heap, Parts)
    BY <1>10, <1>12, <2>1, Grows
  <2> QED
    BY <2>2 DEF h
<1>14. Sound(heap', Parts') /\ LostOf(heap', Parts') = LostOf(heap, Parts)
  <2> DEFINE h == heap \cup {a}
  <2>1. "array" \in Owners /\ {b} \cap h = {} /\ heap' = h \cup {b}
    BY <1>1, <1>3 DEF Owners
  <2>2. Sound(h, Q) /\ LostOf(h, Q) = LostOf(heap, Parts)
    BY <1>13
  <2> HIDE DEF h
  <2>3. Sound(heap', Parts') /\ LostOf(heap', Parts') = LostOf(h, Q)
    BY <1>11, <2>1, <2>2, Grows
  <2> QED
    BY <2>2, <2>3
<1>15. faults' = faults
  BY DEF init_server_struct
<1> QED
  BY <1>6, <1>7, <1>8, <1>12, <1>14, <1>15 DEF HInv

-----------------------------------------------------------------------------
\* A new buffer for a list of buffers.
LEMMA BufferNew ==
  ASSUME HInv, NEW list \in Seq(Objects \X Objects), Buffers(list) \subseteq heap, Pairs(list)
  PROVE  /\ Append(list, NewBuffer) \in Seq(Objects \X Objects)
         /\ Len(Append(list, NewBuffer)) = Len(list) + 1
         /\ Pairs(Append(list, NewBuffer))
         /\ \E N : /\ N \cap heap = {}
                   /\ Buffers(Append(list, NewBuffer)) = Buffers(list) \cup N
                   /\ heap \cup Buffers(Append(list, NewBuffer)) = heap \cup N
                   /\ heap \cup N \in SUBSET Objects /\ IsFiniteSet(heap \cup N)
<1>1. Types
  BY DEF HInv
<1>2. PICK a, b \in Objects : /\ NewBuffer = <<a, b>>
                              /\ a \notin heap /\ b \notin heap /\ a # b
  BY <1>1, NewBufferIsNew
<1>3. IsFiniteSet(Buffers(list))
  BY <1>1, FS_Subset DEF Types
<1>4. /\ Append(list, <<a, b>>) \in Seq(Objects \X Objects)
      /\ Pairs(Append(list, <<a, b>>))
  BY <1>2, <1>3, PairsAppend
<1>5. Buffers(Append(list, <<a, b>>)) = Buffers(list) \cup {a, b}
  BY <1>2, <1>3, PairsAppend
<1>6. Len(Append(list, <<a, b>>)) = Len(list) + 1
  <2>1. <<a, b>> \in Objects \X Objects
    OBVIOUS
  <2> QED
    BY ONLY <2>1, list \in Seq(Objects \X Objects), AppendProperties
<1>7. {a, b} \cap heap = {}
  BY <1>2
<1>8. heap \cup (Buffers(list) \cup {a, b}) = heap \cup {a, b}
  OBVIOUS
<1>9. heap \cup {a, b} \in SUBSET Objects
  BY <1>1 DEF Types
<1>10. IsFiniteSet(heap \cup {a, b})
  <2>1. IsFiniteSet(heap \cup {a})
    BY <1>1, FS_AddElement DEF Types
  <2>2. IsFiniteSet((heap \cup {a}) \cup {b})
    BY <2>1, FS_AddElement
  <2>3. (heap \cup {a}) \cup {b} = heap \cup {a, b}
    OBVIOUS
  <2> QED
    BY ONLY <2>2, <2>3
<1>11. \E N : /\ N \cap heap = {}
              /\ Buffers(Append(list, NewBuffer)) = Buffers(list) \cup N
              /\ heap \cup Buffers(Append(list, NewBuffer)) = heap \cup N
              /\ heap \cup N \in SUBSET Objects /\ IsFiniteSet(heap \cup N)
  BY ONLY <1>2, <1>5, <1>7, <1>8, <1>9, <1>10, Zenon
<1> QED
  BY ONLY <1>2, <1>4, <1>6, <1>11, Zenon

LEMMA AppendBufferStep == ASSUME HInv, append_buffer PROVE HInv'
<1>1. Types /\ Stages /\ NoTwice
  BY DEF HInv
<1>2. data \in Seq(Objects \X Objects) /\ Pairs(data) /\ Buffers(data) \subseteq heap
  <2>1. Buffers(data) \subseteq heap
    BY Finite DEF Parts, Owners
  <2> QED
    BY <1>1, <2>1 DEF Types, NoTwice
<1>3. data' = Append(data, NewBuffer) /\ heap' = heap \cup Buffers(data')
  BY DEF append_buffer
<1>4. data' \in Seq(Objects \X Objects) /\ Pairs(data')
  BY <1>2, <1>3, BufferNew
<1>5. PICK N : /\ N \cap heap = {}
               /\ Buffers(data') = Buffers(data) \cup N
               /\ heap \cup Buffers(data') = heap \cup N
               /\ heap \cup N \in SUBSET Objects /\ IsFiniteSet(heap \cup N)
  BY <1>2, <1>3, BufferNew
<1>6. heap' = heap \cup N
  BY <1>3, <1>5
<1>7. Types'
  BY <1>1, <1>4, <1>5, <1>6 DEF Types, append_buffer, ptrVars, outVars
<1>8. Stages'
  BY <1>1 DEF Stages, append_buffer, ptrVars, outVars
<1>9. NoTwice'
  BY <1>1, <1>4 DEF NoTwice, OneSlot, Pairs, append_buffer, ptrVars, outVars
<1>10. Gets(Parts, Parts', "data", N)
  <2>1. Parts'["data"] = Parts["data"] \cup N
    BY <1>5 DEF Parts
  <2>2. \A k \in Owners \ {"data"} : Parts'[k] = Parts[k]
    <3>1. /\ host' = host /\ array' = array /\ newcli' = newcli /\ pack' = pack
          /\ out' = out /\ clients' = clients /\ segment' = segment
      BY DEF append_buffer, ptrVars, outVars
    <3>2. Held' = Held
      BY <3>1 DEF Held
    <3> QED
      BY ONLY <3>1, <3>2 DEF Parts, Owners
  <2> QED
    BY <2>1, <2>2 DEF Gets
<1>11. Sound(heap', Parts') /\ Within(Cardinality(LostOf(heap', Parts')), faults')
  BY <1>5, <1>6, <1>10, Allocates DEF Owners, append_buffer
<1> QED
  BY <1>7, <1>8, <1>9, <1>11 DEF HInv

LEMMA AppendSegmentStep == ASSUME HInv, AppendSegment PROVE HInv'
<1>1. Types /\ Stages /\ NoTwice
  BY DEF HInv
<1>2. segment = <<>>
  BY <1>1 DEF Stages, AppendSegment
<1>3. /\ segment \in Seq(Objects \X Objects) /\ Pairs(segment)
      /\ Buffers(segment) \subseteq heap /\ Len(segment) = 0
  BY <1>1, <1>2, NoBuffers DEF Types
<1>4. segment' = Append(segment, NewBuffer) /\ heap' = heap \cup Buffers(segment')
  BY <1>2 DEF AppendSegment
<1>5. segment' \in Seq(Objects \X Objects) /\ Pairs(segment') /\ Len(segment') = 1
  <2>1. Len(segment') = Len(segment) + 1
    BY <1>3, <1>4, BufferNew
  <2>2. segment' \in Seq(Objects \X Objects) /\ Pairs(segment')
    BY <1>3, <1>4, BufferNew
  <2> QED
    BY <1>3, <2>1, <2>2
<1>6. PICK N : /\ N \cap heap = {}
               /\ Buffers(segment') = Buffers(segment) \cup N
               /\ heap \cup Buffers(segment') = heap \cup N
               /\ heap \cup N \in SUBSET Objects /\ IsFiniteSet(heap \cup N)
  BY <1>3, <1>4, BufferNew
<1>7. heap' = heap \cup N
  BY <1>4, <1>6
<1>8. Types'
  BY <1>1, <1>5, <1>6, <1>7 DEF Types, AppendSegment, ptrVars, packVars
<1>9. Stages'
  BY <1>1 DEF Stages, AppendSegment, ptrVars, packVars
<1>10. NoTwice'
  BY <1>1, <1>5 DEF NoTwice, OneSlot, Pairs, AppendSegment, ptrVars, packVars
<1>11. Gets(Parts, Parts', "segment", N)
  <2>1. Parts'["segment"] = Parts["segment"] \cup N
    BY <1>6 DEF Parts
  <2>2. \A k \in Owners \ {"segment"} : Parts'[k] = Parts[k]
    <3>1. /\ host' = host /\ array' = array /\ newcli' = newcli /\ pack' = pack
          /\ out' = out /\ clients' = clients /\ data' = data
      BY DEF AppendSegment, ptrVars, packVars
    <3>2. Held' = Held
      BY <3>1 DEF Held
    <3> QED
      BY ONLY <3>1, <3>2 DEF Parts, Owners
  <2> QED
    BY <2>1, <2>2 DEF Gets
<1>12. Sound(heap', Parts') /\ Within(Cardinality(LostOf(heap', Parts')), faults')
  BY <1>6, <1>7, <1>11, Allocates DEF Owners, AppendSegment
<1> QED
  BY <1>8, <1>9, <1>10, <1>12 DEF HInv

-----------------------------------------------------------------------------
(* accept_new_client. *)

LEMMA AcceptFailsStep == ASSUME HInv, AcceptFails PROVE HInv'
<1>1. Types /\ Stages /\ NoTwice
  BY DEF HInv
<1>2. newcli # NULL /\ newcli' = NULL
  BY <1>1 DEF Stages, AcceptFails
<1>3. /\ heap' = heap /\ faults' = [faults EXCEPT !["accept"] = @ + 1]
      /\ faults' \in [FaultKinds -> Nat]
  BY <1>1 DEF Types, AcceptFails, Fault, FaultKinds
<1>4. Types'
  <2>1. IsFiniteSet(heap') /\ heap' \in SUBSET Objects
    BY <1>1, <1>3, FS_Subset DEF Types
  <2>2. <<>> \in Seq(Objects \X Objects)
    OBVIOUS
  <2> QED
    BY <1>1, <1>2, <1>3, <2>1, <2>2 DEF Types, AcceptFails, packVars, outVars, NULL
<1>5. Stages'
  BY <1>1 DEF Stages, AcceptFails, packVars, outVars
<1>6. NoTwice'
  BY <1>1 DEF NoTwice, OneSlot, Pairs, AcceptFails, packVars, outVars
<1>7. Quits(Parts, Parts', {"newcli"})
  <2>1. Parts'["newcli"] = {}
    BY <1>2, NoBuffers DEF Parts
  <2>2. \A k \in Owners \ {"newcli"} : Parts'[k] = Parts[k]
    <3>1. /\ host' = host /\ array' = array /\ pack' = pack /\ out' = out
          /\ clients' = clients /\ data' = data /\ segment' = segment
      BY DEF AcceptFails, packVars, outVars
    <3>2. Held' = Held
      BY <3>1 DEF Held
    <3> QED
      BY ONLY <3>1, <3>2 DEF Parts, Owners
  <2> QED
    BY <2>1, <2>2 DEF Quits
<1>8. Parts["newcli"] = {newcli}
  BY <1>2 DEF Parts
<1>9. Drops(Parts, Parts', {newcli})
  <2>1. {newcli} = UNION {Parts[k] : k \in {"newcli"}}
    BY <1>8 DEF Freed
  <2>2. Sound(heap, Parts) /\ {"newcli"} \subseteq Owners
    BY DEF HInv, Owners
  <2> QED
    BY <1>7, <2>1, <2>2, GiveUp
<1>10. Cardinality({newcli}) = 1
  BY FS_Singleton
<1>11. Sound(heap', Parts') /\ Within(Cardinality(LostOf(heap', Parts')), faults')
  BY <1>3, <1>9, <1>10, Loses
<1> QED
  BY <1>4, <1>5, <1>6, <1>11 DEF HInv

LEMMA AcceptFullStep == ASSUME HInv, AcceptFull PROVE HInv'
<1>1. Types /\ Stages /\ NoTwice
  BY DEF HInv
<1>2. newcli # NULL /\ newcli' = NULL
  BY <1>1 DEF Stages, AcceptFull
<1>3. heap' = heap \ {newcli} /\ faults' = faults
  BY DEF AcceptFull
<1>4. Types'
  <2>1. IsFiniteSet(heap') /\ heap' \in SUBSET Objects
    BY <1>1, <1>3, FS_Subset DEF Types
  <2>2. <<>> \in Seq(Objects \X Objects)
    OBVIOUS
  <2> QED
    BY <1>1, <1>2, <1>3, <2>1, <2>2 DEF Types, AcceptFull, packVars, outVars, NULL
<1>5. Stages'
  BY <1>1 DEF Stages, AcceptFull, packVars, outVars
<1>6. NoTwice'
  BY <1>1 DEF NoTwice, OneSlot, Pairs, AcceptFull, packVars, outVars
<1>7. Quits(Parts, Parts', {"newcli"})
  <2>1. Parts'["newcli"] = {}
    BY <1>2, NoBuffers DEF Parts
  <2>2. \A k \in Owners \ {"newcli"} : Parts'[k] = Parts[k]
    <3>1. /\ host' = host /\ array' = array /\ pack' = pack /\ out' = out
          /\ clients' = clients /\ data' = data /\ segment' = segment
      BY DEF AcceptFull, packVars, outVars
    <3>2. Held' = Held
      BY <3>1 DEF Held
    <3> QED
      BY ONLY <3>1, <3>2 DEF Parts, Owners
  <2> QED
    BY <2>1, <2>2 DEF Quits
<1>8. Parts["newcli"] = {newcli}
  BY <1>2 DEF Parts
<1>9. Drops(Parts, Parts', {newcli})
  <2>1. {newcli} = UNION {Parts[k] : k \in {"newcli"}}
    BY <1>8 DEF Freed
  <2>2. Sound(heap, Parts) /\ {"newcli"} \subseteq Owners
    BY DEF HInv, Owners
  <2> QED
    BY <1>7, <2>1, <2>2, GiveUp
<1>10. Sound(heap', Parts') /\ Within(Cardinality(LostOf(heap', Parts')), faults')
  BY <1>3, <1>9, Frees
<1> QED
  BY <1>4, <1>5, <1>6, <1>10 DEF HInv

\* The slot was empty, and the struct is in no other.
LEMMA AcceptClientStep == ASSUME HInv, AcceptClient PROVE HInv'
<1>1. Types /\ Stages /\ NoTwice /\ Sound(heap, Parts)
  BY DEF HInv
<1>2. newcli # NULL /\ newcli' = NULL /\ newcli \in Nat
  BY <1>1 DEF Stages, Types, AcceptClient
<1>3. PICK i \in Slots : clients[i] = NULL /\ clients' = [clients EXCEPT ![i] = newcli]
  BY DEF AcceptClient, Empty
<1>4. clients \in [Slots -> Nat]
  BY <1>1 DEF Types
<1>5. /\ clients' \in [Slots -> Nat] /\ clients'[i] = newcli
      /\ \A j \in Slots : j # i => clients'[j] = clients[j]
  BY <1>2, <1>3, <1>4
<1>6. Held' = Held \cup {newcli}
  BY <1>2, <1>3, <1>5 DEF Held
<1>7. newcli \notin Held
  <2>1. Parts["newcli"] = {newcli} /\ Parts["clients"] = Held
    BY <1>2 DEF Parts
  <2>2. Parts["newcli"] \cap Parts["clients"] = {}
    BY <1>1 DEF Sound, Owners
  <2> QED
    BY <2>1, <2>2
<1>8. Types'
  BY <1>1, <1>2, <1>5 DEF Types, AcceptClient, packVars, outVars, NULL
<1>9. Stages'
  BY <1>1 DEF Stages, AcceptClient, packVars, outVars
<1>10. NoTwice'
  <2>1. \A j \in Slots : clients[j] # newcli
    BY <1>2, <1>7 DEF Held
  <2>2. OneSlot(clients)
    BY <1>1 DEF NoTwice
  <2>3. OneSlot(clients')
    BY <1>5, <2>1, <2>2 DEF OneSlot
  <2> QED
    BY <1>1, <2>3 DEF NoTwice, Pairs, AcceptClient, packVars, outVars
<1>11. Passes(Parts, Parts', "newcli", "clients")
  <2>1. Parts'["newcli"] = {} /\ Parts'["clients"] = Parts["clients"] \cup Parts["newcli"]
    BY <1>2, <1>6 DEF Parts
  <2>2. \A k \in Owners \ {"newcli", "clients"} : Parts'[k] = Parts[k]
    <3>1. /\ host' = host /\ array' = array /\ pack' = pack /\ out' = out
          /\ data' = data /\ segment' = segment
      BY DEF AcceptClient, packVars, outVars
    <3> QED
      BY ONLY <3>1 DEF Parts, Owners
  <2> QED
    BY <2>1, <2>2 DEF Passes
<1>12. heap' = heap /\ faults' = faults
  BY DEF AcceptClient
<1>13. Sound(heap, Parts') /\ LostOf(heap, Parts') = LostOf(heap, Parts)
  <2>1. "newcli" \in Owners /\ "clients" \in Owners /\ "newcli" # "clients"
    BY DEF Owners
  <2> QED
    BY <1>1, <1>11, <2>1, Moves
<1>14. Within(Cardinality(LostOf(heap, Parts)), faults)
  BY DEF HInv
<1> QED
  BY <1>8, <1>9, <1>10, <1>12, <1>13, <1>14 DEF HInv

-----------------------------------------------------------------------------
(* The ends of packets. *)

LEMMA DestroyPacketStep == ASSUME HInv, DestroyPacket PROVE HInv'
<1>1. Types /\ Stages /\ NoTwice
  BY DEF HInv
<1>2. pack # NULL /\ pack' = NULL /\ data' = <<>>
  BY <1>1 DEF Stages, DestroyPacket
<1>3. heap' = heap \ Freed(pack, data) /\ faults' = faults
  BY DEF DestroyPacket
<1>4. Types'
  <2>1. IsFiniteSet(heap') /\ heap' \in SUBSET Objects
    BY <1>1, <1>3, FS_Subset DEF Types
  <2>2. <<>> \in Seq(Objects \X Objects)
    OBVIOUS
  <2> QED
    BY <1>1, <1>2, <1>3, <2>1, <2>2 DEF Types, DestroyPacket, ptrVars, outVars, NULL
<1>5. Stages'
  BY <1>1 DEF Stages, DestroyPacket, ptrVars, outVars
<1>6. NoTwice'
  <2>1. Pairs(data') 
    BY <1>2, NoBuffers
  <2> QED
    BY <1>1, <2>1 DEF NoTwice, OneSlot, Pairs, DestroyPacket, ptrVars, outVars
<1>7. Quits(Parts, Parts', {"pack", "data"})
  <2>1. Parts'["pack"] = {} /\ Parts'["data"] = {}
    BY <1>2, NoBuffers DEF Parts
  <2>2. \A k \in Owners \ {"pack", "data"} : Parts'[k] = Parts[k]
    <3>1. /\ host' = host /\ array' = array /\ newcli' = newcli /\ out' = out
          /\ clients' = clients /\ segment' = segment
      BY DEF DestroyPacket, ptrVars, outVars
    <3>2. Held' = Held
      BY <3>1 DEF Held
    <3> QED
      BY ONLY <3>1, <3>2 DEF Parts, Owners
  <2> QED
    BY <2>1, <2>2 DEF Quits
<1>8. Parts["pack"] = {pack} /\ Parts["data"] = Buffers(data)
  BY <1>2 DEF Parts
<1>9. Drops(Parts, Parts', Freed(pack, data))
  <2>1. Freed(pack, data) = UNION {Parts[k] : k \in {"pack", "data"}}
    BY <1>8 DEF Freed
  <2>2. Sound(heap, Parts) /\ {"pack", "data"} \subseteq Owners
    BY DEF HInv, Owners
  <2> QED
    BY <1>7, <2>1, <2>2, GiveUp
<1>10. Sound(heap', Parts') /\ Within(Cardinality(LostOf(heap', Parts')), faults')
  BY <1>3, <1>9, Frees
<1> QED
  BY <1>4, <1>5, <1>6, <1>10 DEF HInv

LEMMA WritePacketStep == ASSUME HInv, WritePacket PROVE HInv'
<1>1. Types /\ Stages /\ NoTwice
  BY DEF HInv
<1>2. out # NULL /\ out' = NULL /\ segment' = <<>>
  BY <1>1 DEF Stages, WritePacket
<1>3. heap' = heap \ Freed(out, segment) /\ faults' = faults
  BY DEF WritePacket
<1>4. Types'
  <2>1. IsFiniteSet(heap') /\ heap' \in SUBSET Objects
    BY <1>1, <1>3, FS_Subset DEF Types
  <2>2. <<>> \in Seq(Objects \X Objects)
    OBVIOUS
  <2> QED
    BY <1>1, <1>2, <1>3, <2>1, <2>2 DEF Types, WritePacket, ptrVars, packVars, NULL
<1>5. Stages'
  BY <1>1 DEF Stages, WritePacket, ptrVars, packVars
<1>6. NoTwice'
  <2>1. Pairs(segment') /\ Len(segment') <= 1
    BY <1>2, NoBuffers
  <2> QED
    BY <1>1, <2>1 DEF NoTwice, OneSlot, Pairs, WritePacket, ptrVars, packVars
<1>7. Quits(Parts, Parts', {"out", "segment"})
  <2>1. Parts'["out"] = {} /\ Parts'["segment"] = {}
    BY <1>2, NoBuffers DEF Parts
  <2>2. \A k \in Owners \ {"out", "segment"} : Parts'[k] = Parts[k]
    <3>1. /\ host' = host /\ array' = array /\ newcli' = newcli /\ pack' = pack
          /\ clients' = clients /\ data' = data
      BY DEF WritePacket, ptrVars, packVars
    <3>2. Held' = Held
      BY <3>1 DEF Held
    <3> QED
      BY ONLY <3>1, <3>2 DEF Parts, Owners
  <2> QED
    BY <2>1, <2>2 DEF Quits
<1>8. Parts["out"] = {out} /\ Parts["segment"] = Buffers(segment)
  BY <1>2 DEF Parts
<1>9. Drops(Parts, Parts', Freed(out, segment))
  <2>1. Freed(out, segment) = UNION {Parts[k] : k \in {"out", "segment"}}
    BY <1>8 DEF Freed
  <2>2. Sound(heap, Parts) /\ {"out", "segment"} \subseteq Owners
    BY DEF HInv, Owners
  <2> QED
    BY <1>7, <2>1, <2>2, GiveUp
<1>10. Sound(heap', Parts') /\ Within(Cardinality(LostOf(heap', Parts')), faults')
  BY <1>3, <1>9, Frees
<1> QED
  BY <1>4, <1>5, <1>6, <1>10 DEF HInv

\* A failed write loses the packet, with its one buffer if it has one.
LEMMA WriteFailsStep == ASSUME HInv, WriteFails PROVE HInv'
<1>1. Types /\ Stages /\ NoTwice
  BY DEF HInv
<1>2. out # NULL /\ out' = NULL /\ segment' = <<>>
  BY <1>1 DEF Stages, WriteFails
<1>3. /\ heap' = heap /\ faults' = [faults EXCEPT !["write"] = @ + 1]
      /\ faults' \in [FaultKinds -> Nat]
  BY <1>1 DEF Types, WriteFails, Fault, FaultKinds
<1>4. Types'
  <2>1. IsFiniteSet(heap') /\ heap' \in SUBSET Objects
    BY <1>1, <1>3, FS_Subset DEF Types
  <2>2. <<>> \in Seq(Objects \X Objects)
    OBVIOUS
  <2> QED
    BY <1>1, <1>2, <1>3, <2>1, <2>2 DEF Types, WriteFails, ptrVars, packVars, NULL
<1>5. Stages'
  BY <1>1 DEF Stages, WriteFails, GivesUp, ptrVars, packVars
<1>6. NoTwice'
  <2>1. Pairs(segment') /\ Len(segment') <= 1
    BY <1>2, NoBuffers
  <2> QED
    BY <1>1, <2>1 DEF NoTwice, OneSlot, Pairs, WriteFails, ptrVars, packVars
<1>7. Quits(Parts, Parts', {"out", "segment"})
  <2>1. Parts'["out"] = {} /\ Parts'["segment"] = {}
    BY <1>2, NoBuffers DEF Parts
  <2>2. \A k \in Owners \ {"out", "segment"} : Parts'[k] = Parts[k]
    <3>1. /\ host' = host /\ array' = array /\ newcli' = newcli /\ pack' = pack
          /\ clients' = clients /\ data' = data
      BY DEF WriteFails, ptrVars, packVars
    <3>2. Held' = Held
      BY <3>1 DEF Held
    <3> QED
      BY ONLY <3>1, <3>2 DEF Parts, Owners
  <2> QED
    BY <2>1, <2>2 DEF Quits
<1>8. Parts["out"] = {out} /\ Parts["segment"] = Buffers(segment)
  BY <1>2 DEF Parts
<1>9. Drops(Parts, Parts', Freed(out, segment))
  <2>1. Freed(out, segment) = UNION {Parts[k] : k \in {"out", "segment"}}
    BY <1>8 DEF Freed
  <2>2. Sound(heap, Parts) /\ {"out", "segment"} \subseteq Owners
    BY DEF HInv, Owners
  <2> QED
    BY <1>7, <2>1, <2>2, GiveUp
<1>10. Cardinality(Freed(out, segment)) \in 1..3
  <2>1. out \notin Buffers(segment)
    <3>1. Parts["out"] \cap Parts["segment"] = {}
      BY DEF HInv, Sound, Owners
    <3> QED
      BY <1>8, <3>1
  <2>2. IsFiniteSet(Buffers(segment))
    BY <1>8, Finite DEF Owners
  <2>3. Cardinality(Buffers(segment) \cup {out}) = Cardinality(Buffers(segment)) + 1
    BY <2>1, <2>2, FS_AddElement
  <2>4. Buffers(segment) \cup {out} = Freed(out, segment)
    BY DEF Freed
  <2>5. Cardinality(Buffers(segment)) = 2 * Len(segment) /\ Len(segment) <= 1
    BY <1>1 DEF NoTwice, Pairs
  <2>6. Len(segment) \in Nat
    BY <1>1 DEF Types
  <2>7. Cardinality(Freed(out, segment)) = 2 * Len(segment) + 1
    BY <2>3, <2>4, <2>5
  <2> QED
    BY ONLY <2>5, <2>6, <2>7
<1>11. Sound(heap', Parts') /\ Within(Cardinality(LostOf(heap', Parts')), faults')
  BY <1>3, <1>9, <1>10, Loses
<1> QED
  BY <1>4, <1>5, <1>6, <1>11 DEF HInv

LEMMA AppendSegmentFailsStep == ASSUME HInv, AppendSegmentFails PROVE HInv'
<1>1. Types /\ Stages /\ NoTwice
  BY DEF HInv
<1>2. out # NULL /\ out' = NULL
  BY <1>1 DEF Stages, AppendSegmentFails
<1>3. /\ heap' = heap /\ faults' = [faults EXCEPT !["malloc"] = @ + 1]
      /\ faults' \in [FaultKinds -> Nat]
  BY <1>1 DEF Types, AppendSegmentFails, Fault, FaultKinds
<1>4. Types'
  <2>1. IsFiniteSet(heap') /\ heap' \in SUBSET Objects
    BY <1>1, <1>3, FS_Subset DEF Types
  <2>2. <<>> \in Seq(Objects \X Objects)
    OBVIOUS
  <2> QED
    BY <1>1, <1>2, <1>3, <2>1, <2>2 DEF Types, AppendSegmentFails, ptrVars, packVars, NULL
<1>5. Stages'
  BY <1>1 DEF Stages, AppendSegmentFails, GivesUp, ptrVars, packVars
<1>6. NoTwice'
  BY <1>1 DEF NoTwice, OneSlot, Pairs, AppendSegmentFails, ptrVars, packVars
<1>7. Quits(Parts, Parts', {"out"})
  <2>1. Parts'["out"] = {}
    BY <1>2, NoBuffers DEF Parts
  <2>2. \A k \in Owners \ {"out"} : Parts'[k] = Parts[k]
    <3>1. /\ host' = host /\ array' = array /\ newcli' = newcli /\ pack' = pack
          /\ clients' = clients /\ data' = data /\ segment' = segment
      BY DEF AppendSegmentFails, ptrVars, packVars
    <3>2. Held' = Held
      BY <3>1 DEF Held
    <3> QED
      BY ONLY <3>1, <3>2 DEF Parts, Owners
  <2> QED
    BY <2>1, <2>2 DEF Quits
<1>8. Parts["out"] = {out}
  BY <1>2 DEF Parts
<1>9. Drops(Parts, Parts', {out})
  <2>1. {out} = UNION {Parts[k] : k \in {"out"}}
    BY <1>8 DEF Freed
  <2>2. Sound(heap, Parts) /\ {"out"} \subseteq Owners
    BY DEF HInv, Owners
  <2> QED
    BY <1>7, <2>1, <2>2, GiveUp
<1>10. Cardinality({out}) <= 1
  BY FS_Singleton
<1>11. Sound(heap', Parts') /\ Within(Cardinality(LostOf(heap', Parts')), faults')
  BY <1>3, <1>9, <1>10, Loses
<1> QED
  BY <1>4, <1>5, <1>6, <1>11 DEF HInv

-----------------------------------------------------------------------------
\* The struct is in no other slot, so none is left with a pointer to it.
LEMMA RemoveClientStep == ASSUME HInv, remove_client_index PROVE HInv'
<1> DEFINE c == clients[current]
           X == {c} \ {NULL}
<1>1. Types /\ Stages /\ NoTwice /\ Sound(heap, Parts)
  BY DEF HInv
<1>2. clients \in [Slots -> Nat] /\ current \in Slots
  BY <1>1 DEF Types
<1>3. clients' = [clients EXCEPT ![current] = NULL] /\ faults' = faults
  BY DEF remove_client_index
<1>4. /\ clients' \in [Slots -> Nat] /\ clients'[current] = NULL
      /\ \A j \in Slots : j # current => clients'[j] = clients[j]
  BY <1>2, <1>3 DEF NULL
<1>5. heap' = heap \ X
  BY <1>1 DEF remove_client_index, Types, Objects, NULL
<1>6. Types'
  <2>1. IsFiniteSet(heap') /\ heap' \in SUBSET Objects
    BY <1>1, <1>5, FS_Subset DEF Types
  <2> QED
    BY <1>1, <1>3, <1>4, <2>1 DEF Types, remove_client_index, packVars, outVars
<1>7. Stages'
  BY <1>1 DEF Stages, remove_client_index, packVars, outVars
<1>8. OneSlot(clients)
  BY <1>1 DEF NoTwice
<1>9. NoTwice'
  <2>1. OneSlot(clients')
    BY <1>4, <1>8 DEF OneSlot
  <2> QED
    BY <1>1, <2>1 DEF NoTwice, Pairs, remove_client_index, packVars, outVars
<1>10. Held' = Held \ X /\ X \subseteq Held
  <2>1. \A x : x \in Held <=> x # NULL /\ \E j \in Slots : x = clients[j]
    BY DEF Held
  <2>2. \A x : x \in Held' <=> x # NULL /\ \E j \in Slots : x = clients'[j]
    BY DEF Held
  <2>3. \A x : x \in Held' <=> x \in Held /\ x # c
    BY <1>2, <1>4, <1>8, <2>1, <2>2 DEF OneSlot
  <2> QED
    BY <1>2, <2>1, <2>3
<1>11. Drops(Parts, Parts', X)
  <2>1. Parts["clients"] = Held /\ Parts'["clients"] = Held \ X
    BY <1>10 DEF Parts
  <2>2. \A k \in Owners \ {"clients"} : Parts'[k] = Parts[k]
    <3>1. /\ host' = host /\ array' = array /\ newcli' = newcli /\ pack' = pack
          /\ out' = out /\ data' = data /\ segment' = segment
      BY DEF remove_client_index, packVars, outVars
    <3> QED
      BY ONLY <3>1 DEF Parts, Owners
  <2>3. "clients" \in Owners
    BY DEF Owners
  <2>4. \A k \in Owners \ {"clients"} : Parts[k] \cap Held = {}
    BY <1>1, <2>1, <2>3 DEF Sound
  <2>5. X \subseteq AllOf(Parts)
    BY <1>10, <2>1, <2>3 DEF AllOf
  <2> HIDE DEF X
  <2> QED
    BY <1>10, <2>1, <2>2, <2>4, <2>5 DEF Drops
<1>12. Sound(heap', Parts') /\ Within(Cardinality(LostOf(heap', Parts')), faults')
  BY <1>3, <1>5, <1>11, Frees
<1> QED
  BY <1>6, <1>7, <1>9, <1>12 DEF HInv

-----------------------------------------------------------------------------
(* What the invariant says of the pointers. *)

\* Pointers without aliases: as many objects as pointers that are not NULL.
LEMMA CountPointers ==
  ASSUME NEW D, IsFiniteSet(D), NEW f \in [D -> Nat],
         \A i, j \in D : f[i] = f[j] /\ f[i] # NULL => i = j
  PROVE  /\ IsFiniteSet({f[i] : i \in D} \ {NULL})
         /\ Cardinality({f[i] : i \in D} \ {NULL}) = Cardinality({i \in D : f[i] # NULL})
<1> DEFINE S == {i \in D : f[i] # NULL}
           T == {f[i] : i \in D} \ {NULL}
           g == [i \in S |-> f[i]]
<1>1. IsFiniteSet(S)
  BY FS_Subset
<1>2. g \in [S -> T]
  OBVIOUS
<1>3. \A i, j \in S : g[i] = g[j] => i = j
  OBVIOUS
<1>4. \A x \in T : \E i \in S : g[i] = x
  OBVIOUS
<1> HIDE DEF S, T, g
<1>5. g \in Bijection(S, T)
  BY <1>2, <1>3, <1>4 DEF Bijection, Injection, Surjection, IsInjective
<1>6. IsFiniteSet(T) /\ Cardinality(T) = Cardinality(S)
  BY <1>1, <1>5, FS_Bijection DEF ExistsBijection
<1> QED
  BY <1>6 DEF S, T

\* Two sets of objects that have none in common.
LEMMA Together ==
  ASSUME NEW S, NEW T, IsFiniteSet(S), IsFiniteSet(T), S \cap T = {}
  PROVE  /\ IsFiniteSet(S \cup T)
         /\ Cardinality(S \cup T) = Cardinality(S) + Cardinality(T)
<1>1. /\ IsFiniteSet(S \cup T)
      /\ Cardinality(S \cup T) = Cardinality(S) + Cardinality(T) - Cardinality(S \cap T)
  BY FS_Union
<1>2. Cardinality(S \cap T) = 0
  BY FS_EmptySet
<1>3. Cardinality(S) \in Nat /\ Cardinality(T) \in Nat
  BY FS_CardinalityType
<1> QED
  BY <1>1, <1>2, <1>3

\* The five pointers that are variables of their own.
LEMMA FivePointers ==
  ASSUME HInv
  PROVE  /\ IsFiniteSet(Single)
         /\ Cardinality(Single)
              = Cardinality({v \in 1..5 : <<host, array, newcli, pack, out>>[v] # NULL})
<1> DEFINE f == <<host, array, newcli, pack, out>>
           o == <<"host", "array", "newcli", "pack", "out">>
<1>1. f \in [1..5 -> Nat]
  BY DEF HInv, Types
<1>2. \A i \in 1..5 : o[i] \in Owners /\ (f[i] # NULL => f[i] \in Parts[o[i]])
  BY DEF Parts, Owners
<1>3. \A i, j \in 1..5 : i # j => o[i] # o[j]
  OBVIOUS
<1>4. \A i, j \in 1..5 : f[i] = f[j] /\ f[i] # NULL => i = j
  <2>1. \A k, l \in Owners : k # l => Parts[k] \cap Parts[l] = {}
    BY DEF HInv, Sound
  <2> HIDE DEF f, o
  <2> QED
    BY <1>2, <1>3, <2>1
<1>5. IsFiniteSet(1..5)
  <2>1. 1 \in Int /\ 5 \in Int
    OBVIOUS
  <2>2. \A a, b \in Int : IsFiniteSet(a..b)
    BY FS_Interval
  <2> QED
    BY ONLY <2>1, <2>2, Zenon
<1>6. {f[i] : i \in 1..5} \ {NULL} = Single
  <2>1. /\ f[1] = host /\ f[2] = array /\ f[3] = newcli /\ f[4] = pack /\ f[5] = out
        /\ 1..5 = {1, 2, 3, 4, 5}
    OBVIOUS
  <2> HIDE DEF f
  <2>2. {f[i] : i \in 1..5} = {host, array, newcli, pack, out}
    BY <2>1
  <2> QED
    BY <2>2 DEF Single
<1> HIDE DEF f
<1>7. /\ IsFiniteSet({f[i] : i \in 1..5} \ {NULL})
      /\ Cardinality({f[i] : i \in 1..5} \ {NULL}) = Cardinality({i \in 1..5 : f[i] # NULL})
  BY <1>1, <1>4, <1>5, CountPointers
<1> QED
  BY <1>6, <1>7 DEF f

LEMMA AllIsOwned == AllOf(Parts) = Owned
<1>1. \A x : x \in AllOf(Parts) <=> \E k \in Owners : x \in Parts[k]
  BY DEF AllOf
<1>2. \A x : (\E k \in Owners : x \in Parts[k]) <=>
               \/ x \in Single \/ x \in Held
               \/ x \in Buffers(data) \/ x \in Buffers(segment)
  BY DEF Owners, Parts, Single
<1> QED
  BY <1>1, <1>2 DEF Owned

LEMMA InvSound == ASSUME HInv PROVE PointersSound
<1>1. Types /\ NoTwice
  BY DEF HInv
<1>2. Owned \subseteq heap
  BY AllIsOwned DEF HInv, Sound
<1>3. /\ IsFiniteSet(Single)
      /\ Cardinality(Single)
           = Cardinality({v \in 1..5 : <<host, array, newcli, pack, out>>[v] # NULL})
  BY FivePointers
<1>4. IsFiniteSet(Held) /\ Cardinality(Held) = Cardinality({i \in Slots : ~Empty(i)})
  <2>1. IsFiniteSet(Slots)
    BY HeapAssumption, FS_Interval DEF Slots
  <2>2. clients \in [Slots -> Nat]
    BY <1>1 DEF Types
  <2>3. \A i, j \in Slots : clients[i] = clients[j] /\ clients[i] # NULL => i = j
    BY <1>1 DEF NoTwice, OneSlot
  <2>4. /\ IsFiniteSet(Held)
        /\ Cardinality(Held) = Cardinality({i \in Slots : clients[i] # NULL})
    BY <2>1, <2>2, <2>3, CountPointers DEF Held
  <2> QED
    BY <2>4 DEF Empty
<1>5. /\ IsFiniteSet(Buffers(data)) /\ IsFiniteSet(Buffers(segment))
      /\ Cardinality(Buffers(data)) = 2 * Len(data)
      /\ Cardinality(Buffers(segment)) = 2 * Len(segment)
      /\ Len(data) \in Nat /\ Len(segment) \in Nat
  <2>1. IsFiniteSet(Buffers(data)) /\ IsFiniteSet(Buffers(segment))
    BY Finite DEF Parts, Owners
  <2>2. Len(data) \in Nat /\ Len(segment) \in Nat
    BY <1>1 DEF Types
  <2> QED
    BY <1>1, <2>1, <2>2 DEF NoTwice, Pairs
<1>6. /\ Single \cap Held = {} /\ (Single \cup Held) \cap Buffers(data) = {}
      /\ ((Single \cup Held) \cup Buffers(data)) \cap Buffers(segment) = {}
  <2>1. \A k, l \in Owners : k # l => Parts[k] \cap Parts[l] = {}
    BY DEF HInv, Sound
  <2>2. Held \cap Buffers(data) = {} /\ Held \cap Buffers(segment) = {}
        /\ Buffers(data) \cap Buffers(segment) = {}
    BY <2>1 DEF Owners, Parts
  <2>3. /\ Single \cap Held = {} /\ Single \cap Buffers(data) = {}
        /\ Single \cap Buffers(segment) = {}
    <3>1. \A x \in Single : \E k \in {"host", "array", "newcli", "pack", "out"} : x \in Parts[k]
      BY DEF Single, Parts
    <3>2. /\ Held = Parts["clients"] /\ Buffers(data) = Parts["data"]
          /\ Buffers(segment) = Parts["segment"]
      BY DEF Parts
    <3>3. \A k \in {"host", "array", "newcli", "pack", "out"} :
            /\ Parts[k] \cap Parts["clients"] = {} /\ Parts[k] \cap Parts["data"] = {}
            /\ Parts[k] \cap Parts["segment"] = {}
      BY <2>1 DEF Owners
    <3> QED
      BY <3>1, <3>2, <3>3
  <2> QED
    BY <2>2, <2>3
<1>7. Cardinality(Owned) = Cardinality(Single) + Cardinality(Held)
                             + Cardinality(Buffers(data)) + Cardinality(Buffers(segment))
  <2>1. /\ IsFiniteSet(Single \cup Held)
        /\ Cardinality(Single \cup Held) = Cardinality(Single) + Cardinality(Held)
    BY <1>3, <1>4, <1>6, Together
  <2>2. /\ IsFiniteSet((Single \cup Held) \cup Buffers(data))
        /\ Cardinality((Single \cup Held) \cup Buffers(data))
             = Cardinality(Single \cup Held) + Cardinality(Buffers(data))
    BY <1>5, <1>6, <2>1, Together
  <2>3. Cardinality(((Single \cup Held) \cup Buffers(data)) \cup Buffers(segment))
          = Cardinality((Single \cup Held) \cup Buffers(data)) + Cardinality(Buffers(segment))
    BY <1>5, <1>6, <2>2, Together
  <2>4. Owned = ((Single \cup Held) \cup Buffers(data)) \cup Buffers(segment)
    BY DEF Owned
  <2> QED
    BY <2>1, <2>2, <2>3, <2>4
<1>8. Cardinality(Single) \in Nat /\ Cardinality(Held) \in Nat
  BY <1>3, <1>4, FS_CardinalityType
<1>9. Cardinality(Owned) = Count
  <2> DEFINE s == Cardinality(Single)
             h == Cardinality(Held)
             u == Cardinality({v \in 1..5 : <<host, array, newcli, pack, out>>[v] # NULL})
             w == Cardinality({i \in Slots : ~Empty(i)})
             d == Cardinality(Buffers(data))
             e == Cardinality(Buffers(segment))
             m == Len(data)
             n == Len(segment)
  <2>1. Cardinality(Owned) = s + h + d + e /\ Count = u + w + 2 * (m + n)
    BY <1>7 DEF Count
  <2>2. /\ s = u /\ h = w /\ d = 2 * m /\ e = 2 * n
        /\ s \in Nat /\ h \in Nat /\ m \in Nat /\ n \in Nat
    BY <1>3, <1>4, <1>5, <1>8
  <2> HIDE DEF s, h, u, w, d, e, m, n
  <2> QED
    BY <2>1, <2>2
<1> QED
  BY <1>2, <1>9 DEF PointersSound

LEMMA InvLoss == ASSUME HInv PROVE LossIsFailure
<1>1. Lost = LostOf(heap, Parts)
  BY AllIsOwned DEF Lost, LostOf
<1> QED
  BY <1>1 DEF HInv, Within, LossIsFailure

LEMMA HeapInvariant == Spec => []HInv
<1>1. Init => HInv
  BY HeapInit, HeapAssumption
<1>2. HInv /\ [Next]_vars => HInv'
  <2> SUFFICES ASSUME HInv, [Next]_vars PROVE HInv'
    OBVIOUS
  <2>1. CASE UNCHANGED vars
    <3>1. Stages'
      BY <2>1 DEF HInv, Stages, vars, ptrVars, packVars, outVars
    <3>2. UNCHANGED <<heap, ptrVars, packVars, outVars>> /\ faults' = faults
      BY <2>1 DEF vars
    <3>3. current' \in Slots
      BY <2>1 DEF HInv, Types, vars
    <3> QED
      BY <3>1, <3>2, <3>3, IdleStep
  <2>2. CASE Next
    BY <2>2, IdleActions, InitClientStep, InitPacketStep, InitOutStep, EstablishStep,
       InitServerStep, AppendBufferStep, AppendSegmentStep, AcceptFailsStep,
       AcceptFullStep, AcceptClientStep, DestroyPacketStep, WritePacketStep,
       WriteFailsStep, AppendSegmentFailsStep, RemoveClientStep DEF Next
  <2> QED
    BY <2>1, <2>2
<1> QED
  BY <1>1, <1>2, PTL DEF Spec

\* No pointer dangles and nothing has two owners, with any number of slots,
\* of buffers in a packet and of calls that fail, and in any order of them.
THEOREM HeapSound == Spec => []PointersSound
<1>1. HInv => PointersSound
  BY InvSound
<1> QED
  BY <1>1, HeapInvariant, PTL

\* Only a call that failed loses memory, and by how much is bounded.
THEOREM HeapLoss == Spec => []LossIsFailure
<1>1. HInv => LossIsFailure
  BY InvLoss
<1> QED
  BY <1>1, HeapInvariant, PTL
=============================================================================
