--------------------------- MODULE ChopSessionProofs ---------------------------
(***************************************************************************)
(* Proofs about the session of one client, for every set of commands and   *)
(* every room in the kernels' buffers.                                     *)
(***************************************************************************)
EXTENDS ChopSession, ChopPacketProofs

Items == Packet \cup {Data}

\* What either side writes: a packet the other knows how to handle.
Proper(p) == p \in Packet /\ Known(p) /\ ~IsLongText(p)
NoneOrOne(ps) == \A p \in ps : Proper(p) /\ \A q \in ps : p = q

DataWrites == {"answer_data", "command_data"}

\* What s has to read begins where s expects it to, and goes on where the other
\* side will.
Rcv(s) ==
  /\ Framed(inbox[s], pc[s] = "data", Data)
  /\ \A k \in 1..Len(inbox[s]) : inbox[s][k] # Data => Proper(inbox[s][k])
  /\ link[Other(s)] = "open" /\ pc[Other(s)] \notin Ended =>
       (pc[Other(s)] \in DataWrites <=> Owing(inbox[s], pc[s] = "data", Data))

\* What s has to write, and what it knows when a packet has failed, or when the
\* connection has ended.
Own(s) ==
  /\ NoneOrOne(writing[s])
  /\ pc[s] \in DataWrites => \A p \in writing[s] : DataLen(p) > 0
  /\ pc[s] = "failed" => link[s] # "open"
  /\ link[s] \notin {"away", "open"} => pc[Other(s)] \in Ended

\* Nothing happens before there is a connection.
Before ==
  pc["client"] = "start" =>
    /\ pc["server"] = "listen"
    /\ \A s \in Sides : link[s] = "away" /\ inbox[s] = <<>>

SInv == TypeOK /\ Before /\ \A s \in Sides : Rcv(s) /\ Own(s)

-----------------------------------------------------------------------------
(* The two sides, and what they write. *)

LEMMA TwoSides ==
  ASSUME NEW s \in Sides
  PROVE  /\ Other(s) \in Sides /\ Other(s) # s /\ Other(Other(s)) = s
         /\ \A t \in Sides : t = s \/ t = Other(s)
BY DEF Sides, Other

\* Every answer is one of the packets the other side knows.
LEMMA AnswerProper ==
  ASSUME NEW p, NEW inc, NEW a \in Answer(p, inc)
  PROVE  Proper(a)
<1>1. a \in Packet
  BY AnswerIsPackets
<1>2. \/ a.status = ACKNOWLEDGE /\ a.control1 \in {START_TEXT, ENQUIRY, WAKEUP, IDLE, ESCAPE}
      \/ a.status = NEG_ACKNOWLEDGE /\ a.control1 \in {WAKEUP, IDLE}
      \/ a.status = ENQUIRY /\ a.control1 \in {ENQUIRY_NORMAL, ENQUIRY_TIME}
  BY DEF Answer, Acknowledge, Refuse, assemble_header
<1> QED
  BY <1>1, <1>2 DEF Proper, Known, IsLongText, ACKNOWLEDGE, NEG_ACKNOWLEDGE, ENQUIRY,
     START_TEXT, ENQUIRY_NORMAL, ENQUIRY_TIME, ENQUIRY_RTIME

LEMMA OneAnswer == ASSUME NEW p, NEW inc PROVE NoneOrOne(Answer(p, inc))
<1>1. ASSUME NEW a \in Answer(p, inc), NEW b \in Answer(p, inc) PROVE a = b
  BY DEF Answer
<1> QED
  BY <1>1, AnswerProper DEF NoneOrOne

\* No data of unknown length is announced.
LEMMA ProperAnnounces ==
  ASSUME NEW p, Proper(p), p # Data
  PROVE  Announces(p, Data) <=> DataLen(p) > 0
BY DEF Announces, HasData, Proper

LEMMA CommandProper == \A p \in Commands : Proper(p)
BY SessionAssumption DEF Proper

LEMMA DataIsNoHeader == \A p : Proper(p) => p # Data
BY SessionAssumption DEF Proper

-----------------------------------------------------------------------------
(* What each kind of step leaves of the invariant. *)

\* A side that neither receives nor reads.
LEMMA RcvKept ==
  ASSUME NEW s \in Sides, Rcv(s),
         inbox'[s] = inbox[s], pc'[s] = "data" <=> pc[s] = "data",
         link'[Other(s)] = "open" /\ pc'[Other(s)] \notin Ended =>
           /\ link[Other(s)] = "open" /\ pc[Other(s)] \notin Ended
           /\ pc'[Other(s)] \in DataWrites <=> pc[Other(s)] \in DataWrites
  PROVE  Rcv(s)'
<1>1. /\ Framed(inbox[s], pc[s] = "data", Data) <=> Framed(inbox[s], pc'[s] = "data", Data)
      /\ Owing(inbox[s], pc[s] = "data", Data) <=> Owing(inbox[s], pc'[s] = "data", Data)
  BY FramedEquiv
<1> QED
  BY <1>1 DEF Rcv

\* s goes on without reading, without writing and without an end.
LEMMA LocalStep ==
  ASSUME NEW s \in Sides, TypeOK, \A t \in Sides : Rcv(t) /\ Own(t),
         NEW where, Goto(s, where), where \notin DataWrites \cup {"data", "failed"} \cup Ended,
         pc[s] \notin DataWrites \cup {"data"} \cup Ended,
         UNCHANGED kernelVars,
         writing' = [writing EXCEPT ![s] = writing'[s]], NoneOrOne(writing'[s])
  PROVE  \A t \in Sides : Rcv(t)' /\ Own(t)'
<1> DEFINE o == Other(s)
<1>0. /\ s # o /\ o \in Sides /\ Other(o) = s /\ \A t \in Sides : t = s \/ t = o
  BY TwoSides
<1>1. /\ pc'[s] = where /\ pc'[o] = pc[o] /\ link' = link /\ inbox' = inbox
      /\ writing'[o] = writing[o]
  BY <1>0 DEF TypeOK, Goto, kernelVars
<1>2. Rcv(s)' /\ Rcv(o)'
  BY <1>0, <1>1, RcvKept
<1>3. Own(s)' /\ Own(o)'
  BY <1>0, <1>1 DEF Own
<1> QED
  BY <1>0, <1>2, <1>3

\* s finds the connection at its end, or reset: nothing more goes either way.
LEMMA FailStep ==
  ASSUME NEW s \in Sides, TypeOK, \A t \in Sides : Rcv(t) /\ Own(t),
         Goto(s, "failed"), link[s] \notin {"away", "open"}, pc[s] \notin Ended,
         inbox' = inbox, \A t \in Sides : link'[t] = link[t] \/ (t = s /\ link'[t] = "dead"),
         writing' = [writing EXCEPT ![s] = {}], inbox[s] = <<>> \/ pc[s] # "data"
  PROVE  \A t \in Sides : Rcv(t)' /\ Own(t)'
<1> DEFINE o == Other(s)
<1>0. /\ s # o /\ o \in Sides /\ Other(o) = s /\ \A t \in Sides : t = s \/ t = o
  BY TwoSides
<1>1. /\ pc'[s] = "failed" /\ pc'[o] = pc[o] /\ writing'[s] = {} /\ writing'[o] = writing[o]
      /\ link'[o] = link[o] /\ link'[s] \notin {"away", "open"} /\ pc[o] \in Ended
      /\ inbox'[s] = inbox[s] /\ inbox'[o] = inbox[o]
  BY <1>0 DEF TypeOK, Goto, Own
<1>2. Rcv(o)'
  BY <1>0, <1>1, RcvKept
<1>3. Rcv(s)'
  <2>1. Framed(inbox'[s], pc'[s] = "data", Data)
    <3>1. CASE inbox[s] = <<>>
      BY <1>1, <3>1, FramedEmpty
    <3>2. CASE pc[s] # "data"
      BY <1>1, <3>2, FramedEquiv DEF Rcv
    <3> QED
      BY <3>1, <3>2
  <2> QED
    BY <1>0, <1>1, <2>1 DEF Rcv
<1>4. Own(s)' /\ Own(o)'
  BY <1>0, <1>1 DEF Own, DataWrites, NoneOrOne
<1> QED
  BY <1>0, <1>2, <1>3, <1>4

\* s leaves, and loses what it has not read.
LEMMA LeaveStep ==
  ASSUME NEW s \in Sides, TypeOK, \A t \in Sides : Rcv(t) /\ Own(t),
         NEW how \in Ended, Leave(s, how)
  PROVE  \A t \in Sides : Rcv(t)' /\ Own(t)'
<1> DEFINE o == Other(s)
<1>0. /\ s # o /\ o \in Sides /\ Other(o) = s /\ \A t \in Sides : t = s \/ t = o
  BY TwoSides
<1>1. /\ pc'[s] \in Ended /\ pc'[o] = pc[o] /\ writing'[s] = {} /\ writing'[o] = writing[o]
      /\ link'[s] = link[s] /\ link'[o] # "open"
      /\ inbox'[s] = <<>> /\ inbox'[o] = inbox[o]
  BY <1>0 DEF TypeOK, Leave, Goto
<1>2. pc'[s] # "data" /\ pc'[s] \notin DataWrites /\ pc'[s] # "failed"
  BY <1>1 DEF Ended, DataWrites
<1>3. Rcv(o)'
  BY <1>0, <1>1, RcvKept
<1>4. Rcv(s)'
  BY <1>0, <1>1, FramedEmpty DEF Rcv
<1>5. Own(s)'
  BY <1>0, <1>1, <1>2 DEF Own, NoneOrOne
<1>6. Own(o)'
  BY <1>0, <1>1 DEF Own
<1> QED
  BY <1>0, <1>3, <1>4, <1>5, <1>6

\* s reads one item.
LEMMA ReadStep ==
  ASSUME NEW s \in Sides, TypeOK, \A t \in Sides : Rcv(t) /\ Own(t),
         pc[s] \in {"header", "data"}, inbox[s] # <<>>,
         NEW where, Goto(s, where), where \notin DataWrites \cup {"failed"} \cup Ended,
         where = "data" <=> Announces(Head(inbox[s]), Data),
         inbox' = [inbox EXCEPT ![s] = Tail(@)], link' = link,
         writing' = [writing EXCEPT ![s] = writing'[s]], NoneOrOne(writing'[s])
  PROVE  \A t \in Sides : Rcv(t)' /\ Own(t)'
<1> DEFINE o == Other(s)
<1>0. /\ s # o /\ o \in Sides /\ Other(o) = s /\ \A t \in Sides : t = s \/ t = o
  BY TwoSides
<1>1. /\ pc'[s] = where /\ pc'[o] = pc[o] /\ writing'[o] = writing[o] /\ link' = link
      /\ inbox'[s] = Tail(inbox[s]) /\ inbox'[o] = inbox[o]
  BY <1>0 DEF TypeOK, Goto
<1>2. Rcv(o)'
  BY <1>0, <1>1, RcvKept DEF DataWrites, Ended
<1>3. Rcv(s)'
  <2>1. inbox[s] \in Seq(Items)
    BY DEF TypeOK, Items
  <2>2. /\ Framed(inbox'[s], Announces(Head(inbox[s]), Data), Data)
        /\ Owing(inbox'[s], Announces(Head(inbox[s]), Data), Data)
             <=> Owing(inbox[s], pc[s] = "data", Data)
    BY <1>1, <2>1, FramedTail DEF Rcv
  <2>3. /\ Framed(inbox'[s], pc'[s] = "data", Data)
        /\ Owing(inbox'[s], pc'[s] = "data", Data) <=> Owing(inbox[s], pc[s] = "data", Data)
    BY <1>1, <2>2, FramedEquiv
  <2>4. \A k \in 1..Len(inbox'[s]) : k + 1 \in 1..Len(inbox[s]) /\ inbox'[s][k] = inbox[s][k + 1]
    <3>1. /\ Len(inbox[s]) \in Nat /\ Len(Tail(inbox[s])) = Len(inbox[s]) - 1
          /\ \A k \in 1..Len(inbox[s]) - 1 : Tail(inbox[s])[k] = inbox[s][k + 1]
      BY <2>1, HeadTailProperties
    <3>2. \A k \in 1..Len(inbox[s]) - 1 : k + 1 \in 1..Len(inbox[s])
      BY <3>1
    <3> QED
      BY ONLY <1>1, <3>1, <3>2
  <2>5. \A k \in 1..Len(inbox'[s]) : inbox'[s][k] # Data => Proper(inbox'[s][k])
    BY <2>4 DEF Rcv
  <2> QED
    BY <1>0, <1>1, <2>3, <2>5 DEF Rcv
<1>4. Own(s)' /\ Own(o)'
  BY <1>0, <1>1 DEF Own, Ended
<1> QED
  BY <1>0, <1>2, <1>3, <1>4

\* s writes one item: a header, or the data it has announced.
LEMMA PutStep ==
  ASSUME NEW s \in Sides, TypeOK, \A t \in Sides : Rcv(t) /\ Own(t),
         pc[s] \in Writes, NEW item \in Items, Put(s, item),
         item # Data => Proper(item), item = Data <=> pc[s] \in DataWrites,
         NEW where, Goto(s, where), where \notin {"data", "failed"} \cup Ended,
         where \in DataWrites <=> Announces(item, Data),
         where \in DataWrites => \A p \in writing'[s] : DataLen(p) > 0,
         writing' = [writing EXCEPT ![s] = writing'[s]], writing'[s] \subseteq writing[s]
  PROVE  \A t \in Sides : Rcv(t)' /\ Own(t)'
<1> DEFINE o == Other(s)
<1>0. /\ s # o /\ o \in Sides /\ Other(o) = s /\ \A t \in Sides : t = s \/ t = o
  BY TwoSides
<1>1. /\ pc'[s] = where /\ pc'[o] = pc[o] /\ writing'[o] = writing[o]
      /\ link'[o] = link[o] /\ link'[s] = (IF link[s] = "fin" THEN "finw" ELSE link[s])
      /\ inbox'[s] = inbox[s]
      /\ inbox'[o] = IF link[s] = "open" THEN Append(inbox[o], item) ELSE inbox[o]
  BY <1>0 DEF TypeOK, Goto, Put
<1>2. pc[s] \notin Ended \cup {"data"}
  BY DEF Writes, Ended
<1>3. Rcv(s)'
  BY <1>0, <1>1, <1>2, RcvKept
<1>4. Rcv(o)'
  <2>1. CASE link[s] # "open"
    BY <1>0, <1>1, <2>1, RcvKept
  <2>2. CASE link[s] = "open"
    <3>1. inbox[o] \in Seq(Items)
      BY <1>0 DEF TypeOK, Items
    <3>2. item = Data <=> Owing(inbox[o], pc[o] = "data", Data)
      BY <1>0, <1>2, <2>2 DEF Rcv
    <3>3. /\ Framed(inbox'[o], pc[o] = "data", Data)
          /\ Owing(inbox'[o], pc[o] = "data", Data) <=> Announces(item, Data)
      <4>1. inbox'[o] = Append(inbox[o], item) /\ Framed(inbox[o], pc[o] = "data", Data)
        BY <1>0, <1>1, <2>2 DEF Rcv
      <4> HIDE DEF o
      <4> DEFINE e == pc[o] = "data"
      <4>2. e \in BOOLEAN /\ Framed(inbox[o], e, Data) /\ (item = Data <=> Owing(inbox[o], e, Data))
        BY <3>2, <4>1
      <4> HIDE DEF e
      <4>3. /\ Framed(inbox'[o], e, Data)
            /\ Owing(inbox'[o], e, Data) <=> Announces(item, Data)
        BY <3>1, <4>1, <4>2, FramedAppend
      <4> QED
        BY <4>3 DEF e
    <3>4. \A k \in 1..Len(inbox'[o]) : inbox'[o][k] # Data => Proper(inbox'[o][k])
      <4>1. /\ Len(inbox'[o]) = Len(inbox[o]) + 1 /\ inbox'[o][Len(inbox[o]) + 1] = item
            /\ \A k \in 1..Len(inbox[o]) : inbox'[o][k] = inbox[o][k]
        BY <1>1, <2>2, <3>1, AppendProperties
      <4>2. Len(inbox[o]) \in Nat
        BY <3>1
      <4>3. \A k \in 1..Len(inbox'[o]) : k \in 1..Len(inbox[o]) \/ k = Len(inbox[o]) + 1
        BY <4>1, <4>2
      <4> QED
        BY <1>0, <4>1, <4>3 DEF Rcv
    <3> QED
      BY <1>0, <1>1, <3>3, <3>4 DEF Rcv
  <2> QED
    BY <2>1, <2>2
<1>5. Own(s)'
  BY <1>0, <1>1 DEF Own, Put, NoneOrOne
<1>6. Own(o)'
  BY <1>0, <1>1, <1>2 DEF Own
<1> QED
  BY <1>0, <1>3, <1>4, <1>5, <1>6

-----------------------------------------------------------------------------
(* The types. *)

LEMMA TypeInit == Init => TypeOK
BY SessionAssumption DEF Init, TypeOK, Sides, PC, Byte, NULL_BYTE

LEMMA LeaveTypes ==
  ASSUME NEW s \in Sides, NEW how \in Ended, TypeOK, Leave(s, how),
         UNCHANGED <<ready, flagVars>>, line' \in Commands \cup {NoLine, EndOfIn, Overlong}
  PROVE  TypeOK'
<1>1. pc' \in [Sides -> PC]
  BY DEF TypeOK, Leave, Goto, PC
<1>2. link' \in [Sides -> {"away", "open", "fin", "finw", "rst", "dead"}]
  BY TwoSides DEF TypeOK, Leave
<1>3. writing' \in [Sides -> SUBSET Packet]
  BY DEF TypeOK, Leave
<1>4. inbox' \in [Sides -> Seq(Packet \cup {Data})] /\ \A t \in Sides : Len(inbox'[t]) <= Room[t]
  <2>1. \A t \in Sides : inbox'[t] = IF t = s THEN <<>> ELSE inbox[t]
    BY DEF TypeOK, Leave
  <2>2. \A t \in Sides : Room[t] \in Nat
    BY SessionAssumption
  <2> QED
    BY <2>1, <2>2 DEF TypeOK, Leave
<1> QED
  BY <1>1, <1>2, <1>3, <1>4 DEF TypeOK, flagVars

LEMMA PutTypes ==
  ASSUME NEW s \in Sides, NEW item \in Items, TypeOK, Put(s, item)
  PROVE  /\ inbox' \in [Sides -> Seq(Packet \cup {Data})]
         /\ \A t \in Sides : Len(inbox'[t]) <= Room[t]
         /\ link' \in [Sides -> {"away", "open", "fin", "finw", "rst", "dead"}]
<1>1. link' \in [Sides -> {"away", "open", "fin", "finw", "rst", "dead"}]
  BY DEF TypeOK, Put
<1>2. CASE link[s] # "open"
  BY <1>1, <1>2 DEF TypeOK, Put
<1>3. CASE link[s] = "open"
  <2> DEFINE o == Other(s)
  <2>1. o \in Sides /\ inbox[o] \in Seq(Items)
    BY TwoSides DEF TypeOK, Items
  <2>2. inbox' = [inbox EXCEPT ![o] = Append(inbox[o], item)] /\ ~Full(o)
    BY <1>3, <2>1 DEF Put
  <2>3. Append(inbox[o], item) \in Seq(Items) /\ Len(Append(inbox[o], item)) <= Room[o]
    <3>1. Len(inbox[o]) \in Nat /\ Room[o] \in Nat /\ ~(Len(inbox[o]) >= Room[o])
      BY <2>1, <2>2, SessionAssumption DEF Full
    <3>2. Append(inbox[o], item) \in Seq(Items) /\ Len(Append(inbox[o], item)) = Len(inbox[o]) + 1
      BY <2>1, AppendProperties
    <3> QED
      BY <3>1, <3>2
  <2>4. \A t \in Sides : inbox'[t] = IF t = o THEN Append(inbox[o], item) ELSE inbox[t]
    BY <2>2 DEF TypeOK
  <2> HIDE DEF o
  <2> QED
    BY <1>1, <2>2, <2>3, <2>4 DEF TypeOK, Items
<1> QED
  BY <1>2, <1>3

LEMMA ReadTypes ==
  ASSUME NEW s \in Sides, TypeOK, inbox[s] # <<>>, inbox' = [inbox EXCEPT ![s] = Tail(@)]
  PROVE  /\ inbox' \in [Sides -> Seq(Packet \cup {Data})]
         /\ \A t \in Sides : Len(inbox'[t]) <= Room[t]
<1>1. inbox[s] \in Seq(Items) /\ inbox' = [inbox EXCEPT ![s] = Tail(inbox[s])]
  BY DEF TypeOK, Items
<1>2. Tail(inbox[s]) \in Seq(Items) /\ Len(Tail(inbox[s])) <= Room[s]
  <2>1. /\ Len(inbox[s]) \in Nat /\ Room[s] \in Nat /\ Len(inbox[s]) <= Room[s]
    <3>1. Room[s] \in Nat
      BY SessionAssumption
    <3>2. Len(inbox[s]) <= Room[s]
      BY DEF TypeOK
    <3> QED
      BY <1>1, <3>1, <3>2
  <2>2. Tail(inbox[s]) \in Seq(Items) /\ Len(Tail(inbox[s])) = Len(inbox[s]) - 1
    BY <1>1, HeadTailProperties
  <2> QED
    BY <2>1, <2>2
<1>3. \A t \in Sides : inbox'[t] = IF t = s THEN Tail(inbox[s]) ELSE inbox[t]
  BY <1>1 DEF TypeOK
<1> QED
  BY <1>1, <1>2, <1>3 DEF TypeOK, Items

LEMMA ReadHeaderTypes ==
  ASSUME NEW s \in Sides, TypeOK, ReadHeader(s)
  PROVE  TypeOK'
<1> DEFINE p == Head(inbox[s])
<1>1. Answer(p, inc_flag[s]) \in SUBSET Packet
  BY AnswerIsPackets
<1>2. FlagOnHeader(p, inc_flag[s]) \in Byte /\ OutOnHeader(p, out_flag[s]) \in Byte
  BY FlagInByte DEF TypeOK
<1>3. writing' \in [Sides -> SUBSET Packet]
  BY <1>1 DEF ReadHeader, TypeOK
<1>4. inc_flag' \in [Sides -> Byte] /\ out_flag' \in [Sides -> Byte]
  BY <1>2 DEF ReadHeader, TypeOK
<1>5. pc' \in [Sides -> PC]
  BY DEF ReadHeader, Goto, TypeOK, PC
<1> QED
  BY <1>3, <1>4, <1>5, ReadTypes DEF ReadHeader, TypeOK, loopVars

LEMMA WriteTypes ==
  ASSUME NEW s \in Sides, TypeOK, WriteHeader(s) \/ WriteLast(s)
  PROVE  TypeOK'
<1>1. PICK p \in writing[s], item \in Items : Put(s, item)
  <2>1. \A a \in writing[s] : a \in Items /\ Data \in Items
    BY DEF TypeOK, Items
  <2> QED
    BY <2>1 DEF WriteHeader, WriteLast
<1>2. \A q \in writing[s] : q.status \in Byte
  BY DEF TypeOK, Packet
<1>3. pc' \in [Sides -> PC] /\ UNCHANGED loopVars
  BY DEF WriteHeader, WriteLast, Goto, TypeOK, PC
<1>4. writing' \in [Sides -> SUBSET Packet]
  BY DEF WriteHeader, WriteLast, TypeOK
<1>5. inc_flag' \in [Sides -> Byte] /\ out_flag' \in [Sides -> Byte]
  <2>1. CASE WriteHeader(s)
    BY <1>2, <2>1 DEF WriteHeader, TypeOK
  <2>2. CASE WriteLast(s)
    BY <2>2, FlagValues DEF WriteLast, TypeOK
  <2> QED
    BY <2>1, <2>2
<1> QED
  BY <1>1, <1>3, <1>4, <1>5, PutTypes DEF TypeOK, loopVars

LEMMA TypeStep == TypeOK /\ [Next]_vars => TypeOK'
<1> SUFFICES ASSUME TypeOK, [Next]_vars PROVE TypeOK'
  OBVIOUS
<1> USE DEF loopVars, flagVars, kernelVars
<1>1. ASSUME NEW s \in Sides, Thread(s) PROVE TypeOK'
  <2>1. CASE ReadHeader(s)
    BY <2>1, ReadHeaderTypes
  <2>2. CASE ReadData(s)
    <3>1. pc' \in [Sides -> PC]
      BY <2>2 DEF ReadData, Goto, TypeOK, PC
    <3> QED
      BY <2>2, <3>1, ReadTypes DEF ReadData, TypeOK
  <2>3. CASE ReadEnd(s)
    BY <2>3, FlagValues DEF ReadEnd, Goto, TypeOK, PC
  <2>4. CASE ReadFails(s)
    BY <2>4 DEF ReadFails, Goto, TypeOK, PC
  <2>5. CASE WriteHeader(s) \/ WriteLast(s)
    BY <2>5, WriteTypes
  <2>6. CASE WriteFails(s)
    <3>1. out_flag' \in [Sides -> Byte]
      BY <2>6 DEF WriteFails, TypeOK, Packet
    <3> QED
      BY <2>6, <3>1 DEF WriteFails, Goto, TypeOK, PC
  <2>7. CASE WriteKills(s)
    BY <2>7, LeaveTypes DEF WriteKills, Ended, TypeOK
  <2> QED
    BY <1>1, <2>1, <2>2, <2>3, <2>4, <2>5, <2>6, <2>7 DEF Thread
<1>2. "client" \in Sides /\ "server" \in Sides
  BY DEF Sides
<1>3. CASE Accept \/ ServerSelect
  BY <1>3 DEF Accept, ServerSelect, Goto, TypeOK, PC
<1>4. CASE AcceptRefuses
  BY <1>2, <1>4, LeaveTypes DEF AcceptRefuses, Ended, TypeOK
<1>5. CASE ServerReturn
  <2>1. CASE is_client_status("server", CANCEL)
    BY <1>2, <1>5, <2>1, LeaveTypes DEF ServerReturn, Ended, TypeOK
  <2>2. CASE ~is_client_status("server", CANCEL)
    BY <1>5, <2>2 DEF ServerReturn, Goto, TypeOK, PC
  <2> QED
    BY <2>1, <2>2
<1>6. CASE Establish \/ EstablishFails
  BY <1>6 DEF Establish, EstablishFails, Goto, TypeOK, PC, Ended
<1>7. CASE ClientSelect
  BY <1>7 DEF ClientSelect, Goto, TypeOK, PC
<1>8. CASE ClientReturn
  <2>1. CASE pc["client"] = "failed" \/ is_client_status("client", CANCEL)
    BY <1>2, <1>8, <2>1, LeaveTypes DEF ClientReturn, Ended, TypeOK
  <2>2. CASE ~(pc["client"] = "failed" \/ is_client_status("client", CANCEL))
    BY <1>8, <2>2 DEF ClientReturn, Goto, TypeOK, PC
  <2> QED
    BY <2>1, <2>2
<1>9. CASE ReadLine
  <2>1. CASE line \in Commands
    <3>1. writing' \in [Sides -> SUBSET Packet]
      <4>1. {line} \in SUBSET Packet
        BY <2>1, SessionAssumption
      <4> QED
        BY <1>9, <2>1, <4>1 DEF ReadLine, TypeOK
    <3> QED
      BY <1>9, <2>1, <3>1 DEF ReadLine, Goto, TypeOK, PC
  <2>2. CASE line \notin Commands
    BY <1>2, <1>9, <2>2, LeaveTypes DEF ReadLine, Ended, TypeOK
  <2> QED
    BY <2>1, <2>2
<1>10. CASE Type
  BY <1>10 DEF Type, TypeOK
<1>11. CASE Interrupt
  BY <1>2, <1>11, LeaveTypes DEF Interrupt, Ended, TypeOK
<1>12. ASSUME NEW s \in Sides, ResetArrives(s) PROVE TypeOK'
  BY <1>12 DEF ResetArrives, TypeOK
<1>13. CASE UNCHANGED vars
  BY <1>13 DEF vars, TypeOK
<1> QED
  BY <1>1, <1>2, <1>3, <1>4, <1>5, <1>6, <1>7, <1>8, <1>9, <1>10, <1>11, <1>12, <1>13
  DEF Next, Server, Client

-----------------------------------------------------------------------------
(* The inductive invariant. *)

LEMMA SessionInit == Init => SInv
<1> SUFFICES ASSUME Init PROVE SInv
  OBVIOUS
<1>1. Before
  BY DEF Init, Before, Sides
<1>2. \A s \in Sides : Rcv(s) /\ Own(s)
  <2> TAKE s \in Sides
  <2>1. /\ inbox[s] = <<>> /\ writing[s] = {} /\ link[s] = "away" /\ link[Other(s)] = "away"
        /\ pc[s] \in {"start", "listen"}
    BY TwoSides DEF Init
  <2> QED
    BY <2>1, FramedEmpty DEF Rcv, Own, DataWrites, NoneOrOne
<1> QED
  BY <1>1, <1>2, TypeInit DEF SInv

LEMMA BeforeStep == TypeOK /\ Before /\ Next => Before'
<1> SUFFICES ASSUME TypeOK, Before, Next, pc'["client"] = "start"
             PROVE  pc'["server"] = "listen" /\ UNCHANGED kernelVars /\ pc["client"] = "start"
  BY DEF Before, kernelVars
<1> USE DEF Goto, Leave, Sides, Other, Before, TypeOK, Writes, Ended
<1>1. ASSUME NEW s \in Sides, Thread(s) PROVE FALSE
  BY <1>1 DEF Thread, ReadHeader, ReadData, ReadEnd, ReadFails, WriteHeader, WriteLast,
     WriteFails, WriteKills
<1>2. CASE Accept \/ AcceptRefuses \/ ServerSelect \/ ServerReturn
  BY <1>2 DEF Accept, AcceptRefuses, ServerSelect, ServerReturn
<1>3. CASE Establish \/ EstablishFails \/ ClientSelect \/ ClientReturn \/ ReadLine
           \/ Interrupt
  BY <1>3 DEF Establish, EstablishFails, ClientSelect, ClientReturn, ReadLine, Interrupt
<1>4. CASE Type
  BY <1>4 DEF Type
<1>5. ASSUME NEW s \in Sides, ResetArrives(s) PROVE FALSE
  BY <1>5 DEF ResetArrives
<1> QED
  BY <1>1, <1>2, <1>3, <1>4, <1>5 DEF Next, Server, Client

LEMMA ThreadStep ==
  ASSUME NEW s \in Sides, TypeOK, \A t \in Sides : Rcv(t) /\ Own(t), Thread(s)
  PROVE  \A t \in Sides : Rcv(t)' /\ Own(t)'
<1> USE DEF Ended, DataWrites
<1>0. inbox[s] # <<>> =>
        /\ Head(inbox[s]) = inbox[s][1] /\ 1 \in 1..Len(inbox[s])
        /\ Head(inbox[s]) = Data <=> pc[s] = "data"
        /\ Head(inbox[s]) # Data => Proper(Head(inbox[s]))
  <2> SUFFICES ASSUME inbox[s] # <<>>
               PROVE  /\ Head(inbox[s]) = inbox[s][1] /\ 1 \in 1..Len(inbox[s])
                      /\ Head(inbox[s]) = Data <=> pc[s] = "data"
                      /\ Head(inbox[s]) # Data => Proper(Head(inbox[s]))
    OBVIOUS
  <2>1. inbox[s] \in Seq(Items)
    BY DEF TypeOK, Items
  <2>2. Head(inbox[s]) = inbox[s][1] /\ 1 \in 1..Len(inbox[s])
    BY <2>1, HeadTailProperties
  <2> QED
    BY <2>2 DEF Rcv, Framed
<1>1. CASE ReadHeader(s)
  <2> DEFINE p == Head(inbox[s])
             where == IF DataLen(p) > 0 THEN "data"
                      ELSE IF Answer(p, inc_flag[s]) # {} THEN "answer"
                      ELSE IF Known(p) THEN "returned" ELSE "failed"
  <2>1. Known(p) /\ Proper(p) /\ p # Data
    BY <1>0, <1>1 DEF ReadHeader, Proper
  <2>2. Goto(s, where) /\ (where = "data" <=> Announces(p, Data))
    BY <1>1, <2>1, ProperAnnounces DEF ReadHeader
  <2>3. where \notin DataWrites \cup {"failed"} \cup Ended
    BY <2>1
  <2>4. /\ writing' = [writing EXCEPT ![s] = writing'[s]]
        /\ NoneOrOne(writing'[s])
    BY <1>1, OneAnswer DEF ReadHeader, TypeOK
  <2> HIDE DEF where
  <2> QED
    BY <1>1, <2>2, <2>3, <2>4, ReadStep DEF ReadHeader
<1>2. CASE ReadData(s)
  <2>1. ~Announces(Head(inbox[s]), Data)
    BY <1>0, <1>2 DEF ReadData, Announces
  <2>2. writing' = [writing EXCEPT ![s] = writing'[s]] /\ NoneOrOne(writing'[s])
    BY <1>2 DEF ReadData, TypeOK, Own
  <2> QED
    BY <1>2, <2>1, <2>2, ReadStep DEF ReadData
<1>3. CASE ReadEnd(s)
  BY <1>3, FailStep DEF ReadEnd, kernelVars
<1>4. CASE ReadFails(s)
  <2>1. \A t \in Sides : link'[t] = link[t] \/ (t = s /\ link'[t] = "dead")
    BY <1>4 DEF ReadFails, TypeOK
  <2> QED
    BY <1>4, <2>1, FailStep DEF ReadFails
<1>5. CASE WriteHeader(s)
  <2>1. PICK p \in writing[s] : DataLen(p) > 0 /\ Put(s, p)
    BY <1>5 DEF WriteHeader
  <2>2. Proper(p) /\ p \in Items /\ p # Data /\ Announces(p, Data)
    BY <2>1, DataIsNoHeader DEF Own, Proper, Items, Announces, HasData, NoneOrOne
  <2>3. /\ pc[s] \in {"answer", "command"} /\ writing' = writing
        /\ Goto(s, IF pc[s] = "answer" THEN "answer_data" ELSE "command_data")
    BY <1>5 DEF WriteHeader
  <2>4. \A a \in writing'[s] : DataLen(a) > 0
    BY <2>1, <2>3 DEF Own, NoneOrOne
  <2> QED
    BY <2>1, <2>2, <2>3, <2>4, PutStep DEF Writes, TypeOK
<1>6. CASE WriteLast(s)
  <2>1. PICK p \in writing[s] : /\ pc[s] \in {"answer", "command"} => DataLen(p) = 0
                                /\ Put(s, IF DataLen(p) = 0 THEN p ELSE Data)
    BY <1>6 DEF WriteLast
  <2> DEFINE item == IF DataLen(p) = 0 THEN p ELSE Data
  <2>2. /\ pc[s] \in Writes /\ writing' = [writing EXCEPT ![s] = {}] /\ writing'[s] = {}
        /\ Goto(s, IF pc[s] \in {"answer", "answer_data"} THEN "returned" ELSE "select")
    BY <1>6 DEF WriteLast, TypeOK
  <2>3. Proper(p) /\ p # Data
    BY DataIsNoHeader DEF Own, NoneOrOne
  <2>4. DataLen(p) = 0 <=> pc[s] \notin DataWrites
    BY <2>1, <2>2 DEF Own, Writes
  <2>5. /\ item \in Items /\ (item # Data => Proper(item)) /\ ~Announces(item, Data)
        /\ item = Data <=> pc[s] \in DataWrites
    BY <2>3, <2>4 DEF Items, Announces, HasData, Proper
  <2> HIDE DEF item
  <2>6. Put(s, item)
    BY <2>1 DEF item
  <2> QED
    BY <2>2, <2>5, <2>6, PutStep
<1>7. CASE WriteFails(s)
  <2>1. \A t \in Sides : link'[t] = link[t] \/ (t = s /\ link'[t] = "dead")
    BY <1>7 DEF WriteFails, TypeOK
  <2> QED
    BY <1>7, <2>1, FailStep DEF WriteFails, Writes
<1>8. CASE WriteKills(s)
  BY <1>8, LeaveStep DEF WriteKills
<1> QED
  BY <1>1, <1>2, <1>3, <1>4, <1>5, <1>6, <1>7, <1>8 DEF Thread

LEMMA SideStep ==
  ASSUME SInv, [Next]_vars
  PROVE  \A t \in Sides : Rcv(t)' /\ Own(t)'
<1>0. TypeOK /\ Before /\ \A t \in Sides : Rcv(t) /\ Own(t)
  BY DEF SInv
<1>a. "client" \in Sides /\ "server" \in Sides
  BY DEF Sides
<1> USE DEF Ended, DataWrites
<1>1. ASSUME NEW s \in Sides, Thread(s) PROVE \A t \in Sides : Rcv(t)' /\ Own(t)'
  BY <1>0, <1>1, ThreadStep
<1>2. CASE Accept \/ ServerSelect
  <2>1. PICK where \in {"select", "header"} : Goto("server", where)
    BY <1>2 DEF Accept, ServerSelect
  <2>2. /\ pc["server"] \in {"listen", "select"} /\ UNCHANGED kernelVars
        /\ writing' = [writing EXCEPT !["server"] = writing'["server"]]
        /\ NoneOrOne(writing'["server"])
    BY <1>0, <1>a, <1>2 DEF Accept, ServerSelect, TypeOK, Own
  <2> QED
    BY <1>0, <1>a, <2>1, <2>2, LocalStep
<1>3. CASE AcceptRefuses
  BY <1>0, <1>a, <1>3, LeaveStep DEF AcceptRefuses
<1>4. CASE ServerReturn
  <2>1. CASE is_client_status("server", CANCEL)
    BY <1>0, <1>a, <1>4, <2>1, LeaveStep DEF ServerReturn
  <2>2. CASE ~is_client_status("server", CANCEL)
    <3>1. /\ pc["server"] \in {"returned", "failed"} /\ UNCHANGED kernelVars
          /\ Goto("server", "select")
          /\ writing' = [writing EXCEPT !["server"] = writing'["server"]]
          /\ NoneOrOne(writing'["server"])
      BY <1>0, <1>a, <1>4, <2>2 DEF ServerReturn, TypeOK, Own
    <3> QED
      BY <1>0, <1>a, <3>1, LocalStep
  <2> QED
    BY <2>1, <2>2
<1>5. CASE Establish
  <2> TAKE s \in Sides
  <2>1. /\ pc'[s] \in {"select", "listen"} /\ pc'[Other(s)] \in {"select", "listen"}
        /\ inbox'[s] = <<>> /\ link'[s] = "open" /\ writing'[s] = writing[s]
    BY <1>0, <1>5 DEF Establish, Goto, Before, TypeOK, Sides, Other
  <2> QED
    BY <1>0, <2>1, FramedEmpty DEF Rcv, Own, Owing
<1>6. CASE EstablishFails
  <2> TAKE s \in Sides
  <2>1. /\ pc'[s] \in {"exited", "listen"} /\ inbox'[s] = <<>> /\ link'[s] = "away"
        /\ link'[Other(s)] = "away" /\ writing'[s] = writing[s]
    BY <1>0, <1>6 DEF EstablishFails, Goto, Before, TypeOK, Sides, Other, kernelVars
  <2> QED
    BY <1>0, <2>1, FramedEmpty DEF Rcv, Own, Owing
<1>7. CASE ClientSelect
  <2>1. PICK where \in {"stdin", "header"} : Goto("client", where)
    BY <1>7 DEF ClientSelect
  <2>2. /\ pc["client"] = "select" /\ UNCHANGED kernelVars
        /\ writing' = [writing EXCEPT !["client"] = writing'["client"]]
        /\ NoneOrOne(writing'["client"])
    BY <1>0, <1>a, <1>7 DEF ClientSelect, TypeOK, Own
  <2> QED
    BY <1>0, <1>a, <2>1, <2>2, LocalStep
<1>8. CASE ClientReturn
  <2>1. CASE pc["client"] = "failed" \/ is_client_status("client", CANCEL)
    BY <1>0, <1>a, <1>8, <2>1, LeaveStep DEF ClientReturn
  <2>2. CASE ~(pc["client"] = "failed" \/ is_client_status("client", CANCEL))
    <3>1. PICK where \in {"stdin", "select"} : Goto("client", where)
      BY <1>8, <2>2 DEF ClientReturn
    <3>2. /\ pc["client"] \in {"returned", "failed"} /\ UNCHANGED kernelVars
          /\ writing' = [writing EXCEPT !["client"] = writing'["client"]]
          /\ NoneOrOne(writing'["client"])
      BY <1>0, <1>a, <1>8, <2>2 DEF ClientReturn, TypeOK, Own
    <3> QED
      BY <1>0, <1>a, <3>1, <3>2, LocalStep
  <2> QED
    BY <2>1, <2>2
<1>9. CASE ReadLine
  <2>1. CASE line \in Commands
    <3>1. /\ pc["client"] = "stdin" /\ UNCHANGED kernelVars /\ Goto("client", "command")
          /\ writing' = [writing EXCEPT !["client"] = writing'["client"]]
          /\ NoneOrOne(writing'["client"])
      BY <1>0, <1>a, <1>9, <2>1, CommandProper DEF ReadLine, TypeOK, NoneOrOne
    <3> QED
      BY <1>0, <1>a, <3>1, LocalStep
  <2>2. CASE line \notin Commands
    BY <1>0, <1>a, <1>9, <2>2, LeaveStep DEF ReadLine
  <2> QED
    BY <2>1, <2>2
<1>10. CASE Type \/ UNCHANGED vars
  BY <1>0, <1>10 DEF Type, vars, Rcv, Own, kernelVars
<1>11. CASE Interrupt
  BY <1>0, <1>a, <1>11, LeaveStep DEF Interrupt
<1>12. ASSUME NEW s \in Sides, ResetArrives(s)
       PROVE  \A t \in Sides : Rcv(t)' /\ Own(t)'
  <2> TAKE t \in Sides
  <2>1. /\ pc' = pc /\ inbox' = inbox /\ writing' = writing
        /\ link[s] = "finw"
        /\ \A r \in Sides : link'[r] = link[r] \/ (r = s /\ link'[r] = "dead")
    BY <1>0, <1>12 DEF ResetArrives, TypeOK
  <2>2. Rcv(t)'
    BY <1>0, <2>1, TwoSides, RcvKept
  <2>3. Own(t)'
    BY <1>0, <2>1, TwoSides DEF Own
  <2> QED
    BY <2>2, <2>3
<1> QED
  BY <1>1, <1>a, <1>2, <1>3, <1>4, <1>5, <1>6, <1>7, <1>8, <1>9, <1>10, <1>11, <1>12
  DEF Next, Server, Client

LEMMA SessionStep == SInv /\ [Next]_vars => SInv'
<1> SUFFICES ASSUME SInv, [Next]_vars PROVE SInv'
  OBVIOUS
<1>1. Before'
  BY BeforeStep DEF SInv, vars, Before
<1> QED
  BY <1>1, TypeStep, SideStep DEF SInv

LEMMA SessionInvariance == Spec => []SInv
BY SessionInit, SessionStep, PTL DEF Spec

-----------------------------------------------------------------------------
(* The theorems. *)

\* Every variable keeps its type, and no kernel is made to hold more than its
\* room: write_packet waits.
THEOREM SessionTypes == Spec => []TypeOK
<1>1. SInv => TypeOK
  BY DEF SInv
<1> QED
  BY <1>1, SessionInvariance, PTL

\* Whatever is typed, and however requests and answers cross, neither program
\* takes data for a header or gives up on a packet while the other is there.
THEOREM SessionUnderstood == Spec => []Understood
<1>1. SInv => Understood
  <2> SUFFICES ASSUME SInv, NEW s \in Sides
               PROVE  /\ pc[s] = "failed" => link[s] # "open"
                      /\ inbox[s] # <<>> => (Head(inbox[s]) = Data <=> pc[s] = "data")
    BY DEF Understood
  <2>1. pc[s] = "failed" => link[s] # "open"
    BY DEF SInv, Own
  <2>2. ASSUME inbox[s] # <<>>
        PROVE  Head(inbox[s]) = Data <=> pc[s] = "data"
    <3>1. inbox[s] \in Seq(Items)
      BY DEF SInv, TypeOK, Items
    <3>2. Head(inbox[s]) = inbox[s][1] /\ 1 \in 1..Len(inbox[s])
      BY <2>2, <3>1, HeadTailProperties
    <3> QED
      BY <3>2 DEF SInv, Rcv, Framed
  <2> QED
    BY <2>1, <2>2
<1> QED
  BY <1>1, SessionInvariance, PTL

-----------------------------------------------------------------------------
(* What goes which way. *)

\* What the server writes; and what asks for no answer.
Replies ==
  {p \in Packet : \/ p.status \in {ACKNOWLEDGE, NEG_ACKNOWLEDGE}
                  \/ p.status = ENQUIRY /\ p.control1 \in {ENQUIRY_NORMAL, ENQUIRY_TIME}}
Acks == {p \in Packet : p.status = ACKNOWLEDGE}
Asks == Packet \ Acks

AnswerWrites == {"data", "answer", "answer_data"}

\* The server only answers, and the client answers with acknowledgements only.
Kinds ==
  /\ writing["server"] \subseteq Replies
  /\ inbox["client"] \in Seq(Replies \cup {Data})
  /\ pc["client"] \in AnswerWrites => writing["client"] \subseteq Acks
  /\ pc["server"] \notin {"stdin", "command", "command_data"}

LEMMA AnswerIsReply ==
  ASSUME NEW p, NEW inc
  PROVE  /\ Answer(p, inc) \subseteq Replies
         /\ p \in Replies => Answer(p, inc) \subseteq Acks
<1>0. Answer(p, inc) \subseteq Packet
  BY AnswerIsPackets
<1>1. Answer(p, inc) \subseteq Replies
  BY <1>0 DEF Answer, Acknowledge, Refuse, assemble_header, Replies
<1>2. p \in Replies => Answer(p, inc) \subseteq Acks
  BY <1>0 DEF Answer, Acknowledge, Refuse, assemble_header, Replies, Acks, ACKNOWLEDGE,
     NEG_ACKNOWLEDGE, START_TEXT, ENQUIRY, WAKEUP, IDLE, ESCAPE, ENQUIRY_NORMAL,
     ENQUIRY_TIME, ENQUIRY_RETURN, ENQUIRY_RTIME
<1> QED
  BY <1>1, <1>2

LEMMA AcksEnd ==
  ASSUME NEW p \in Acks, NEW inc
  PROVE  Answer(p, inc) = {} /\ DataLen(p) = 0
BY DEF Acks, Answer, DataLen, IsLongText, ACKNOWLEDGE, START_TEXT, ENQUIRY, WAKEUP,
   IDLE, ESCAPE

LEMMA KindsInit == Init => Kinds
<1> SUFFICES ASSUME Init PROVE Kinds
  OBVIOUS
<1>1. /\ writing["server"] = {} /\ inbox["client"] = <<>>
      /\ pc["client"] = "start" /\ pc["server"] = "listen"
  BY DEF Init, Sides
<1>2. inbox["client"] \in Seq(Replies \cup {Data})
  BY ONLY <1>1
<1> QED
  BY <1>1, <1>2 DEF Kinds, AnswerWrites

LEMMA KindsLeave ==
  ASSUME NEW s \in Sides, NEW how \in Ended, TypeOK, Kinds, Leave(s, how)
  PROVE  Kinds'
<1>0. "client" \in Sides /\ "server" \in Sides
  BY DEF Sides
<1>1. \A t \in Sides : /\ pc'[t] = pc[t] \/ pc'[t] \in Ended
                       /\ writing'[t] = writing[t] \/ writing'[t] = {}
                       /\ inbox'[t] = inbox[t] \/ inbox'[t] = <<>>
  BY DEF Leave, Goto, TypeOK
<1>2. inbox'["client"] \in Seq(Replies \cup {Data})
  <2>1. inbox["client"] \in Seq(Replies \cup {Data}) /\ <<>> \in Seq(Replies \cup {Data})
    BY DEF Kinds
  <2> QED
    BY ONLY <1>0, <1>1, <2>1
<1> QED
  BY <1>0, <1>1, <1>2 DEF Kinds, Ended, AnswerWrites

LEMMA KindsThread ==
  ASSUME NEW s \in Sides, TypeOK, Kinds, Thread(s)
  PROVE  Kinds'
<1> DEFINE c == "client"
           v == "server"
<1>0. /\ c \in Sides /\ v \in Sides /\ c # v /\ Other(c) = v /\ Other(v) = c
      /\ s = c \/ s = v
  BY DEF Sides, Other
<1>1. /\ inbox[c] \in Seq(Replies \cup {Data}) /\ writing[v] \subseteq Replies
      /\ pc[v] \notin {"stdin", "command", "command_data"}
  BY DEF Kinds
<1>2. CASE ReadHeader(s)
  <2> DEFINE p == Head(inbox[s])
  <2>1. /\ inbox[s] # <<>> /\ p # Data
        /\ inbox'[s] = Tail(inbox[s]) /\ inbox'[Other(s)] = inbox[Other(s)]
        /\ writing'[s] = Answer(p, inc_flag[s]) /\ writing'[Other(s)] = writing[Other(s)]
        /\ pc'[Other(s)] = pc[Other(s)] /\ pc'[s] \in {"data", "answer", "returned", "failed"}
    BY <1>0, <1>2 DEF ReadHeader, TypeOK, Goto
  <2>2. CASE s = c
    <3>1. p \in Replies /\ Tail(inbox[c]) \in Seq(Replies \cup {Data})
      <4>1. inbox[c] \in Seq(Replies \cup {Data}) /\ inbox[c] # <<>>
        BY <1>1, <2>1, <2>2
      <4>2. /\ Head(inbox[c]) \in Replies \cup {Data}
            /\ Tail(inbox[c]) \in Seq(Replies \cup {Data})
        BY ONLY <4>1, HeadTailProperties
      <4> QED
        BY <2>1, <2>2, <4>2
    <3>2. Answer(p, inc_flag[s]) \subseteq Acks
      BY <3>1, AnswerIsReply
    <3> HIDE DEF p
    <3>3. writing'[c] \subseteq Acks /\ writing'[v] \subseteq Replies /\ pc'[v] = pc[v]
      BY <1>0, <1>1, <2>1, <2>2, <3>2
    <3>4. inbox'[c] \in Seq(Replies \cup {Data})
      BY <2>1, <2>2, <3>1
    <3> QED
      BY <1>1, <3>3, <3>4 DEF Kinds
  <2>3. CASE s = v
    BY <1>0, <1>1, <2>1, <2>3, AnswerIsReply DEF Kinds
  <2> QED
    BY <1>0, <2>2, <2>3
<1>3. CASE ReadData(s)
  <2>1. /\ inbox[s] # <<>> /\ writing' = writing
        /\ inbox'[s] = Tail(inbox[s]) /\ inbox'[Other(s)] = inbox[Other(s)]
        /\ pc'[Other(s)] = pc[Other(s)] /\ pc[s] = "data" /\ pc'[s] = "answer"
    BY <1>0, <1>3 DEF ReadData, TypeOK, Goto
  <2>2. inbox'[c] \in Seq(Replies \cup {Data})
    BY <1>0, <1>1, <2>1, HeadTailProperties
  <2> QED
    BY <1>0, <1>1, <2>1, <2>2 DEF Kinds, AnswerWrites
<1>4. CASE ReadEnd(s) \/ ReadFails(s) \/ WriteFails(s)
  <2>1. /\ inbox' = inbox /\ writing'[s] = {} /\ writing'[Other(s)] = writing[Other(s)]
        /\ pc'[Other(s)] = pc[Other(s)] /\ pc'[s] = "failed"
    BY <1>0, <1>4 DEF ReadEnd, ReadFails, WriteFails, TypeOK, Goto, kernelVars
  <2> QED
    BY <1>0, <1>1, <2>1 DEF Kinds
<1>5. CASE WriteHeader(s) \/ WriteLast(s)
  <2>1. PICK item \in writing[s] \cup {Data} : Put(s, item)
    BY <1>5 DEF WriteHeader, WriteLast
  <2>2. /\ writing'[s] \subseteq writing[s] /\ writing'[Other(s)] = writing[Other(s)]
        /\ pc'[Other(s)] = pc[Other(s)] /\ pc[s] \in Writes
        /\ pc'[s] \in AnswerWrites => pc[s] \in AnswerWrites
        /\ pc'[s] \in {"answer_data", "command_data", "returned", "select"}
        /\ pc'[s] = "command_data" => pc[s] = "command"
    BY <1>0, <1>5 DEF WriteHeader, WriteLast, TypeOK, Goto, Writes, AnswerWrites
  <2>3. inbox'[c] \in Seq(Replies \cup {Data})
    <3>1. CASE inbox'[c] = inbox[c]
      BY <1>1, <3>1
    <3>2. CASE inbox'[c] # inbox[c]
      <4>1. s = v /\ inbox'[c] = Append(inbox[c], item)
        BY <1>0, <2>1, <3>2 DEF Put, TypeOK
      <4> QED
        BY <1>1, <2>1, <4>1, AppendProperties
    <3> QED
      BY <3>1, <3>2
  <2> QED
    BY <1>0, <1>1, <2>2, <2>3 DEF Kinds
<1>6. CASE WriteKills(s)
  BY <1>6, KindsLeave DEF WriteKills, Ended
<1> QED
  BY <1>2, <1>3, <1>4, <1>5, <1>6 DEF Thread

LEMMA KindsStep ==
  ASSUME TypeOK, Kinds, [Next]_vars
  PROVE  Kinds'
<1>0. "client" \in Sides /\ "server" \in Sides /\ "client" # "server"
  BY DEF Sides
<1>1. ASSUME NEW s \in Sides, Thread(s) PROVE Kinds'
  BY <1>1, KindsThread
<1>2. CASE AcceptRefuses \/ Interrupt
  BY <1>0, <1>2, KindsLeave DEF AcceptRefuses, Interrupt, Ended
<1>3. CASE Accept \/ ServerSelect \/ Establish \/ EstablishFails \/ ClientSelect \/ Type
  BY <1>0, <1>3 DEF Accept, ServerSelect, Establish, EstablishFails, ClientSelect, Type,
     kernelVars, Goto, Kinds, TypeOK, AnswerWrites
<1>4. CASE ServerReturn
  <2>1. CASE is_client_status("server", CANCEL)
    BY <1>0, <1>4, <2>1, KindsLeave DEF ServerReturn, Ended
  <2>2. CASE ~is_client_status("server", CANCEL)
    BY <1>0, <1>4, <2>2 DEF ServerReturn, kernelVars, Goto, Kinds, TypeOK
  <2> QED
    BY <2>1, <2>2
<1>5. CASE ClientReturn
  <2>1. CASE pc["client"] = "failed" \/ is_client_status("client", CANCEL)
    BY <1>0, <1>5, <2>1, KindsLeave DEF ClientReturn, Ended
  <2>2. CASE ~(pc["client"] = "failed" \/ is_client_status("client", CANCEL))
    BY <1>0, <1>5, <2>2 DEF ClientReturn, kernelVars, Goto, Kinds, TypeOK, AnswerWrites
  <2> QED
    BY <2>1, <2>2
<1>6. CASE ReadLine
  <2>1. CASE line \in Commands
    BY <1>0, <1>6, <2>1 DEF ReadLine, kernelVars, Goto, Kinds, TypeOK, AnswerWrites
  <2>2. CASE line \notin Commands
    BY <1>0, <1>6, <2>2, KindsLeave DEF ReadLine, Ended
  <2> QED
    BY <2>1, <2>2
<1>7. ASSUME NEW s \in Sides, ResetArrives(s) PROVE Kinds'
  BY <1>7 DEF ResetArrives, Kinds
<1>8. CASE UNCHANGED vars
  BY <1>8 DEF vars, Kinds
<1> QED
  BY <1>0, <1>1, <1>2, <1>3, <1>4, <1>5, <1>6, <1>7, <1>8 DEF Next, Server, Client

-----------------------------------------------------------------------------
(* How much is under way. *)

\* Requests and answers are counted by their places.
LEMMA CountsAre ==
  \A q : /\ Asked(q) = Cardinality(Places(q, Asks))
         /\ Unread(q) = Cardinality(Places(q, Packet))
<1> TAKE q
<1>1. {k \in 1..Len(q) : q[k] \in Packet /\ q[k].status # ACKNOWLEDGE} = Places(q, Asks)
  BY DEF Places, Asks, Acks
<1>2. {k \in 1..Len(q) : q[k] \in Packet} = Places(q, Packet)
  BY DEF Places
<1> QED
  BY <1>1, <1>2 DEF Asked, Unread

\* The client adds a request only when it has found nothing to read, or after it
\* has read an answer: so what the server's side holds bounds what is under way.
Answered == AnswerWrites \cup {"returned", "stdin", "command"}
LoadBound ==
  /\ Load <= Room["server"] + 2
  /\ pc["client"] \in Answered => Load <= Room["server"] + 1

LEMMA CountTypes ==
  ASSUME NEW q \in Seq(Items), NEW at, NEW r \in Seq(Items)
  PROVE  /\ Asked(q) \in Nat /\ Unread(r) \in Nat /\ Asked(q) <= Len(q)
         /\ Serving(at) \in Nat /\ Serving(at) <= 1
<1>1. Asked(q) \in Nat /\ Unread(r) \in Nat /\ Asked(q) <= Len(q)
  BY CountFinite, CountsAre
<1> QED
  BY <1>1 DEF Serving

LEMMA LoadTypes ==
  ASSUME TypeOK
  PROVE  /\ inbox["client"] \in Seq(Items) /\ inbox["server"] \in Seq(Items)
         /\ Load \in Nat /\ Room["server"] \in Nat /\ Room["client"] \in Nat
         /\ Asked(inbox["server"]) <= Room["server"]
<1>0. "client" \in Sides /\ "server" \in Sides
  BY DEF Sides
<1>1. inbox["client"] \in Seq(Items) /\ inbox["server"] \in Seq(Items)
  BY <1>0 DEF TypeOK, Items
<1>2. Room["server"] \in Nat /\ Room["client"] \in Nat
  BY <1>0, SessionAssumption
<1>3. Len(inbox["server"]) <= Room["server"] /\ Len(inbox["server"]) \in Nat
  BY <1>0, <1>1 DEF TypeOK
<1>4. /\ Asked(inbox["server"]) \in Nat /\ Unread(inbox["client"]) \in Nat
      /\ Asked(inbox["server"]) <= Len(inbox["server"]) /\ Serving(pc["server"]) \in Nat
  BY <1>1, CountTypes
<1> QED
  BY <1>1, <1>2, <1>3, <1>4 DEF Load

\* The load does not grow, and the client does not come to where less is allowed.
LEMMA LoadKept ==
  ASSUME TypeOK, TypeOK', LoadBound, Load' <= Load,
         pc'["client"] \in Answered => pc["client"] \in Answered
  PROVE  LoadBound'
<1>1. inbox'["client"] \in Seq(Items) /\ inbox'["server"] \in Seq(Items)
  BY DEF TypeOK, Items, Sides
<1>2. /\ Asked(inbox'["server"]) \in Nat /\ Unread(inbox'["client"]) \in Nat
      /\ Serving(pc'["server"]) \in Nat
  BY <1>1, CountTypes
<1> DEFINE l == Load'
<1>3. l \in Nat /\ Load \in Nat /\ Room["server"] \in Nat /\ l <= Load
  BY <1>2, LoadTypes DEF Load
<1> HIDE DEF l
<1>4. /\ l <= Room["server"] + 2
      /\ pc["client"] \in Answered => l <= Room["server"] + 1
  BY <1>3 DEF LoadBound
<1> QED
  BY <1>4 DEF LoadBound, l

LEMMA PutCount ==
  ASSUME NEW s \in Sides, TypeOK, NEW item \in Items, Put(s, item), NEW X
  PROVE  /\ inbox'[s] = inbox[s]
         /\ Cardinality(Places(inbox'[Other(s)], X))
              <= Cardinality(Places(inbox[Other(s)], X)) + (IF item \in X THEN 1 ELSE 0)
<1> DEFINE o == Other(s)
<1>1. o \in Sides /\ o # s /\ inbox[o] \in Seq(Items)
  BY TwoSides DEF TypeOK, Items
<1>2. /\ inbox'[s] = inbox[s]
      /\ inbox'[o] = inbox[o] \/ inbox'[o] = Append(inbox[o], item)
  BY <1>1 DEF Put, TypeOK
<1> HIDE DEF o
<1>3. Cardinality(Places(inbox[o], X)) \in Nat
  BY <1>1, CountFinite
<1>4. CASE inbox'[o] = inbox[o]
  <2>1. Cardinality(Places(inbox'[o], X)) = Cardinality(Places(inbox[o], X))
    BY <1>4
  <2> QED
    BY <1>2, <1>3, <2>1 DEF o
<1>5. CASE inbox'[o] = Append(inbox[o], item)
  <2>1. Cardinality(Places(inbox'[o], X))
          = Cardinality(Places(inbox[o], X)) + (IF item \in X THEN 1 ELSE 0)
    BY <1>1, <1>5, CountAppend
  <2> QED
    BY <1>2, <1>3, <2>1 DEF o
<1> QED
  BY <1>2, <1>4, <1>5

\* What a side that leaves has not read is gone.
LEMMA LoadLeave ==
  ASSUME NEW s \in Sides, NEW how \in Ended, TypeOK, TypeOK', LoadBound, Leave(s, how)
  PROVE  LoadBound'
<1>0. /\ "client" \in Sides /\ "server" \in Sides /\ "client" # "server"
      /\ s = "client" \/ s = "server"
  BY DEF Sides
<1>1. /\ pc'[s] \in Ended /\ inbox'[s] = <<>>
      /\ \A t \in Sides : t # s => pc'[t] = pc[t] /\ inbox'[t] = inbox[t]
  BY DEF Leave, Goto, TypeOK
<1>2. /\ Asked(inbox["server"]) \in Nat /\ Unread(inbox["client"]) \in Nat
      /\ Serving(pc["server"]) \in Nat
  BY LoadTypes, CountTypes
<1>3. CASE s = "client"
  <2>1. /\ inbox'["server"] = inbox["server"] /\ pc'["server"] = pc["server"]
        /\ Unread(inbox'["client"]) = 0
    BY <1>0, <1>1, <1>3, CountEmpty, CountsAre
  <2>2. Load' <= Load
    BY <1>2, <2>1 DEF Load
  <2> QED
    BY <1>1, <1>3, <2>2, LoadKept DEF Ended, Answered, AnswerWrites
<1>4. CASE s = "server"
  <2>1. /\ Asked(inbox'["server"]) = 0 /\ inbox'["client"] = inbox["client"]
        /\ Serving(pc'["server"]) = 0
    <3>1. pc'["server"] \notin {"data", "answer"}
      BY <1>1, <1>4 DEF Ended
    <3> QED
      BY <1>0, <1>1, <1>4, <3>1, CountEmpty, CountsAre DEF Serving
  <2>2. Load' <= Load
    BY <1>2, <2>1 DEF Load
  <2> QED
    BY <1>0, <1>1, <1>4, <2>2, LoadKept
<1> QED
  BY <1>0, <1>3, <1>4

\* The server turns requests into answers.
LEMMA LoadServer ==
  ASSUME SInv, Kinds, LoadBound, TypeOK', Thread("server")
  PROVE  LoadBound'
<1> DEFINE v == "server"
           c == "client"
<1>0. /\ c \in Sides /\ v \in Sides /\ c # v /\ Other(v) = c /\ TypeOK /\ Own(v)
      /\ inbox[v] \in Seq(Items) /\ Data \notin Packet
  BY SessionAssumption DEF Sides, Other, SInv, TypeOK, Items
<1>1. /\ Asked(inbox[v]) \in Nat /\ Unread(inbox[c]) \in Nat
      /\ Serving(pc[v]) \in Nat
      /\ Asked(inbox'[v]) \in Nat /\ Unread(inbox'[c]) \in Nat
      /\ Serving(pc'[v]) \in Nat /\ Serving(pc'[v]) <= 1
  <2>1. /\ inbox[v] \in Seq(Items) /\ inbox[c] \in Seq(Items)
        /\ inbox'[v] \in Seq(Items) /\ inbox'[c] \in Seq(Items)
    BY <1>0 DEF TypeOK, Items
  <2> QED
    BY <2>1, CountTypes
<1>2. CASE WriteKills(v)
  BY <1>0, <1>2, LoadLeave DEF WriteKills, Ended
<1>3. CASE ~WriteKills(v)
  <2>1. pc'[c] = pc[c]
    BY <1>0, <1>3 DEF Thread, ReadHeader, ReadData, ReadEnd, ReadFails, WriteHeader,
       WriteLast, WriteFails, Goto, TypeOK
  <2>2. Load' <= Load
    <3>1. CASE ReadHeader(v)
      <4> DEFINE p == Head(inbox[v])
      <4>1. /\ pc[v] = "header" /\ inbox[v] # <<>> /\ p # Data
            /\ inbox'[v] = Tail(inbox[v]) /\ inbox'[c] = inbox[c]
            /\ pc'[v] = IF DataLen(p) > 0 THEN "data"
                        ELSE IF Answer(p, inc_flag[v]) # {} THEN "answer"
                        ELSE IF Known(p) THEN "returned" ELSE "failed"
        BY <1>0, <3>1 DEF ReadHeader, Goto, TypeOK
      <4>2. Unread(inbox'[c]) = Unread(inbox[c]) /\ Serving(pc[v]) = 0
        BY <4>1 DEF Unread, Serving
      <4>3. Asked(inbox'[v]) = Asked(inbox[v]) - (IF p \in Asks THEN 1 ELSE 0)
        BY <1>0, <4>1, CountTail, CountsAre
      <4>4. p \in Packet
        BY <1>0, <4>1, HeadTailProperties DEF Items
      <4>5. p \notin Asks => Serving(pc'[v]) = 0
        BY <4>1, <4>4, AcksEnd DEF Serving, Asks
      <4> QED
        BY <1>1, <4>2, <4>3, <4>5 DEF Load
    <3>2. CASE ReadData(v)
      <4>1. /\ inbox[v] # <<>> /\ inbox'[v] = Tail(inbox[v]) /\ inbox'[c] = inbox[c]
            /\ pc[v] = "data" /\ pc'[v] = "answer"
        BY <1>0, <3>2 DEF ReadData, Goto, TypeOK
      <4>2. Unread(inbox'[c]) = Unread(inbox[c]) /\ Serving(pc[v]) = 1 /\ Serving(pc'[v]) = 1
        BY <4>1 DEF Unread, Serving
      <4>3. Asked(inbox'[v]) = Asked(inbox[v]) - (IF Head(inbox[v]) \in Asks THEN 1 ELSE 0)
        BY <1>0, <4>1, CountTail, CountsAre
      <4> QED
        BY <1>1, <4>2, <4>3 DEF Load
    <3>3. CASE ReadEnd(v) \/ ReadFails(v) \/ WriteFails(v)
      <4>1. inbox' = inbox /\ pc'[v] = "failed"
        BY <1>0, <3>3 DEF ReadEnd, ReadFails, WriteFails, kernelVars, Goto, TypeOK
      <4>2. /\ Asked(inbox'[v]) = Asked(inbox[v]) /\ Unread(inbox'[c]) = Unread(inbox[c])
            /\ Serving(pc'[v]) = 0
        BY <4>1 DEF Asked, Unread, Serving
      <4> QED
        BY <1>1, <4>2 DEF Load
    <3>4. CASE WriteHeader(v) \/ WriteLast(v)
      <4>1. /\ pc[v] \in {"answer", "answer_data"} /\ pc'[v] \in {"answer_data", "returned"}
            /\ pc'[v] = "answer_data" => pc[v] = "answer"
        BY <1>0, <3>4 DEF WriteHeader, WriteLast, Goto, TypeOK, Writes, Kinds
      <4>2. Serving(pc'[v]) = 0
        BY <4>1 DEF Serving
      <4>3. PICK item \in Items : Put(v, item) /\ (pc[v] = "answer_data" => item = Data)
        <5>1. CASE WriteHeader(v)
          BY <1>0, <5>1 DEF WriteHeader, Own, NoneOrOne, Proper, Items
        <5>2. CASE WriteLast(v)
          BY <1>0, <5>2 DEF WriteLast, Own, NoneOrOne, Proper, Items, DataWrites
        <5> QED
          BY <3>4, <5>1, <5>2
      <4>4. /\ inbox'[v] = inbox[v]
            /\ Unread(inbox'[c]) <= Unread(inbox[c]) + (IF item \in Packet THEN 1 ELSE 0)
        BY <1>0, <4>3, PutCount, CountsAre
      <4>5. Asked(inbox'[v]) = Asked(inbox[v])
        BY <4>4 DEF Asked
      <4>6. CASE pc[v] = "answer"
        <5>1. Serving(pc[v]) = 1
          BY <4>6 DEF Serving
        <5> QED
          BY <1>1, <4>2, <4>4, <4>5, <5>1 DEF Load
      <4>7. CASE pc[v] = "answer_data"
        <5>1. Unread(inbox'[c]) <= Unread(inbox[c])
          BY <1>0, <1>1, <4>3, <4>4, <4>7
        <5> QED
          BY <1>1, <4>2, <4>5, <5>1 DEF Load
      <4> QED
        BY <4>1, <4>6, <4>7
    <3> QED
      BY <1>3, <3>1, <3>2, <3>3, <3>4 DEF Thread
  <2> QED
    BY <1>0, <2>1, <2>2, LoadKept
<1> QED
  BY <1>2, <1>3

\* The client adds at most one request at a time, and its answers ask for none.
LEMMA LoadClient ==
  ASSUME SInv, Kinds, LoadBound, TypeOK', Thread("client")
  PROVE  LoadBound'
<1> DEFINE v == "server"
           c == "client"
<1>0. /\ c \in Sides /\ v \in Sides /\ c # v /\ Other(c) = v /\ TypeOK /\ Own(c)
      /\ inbox[c] \in Seq(Items) /\ Data \notin Packet
  BY SessionAssumption DEF Sides, Other, SInv, TypeOK, Items
<1>1. /\ Asked(inbox[v]) \in Nat /\ Unread(inbox[c]) \in Nat
      /\ Serving(pc[v]) \in Nat
      /\ Asked(inbox'[v]) \in Nat /\ Unread(inbox'[c]) \in Nat
      /\ Serving(pc'[v]) \in Nat
  <2>1. /\ inbox[v] \in Seq(Items) /\ inbox[c] \in Seq(Items)
        /\ inbox'[v] \in Seq(Items) /\ inbox'[c] \in Seq(Items)
    BY <1>0 DEF TypeOK, Items
  <2> QED
    BY <2>1, CountTypes
<1>2. Load \in Nat /\ Room[v] \in Nat
  BY <1>0, LoadTypes
<1>3. CASE ReadHeader(c)
  <2> DEFINE p == Head(inbox[c])
  <2>1. /\ inbox[c] # <<>> /\ p # Data /\ pc'[v] = pc[v]
        /\ inbox'[c] = Tail(inbox[c]) /\ inbox'[v] = inbox[v]
    BY <1>0, <1>3 DEF ReadHeader, Goto, TypeOK
  <2>2. p \in Packet
    BY <1>0, <2>1, HeadTailProperties DEF Items
  <2>3. Unread(inbox'[c]) = Unread(inbox[c]) - 1
    BY <1>0, <2>1, <2>2, CountTail, CountsAre
  <2>4. Load' = Load - 1
    BY <1>1, <2>1, <2>3 DEF Load
  <2> DEFINE l == Load'
  <2> HIDE DEF l
  <2>5. l <= Room[v] + 2 /\ l <= Room[v] + 1
    BY <1>2, <2>4 DEF LoadBound, l
  <2> QED
    BY <2>5 DEF LoadBound, l
<1>4. CASE ReadData(c)
  <2>1. /\ inbox[c] # <<>> /\ inbox'[c] = Tail(inbox[c]) /\ inbox'[v] = inbox[v]
        /\ pc[c] = "data" /\ pc'[v] = pc[v]
    BY <1>0, <1>4 DEF ReadData, Goto, TypeOK
  <2>2. Unread(inbox'[c]) = Unread(inbox[c]) - (IF Head(inbox[c]) \in Packet THEN 1 ELSE 0)
    BY <1>0, <2>1, CountTail, CountsAre
  <2>3. Load' <= Load
    BY <1>1, <2>1, <2>2 DEF Load
  <2> QED
    BY <1>0, <2>1, <2>3, LoadKept DEF Answered, AnswerWrites
<1>5. CASE ReadEnd(c) \/ ReadFails(c) \/ WriteFails(c)
  <2>1. inbox' = inbox /\ pc'[c] = "failed" /\ pc'[v] = pc[v]
    BY <1>0, <1>5 DEF ReadEnd, ReadFails, WriteFails, kernelVars, Goto, TypeOK
  <2>2. Load' <= Load
    BY <1>2, <2>1 DEF Load
  <2> QED
    BY <1>0, <2>1, <2>2, LoadKept DEF Answered, AnswerWrites
<1>6. CASE WriteHeader(c) \/ WriteLast(c)
  <2>1. PICK item \in Items : /\ Put(c, item)
                              /\ pc[c] # "command" => item \notin Asks
    <3>1. Own(c) /\ (pc[c] \in AnswerWrites => writing[c] \subseteq Acks)
      BY <1>0 DEF Kinds
    <3>2. CASE WriteHeader(c)
      BY <1>0, <3>1, <3>2 DEF WriteHeader, Own, NoneOrOne, Proper, Items, Asks, AnswerWrites
    <3>3. CASE WriteLast(c)
      BY <1>0, <3>1, <3>3 DEF WriteLast, Own, NoneOrOne, Proper, Items, Asks,
         AnswerWrites, DataWrites, Writes
    <3> QED
      BY <1>6, <3>2, <3>3
  <2>2. /\ inbox'[c] = inbox[c]
        /\ Asked(inbox'[v]) <= Asked(inbox[v]) + (IF item \in Asks THEN 1 ELSE 0)
    BY <1>0, <2>1, PutCount, CountsAre
  <2>3. /\ pc'[v] = pc[v] /\ pc[c] \in Writes
        /\ pc[c] = "command" => pc'[c] \in {"command_data", "select"}
        /\ pc[c] = "command_data" => pc'[c] = "select"
    <3>1. CASE WriteHeader(c)
      BY <1>0, <3>1 DEF WriteHeader, Goto, TypeOK, Writes
    <3>2. CASE WriteLast(c)
      BY <1>0, <3>2 DEF WriteLast, Goto, TypeOK, Writes
    <3> QED
      BY <1>6, <3>1, <3>2
  <2>4. CASE pc[c] = "command"
    <3>1. Load' <= Load + 1
      <4>1. Asked(inbox'[v]) <= Asked(inbox[v]) + 1
        BY <1>1, <2>2
      <4> QED
        BY <1>1, <2>2, <2>3, <4>1 DEF Load
    <3>2. Load' \in Nat
      BY <1>1 DEF Load
    <3> DEFINE l == Load'
    <3> HIDE DEF l
    <3>3. l <= Room[v] + 2
      BY <1>2, <2>4, <3>1, <3>2 DEF LoadBound, Answered, l
    <3> QED
      BY <2>3, <2>4, <3>3 DEF LoadBound, Answered, AnswerWrites, l
  <2>5. CASE pc[c] # "command"
    <3>1. Load' <= Load
      <4>1. Asked(inbox'[v]) <= Asked(inbox[v])
        BY <1>1, <2>1, <2>2, <2>5
      <4> QED
        BY <1>1, <2>2, <2>3, <4>1 DEF Load
    <3>2. pc'[c] \in Answered => pc[c] \in Answered
      BY <2>3, <2>5 DEF Writes, Answered, AnswerWrites
    <3> QED
      BY <1>0, <3>1, <3>2, LoadKept
  <2> QED
    BY <2>4, <2>5
<1>7. CASE WriteKills(c)
  BY <1>0, <1>7, LoadLeave DEF WriteKills, Ended
<1> QED
  BY <1>3, <1>4, <1>5, <1>6, <1>7 DEF Thread

LEMMA LoadStep ==
  ASSUME SInv, Kinds, LoadBound, TypeOK', [Next]_vars
  PROVE  LoadBound'
<1> DEFINE v == "server"
           c == "client"
<1>0. c \in Sides /\ v \in Sides /\ TypeOK
  BY DEF Sides, SInv
<1>1. ASSUME NEW s \in Sides, Thread(s) PROVE LoadBound'
  BY <1>1, LoadServer, LoadClient DEF Sides
<1>2. ASSUME inbox' = inbox,
             pc'[v] \in {"data", "answer"} => pc[v] \in {"data", "answer"},
             pc'[c] \in Answered => pc[c] \in Answered
      PROVE  LoadBound'
  <2>1. /\ Asked(inbox[v]) \in Nat /\ Unread(inbox[c]) \in Nat
        /\ Serving(pc[v]) \in Nat /\ Serving(pc'[v]) \in Nat
    BY LoadTypes, CountTypes, <1>0
  <2>2. Serving(pc'[v]) <= Serving(pc[v])
    BY <1>2 DEF Serving
  <2>3. Load' <= Load
    BY <1>2, <2>1, <2>2 DEF Load
  <2> QED
    BY <1>0, <1>2, <2>3, LoadKept
<1>3. CASE Accept \/ ServerSelect \/ Establish \/ EstablishFails \/ Type
  BY <1>0, <1>2, <1>3 DEF Accept, ServerSelect, Establish, EstablishFails, Type,
     kernelVars, Goto, TypeOK, Answered, AnswerWrites
<1>4. CASE AcceptRefuses \/ Interrupt
  BY <1>0, <1>4, LoadLeave DEF AcceptRefuses, Interrupt, Ended
<1>5. CASE ServerReturn
  <2>1. CASE is_client_status("server", CANCEL)
    BY <1>0, <1>5, <2>1, LoadLeave DEF ServerReturn, Ended
  <2>2. CASE ~is_client_status("server", CANCEL)
    BY <1>0, <1>2, <1>5, <2>2 DEF ServerReturn, kernelVars, Goto, TypeOK
  <2> QED
    BY <2>1, <2>2
<1>6. CASE ClientSelect
  <2>1. CASE Readable("client")
    <3>1. pc'[c] = "header"
      BY <1>0, <1>6, <2>1 DEF ClientSelect, Goto, TypeOK
    <3>2. inbox' = inbox /\ pc'[v] = pc[v]
      BY <1>0, <1>6 DEF ClientSelect, Goto, TypeOK, kernelVars
    <3> QED
      BY <1>2, <3>1, <3>2 DEF Answered, AnswerWrites
  \* Nothing to read: all that is under way is on the server's side.
  <2>2. CASE ~Readable("client")
    <3>1. inbox[c] = <<>> /\ inbox' = inbox /\ pc'[v] = pc[v]
      BY <1>0, <1>6, <2>2 DEF ClientSelect, Readable, kernelVars, Goto, TypeOK
    <3>2. Unread(inbox[c]) = 0
      BY <3>1, CountEmpty, CountsAre
    <3>3. /\ Asked(inbox[v]) \in Nat /\ Asked(inbox[v]) <= Room[v] /\ Room[v] \in Nat
          /\ Serving(pc[v]) \in Nat /\ Serving(pc[v]) <= 1
      BY <1>0, LoadTypes, CountTypes
    <3>4. Load <= Room[v] + 1 /\ Load <= Room[v] + 2
      BY <3>2, <3>3 DEF Load
    <3>5. Load' = Load
      BY <3>1 DEF Load
    <3> QED
      BY <3>4, <3>5 DEF LoadBound
  <2> QED
    BY <2>1, <2>2
<1>7. CASE ClientReturn
  <2>1. CASE pc["client"] = "failed" \/ is_client_status("client", CANCEL)
    BY <1>0, <1>7, <2>1, LoadLeave DEF ClientReturn, Ended
  <2>2. CASE ~(pc["client"] = "failed" \/ is_client_status("client", CANCEL))
    BY <1>0, <1>2, <1>7, <2>2 DEF ClientReturn, kernelVars, Goto, TypeOK, Answered
  <2> QED
    BY <2>1, <2>2
<1>8. CASE ReadLine
  <2>1. CASE line \in Commands
    BY <1>0, <1>2, <1>8, <2>1 DEF ReadLine, kernelVars, Goto, TypeOK, Answered
  <2>2. CASE line \notin Commands
    BY <1>0, <1>8, <2>2, LoadLeave DEF ReadLine, Ended
  <2> QED
    BY <2>1, <2>2
<1>9. ASSUME NEW s \in Sides, ResetArrives(s) PROVE LoadBound'
  BY <1>2, <1>9 DEF ResetArrives
<1>10. CASE UNCHANGED vars
  BY <1>2, <1>10 DEF vars
<1> QED
  BY <1>0, <1>1, <1>3, <1>4, <1>5, <1>6, <1>7, <1>8, <1>9, <1>10 DEF Next, Server, Client

LEMMA LoadInit == Init => LoadBound
<1> SUFFICES ASSUME Init PROVE LoadBound
  OBVIOUS
<1>1. /\ inbox["server"] = <<>> /\ inbox["client"] = <<>>
      /\ pc["server"] = "listen" /\ pc["client"] = "start"
  BY DEF Init, Sides
<1>2. Load = 0
  BY <1>1, CountEmpty, CountsAre DEF Load, Serving
<1>3. Room["server"] \in Nat
  BY SessionAssumption DEF Sides
<1> QED
  BY <1>2, <1>3 DEF LoadBound

LEMMA LoadInvariance == Spec => [](SInv /\ Kinds /\ LoadBound)
<1> DEFINE I == SInv /\ Kinds /\ LoadBound
<1>1. Init => I
  BY SessionInit, KindsInit, LoadInit
<1>2. I /\ [Next]_vars => I'
  <2> SUFFICES ASSUME SInv, Kinds, LoadBound, [Next]_vars PROVE I'
    OBVIOUS
  <2>1. SInv'
    BY SessionStep
  <2>2. TypeOK /\ TypeOK'
    BY <2>1 DEF SInv
  <2>3. Kinds'
    BY <2>2, KindsStep
  <2>4. LoadBound'
    BY <2>2, LoadStep
  <2> QED
    BY <2>1, <2>3, <2>4
<1> HIDE DEF I
<1>3. Spec => []I
  BY <1>1, <1>2, PTL DEF Spec
<1> QED
  BY <1>3 DEF I

\* However fast commands are typed, the requests under way, the one being served
\* and the answers the client has not read are at most two more than what the
\* server's kernel holds, whatever room there is for the answers: ClientSelect
\* reads the connection before stdin.
THEOREM SessionBacklog == Spec => []BacklogBounded
<1>1. LoadBound => BacklogBounded
  BY DEF LoadBound, BacklogBounded
<1> QED
  BY <1>1, LoadInvariance, PTL

-----------------------------------------------------------------------------
(* The items of one kind on a connection. *)

Part(x, X)  == IF x \in X THEN <<x>> ELSE <<>>
Parts(q, X) == [k \in 1..Len(q) |-> Part(q[k], X)]

LEMMA PartsType ==
  ASSUME NEW T, NEW q \in Seq(T), NEW X
  PROVE  /\ Parts(q, X) \in Seq(Seq(X)) /\ Selected(q, X) = FlattenSeq(Parts(q, X))
         /\ Selected(q, X) \in Seq(X) /\ \A x : Part(x, X) \in Seq(X)
<1>1. \A x : Part(x, X) \in Seq(X)
  BY DEF Part
<1>2. Len(q) \in Nat
  OBVIOUS
<1>3. Parts(q, X) \in Seq(Seq(X))
  BY <1>1, <1>2 DEF Parts
<1>4. Selected(q, X) = FlattenSeq(Parts(q, X))
  BY DEF Selected, Parts, Part
<1>5. FlattenSeq(Parts(q, X)) \in Seq(X)
  BY <1>3, FlattenType
<1> QED
  BY <1>1, <1>3, <1>4, <1>5

LEMMA SelectedEmpty == ASSUME NEW X PROVE Selected(<<>>, X) = <<>>
<1>1. <<>> \in Seq({})
  OBVIOUS
<1>2. Parts(<<>>, X) \in Seq(Seq(X)) /\ Selected(<<>>, X) = FlattenSeq(Parts(<<>>, X))
  BY <1>1, PartsType
<1>3. Len(Parts(<<>>, X)) = 0
  BY DEF Parts
<1>4. Parts(<<>>, X) = <<>>
  BY <1>2, <1>3, EmptySeq
<1> QED
  BY <1>2, <1>4, FlattenEmpty

LEMMA SelectedAppend ==
  ASSUME NEW T, NEW q \in Seq(T), NEW x \in T, NEW X
  PROVE  Selected(Append(q, x), X) = Selected(q, X) \o Part(x, X)
<1> DEFINE r == Append(q, x)
           n == Len(q)
           s == Parts(q, X)
           y == Part(x, X)
<1>1. /\ r \in Seq(T) /\ n \in Nat /\ Len(r) = n + 1 /\ r[n + 1] = x
      /\ \A k \in 1..n : r[k] = q[k]
  BY AppendProperties
<1>2. s \in Seq(Seq(X)) /\ y \in Seq(X) /\ Len(s) = n
  <2>1. s \in Seq(Seq(X)) /\ y \in Seq(X)
    BY PartsType
  <2>2. Len(s) = n
    BY <1>1 DEF Parts
  <2> QED
    BY <2>1, <2>2
<1>3. Parts(r, X) \in Seq(Seq(X)) /\ Len(Parts(r, X)) = n + 1
  <2>1. Parts(r, X) \in Seq(Seq(X))
    BY <1>1, PartsType
  <2>2. Len(Parts(r, X)) = n + 1
    BY <1>1 DEF Parts
  <2> QED
    BY <2>1, <2>2
<1>4. Parts(r, X) = Append(s, y)
  <2>1. /\ Append(s, y) \in Seq(Seq(X)) /\ Len(Append(s, y)) = n + 1
        /\ Append(s, y)[n + 1] = y /\ \A k \in 1..n : Append(s, y)[k] = s[k]
    <3> HIDE DEF s, y, n
    <3> QED
      BY <1>2, AppendProperties
  <2>2. ASSUME NEW k \in 1..n + 1 PROVE Parts(r, X)[k] = Append(s, y)[k]
    <3>0. Parts(r, X)[k] = Part(r[k], X)
      BY <1>1 DEF Parts
    <3>1. CASE k = n + 1
      BY <1>1, <2>1, <3>0, <3>1
    <3>2. CASE k # n + 1
      <4>1. k \in 1..n
        BY <1>1, <3>2
      <4>2. s[k] = Part(q[k], X) /\ r[k] = q[k]
        BY <1>1, <4>1 DEF Parts
      <4> QED
        BY <2>1, <3>0, <4>1, <4>2
    <3> QED
      BY <3>1, <3>2
  <2> HIDE DEF r, s, y
  <2> DEFINE a == Parts(r, X)
             b == Append(s, y)
  <2>3. a \in Seq(Seq(X)) /\ b \in Seq(Seq(X)) /\ Len(a) = n + 1 /\ Len(b) = n + 1
    BY <1>3, <2>1
  <2>4. \A k \in 1..n + 1 : a[k] = b[k]
    BY <2>2
  <2> HIDE DEF a, b, n
  <2>5. a = b
    BY <2>3, <2>4, SeqEqual
  <2> QED
    BY <2>5 DEF a, b
<1>5. FlattenSeq(Append(s, y)) = FlattenSeq(s) \o y
  <2> HIDE DEF s, y
  <2> QED
    BY <1>2, FlattenAppend
<1>6. Selected(q, X) = FlattenSeq(s)
  BY PartsType
<1>7. Selected(r, X) = FlattenSeq(Parts(r, X))
  BY <1>1, PartsType
<1> QED
  BY <1>4, <1>5, <1>6, <1>7

\* The first item is the first of the selected ones, or none of them.
Leads(q, X) == Selected(q, X) = Part(Head(q), X) \o Selected(Tail(q), X)

LEMMA LeadsAppend ==
  ASSUME NEW T, NEW X, NEW q \in Seq(T), NEW x \in T, q = <<>> \/ Leads(q, X)
  PROVE  Leads(Append(q, x), X)
<1> DEFINE r == Append(q, x)
<1>1. /\ Head(r) = IF q = <<>> THEN x ELSE Head(q)
      /\ Tail(r) = IF q = <<>> THEN <<>> ELSE Append(Tail(q), x)
  BY HeadTailAppend
<1>2. Selected(r, X) = Selected(q, X) \o Part(x, X)
  BY SelectedAppend
<1>3. \A y : Part(y, X) \in Seq(X)
  BY PartsType
<1> HIDE DEF r
<1>4. CASE q = <<>>
  <2>1. Selected(r, X) = <<>> \o Part(x, X) /\ Selected(Tail(r), X) = <<>>
    BY <1>1, <1>2, <1>4, SelectedEmpty
  <2>2. Part(x, X) \in Seq(X)
    BY <1>3
  <2>3. <<>> \o Part(x, X) = Part(x, X) \o <<>>
    <3> DEFINE y == Part(x, X)
    <3> HIDE DEF y
    <3>1. <<>> \o y = y /\ y \o <<>> = y
      BY <2>2, ConcatEmptySeq DEF y
    <3> QED
      BY <3>1 DEF y
  <2> QED
    BY <1>1, <1>4, <2>1, <2>3 DEF Leads, r
<1>5. CASE q # <<>>
  <2>1. Tail(q) \in Seq(T)
    BY <1>5, HeadTailProperties
  <2> DEFINE a == Part(Head(q), X)
             b == Selected(Tail(q), X)
             c == Part(x, X)
  <2>2. Selected(Append(Tail(q), x), X) = b \o c
    BY <2>1, SelectedAppend
  <2>3. a \in Seq(X) /\ b \in Seq(X) /\ c \in Seq(X)
    BY <1>3, <2>1, PartsType
  <2>4. Selected(q, X) = a \o b
    BY <1>5 DEF Leads
  <2>5. Selected(r, X) = (a \o b) \o c
    BY <1>2, <2>4
  <2>6. Part(Head(r), X) = a /\ Selected(Tail(r), X) = b \o c
    BY <1>1, <1>5, <2>2
  <2> HIDE DEF a, b, c
  <2>7. (a \o b) \o c = a \o (b \o c)
    BY <2>3, ConcatAssociative
  <2> QED
    BY <2>5, <2>6, <2>7 DEF Leads, r
<1> QED
  BY <1>4, <1>5

LEMMA SelectedHead ==
  ASSUME NEW T, NEW X, NEW q \in Seq(T), q # <<>>
  PROVE  Leads(q, X)
<1> DEFINE S == {n \in Nat : \A r \in Seq(T) : r # <<>> /\ Len(r) <= n => Leads(r, X)}
<1>1. 0 \in S
  <2>1. ASSUME NEW r \in Seq(T), r # <<>> PROVE ~(Len(r) <= 0)
    <3>1. Len(r) \in Nat \ {0}
      BY <2>1, EmptySeq
    <3> QED
      BY <3>1
  <2> QED
    BY <2>1
<1>2. ASSUME NEW n \in S PROVE n + 1 \in S
  <2>1. n \in Nat /\ n + 1 \in Nat /\ \A r \in Seq(T) : r # <<>> /\ Len(r) <= n => Leads(r, X)
    OBVIOUS
  <2> SUFFICES ASSUME NEW r \in Seq(T), r # <<>>, Len(r) <= n + 1 PROVE Leads(r, X)
    BY <2>1
  <2>2. PICK s \in Seq(T), x \in T : r = Append(s, x)
    BY SequenceEmptyOrAppend
  <2>3. Len(r) = Len(s) + 1 /\ Len(s) \in Nat
    BY <2>2, AppendProperties
  <2>4. Len(s) <= n
    BY <2>1, <2>3
  <2>5. s = <<>> \/ Leads(s, X)
    BY <2>1, <2>4
  <2> QED
    BY <2>2, <2>5, LeadsAppend
<1>3. S = Nat
  <2> HIDE DEF S
  <2>1. S \subseteq Nat
    BY DEF S
  <2> QED
    BY <1>1, <1>2, <2>1, Ind
<1>4. Len(q) \in S
  <2> HIDE DEF S
  <2> QED
    BY <1>3
<1> QED
  BY <1>4

\* One item more, and one less.
LEMMA SelectedMore ==
  ASSUME NEW T, NEW q \in Seq(T), NEW x \in T, NEW X
  PROVE  Selected(Append(q, x), X) = IF x \in X THEN Append(Selected(q, X), x)
                                     ELSE Selected(q, X)
<1> DEFINE s == Selected(q, X)
<1>1. s \in Seq(X) /\ Selected(Append(q, x), X) = s \o Part(x, X)
  BY PartsType, SelectedAppend
<1> HIDE DEF s
<1>2. x \in X => s \o <<x>> = Append(s, x)
  BY <1>1, AppendIsConcat
<1>3. s \o <<>> = s
  BY <1>1, ConcatEmptySeq
<1> QED
  BY <1>1, <1>2, <1>3 DEF Part, s

LEMMA SelectedLess ==
  ASSUME NEW T, NEW q \in Seq(T), q # <<>>, NEW X
  PROVE  /\ Head(q) \in X => /\ Selected(q, X) # <<>>
                             /\ Head(Selected(q, X)) = Head(q)
                             /\ Tail(Selected(q, X)) = Selected(Tail(q), X)
         /\ Head(q) \notin X => Selected(Tail(q), X) = Selected(q, X)
<1> DEFINE h == Head(q)
           s == Selected(Tail(q), X)
           a == Part(h, X)
<1>1. Tail(q) \in Seq(T)
  BY HeadTailProperties
<1>2. s \in Seq(X)
  BY <1>1, PartsType
<1>3. Selected(q, X) = a \o s
  BY SelectedHead DEF Leads
<1>4. CASE h \in X
  <2>1. a = <<h>> /\ a \in Seq(X) /\ Len(a) = 1 /\ a[1] = h
    BY <1>4 DEF Part
  <2> HIDE DEF a, s, h
  <2> DEFINE c == a \o s
  <2>2. /\ c \in Seq(X) /\ Len(c) = 1 + Len(s)
        /\ \A i \in 1..Len(c) : c[i] = IF i <= 1 THEN a[i] ELSE s[i - 1]
    BY <1>2, <2>1, ConcatProperties
  <2> HIDE DEF c
  <2>3. Len(s) \in Nat
    BY <1>2
  <2>4. c # <<>>
    BY <2>2, <2>3, EmptySeq
  <2>5. c[1] = h
    <3>1. 1 \in 1..Len(c)
      BY <2>2, <2>3
    <3> QED
      BY <2>1, <2>2, <3>1
  <2>6. Head(c) = h
    BY <2>2, <2>4, <2>5
  <2>7. /\ Tail(c) \in Seq(X) /\ Len(Tail(c)) = Len(s)
        /\ \A i \in 1..Len(s) : Tail(c)[i] = c[i + 1]
    <3>1. /\ Tail(c) \in Seq(X) /\ Len(Tail(c)) = Len(c) - 1
          /\ \A i \in 1..Len(Tail(c)) : Tail(c)[i] = c[i + 1]
      BY <2>2, <2>4, HeadTailProperties
    <3>2. Len(c) - 1 = Len(s)
      BY <2>2, <2>3
    <3> QED
      BY <3>1, <3>2
  <2>8. \A i \in 1..Len(s) : c[i + 1] = s[i]
    <3> SUFFICES ASSUME NEW i \in 1..Len(s) PROVE c[i + 1] = s[i]
      OBVIOUS
    <3>1. i + 1 \in 1..Len(c) /\ ~(i + 1 <= 1) /\ (i + 1) - 1 = i
      BY <2>2, <2>3
    <3> QED
      BY <2>2, <3>1
  <2>9. Tail(c) = s
    <3> DEFINE d == Tail(c)
    <3>1. d \in Seq(X) /\ Len(d) = Len(s) /\ \A i \in 1..Len(d) : d[i] = s[i]
      BY <2>7, <2>8
    <3> HIDE DEF d
    <3>2. d = s
      BY <1>2, <3>1, SeqEqual
    <3> QED
      BY <3>2 DEF d
  <2> QED
    BY <1>3, <1>4, <2>4, <2>6, <2>9 DEF c, s, h
<1>5. CASE h \notin X
  <2>1. a = <<>>
    BY <1>5 DEF Part
  <2> HIDE DEF s
  <2>2. <<>> \o s = s
    BY <1>2, ConcatEmptySeq
  <2> QED
    BY <1>3, <1>5, <2>1, <2>2 DEF s
<1> QED
  BY <1>4, <1>5

-----------------------------------------------------------------------------
(* What the two sides say. *)

ServerSays ==
  {Acknowledge(x) : x \in {START_TEXT, ENQUIRY, WAKEUP, IDLE, ESCAPE}}
    \cup {Refuse(WAKEUP), Refuse(IDLE)}
    \cup {assemble_header(ENQUIRY, ENQUIRY_NORMAL, 0),
          assemble_header(ENQUIRY, ENQUIRY_TIME, TIME_LEN)}
ClientSays == Commands \cup {Acknowledge(ENQUIRY)}

Says(s) == IF s = "server" THEN ServerSays ELSE ClientSays

\* The server answers; the client asks, and acknowledges an enquiry.  Either has
\* something to write exactly where it is about to.
Busy == Writes \cup {"data"}
Spoken ==
  \A s \in Sides : /\ writing[s] \subseteq Says(s)
                   /\ inbox[s] \in Seq(Says(Other(s)) \cup {Data})
                   /\ pc[s] \in Busy <=> writing[s] # {}

\* A side that has the other down as closed says so in both flags, and then
\* does nothing but leave.
Marks ==
  /\ \A s \in Sides : inc_flag[s] = CANCEL /\ pc[s] \notin Ended =>
       pc[s] \in {"returned", "failed"} /\ out_flag[s] = CANCEL
  /\ inc_flag["server"] \in {NULL_BYTE, IDLE, CANCEL}
  /\ pc["server"] = "listen" => inc_flag["server"] = NULL_BYTE
  /\ pc["client"] = "start" => inc_flag["client"] = NULL_BYTE

LEMMA SaysWhat ==
  /\ ServerSays \subseteq Packet /\ ClientSays \subseteq Packet
  /\ Data \notin Packet
  /\ \A p \in ClientSays : p # Acknowledge(ESCAPE)
  /\ Acknowledge(ENQUIRY) \notin Commands
<1>1. Commands \subseteq Packet /\ Data \notin Packet
  BY SessionAssumption
<1>2. \A p \in Commands : p.status # ACKNOWLEDGE
  BY SessionAssumption
<1>3. /\ \A x \in Byte : Acknowledge(x) \in Packet /\ Refuse(x) \in Packet
      /\ \A x : Acknowledge(x).status = ACKNOWLEDGE
      /\ assemble_header(ENQUIRY, ENQUIRY_NORMAL, 0) \in Packet
      /\ assemble_header(ENQUIRY, ENQUIRY_TIME, TIME_LEN) \in Packet
  BY DEF Acknowledge, Refuse, assemble_header, Packet, Byte, ACKNOWLEDGE,
     NEG_ACKNOWLEDGE, ENQUIRY, ENQUIRY_NORMAL, ENQUIRY_TIME, TIME_LEN
<1>4. {START_TEXT, ENQUIRY, WAKEUP, IDLE, ESCAPE} \subseteq Byte
  BY DEF START_TEXT, ENQUIRY, WAKEUP, IDLE, ESCAPE, Byte
<1>5. ServerSays \subseteq Packet
  BY <1>3, <1>4 DEF ServerSays
<1>6. Acknowledge(ENQUIRY) # Acknowledge(ESCAPE)
  BY DEF Acknowledge, assemble_header, ENQUIRY, ESCAPE
<1> QED
  BY <1>1, <1>2, <1>3, <1>4, <1>5, <1>6 DEF ClientSays

\* Every answer is one of the server's; to what the server says the client has
\* no answer but an acknowledgement.
LEMMA AnswerSays ==
  ASSUME NEW s \in Sides, NEW p \in Says(Other(s)), NEW inc
  PROVE  /\ Answer(p, inc) \subseteq Says(s)
         /\ DataLen(p) > 0 => Answer(p, inc) # {}
<1>1. Answer(p, inc) \subseteq ServerSays
  BY DEF Answer, ServerSays
<1>2. ASSUME p \in ServerSays PROVE Answer(p, inc) \subseteq {Acknowledge(ENQUIRY)}
  <2>1. \/ p.status \in {ACKNOWLEDGE, NEG_ACKNOWLEDGE}
        \/ p.status = ENQUIRY /\ p.control1 \in {ENQUIRY_NORMAL, ENQUIRY_TIME}
    BY <1>2 DEF ServerSays, Acknowledge, Refuse, assemble_header
  <2> QED
    BY <2>1 DEF Answer, ACKNOWLEDGE, NEG_ACKNOWLEDGE, START_TEXT, ENQUIRY, WAKEUP,
       IDLE, ESCAPE, ENQUIRY_NORMAL, ENQUIRY_TIME, ENQUIRY_RETURN, ENQUIRY_RTIME
<1>3. Answer(p, inc) \subseteq Says(s)
  BY <1>1, <1>2 DEF ClientSays, Says, Sides, Other
<1>4. ASSUME DataLen(p) > 0 PROVE Answer(p, inc) # {}
  <2>1. CASE p.status = START_TEXT
    <3>0. DataLen(p) = p.control1 * p.control2
      BY <2>1, StatusesDiffer DEF DataLen
    <3>1. p.control1 * p.control2 > 0
      BY <1>4, <3>0
    <3>2. ~IsLongText(p)
      BY <3>1 DEF IsLongText
    <3> QED
      BY <2>1, <3>2 DEF Answer
  <2>2. CASE p.status # START_TEXT
    <3>1. p.status = ENQUIRY /\ p.control1 = ENQUIRY_TIME
      BY <1>4, <2>2 DEF DataLen
    <3> QED
      BY <2>2, <3>1 DEF Answer
  <2> QED
    BY <2>1, <2>2
<1> QED
  BY <1>3, <1>4

LEMMA SpokenInit == Init => Spoken
<1> SUFFICES ASSUME Init, NEW s \in Sides
             PROVE  /\ writing[s] \subseteq Says(s)
                    /\ inbox[s] \in Seq(Says(Other(s)) \cup {Data})
                    /\ pc[s] \in Busy <=> writing[s] # {}
  BY DEF Spoken
<1>1. /\ writing[s] = {} /\ inbox[s] = <<>>
      /\ pc[s] \in {"start", "listen"}
  BY DEF Init
<1>2. <<>> \in Seq(Says(Other(s)) \cup {Data})
  OBVIOUS
<1> QED
  BY <1>1, <1>2 DEF Busy, Writes

LEMMA SpokenLeave ==
  ASSUME NEW s \in Sides, NEW how \in Ended, TypeOK, Spoken, Leave(s, how)
  PROVE  Spoken'
<1> SUFFICES ASSUME NEW t \in Sides
             PROVE  /\ writing'[t] \subseteq Says(t)
                    /\ inbox'[t] \in Seq(Says(Other(t)) \cup {Data})
                    /\ pc'[t] \in Busy <=> writing'[t] # {}
  BY DEF Spoken
<1>1. CASE t = s
  <2>1. pc'[t] \in Ended /\ writing'[t] = {} /\ inbox'[t] = <<>>
    BY <1>1 DEF Leave, Goto, TypeOK
  <2>2. <<>> \in Seq(Says(Other(t)) \cup {Data})
    OBVIOUS
  <2> QED
    BY <2>1, <2>2 DEF Busy, Writes, Ended
<1>2. CASE t # s
  <2>1. pc'[t] = pc[t] /\ writing'[t] = writing[t] /\ inbox'[t] = inbox[t]
    BY <1>2 DEF Leave, Goto, TypeOK
  <2> QED
    BY <2>1 DEF Spoken
<1> QED
  BY <1>1, <1>2

\* A step of s that leaves the other side's thread alone.
LEMMA SpokenSide ==
  ASSUME NEW s \in Sides, TypeOK, Spoken,
         pc'[Other(s)] = pc[Other(s)], writing'[Other(s)] = writing[Other(s)],
         inbox'[s] = inbox[s] \/ (inbox[s] # <<>> /\ inbox'[s] = Tail(inbox[s])),
         \/ inbox'[Other(s)] = inbox[Other(s)]
         \/ \E x \in Says(s) \cup {Data} : inbox'[Other(s)] = Append(inbox[Other(s)], x),
         writing'[s] \subseteq Says(s), pc'[s] \in Busy <=> writing'[s] # {}
  PROVE  Spoken'
<1> DEFINE o == Other(s)
<1>0. o \in Sides /\ Other(o) = s /\ \A t \in Sides : t = s \/ t = o
  BY TwoSides
<1>1. /\ inbox[s] \in Seq(Says(o) \cup {Data}) /\ inbox[o] \in Seq(Says(s) \cup {Data})
      /\ writing[o] \subseteq Says(o) /\ (pc[o] \in Busy <=> writing[o] # {})
  BY <1>0 DEF Spoken
<1>2. inbox'[s] \in Seq(Says(o) \cup {Data})
  BY <1>1, HeadTailProperties
<1> HIDE DEF o
<1>3. inbox'[o] \in Seq(Says(s) \cup {Data})
  <2>1. ASSUME NEW x \in Says(s) \cup {Data}
        PROVE  Append(inbox[o], x) \in Seq(Says(s) \cup {Data})
    BY <1>1, AppendProperties
  <2>2. \/ inbox'[o] = inbox[o]
        \/ \E x \in Says(s) \cup {Data} : inbox'[o] = Append(inbox[o], x)
    BY DEF o
  <2> QED
    BY <1>1, <2>1, <2>2
<1> QED
  BY <1>0, <1>1, <1>2, <1>3 DEF Spoken, o

LEMMA SpokenThread ==
  ASSUME NEW s \in Sides, TypeOK, Spoken, Thread(s)
  PROVE  Spoken'
<1> DEFINE o == Other(s)
<1>0. o \in Sides /\ o # s
  BY TwoSides
<1>1. /\ inbox[s] \in Seq(Says(o) \cup {Data}) /\ writing[s] \subseteq Says(s)
      /\ pc[s] \in Busy <=> writing[s] # {}
  BY DEF Spoken
<1>2. CASE ReadHeader(s)
  <2> DEFINE p == Head(inbox[s])
             a == Answer(p, inc_flag[s])
  <2>1. /\ inbox[s] # <<>> /\ p # Data
        /\ inbox'[s] = Tail(inbox[s]) /\ inbox'[o] = inbox[o]
        /\ writing'[s] = a /\ writing'[o] = writing[o] /\ pc'[o] = pc[o]
        /\ pc'[s] = IF DataLen(p) > 0 THEN "data" ELSE IF a # {} THEN "answer"
                    ELSE IF Known(p) THEN "returned" ELSE "failed"
    BY <1>0, <1>2 DEF ReadHeader, TypeOK, Goto
  <2>2. p \in Says(o)
    <3>1. p \in Says(o) \cup {Data}
      BY <1>1, <2>1, HeadTailProperties
    <3> QED
      BY <2>1, <3>1
  <2>3. a \subseteq Says(s) /\ (DataLen(p) > 0 => a # {})
    BY <2>2, AnswerSays
  <2>4. pc'[s] \in Busy <=> a # {}
    BY <2>1, <2>3 DEF Busy, Writes
  <2> HIDE DEF a
  <2> QED
    BY <2>1, <2>3, <2>4, SpokenSide
<1>3. CASE ReadData(s)
  <2>1. /\ inbox[s] # <<>> /\ writing' = writing
        /\ inbox'[s] = Tail(inbox[s]) /\ inbox'[o] = inbox[o]
        /\ pc'[o] = pc[o] /\ pc[s] = "data" /\ pc'[s] = "answer"
    BY <1>0, <1>3 DEF ReadData, TypeOK, Goto
  <2>2. pc'[s] \in Busy /\ pc[s] \in Busy
    BY <2>1 DEF Busy, Writes
  <2> QED
    BY <1>1, <2>1, <2>2, SpokenSide
<1>4. CASE ReadEnd(s) \/ ReadFails(s) \/ WriteFails(s)
  <2>1. /\ inbox' = inbox /\ writing'[s] = {} /\ writing'[o] = writing[o]
        /\ pc'[o] = pc[o] /\ pc'[s] = "failed"
    BY <1>0, <1>4 DEF ReadEnd, ReadFails, WriteFails, TypeOK, Goto, kernelVars
  <2>2. pc'[s] \notin Busy
    BY <2>1 DEF Busy, Writes
  <2> QED
    BY <2>1, <2>2, SpokenSide
<1>5. CASE WriteHeader(s) \/ WriteLast(s)
  <2>1. PICK x \in Says(s) \cup {Data} : Put(s, x)
    BY <1>1, <1>5 DEF WriteHeader, WriteLast
  <2>2. /\ inbox'[s] = inbox[s]
        /\ inbox'[o] = inbox[o] \/ inbox'[o] = Append(inbox[o], x)
        /\ pc'[o] = pc[o] /\ writing'[o] = writing[o]
    BY <1>0, <1>5, <2>1 DEF Put, WriteHeader, WriteLast, Goto, TypeOK
  <2>3. writing'[s] \subseteq Says(s) /\ (pc'[s] \in Busy <=> writing'[s] # {})
    <3>1. CASE WriteHeader(s)
      BY <1>1, <3>1 DEF WriteHeader, Goto, TypeOK, Busy, Writes
    <3>2. CASE WriteLast(s)
      BY <1>1, <3>2 DEF WriteLast, Goto, TypeOK, Busy, Writes
    <3> QED
      BY <1>5, <3>1, <3>2
  <2> QED
    BY <2>2, <2>3, SpokenSide
<1>6. CASE WriteKills(s)
  BY <1>6, SpokenLeave DEF WriteKills, Ended
<1> QED
  BY <1>2, <1>3, <1>4, <1>5, <1>6 DEF Thread

LEMMA SpokenStep ==
  ASSUME TypeOK, Spoken, [Next]_vars
  PROVE  Spoken'
<1>0. /\ "client" \in Sides /\ "server" \in Sides /\ "client" # "server"
      /\ Other("client") = "server" /\ Other("server") = "client"
  BY DEF Sides, Other
<1>1. ASSUME NEW s \in Sides, Thread(s) PROVE Spoken'
  BY <1>1, SpokenThread
<1>2. CASE AcceptRefuses \/ Interrupt
  BY <1>0, <1>2, SpokenLeave DEF AcceptRefuses, Interrupt, Ended
\* A step that moves only a thread which writes nothing.
<1>3. ASSUME inbox' = inbox, writing' = writing,
             \A s \in Sides : pc'[s] = pc[s] \/ (pc[s] \notin Busy /\ pc'[s] \notin Busy)
      PROVE  Spoken'
  BY <1>3 DEF Spoken
<1>4. CASE Accept \/ ServerSelect \/ Establish \/ EstablishFails \/ ClientSelect \/ Type
  BY <1>0, <1>3, <1>4 DEF Accept, ServerSelect, Establish, EstablishFails, ClientSelect,
     Type, kernelVars, Goto, TypeOK, Busy, Writes
<1>5. CASE ServerReturn
  <2>1. CASE is_client_status("server", CANCEL)
    BY <1>0, <1>5, <2>1, SpokenLeave DEF ServerReturn, Ended
  <2>2. CASE ~is_client_status("server", CANCEL)
    BY <1>0, <1>3, <1>5, <2>2 DEF ServerReturn, kernelVars, Goto, TypeOK, Busy, Writes
  <2> QED
    BY <2>1, <2>2
<1>6. CASE ClientReturn
  <2>1. CASE pc["client"] = "failed" \/ is_client_status("client", CANCEL)
    BY <1>0, <1>6, <2>1, SpokenLeave DEF ClientReturn, Ended
  <2>2. CASE ~(pc["client"] = "failed" \/ is_client_status("client", CANCEL))
    BY <1>0, <1>3, <1>6, <2>2 DEF ClientReturn, kernelVars, Goto, TypeOK, Busy, Writes
  <2> QED
    BY <2>1, <2>2
<1>7. CASE ReadLine
  <2>1. CASE line \in Commands
    <3>1. /\ pc'["client"] = "command" /\ writing'["client"] = {line} /\ inbox' = inbox
          /\ pc'["server"] = pc["server"] /\ writing'["server"] = writing["server"]
      BY <1>0, <1>7, <2>1 DEF ReadLine, kernelVars, Goto, TypeOK
    <3>2. {line} \subseteq Says("client") /\ pc'["client"] \in Busy
      BY <2>1, <3>1 DEF Says, ClientSays, Busy, Writes
    <3> QED
      BY <1>0, <3>1, <3>2, SpokenSide
  <2>2. CASE line \notin Commands
    BY <1>0, <1>7, <2>2, SpokenLeave DEF ReadLine, Ended
  <2> QED
    BY <2>1, <2>2
<1>8. CASE (\E s \in Sides : ResetArrives(s)) \/ UNCHANGED vars
  BY <1>3, <1>8 DEF ResetArrives, vars
<1> QED
  BY <1>0, <1>1, <1>2, <1>4, <1>5, <1>6, <1>7, <1>8 DEF Next, Server, Client

\* What becomes of the flags when a header is read.
LEMMA HeaderFlags ==
  ASSUME NEW p, NEW inc, NEW out, inc # CANCEL
  PROVE  /\ FlagOnHeader(p, inc) = CANCEL =>
              /\ OutOnHeader(p, out) = CANCEL /\ Known(p) /\ DataLen(p) = 0
              /\ \A i : Answer(p, i) = {}
         /\ FlagOnHeader(p, inc) \in {NULL_BYTE, IDLE, CANCEL, inc}
<1>1. FlagOnHeader(p, inc) \in {NULL_BYTE, IDLE, CANCEL, inc}
  BY DEF FlagOnHeader
<1>2. ASSUME FlagOnHeader(p, inc) = CANCEL
      PROVE  p.status = ACKNOWLEDGE /\ p.control1 = ESCAPE
  BY <1>2 DEF FlagOnHeader, CANCEL, NULL_BYTE, IDLE
<1>3. ASSUME p.status = ACKNOWLEDGE, p.control1 = ESCAPE
      PROVE  /\ OutOnHeader(p, out) = CANCEL /\ Known(p) /\ DataLen(p) = 0
             /\ \A i : Answer(p, i) = {}
  <2>1. OutOnHeader(p, out) = CANCEL
    BY <1>3 DEF OutOnHeader
  <2>2. Known(p)
    BY <1>3 DEF Known, ACKNOWLEDGE, ENQUIRY, NEG_ACKNOWLEDGE
  <2>3. DataLen(p) = 0 /\ \A i : Answer(p, i) = {}
    BY <1>3 DEF DataLen, Answer, ACKNOWLEDGE, START_TEXT, ENQUIRY, WAKEUP, IDLE, ESCAPE
  <2> QED
    BY <2>1, <2>2, <2>3
<1> QED
  BY <1>1, <1>2, <1>3

LEMMA MarksInit == Init => Marks
<1> SUFFICES ASSUME Init PROVE Marks
  OBVIOUS
<1>1. \A s \in Sides : inc_flag[s] = NULL_BYTE
  BY DEF Init
<1> QED
  BY <1>1 DEF Marks, Sides, NULL_BYTE, CANCEL

\* A step of s that leaves the marks of the other side alone.
LEMMA MarksSide ==
  ASSUME NEW s \in Sides, TypeOK, Marks,
         pc'[Other(s)] = pc[Other(s)], inc_flag'[Other(s)] = inc_flag[Other(s)],
         out_flag'[Other(s)] = out_flag[Other(s)],
         pc'[s] \notin {"start", "listen"},
         inc_flag'[s] = CANCEL /\ pc'[s] \notin Ended =>
           pc'[s] \in {"returned", "failed"} /\ out_flag'[s] = CANCEL,
         inc_flag'[s] \in {NULL_BYTE, IDLE, CANCEL, inc_flag[s]}
  PROVE  Marks'
<1>1. \A t \in Sides : t = s \/ t = Other(s)
  BY TwoSides
<1>2. "server" \in Sides /\ "client" \in Sides
  BY DEF Sides
<1> QED
  BY <1>1, <1>2 DEF Marks

LEMMA MarksThread ==
  ASSUME NEW s \in Sides, TypeOK, Kinds, Spoken, Marks, Thread(s)
  PROVE  Marks'
<1> DEFINE o == Other(s)
<1>0. o \in Sides /\ o # s
  BY TwoSides
<1>1. inc_flag[s] = CANCEL => pc[s] \in {"returned", "failed"} \cup Ended
  BY DEF Marks
<1>2. CASE ReadHeader(s)
  <2> DEFINE p == Head(inbox[s])
  <2>1. /\ pc[s] = "header"
        /\ inc_flag'[s] = FlagOnHeader(p, inc_flag[s]) /\ inc_flag'[o] = inc_flag[o]
        /\ out_flag'[s] = OutOnHeader(p, out_flag[s]) /\ out_flag'[o] = out_flag[o]
        /\ pc'[o] = pc[o]
        /\ pc'[s] = IF DataLen(p) > 0 THEN "data"
                    ELSE IF Answer(p, inc_flag[s]) # {} THEN "answer"
                    ELSE IF Known(p) THEN "returned" ELSE "failed"
    BY <1>0, <1>2 DEF ReadHeader, TypeOK, Goto
  <2>2. inc_flag[s] # CANCEL
    BY <1>1, <2>1 DEF Ended
  <2> HIDE DEF p
  <2>3. /\ inc_flag'[s] = CANCEL =>
             /\ out_flag'[s] = CANCEL /\ Known(p) /\ DataLen(p) = 0
             /\ Answer(p, inc_flag[s]) = {}
        /\ inc_flag'[s] \in {NULL_BYTE, IDLE, CANCEL, inc_flag[s]}
    BY <2>1, <2>2, HeaderFlags
  <2>4. inc_flag'[s] = CANCEL => pc'[s] = "returned"
    BY <2>1, <2>3
  <2>5. pc'[s] \in {"data", "answer", "returned", "failed"}
    BY <2>1
  <2> QED
    BY <2>1, <2>3, <2>4, <2>5, MarksSide
<1>3. CASE ReadData(s) \/ ReadFails(s) \/ WriteHeader(s) \/ WriteFails(s)
  <2>1. /\ pc[s] \in Writes \cup {"header", "data"} /\ inc_flag' = inc_flag
        /\ out_flag'[o] = out_flag[o] /\ pc'[o] = pc[o]
        /\ pc'[s] \in {"answer", "failed", "answer_data", "command_data"}
    BY <1>0, <1>3 DEF ReadData, ReadFails, WriteHeader, WriteFails, TypeOK, Goto,
       flagVars, Writes
  <2>2. inc_flag[s] # CANCEL
    BY <1>1, <2>1 DEF Writes, Ended
  <2> QED
    BY <2>1, <2>2, MarksSide
<1>4. CASE ReadEnd(s)
  <2>1. /\ inc_flag'[s] = CANCEL /\ out_flag'[s] = CANCEL /\ pc'[s] = "failed"
        /\ inc_flag'[o] = inc_flag[o] /\ out_flag'[o] = out_flag[o] /\ pc'[o] = pc[o]
    BY <1>0, <1>4 DEF ReadEnd, TypeOK, Goto
  <2> QED
    BY <2>1, MarksSide
<1>5. CASE WriteLast(s)
  <2>1. /\ pc[s] \in Writes
        /\ inc_flag'[o] = inc_flag[o] /\ out_flag'[o] = out_flag[o] /\ pc'[o] = pc[o]
        /\ pc'[s] = IF pc[s] \in {"answer", "answer_data"} THEN "returned" ELSE "select"
    BY <1>0, <1>5 DEF WriteLast, TypeOK, Goto
  <2>2. PICK p \in writing[s] :
          /\ inc_flag'[s] = IF MarksClosed(p) THEN CANCEL ELSE inc_flag[s]
          /\ out_flag'[s] = IF MarksClosed(p) THEN CANCEL ELSE NULL_BYTE
    BY <1>5 DEF WriteLast, TypeOK
  <2>3. inc_flag[s] # CANCEL
    BY <1>1, <2>1 DEF Writes, Ended
  <2>4. MarksClosed(p) => pc[s] \in {"answer", "answer_data"}
    <3>1. CASE s = "server"
      BY <2>1, <3>1 DEF Kinds, Writes
    <3>2. CASE s = "client"
      BY <3>2, SaysWhat DEF Spoken, Says, MarksClosed
    <3> QED
      BY <3>1, <3>2 DEF Sides
  <2> QED
    BY <2>1, <2>2, <2>3, <2>4, MarksSide
<1>6. CASE WriteKills(s)
  <2>1. /\ pc'[s] \in Ended /\ pc'[o] = pc[o] /\ UNCHANGED flagVars
    BY <1>0, <1>6 DEF WriteKills, Leave, Goto, TypeOK, Ended
  <2> QED
    BY <2>1, MarksSide DEF flagVars, Ended
<1> QED
  BY <1>2, <1>3, <1>4, <1>5, <1>6 DEF Thread

LEMMA MarksStep ==
  ASSUME TypeOK, Kinds, Spoken, Marks, [Next]_vars
  PROVE  Marks'
<1>0. /\ "client" \in Sides /\ "server" \in Sides /\ "client" # "server"
      /\ Other("client") = "server" /\ Other("server") = "client"
  BY DEF Sides, Other
<1>1. ASSUME NEW s \in Sides, Thread(s) PROVE Marks'
  BY <1>1, MarksThread
\* A step that changes no flag, of a side that has the other down as open, or
\* that leaves.
<1>2. ASSUME UNCHANGED flagVars, NEW s \in Sides, pc'[Other(s)] = pc[Other(s)],
             pc'[s] \notin {"start", "listen"},
             inc_flag[s] # CANCEL \/ pc'[s] \in Ended
      PROVE  Marks'
  BY <1>2, MarksSide DEF flagVars
<1>3. \A s \in Sides : inc_flag[s] = CANCEL /\ pc[s] \notin Ended =>
        pc[s] \in {"returned", "failed"} /\ out_flag[s] = CANCEL
  BY DEF Marks
<1>4. CASE Accept \/ AcceptRefuses \/ ServerSelect
  <2>1. /\ UNCHANGED flagVars /\ pc'["client"] = pc["client"]
        /\ pc["server"] \in {"listen", "select"}
        /\ pc'["server"] \in {"select", "header", "closed"}
    BY <1>0, <1>4 DEF Accept, AcceptRefuses, ServerSelect, Goto, Leave, TypeOK
  <2> QED
    BY <1>0, <1>2, <1>3, <2>1 DEF Ended
<1>5. CASE ServerReturn
  <2>1. /\ UNCHANGED flagVars /\ pc'["client"] = pc["client"]
        /\ pc["server"] \in {"returned", "failed"}
        /\ IF is_client_status("server", CANCEL) THEN pc'["server"] = "closed"
                                                 ELSE pc'["server"] = "select"
    BY <1>0, <1>5 DEF ServerReturn, Goto, Leave, TypeOK
  <2> QED
    BY <1>0, <1>2, <1>3, <2>1 DEF Ended, is_client_status
<1>6. CASE Establish \/ EstablishFails \/ ClientSelect \/ ReadLine \/ Interrupt
  <2>1. /\ UNCHANGED flagVars /\ pc'["server"] = pc["server"]
        /\ pc["client"] \in {"start", "select", "stdin"} \/ pc'["client"] \in Ended
        /\ pc'["client"] \notin {"start", "listen"}
    BY <1>0, <1>6 DEF Establish, EstablishFails, ClientSelect, ReadLine, Interrupt,
       Goto, Leave, TypeOK, Ended
  <2> QED
    BY <1>0, <1>2, <1>3, <2>1 DEF Ended
<1>7. CASE ClientReturn
  <2>1. /\ UNCHANGED flagVars /\ pc'["server"] = pc["server"]
        /\ pc["client"] \in {"returned", "failed"}
        /\ IF pc["client"] = "failed" \/ is_client_status("client", CANCEL)
           THEN pc'["client"] = "exited" ELSE pc'["client"] \in {"stdin", "select"}
    BY <1>0, <1>7 DEF ClientReturn, Goto, Leave, TypeOK
  <2> QED
    BY <1>0, <1>2, <1>3, <2>1 DEF Ended, is_client_status
<1>8. CASE Type \/ (\E s \in Sides : ResetArrives(s)) \/ UNCHANGED vars
  BY <1>8 DEF Type, ResetArrives, vars, flagVars, Marks
<1> QED
  BY <1>0, <1>1, <1>4, <1>5, <1>6, <1>7, <1>8 DEF Next, Server, Client

\* Everything the refinement rests on.
RInv == SInv /\ Kinds /\ Spoken /\ Marks

LEMMA RefinementInit == Init => RInv
BY SessionInit, KindsInit, SpokenInit, MarksInit DEF RInv

LEMMA RefinementStep == RInv /\ [Next]_vars => RInv'
<1> SUFFICES ASSUME SInv, Kinds, Spoken, Marks, [Next]_vars PROVE RInv'
  BY DEF RInv
<1>1. SInv' /\ TypeOK
  BY SessionStep DEF SInv
<1>2. Kinds'
  BY <1>1, KindsStep
<1>3. Spoken'
  BY <1>1, SpokenStep
<1>4. Marks'
  BY <1>1, MarksStep
<1> QED
  BY <1>1, <1>2, <1>3, <1>4 DEF RInv

-----------------------------------------------------------------------------
(* The mapping to ChopDialogue, with names for its parts. *)

dialogueVars == <<Status, Todo, Answers, Asleep, View>>

\* The operators of the ChopPacket that ChopDialogue extends are the ones here.
LEMMA SameWords ==
  /\ Dialogue!ESCAPE = ESCAPE /\ Dialogue!IDLE = IDLE /\ Dialogue!WAKEUP = WAKEUP
  /\ Dialogue!NULL_BYTE = NULL_BYTE
  /\ \A x : Dialogue!Acknowledge(x) = Acknowledge(x)
  /\ \A p, inc : Dialogue!Answer(p, inc) = Answer(p, inc)
<1>1. /\ Dialogue!ESCAPE = ESCAPE /\ Dialogue!IDLE = IDLE /\ Dialogue!WAKEUP = WAKEUP
      /\ Dialogue!NULL_BYTE = NULL_BYTE
  BY DEF Dialogue!ESCAPE, ESCAPE, Dialogue!IDLE, IDLE, Dialogue!WAKEUP, WAKEUP,
     Dialogue!NULL_BYTE, NULL_BYTE
<1>2. \A x : Dialogue!Acknowledge(x) = Acknowledge(x)
  BY DEF Dialogue!Acknowledge, Acknowledge, Dialogue!assemble_header, assemble_header,
     Dialogue!ACKNOWLEDGE, ACKNOWLEDGE
<1>3. \A p, inc : Dialogue!Answer(p, inc) = Answer(p, inc)
  BY DEF Dialogue!Answer, Answer, Dialogue!Acknowledge, Acknowledge, Dialogue!Refuse,
     Refuse, Dialogue!assemble_header, assemble_header, Dialogue!IsLongText, IsLongText,
     Dialogue!ACKNOWLEDGE, ACKNOWLEDGE, Dialogue!NEG_ACKNOWLEDGE, NEG_ACKNOWLEDGE,
     Dialogue!START_TEXT, START_TEXT, Dialogue!ENQUIRY, ENQUIRY, Dialogue!IDLE, IDLE,
     Dialogue!WAKEUP, WAKEUP, Dialogue!ESCAPE, ESCAPE, Dialogue!NULL_BYTE, NULL_BYTE,
     Dialogue!ENQUIRY_NORMAL, ENQUIRY_NORMAL, Dialogue!ENQUIRY_RETURN, ENQUIRY_RETURN,
     Dialogue!ENQUIRY_TIME, ENQUIRY_TIME, Dialogue!ENQUIRY_RTIME, ENQUIRY_RTIME,
     Dialogue!TIME_LEN, TIME_LEN
<1> QED
  BY <1>1, <1>2, <1>3

LEMMA DialogueStutters == UNCHANGED dialogueVars => UNCHANGED Dialogue!vars
BY DEF dialogueVars, Dialogue!vars, Status, Todo, Answers, Asleep, View

\* The sides, and what is true of them while the session is not over.
LEMMA Going ==
  ASSUME RInv, ~Over
  PROVE  /\ "client" \in Sides /\ "server" \in Sides /\ "client" # "server"
         /\ Other("client") = "server" /\ Other("server") = "client"
         /\ TypeOK /\ Before /\ \A s \in Sides : Rcv(s) /\ Own(s)
         /\ link["server"] \in {"away", "open"}
         /\ pc["server"] \in {"header", "listen", "select"} => ~Closing
         /\ pc["server"] = "listen" => inc_flag["server"] = NULL_BYTE
         /\ link["client"] \notin {"away", "open"} => Closing
<1>1. /\ "client" \in Sides /\ "server" \in Sides /\ "client" # "server"
      /\ Other("client") = "server" /\ Other("server") = "client"
  BY DEF Sides, Other
<1>2. TypeOK /\ Before /\ \A s \in Sides : Rcv(s) /\ Own(s)
  BY DEF RInv, SInv
<1>3. /\ link["server"] \in {"away", "open"}
      /\ link["client"] \notin {"away", "open"} => Closing
  BY <1>1, <1>2 DEF Own, Over, Closing
<1>4. ASSUME pc["server"] \in {"header", "listen", "select"} PROVE ~Closing
  <2>1. writing["server"] = {}
    BY <1>1, <1>4 DEF RInv, Spoken, Busy, Writes
  <2>2. inc_flag["server"] # CANCEL /\ pc["server"] \notin Ended
    BY <1>1, <1>4 DEF RInv, Marks, Ended
  <2> QED
    BY <2>1, <2>2 DEF Closing
<1>5. pc["server"] = "listen" => inc_flag["server"] = NULL_BYTE
  BY DEF RInv, Marks
<1> QED
  BY <1>1, <1>2, <1>3, <1>4, <1>5

\* A session that is over has begun.
LEMMA OverBegan == ASSUME RInv, Over PROVE pc["client"] # "start"
BY DEF RInv, Marks, Over, Ended, NULL_BYTE, CANCEL

\* The only end of a side that leaves because the other is marked as closed.
LEMMA OverStays ==
  ASSUME RInv, Over, [Next]_vars
  PROVE  Over'
<1>0. /\ "client" \in Sides /\ "server" \in Sides /\ "client" # "server"
      /\ TypeOK /\ pc["client"] # "start"
      /\ pc["client"] \notin Ended =>
           pc["client"] \in {"returned", "failed"} /\ is_client_status("client", CANCEL)
  BY OverBegan DEF Sides, RInv, SInv, Marks, Over, is_client_status
<1> USE DEF TypeOK, Goto, Leave
<1>1. CASE Thread("server")
  <2>1. pc'["client"] = pc["client"] /\ inc_flag'["client"] = inc_flag["client"]
    BY <1>0, <1>1 DEF Thread, ReadHeader, ReadData, ReadEnd, ReadFails, WriteHeader,
       WriteLast, WriteFails, WriteKills, flagVars
  <2> QED
    BY <2>1 DEF Over
<1>2. CASE Thread("client")
  <2>1. pc["client"] \in {"header", "data"} \cup Writes
    BY <1>2 DEF Thread, ReadHeader, ReadData, ReadEnd, ReadFails, WriteHeader,
       WriteLast, WriteFails, WriteKills, Writes
  <2> QED
    BY <1>0, <2>1 DEF Writes, Ended
<1>3. CASE Accept \/ AcceptRefuses \/ ServerSelect \/ ServerReturn
  <2>1. pc'["client"] = pc["client"] /\ inc_flag'["client"] = inc_flag["client"]
    BY <1>0, <1>3 DEF Accept, AcceptRefuses, ServerSelect, ServerReturn, flagVars
  <2> QED
    BY <2>1 DEF Over
<1>4. CASE Establish \/ EstablishFails \/ ClientSelect \/ ReadLine
  BY <1>0, <1>4 DEF Establish, EstablishFails, ClientSelect, ReadLine, Ended
<1>5. CASE ClientReturn \/ Interrupt
  <2>1. pc'["client"] \in Ended
    BY <1>0, <1>5 DEF ClientReturn, Interrupt, Ended
  <2> QED
    BY <2>1 DEF Over
<1>6. CASE Type \/ (\E s \in Sides : ResetArrives(s)) \/ UNCHANGED vars
  BY <1>6 DEF Type, ResetArrives, vars, flagVars, Over
<1> QED
  BY <1>1, <1>2, <1>3, <1>4, <1>5, <1>6 DEF Next, Server, Client

LEMMA SimulateOver ==
  ASSUME RInv, RInv', Over, Over'
  PROVE  UNCHANGED dialogueVars
<1>1. pc["client"] # "start" /\ pc'["client"] # "start"
  <2>1. pc["client"] # "start"
    BY OverBegan
  <2>2. pc'["client"] # "start"
    BY DEF RInv, Marks, Over, Ended, NULL_BYTE, CANCEL
  <2> QED
    BY <2>1, <2>2
<1> QED
  BY <1>1 DEF dialogueVars, Status, Todo, Answers, Asleep, View

LEMMA SimulateEnd ==
  ASSUME RInv', Over'
  PROVE  Dialogue!End
<1>1. pc'["client"] # "start"
  BY DEF RInv, Marks, Over, Ended, NULL_BYTE, CANCEL
<1> QED
  BY <1>1 DEF Dialogue!End, Status, Todo, Answers, Asleep, View

\* Steps of the client, of the user or of the kernel that concern only the
\* client's thread or what it knows of the connection.
LEMMA SessionKept ==
  ASSUME ~Over, ~Over', UNCHANGED <<writing["server"], inc_flag, inbox>>,
         pc'["server"] = pc["server"],
         pc'["client"] = "start" <=> pc["client"] = "start"
  PROVE  UNCHANGED dialogueVars
<1>1. Closing' = Closing
  BY DEF Closing
<1>2. Requested' = Requested /\ Sent' = Sent /\ Decided' = Decided
  BY DEF Requested, Sent, Decided
<1> QED
  BY <1>1, <1>2 DEF dialogueVars, Status, Todo, Answers, Asleep, View

-----------------------------------------------------------------------------
(* The steps of the server. *)

LEMMA Channels ==
  ASSUME RInv
  PROVE  /\ inbox["server"] \in Seq(ClientSays \cup {Data})
         /\ inbox["client"] \in Seq(ServerSays \cup {Data})
         /\ Requested \in Seq(Commands) /\ Sent \in Seq(Packet)
<1>1. /\ "client" \in Sides /\ "server" \in Sides
      /\ Other("client") = "server" /\ Other("server") = "client"
  BY DEF Sides, Other
<1>2. /\ inbox["server"] \in Seq(ClientSays \cup {Data})
      /\ inbox["client"] \in Seq(ServerSays \cup {Data})
  BY <1>1 DEF RInv, Spoken, Says
<1>3. Requested \in Seq(Commands)
  BY <1>2, PartsType DEF Requested
<1>4. Sent \in Seq(Packet)
  BY <1>2, PartsType DEF Sent
<1> QED
  BY <1>2, <1>3, <1>4

\* An answer that is decided is the one to be written.
LEMMA DecidedIs ==
  ASSUME NEW a, writing["server"] = {a}, pc["server"] \in {"data", "answer"}
  PROVE  Decided = <<a>>
BY DEF Decided

LEMMA NothingDecided ==
  ASSUME pc["server"] \notin {"data", "answer"}
  PROVE  Decided = <<>>
BY DEF Decided

\* What the server does with a command.
LEMMA CommandAnswer ==
  ASSUME NEW p \in Commands, NEW inc \in {NULL_BYTE, IDLE}
  PROVE  /\ \E a \in Packet : Answer(p, inc) = {a}
         /\ p.status = ESCAPE => Answer(p, inc) = {Acknowledge(ESCAPE)}
         /\ p.status # ESCAPE => Acknowledge(ESCAPE) \notin Answer(p, inc)
         /\ FlagOnHeader(p, inc) =
              CASE p.status = IDLE -> IDLE [] p.status = WAKEUP -> NULL_BYTE
                [] OTHER -> inc
<1>1. /\ p \in Packet /\ Known(p) /\ ~IsLongText(p)
      /\ p.status \notin {NULL_BYTE, START_HEADER, ACKNOWLEDGE, NEG_ACKNOWLEDGE}
  BY SessionAssumption
<1>2. p.status \in {START_TEXT, ENQUIRY, WAKEUP, IDLE, ESCAPE}
  BY <1>1 DEF Known
<1>3. p.status = ENQUIRY =>
        p.control1 \in {ENQUIRY_NORMAL, ENQUIRY_RETURN, ENQUIRY_TIME, ENQUIRY_RTIME}
  <2>1. p.status = ENQUIRY => p.control1 \in ENQUIRY_NORMAL..ENQUIRY_RTIME
    BY <1>1 DEF Known
  <2> QED
    BY <2>1 DEF ENQUIRY_NORMAL, ENQUIRY_RETURN, ENQUIRY_TIME, ENQUIRY_RTIME
<1>4. Answer(p, inc) \in SUBSET Packet
  BY AnswerIsPackets
<1>5. \E a : Answer(p, inc) = {a}
  <2>1. CASE p.status = START_TEXT
    BY <1>1, <2>1, StatusesDiffer DEF Answer
  <2>2. CASE p.status = ENQUIRY
    <3>1. CASE p.control1 \in {ENQUIRY_NORMAL, ENQUIRY_TIME}
      BY <2>2, <3>1, StatusesDiffer DEF Answer, ENQUIRY_NORMAL, ENQUIRY_RETURN,
         ENQUIRY_TIME, ENQUIRY_RTIME
    <3>2. CASE p.control1 = ENQUIRY_RETURN
      BY <2>2, <3>2, StatusesDiffer DEF Answer, ENQUIRY_NORMAL, ENQUIRY_RETURN,
         ENQUIRY_TIME, ENQUIRY_RTIME
    <3>3. CASE p.control1 = ENQUIRY_RTIME
      BY <2>2, <3>3, StatusesDiffer DEF Answer, ENQUIRY_NORMAL, ENQUIRY_RETURN,
         ENQUIRY_TIME, ENQUIRY_RTIME
    <3> QED
      BY <1>3, <2>2, <3>1, <3>2, <3>3
  <2>3. CASE p.status \in {WAKEUP, IDLE, ESCAPE}
    BY <2>3, StatusesDiffer DEF Answer
  <2> QED
    BY <1>2, <2>1, <2>2, <2>3
<1>6. p.status = ESCAPE => Answer(p, inc) = {Acknowledge(ESCAPE)}
  BY StatusesDiffer DEF Answer
<1>7. ASSUME p.status # ESCAPE, Acknowledge(ESCAPE) \in Answer(p, inc) PROVE FALSE
  BY <1>7, AnswerNotCancel DEF Answer, Acknowledge, Refuse, assemble_header,
     START_TEXT, ENQUIRY, WAKEUP, IDLE, ESCAPE, ACKNOWLEDGE, NEG_ACKNOWLEDGE
<1>8. FlagOnHeader(p, inc) =
        CASE p.status = IDLE -> IDLE [] p.status = WAKEUP -> NULL_BYTE [] OTHER -> inc
  <2>1. CASE p.status = IDLE
    BY <1>1, <2>1, StatusesDiffer DEF FlagOnHeader
  <2>2. CASE p.status = WAKEUP
    BY <1>1, <2>2, StatusesDiffer DEF FlagOnHeader
  <2>3. CASE p.status \notin {IDLE, WAKEUP}
    BY <1>1, <2>3 DEF FlagOnHeader
  <2> QED
    BY <2>1, <2>2, <2>3
<1> QED
  BY <1>4, <1>5, <1>6, <1>7, <1>8

\* The server reads a request, and its answer is decided.
LEMMA SimulateServe ==
  ASSUME RInv, RInv', ~Over, ~Over', ReadHeader("server"),
         Head(inbox["server"]) \in Commands
  PROVE  Dialogue!Serve
<1> DEFINE p == Head(inbox["server"])
           inc == inc_flag["server"]
<1>0. /\ "server" \in Sides /\ "client" \in Sides /\ TypeOK /\ Before /\ ~Closing
      /\ pc["server"] = "header" /\ inbox["server"] # <<>>
  BY Going DEF ReadHeader
<1>1. /\ inbox'["client"] = inbox["client"] /\ inbox'["server"] = Tail(inbox["server"])
      /\ pc'["client"] = pc["client"] /\ inc_flag'["client"] = inc_flag["client"]
      /\ writing'["server"] = Answer(p, inc) /\ inc_flag'["server"] = FlagOnHeader(p, inc)
      /\ pc'["server"] = IF DataLen(p) > 0 THEN "data"
                         ELSE IF Answer(p, inc) # {} THEN "answer"
                         ELSE IF Known(p) THEN "returned" ELSE "failed"
  BY <1>0 DEF ReadHeader, Goto, TypeOK
<1>2. inc \in {NULL_BYTE, IDLE}
  BY <1>0 DEF RInv, Marks, Closing
<1>3. PICK a \in Packet : Answer(p, inc) = {a}
  BY <1>2, CommandAnswer
<1>4. /\ pc["client"] # "start" /\ pc["server"] # "listen"
      /\ pc'["client"] # "start" /\ pc'["server"] \in {"data", "answer"}
  BY <1>0, <1>1, <1>3 DEF Before
<1>5. Status = "on"
  BY <1>0, <1>4 DEF Status
<1>6. Requested # <<>> /\ Head(Requested) = p /\ Requested' = Tail(Requested)
  <2>1. inbox["server"] \in Seq(ClientSays \cup {Data})
    BY Channels
  <2> QED
    BY <1>0, <1>1, <2>1, SelectedLess DEF Requested
<1>7. Sent' = Sent
  BY <1>1 DEF Sent
<1>8. Answers = Sent /\ Answers' = Append(Sent, a)
  <2>1. Decided = <<>>
    BY <1>0, NothingDecided
  <2>2. Decided' = <<a>>
    BY <1>1, <1>3, <1>4 DEF Decided
  <2>3. Sent \in Seq(Packet)
    BY Channels
  <2>4. Sent \o <<>> = Sent /\ Sent \o <<a>> = Append(Sent, a)
    <3> HIDE DEF Sent
    <3>1. Sent \o <<>> = Sent
      BY <2>3, ConcatEmptySeq
    <3>2. Sent \o <<a>> = Append(Sent, a)
      BY <2>3, AppendIsConcat
    <3> QED
      BY <3>1, <3>2
  <2> QED
    BY <1>7, <2>1, <2>2, <2>4 DEF Answers
<1>9. Closing' <=> p.status = ESCAPE
  <2>1. inc_flag'["server"] # CANCEL
    BY <1>1, <1>2, CommandAnswer DEF NULL_BYTE, IDLE, CANCEL
  <2>2. pc'["server"] \notin Ended
    BY <1>4 DEF Ended
  <2>3. writing'["server"] = {Acknowledge(ESCAPE)} <=> p.status = ESCAPE
    BY <1>1, <1>2, <1>3, CommandAnswer
  <2> QED
    BY <2>1, <2>2, <2>3 DEF Closing
<1>10. a \in Dialogue!AnswerTo(p)
  <2>1. Answer(p, IF Asleep THEN IDLE ELSE NULL_BYTE) = {a}
    BY <1>0, <1>2, <1>3 DEF Asleep
  <2> QED
    BY <2>1, SameWords DEF Dialogue!AnswerTo, Asleep
<1>11. View' = View
  BY <1>1 DEF View
<1>12. Todo = Requested
  BY <1>0 DEF Todo
<1>13. inc_flag'["server"] = CASE p.status = IDLE -> IDLE [] p.status = WAKEUP -> NULL_BYTE
                               [] OTHER -> inc
  BY <1>1, <1>2, CommandAnswer
<1> HIDE DEF p, inc
<1> DEFINE asks == /\ Status = "on" /\ Todo # <<>> /\ Head(Todo) = p /\ View' = View
                   /\ Answers' = Append(Answers, a)
<1>14. asks
  BY <1>5, <1>6, <1>8, <1>11, <1>12
<1>15. CASE p.status = ESCAPE
  <2>1. Status' = "closing" /\ Todo' = <<>> /\ Asleep' = FALSE
    BY <1>4, <1>9, <1>15 DEF Status, Todo, Asleep
  <2> QED
    BY <1>10, <1>14, <1>15, <2>1, SameWords
       DEF Dialogue!Serve, Status, Todo, Answers, Asleep, View
<1>16. CASE p.status # ESCAPE
  <2>1. Status' = Status /\ Todo' = Tail(Todo)
    BY <1>4, <1>5, <1>6, <1>9, <1>12, <1>16 DEF Status, Todo
  <2>2. Asleep = (inc = IDLE) /\ Asleep' = (inc_flag'["server"] = IDLE)
    BY <1>0, <1>9, <1>16 DEF Asleep, inc
  <2>3. Asleep' = CASE p.status = IDLE -> TRUE [] p.status = WAKEUP -> FALSE
                    [] OTHER -> Asleep
    <3>1. CASE p.status = IDLE
      BY <1>13, <2>2, <3>1, StatusesDiffer
    <3>2. CASE p.status = WAKEUP
      BY <1>13, <2>2, <3>2, StatusesDiffer
    <3>3. CASE p.status \notin {IDLE, WAKEUP}
      BY <1>13, <2>2, <3>3
    <3> QED
      BY <3>1, <3>2, <3>3
  <2> QED
    BY <1>10, <1>14, <1>16, <2>1, <2>3, SameWords
       DEF Dialogue!Serve, Status, Todo, Answers, Asleep, View
<1> QED
  BY <1>15, <1>16

\* The server reads an acknowledgement, or the data of a request.
LEMMA SimulateServerReads ==
  ASSUME RInv, RInv', ~Over, ~Over',
         \/ ReadHeader("server") /\ Head(inbox["server"]) \notin Commands
         \/ ReadData("server")
  PROVE  UNCHANGED dialogueVars
<1> DEFINE p == Head(inbox["server"])
<1>0. /\ "server" \in Sides /\ "client" \in Sides /\ TypeOK /\ Before
      /\ Rcv("server") /\ Own("server") /\ inbox["server"] # <<>>
      /\ inbox["server"] \in Seq(ClientSays \cup {Data})
  BY Going, Channels DEF ReadHeader, ReadData
<1>1. /\ inbox'["client"] = inbox["client"] /\ inbox'["server"] = Tail(inbox["server"])
      /\ pc'["client"] = pc["client"] /\ inc_flag'["client"] = inc_flag["client"]
      /\ pc["server"] \in {"header", "data"}
  BY <1>0 DEF ReadHeader, ReadData, Goto, TypeOK, flagVars
<1>2. Sent' = Sent /\ View' = View
  BY <1>1 DEF Sent, View
<1>3. p \notin Commands
  <2>1. CASE ReadData("server")
    <3>1. inbox["server"] \in Seq(Items)
      BY <1>0 DEF TypeOK, Items
    <3>2. p = inbox["server"][1] /\ 1 \in 1..Len(inbox["server"])
      BY <1>0, <3>1, HeadTailProperties
    <3>3. p = Data
      BY <1>0, <2>1, <3>2 DEF Rcv, Framed, ReadData
    <3> QED
      BY <3>3, SessionAssumption
  <2>2. CASE ReadHeader("server")
    BY <2>2 DEF ReadHeader, ReadData
  <2> QED
    BY <2>1, <2>2
<1>4. Requested' = Requested
  BY <1>0, <1>1, <1>3, SelectedLess DEF Requested
<1>5. /\ Closing' = Closing /\ Decided' = Decided /\ inc_flag'["server"] = inc_flag["server"]
      /\ pc'["server"] # "listen"
  <2>1. CASE ReadData("server")
    <3>1. /\ writing' = writing /\ inc_flag' = inc_flag
          /\ pc["server"] = "data" /\ pc'["server"] = "answer"
      BY <1>0, <2>1 DEF ReadData, Goto, TypeOK, flagVars
    <3> QED
      BY <3>1 DEF Closing, Decided, Ended
  <2>2. CASE ReadHeader("server")
    <3>1. p = Acknowledge(ENQUIRY)
      <4>1. p \in ClientSays \cup {Data}
        BY <1>0, HeadTailProperties
      <4>2. p # Data
        BY <2>2 DEF ReadHeader
      <4> QED
        BY <1>3, <4>1, <4>2 DEF ClientSays
    <3> HIDE DEF p
    <3>2. /\ Answer(p, inc_flag["server"]) = {} /\ DataLen(p) = 0
          /\ FlagOnHeader(p, inc_flag["server"]) = inc_flag["server"]
      BY <3>1 DEF Answer, DataLen, FlagOnHeader, Acknowledge, assemble_header,
         ACKNOWLEDGE, START_TEXT, ENQUIRY, WAKEUP, IDLE, ESCAPE
    <3>3. /\ writing'["server"] = {} /\ inc_flag'["server"] = inc_flag["server"]
          /\ pc["server"] = "header" /\ pc'["server"] \in {"returned", "failed"}
      BY <1>0, <2>2, <3>2 DEF ReadHeader, Goto, TypeOK, p
    <3>4. writing["server"] = {}
      BY <1>0, <3>3 DEF RInv, Spoken, Busy, Writes
    <3> QED
      BY <3>3, <3>4 DEF Closing, Decided, Ended, Acknowledge
  <2> QED
    BY <2>1, <2>2
<1> QED
  BY <1>1, <1>2, <1>4, <1>5 DEF dialogueVars, Status, Todo, Answers, Asleep

\* The server writes its answer: what was decided is sent.
LEMMA SimulateServerWrites ==
  ASSUME RInv, RInv', ~Over, ~Over', WriteHeader("server") \/ WriteLast("server")
  PROVE  UNCHANGED dialogueVars
<1> DEFINE v == "server"
           c == "client"
<1>0. /\ v \in Sides /\ c \in Sides /\ v # c /\ Other(v) = c /\ TypeOK
      /\ Own(v) /\ link[v] \in {"away", "open"}
      /\ inbox[c] \in Seq(ServerSays \cup {Data}) /\ Sent \in Seq(Packet)
  BY Going, Channels
<1>1. PICK a \in writing[v] :
        LET x == IF pc[v] = "answer" THEN a ELSE Data IN
        /\ Put(v, x)
        /\ inc_flag'[v] = IF pc'[v] = "returned" /\ MarksClosed(a) THEN CANCEL
                          ELSE inc_flag[v]
        /\ pc'[v] = "answer_data" => DataLen(a) > 0
  <2>0. pc[v] \notin {"stdin", "command", "command_data"}
    BY DEF RInv, Kinds
  <2>1. CASE WriteHeader(v)
    BY <1>0, <2>0, <2>1 DEF WriteHeader, TypeOK, Goto
  <2>2. CASE WriteLast(v)
    <3>1. pc[v] \in {"answer", "answer_data"} /\ pc'[v] = "returned"
      BY <1>0, <2>0, <2>2 DEF WriteLast, Writes, TypeOK, Goto
    <3>2. PICK a \in writing[v] :
            /\ pc[v] = "answer" => DataLen(a) = 0
            /\ Put(v, IF DataLen(a) = 0 THEN a ELSE Data)
            /\ inc_flag'[v] = IF MarksClosed(a) THEN CANCEL ELSE inc_flag[v]
      BY <1>0, <2>2, <3>1 DEF WriteLast, TypeOK
    <3>3. pc[v] = "answer_data" => DataLen(a) > 0
      BY <1>0 DEF Own, DataWrites
    <3>4. Put(v, IF pc[v] = "answer" THEN a ELSE Data)
      BY <3>1, <3>2, <3>3
    <3> QED
      BY <3>1, <3>2, <3>4
  <2> QED
    BY <2>1, <2>2
<1>2. /\ pc[v] \in {"answer", "answer_data"} /\ pc'[v] \in {"answer_data", "returned"}
      /\ pc'[c] = pc[c] /\ inc_flag'[c] = inc_flag[c]
      /\ pc'[v] = "answer_data" => writing'[v] = writing[v] /\ pc[v] = "answer"
      /\ pc'[v] = "returned" => writing'[v] = {}
      /\ pc[v] = "answer_data" => DataLen(a) > 0
  <2>0. pc[v] \notin {"stdin", "command", "command_data"}
    BY DEF RInv, Kinds
  <2>1. CASE WriteHeader(v)
    BY <1>0, <2>0, <2>1 DEF WriteHeader, Writes, TypeOK, Goto
  <2>2. CASE WriteLast(v)
    BY <1>0, <2>0, <2>2 DEF WriteLast, Writes, TypeOK, Goto, Own, DataWrites
  <2> QED
    BY <2>1, <2>2
<1>3. /\ inbox'[v] = inbox[v]
      /\ inbox'[c] = Append(inbox[c], IF pc[v] = "answer" THEN a ELSE Data)
  BY <1>0, <1>1 DEF Put, TypeOK
<1>4. writing[v] = {a} /\ a \in ServerSays /\ a \in Packet /\ Data \notin Packet
  <2>1. writing[v] = {a}
    BY <1>0, <1>1 DEF Own, NoneOrOne
  <2>2. a \in ServerSays
    BY <1>0, <1>1 DEF RInv, Spoken, Says
  <2> QED
    BY <2>1, <2>2, SaysWhat
<1>5. Sent' \o Decided' = Sent \o Decided
  <2>1. Decided' = <<>>
    BY <1>2 DEF Decided
  <2>2. Sent \o <<>> = Sent /\ Sent \o <<a>> = Append(Sent, a)
        /\ Append(Sent, a) \o <<>> = Append(Sent, a)
    <3> HIDE DEF Sent
    <3>1. Sent \o <<>> = Sent
      BY <1>0, ConcatEmptySeq
    <3>2. Sent \o <<a>> = Append(Sent, a)
      BY <1>0, <1>4, AppendIsConcat
    <3>3. Append(Sent, a) \in Seq(Packet)
      BY <1>0, <1>4, AppendProperties
    <3>4. Append(Sent, a) \o <<>> = Append(Sent, a)
      BY <3>3, ConcatEmptySeq
    <3> QED
      BY <3>1, <3>2, <3>4
  <2>3. CASE pc[v] = "answer"
    <3>1. Decided = <<a>>
      BY <1>4, <2>3, DecidedIs
    <3>2. Sent' = Append(Sent, a)
      <4> DEFINE T == ServerSays \cup {Data}
      <4>1. inbox[c] \in Seq(T) /\ a \in T
        BY <1>0, <1>4
      <4> HIDE DEF T
      <4>2. Selected(Append(inbox[c], a), Packet) = Append(Selected(inbox[c], Packet), a)
        BY <1>4, <4>1, SelectedMore
      <4> QED
        BY <1>3, <2>3, <4>2 DEF Sent
    <3> QED
      BY <2>1, <2>2, <3>1, <3>2
  <2>4. CASE pc[v] = "answer_data"
    <3>1. Decided = <<>>
      BY <2>4 DEF Decided
    <3>2. Sent' = Sent
      <4> DEFINE T == ServerSays \cup {Data}
      <4>1. inbox[c] \in Seq(T) /\ Data \in T
        BY <1>0
      <4> HIDE DEF T
      <4>2. Selected(Append(inbox[c], Data), Packet) = Selected(inbox[c], Packet)
        BY <1>4, <4>1, SelectedMore
      <4> QED
        BY <1>3, <2>4, <4>2 DEF Sent
    <3> QED
      BY <2>1, <3>1, <3>2
  <2> QED
    BY <1>2, <2>3, <2>4
<1>6. /\ Closing' <=> Closing
      /\ ~Closing => inc_flag'[v] = inc_flag[v]
  <2>1. inc_flag[v] # CANCEL
    BY <1>0, <1>2 DEF RInv, Marks, Ended
  <2>2. Closing <=> a = Acknowledge(ESCAPE)
    BY <1>2, <1>4, <2>1 DEF Closing, Ended
  <2>3. CASE pc'[v] = "answer_data"
    <3>1. writing'[v] = {a} /\ inc_flag'[v] = inc_flag[v]
      BY <1>1, <1>2, <1>4, <2>3
    <3> QED
      BY <2>1, <2>2, <2>3, <3>1 DEF Closing, Ended
  <2>4. CASE pc'[v] = "returned"
    <3>1. writing'[v] = {} /\ inc_flag'[v] = IF a = Acknowledge(ESCAPE) THEN CANCEL
                                             ELSE inc_flag[v]
      BY <1>1, <1>2, <2>4 DEF MarksClosed
    <3> QED
      BY <2>1, <2>2, <2>4, <3>1 DEF Closing, Ended
  <2> QED
    BY <1>2, <2>3, <2>4
<1>7. Requested' = Requested
  BY <1>3 DEF Requested
<1>8. pc[v] # "listen" /\ pc'[v] # "listen"
  BY <1>2
<1>9. Closing' = Closing
  BY <1>6 DEF Closing
<1> QED
  BY <1>2, <1>5, <1>6, <1>7, <1>8, <1>9
     DEF dialogueVars, Status, Todo, Answers, Asleep, View

\* accept_new_client: the client is admitted, or turned away.
LEMMA SimulateAccept ==
  ASSUME RInv, RInv', ~Over, ~Over', Accept \/ AcceptRefuses
  PROVE  Dialogue!Admit \/ Dialogue!TurnAway
<1>0. /\ "server" \in Sides /\ "client" \in Sides /\ "client" # "server" /\ TypeOK /\ Before
      /\ pc["server"] = "listen" /\ link["server"] # "away" /\ ~Closing
      /\ inc_flag["server"] = NULL_BYTE
  BY Going DEF Accept, AcceptRefuses
<1>1. /\ pc'["client"] = pc["client"] /\ inc_flag' = inc_flag
      /\ inbox'["client"] = inbox["client"]
  BY <1>0 DEF Accept, AcceptRefuses, Goto, Leave, TypeOK, flagVars, kernelVars
<1>2. pc["client"] # "start" /\ Status = "waiting"
  BY <1>0 DEF Before, Status
<1>3. ~Asleep /\ ~Asleep' /\ View' = View
  BY <1>0, <1>1 DEF Asleep, View, NULL_BYTE, IDLE
<1>4. Decided = <<>> /\ Sent' = Sent
  BY <1>0, <1>1 DEF Decided, Sent
<1>5. CASE Accept
  <2>1. pc'["server"] = "select" /\ writing' = writing /\ inbox' = inbox
    BY <1>0, <1>5 DEF Accept, Goto, TypeOK, kernelVars
  <2>2. ~Closing' /\ Decided' = <<>> /\ Requested' = Requested
    BY <1>0, <1>1, <2>1 DEF Closing, Decided, Requested, Ended
  <2>3. Status' = "on" /\ Todo' = Todo /\ Answers' = Answers
    BY <1>0, <1>1, <1>2, <1>4, <2>1, <2>2 DEF Status, Todo, Answers
  <2>4. Dialogue!Admit
    BY <1>2, <1>3, <2>3 DEF Dialogue!Admit, Status, Todo, Answers, Asleep, View
  <2> QED
    BY <2>4
<1>6. CASE AcceptRefuses
  <2>1. pc'["server"] = "closed"
    BY <1>0, <1>6 DEF AcceptRefuses, Leave, Goto, TypeOK
  <2>2. Closing' /\ Decided' = <<>>
    BY <2>1 DEF Closing, Decided, Ended
  <2>3. Status' = "closing" /\ Todo' = <<>> /\ Answers' = Answers
    BY <1>1, <1>2, <1>4, <2>2 DEF Status, Todo, Answers
  <2>4. Dialogue!TurnAway
    BY <1>2, <1>3, <2>3 DEF Dialogue!TurnAway, Status, Todo, Answers, Asleep, View
  <2> QED
    BY <2>4
<1> QED
  BY <1>5, <1>6

\* select, and the return of process_request.
LEMMA SimulateServerGoesOn ==
  ASSUME RInv, RInv', ~Over, ~Over', ServerSelect \/ ServerReturn
  PROVE  UNCHANGED dialogueVars
<1>0. /\ "server" \in Sides /\ "client" \in Sides /\ "client" # "server" /\ TypeOK
      /\ pc["server"] \in {"select", "returned", "failed"}
      /\ writing["server"] = {}
      /\ inc_flag["server"] = CANCEL => is_client_status("server", CANCEL)
  BY Going DEF ServerSelect, ServerReturn, RInv, Spoken, Marks, Busy, Writes, Ended,
     is_client_status
<1>1. /\ pc'["client"] = pc["client"] /\ inc_flag' = inc_flag
      /\ inbox'["client"] = inbox["client"] /\ writing'["server"] = {}
  BY <1>0 DEF ServerSelect, ServerReturn, Goto, Leave, TypeOK, flagVars, kernelVars
<1>2. Sent' = Sent /\ View' = View
  BY <1>1 DEF Sent, View
<1>3. CASE ServerReturn /\ is_client_status("server", CANCEL)
  <2>1. pc'["server"] = "closed" /\ inc_flag["server"] = CANCEL
    BY <1>0, <1>3 DEF ServerReturn, Leave, Goto, TypeOK, is_client_status
  <2>2. Closing /\ Closing' /\ Decided = <<>> /\ Decided' = <<>>
    BY <1>0, <2>1 DEF Closing, Decided, Ended
  <2> QED
    BY <1>1, <1>2, <2>2 DEF dialogueVars, Status, Todo, Answers, Asleep
<1>4. CASE ~(ServerReturn /\ is_client_status("server", CANCEL))
  <2>1. pc'["server"] \in {"header", "select"} /\ inbox' = inbox
    BY <1>0, <1>4 DEF ServerSelect, ServerReturn, Goto, TypeOK, kernelVars
  <2>2. Closing' = Closing /\ Decided = <<>> /\ Decided' = <<>> /\ Requested' = Requested
    BY <1>0, <1>1, <2>1 DEF Closing, Decided, Requested, Ended
  <2>3. pc["server"] # "listen" /\ pc'["server"] # "listen"
    BY <1>0, <2>1
  <2> QED
    BY <1>1, <1>2, <2>2, <2>3 DEF dialogueVars, Status, Todo, Answers, Asleep
<1> QED
  BY <1>3, <1>4

-----------------------------------------------------------------------------
(* The steps of the client. *)

LEMMA HeadTailConcat ==
  ASSUME NEW T, NEW s \in Seq(T), s # <<>>, NEW d \in T, NEW e, e = <<>> \/ e = <<d>>
  PROVE  s \o e # <<>> /\ Head(s \o e) = Head(s) /\ Tail(s \o e) = Tail(s) \o e
<1>1. Tail(s) \in Seq(T)
  BY HeadTailProperties
<1>2. CASE e = <<>>
  <2>1. s \o <<>> = s /\ Tail(s) \o <<>> = Tail(s)
    BY <1>1, ConcatEmptySeq
  <2> QED
    BY <1>2, <2>1
<1>3. CASE e = <<d>>
  <2>1. s \o <<d>> = Append(s, d)
    BY AppendIsConcat
  <2>2. Tail(s) \o <<d>> = Append(Tail(s), d)
    BY <1>1, AppendIsConcat
  <2>3. Head(Append(s, d)) = Head(s) /\ Tail(Append(s, d)) = Append(Tail(s), d)
    BY HeadTailAppend
  <2>4. Append(s, d) # <<>>
    <3>1. Len(Append(s, d)) = Len(s) + 1 /\ Len(s) \in Nat
      BY AppendProperties
    <3>2. Len(Append(s, d)) # 0
      BY <3>1
    <3> QED
      BY <3>2, EmptySeq
  <2> QED
    BY <1>3, <2>1, <2>2, <2>3, <2>4
<1> QED
  BY <1>2, <1>3

\* What the client makes of an answer, but of a confirmed escape.
LEMMA ClientHears ==
  ASSUME NEW p \in ServerSays, p # Acknowledge(ESCAPE), NEW inc
  PROVE  (FlagOnHeader(p, inc) = IDLE)
           <=> IF p = Acknowledge(IDLE) THEN TRUE
               ELSE IF p \in {Acknowledge(WAKEUP), Acknowledge(ESCAPE)} THEN FALSE
               ELSE inc = IDLE
<1>1. CASE p = Acknowledge(IDLE)
  BY <1>1 DEF FlagOnHeader, Acknowledge, assemble_header, ACKNOWLEDGE, WAKEUP, IDLE
<1>2. CASE p = Acknowledge(WAKEUP)
  <2>1. FlagOnHeader(p, inc) = NULL_BYTE
    BY <1>2 DEF FlagOnHeader, Acknowledge, assemble_header, ACKNOWLEDGE, WAKEUP, IDLE
  <2> QED
    BY <1>2, <2>1 DEF Acknowledge, assemble_header, WAKEUP, IDLE, NULL_BYTE
<1>3. CASE p \notin {Acknowledge(IDLE), Acknowledge(WAKEUP)}
  <2>1. /\ p.status \notin {WAKEUP, IDLE}
        /\ p.status = ACKNOWLEDGE => p.control1 \notin {IDLE, WAKEUP, ESCAPE}
    BY <1>3 DEF ServerSays, Acknowledge, Refuse, assemble_header, ACKNOWLEDGE,
       NEG_ACKNOWLEDGE, ENQUIRY, WAKEUP, IDLE, ESCAPE
  <2>2. FlagOnHeader(p, inc) = inc
    BY <2>1 DEF FlagOnHeader
  <2> QED
    BY <1>3, <2>2
<1> QED
  BY <1>1, <1>2, <1>3

\* The client reads an answer.
LEMMA SimulateHear ==
  ASSUME RInv, RInv', ~Over, ~Over', ReadHeader("client")
  PROVE  Dialogue!Hear
<1> DEFINE v == "server"
           c == "client"
           p == Head(inbox[c])
<1>0. /\ v \in Sides /\ c \in Sides /\ v # c /\ TypeOK
      /\ pc[c] = "header" /\ inbox[c] # <<>> /\ p # Data
      /\ inbox[c] \in Seq(ServerSays \cup {Data}) /\ Sent \in Seq(Packet)
  BY Going, Channels DEF ReadHeader
<1>1. /\ inbox'[v] = inbox[v] /\ inbox'[c] = Tail(inbox[c])
      /\ pc'[v] = pc[v] /\ writing'[v] = writing[v] /\ inc_flag'[v] = inc_flag[v]
      /\ inc_flag'[c] = FlagOnHeader(p, inc_flag[c])
      /\ pc'[c] \in {"data", "answer", "returned", "failed"}
  BY <1>0 DEF ReadHeader, Goto, TypeOK
<1>2. p \in ServerSays /\ p \in Packet
  <2>1. p \in ServerSays \cup {Data}
    BY <1>0, HeadTailProperties
  <2> QED
    BY <1>0, <2>1, SaysWhat
<1>3. p # Acknowledge(ESCAPE)
  <2>1. FlagOnHeader(p, inc_flag[c]) # CANCEL
    BY <1>1 DEF Over
  <2> QED
    BY <2>1 DEF FlagOnHeader, Acknowledge, assemble_header, ACKNOWLEDGE, WAKEUP, IDLE,
       ESCAPE
<1>4. UNCHANGED <<Closing, Requested, Decided, Asleep, Status, Todo>>
  <2>1. Closing' = Closing /\ Requested' = Requested /\ Decided' = Decided
    BY <1>1 DEF Closing, Requested, Decided
  <2>2. pc[c] # "start" /\ pc'[c] # "start"
    BY <1>0, <1>1
  <2> QED
    BY <1>1, <2>1, <2>2 DEF Asleep, Status, Todo
<1>5. Sent # <<>> /\ Head(Sent) = p /\ Sent' = Tail(Sent)
  BY <1>0, <1>1, <1>2, SelectedLess DEF Sent
<1>6. \E d \in Packet : Decided = <<>> \/ Decided = <<d>>
  <2>1. CASE pc[v] \in {"data", "answer"}
    <3>1. writing[v] # {} /\ writing[v] \subseteq Packet
      BY <1>0, <2>1, SaysWhat DEF RInv, Spoken, Says, Busy, Writes
    <3>2. (CHOOSE a \in writing[v] : TRUE) \in Packet
      BY <3>1
    <3> QED
      BY <2>1, <3>2 DEF Decided
  <2>2. CASE pc[v] \notin {"data", "answer"}
    BY <1>2, <2>2 DEF Decided
  <2> QED
    BY <2>1, <2>2
<1>7. Answers # <<>> /\ Head(Answers) = p /\ Answers' = Tail(Answers)
  <2>1. Answers = Sent \o Decided /\ Answers' = Tail(Sent) \o Decided
    BY <1>4, <1>5 DEF Answers
  <2> HIDE DEF Sent, p
  <2>2. PICK d \in Packet : Decided = <<>> \/ Decided = <<d>>
    BY <1>6
  <2>3. /\ Sent \o Decided # <<>> /\ Head(Sent \o Decided) = Head(Sent)
        /\ Tail(Sent \o Decided) = Tail(Sent) \o Decided
    BY <1>0, <1>5, <2>2, HeadTailConcat
  <2> QED
    BY <1>5, <2>1, <2>3
<1>8. View' = IF p = Acknowledge(IDLE) THEN TRUE
              ELSE IF p \in {Acknowledge(WAKEUP), Acknowledge(ESCAPE)} THEN FALSE
              ELSE View
  <2>1. View = (inc_flag[c] = IDLE) /\ View' = (FlagOnHeader(p, inc_flag[c]) = IDLE)
    BY <1>1 DEF View
  <2> HIDE DEF p
  <2>2. (FlagOnHeader(p, inc_flag[c]) = IDLE)
           <=> IF p = Acknowledge(IDLE) THEN TRUE
               ELSE IF p \in {Acknowledge(WAKEUP), Acknowledge(ESCAPE)} THEN FALSE
               ELSE inc_flag[c] = IDLE
    BY <1>2, <1>3, ClientHears
  <2> QED
    BY <2>1, <2>2
<1> HIDE DEF p
<1>9. Head(Answers) # Dialogue!Acknowledge(Dialogue!ESCAPE)
  BY <1>3, <1>7, SameWords
<1>10. View' = Dialogue!Told(Head(Answers), View)
  BY <1>7, <1>8, SameWords DEF Dialogue!Told
<1> QED
  BY <1>4, <1>7, <1>9, <1>10 DEF Dialogue!Hear, Status, Todo, Answers, Asleep, View

\* The client reads the data of an answer.
LEMMA SimulateClientReads ==
  ASSUME RInv, RInv', ~Over, ~Over', ReadData("client")
  PROVE  UNCHANGED dialogueVars
<1> DEFINE v == "server"
           c == "client"
<1>0. /\ v \in Sides /\ c \in Sides /\ v # c /\ TypeOK /\ Rcv(c)
      /\ pc[c] = "data" /\ inbox[c] # <<>>
      /\ inbox[c] \in Seq(ServerSays \cup {Data})
  BY Going, Channels DEF ReadData
<1>1. /\ inbox'[v] = inbox[v] /\ inbox'[c] = Tail(inbox[c])
      /\ pc'[v] = pc[v] /\ UNCHANGED <<writing, inc_flag>>
      /\ pc'[c] = "answer"
  BY <1>0 DEF ReadData, Goto, TypeOK, flagVars
<1>2. Head(inbox[c]) \notin Packet
  <2>1. Head(inbox[c]) = inbox[c][1] /\ 1 \in 1..Len(inbox[c])
    BY <1>0, HeadTailProperties
  <2>2. Head(inbox[c]) = Data
    BY <1>0, <2>1 DEF Rcv, Framed
  <2> QED
    BY <2>2, SessionAssumption
<1>3. Sent' = Sent
  BY <1>0, <1>1, <1>2, SelectedLess DEF Sent
<1>4. Closing' = Closing /\ Requested' = Requested /\ Decided' = Decided
  BY <1>1 DEF Closing, Requested, Decided
<1>5. pc[c] # "start" /\ pc'[c] # "start"
  BY <1>0, <1>1
<1> QED
  BY <1>1, <1>3, <1>4, <1>5 DEF dialogueVars, Status, Todo, Answers, Asleep, View

\* The client writes: it asks, unless it acknowledges or writes data, or the
\* server does not read any more.
LEMMA SimulateAsk ==
  ASSUME RInv, RInv', ~Over, ~Over', WriteHeader("client") \/ WriteLast("client")
  PROVE  Dialogue!Ask \/ UNCHANGED dialogueVars
<1> DEFINE v == "server"
           c == "client"
<1>0. /\ v \in Sides /\ c \in Sides /\ v # c /\ Other(c) = v /\ TypeOK
      /\ inbox[v] \in Seq(ClientSays \cup {Data}) /\ Requested \in Seq(Commands)
      /\ link[c] \notin {"away", "open"} => Closing
      /\ pc[c] \in Writes
  BY Going, Channels DEF WriteHeader, WriteLast, Writes
<1>1. PICK x \in ClientSays \cup {Data} : Put(c, x)
  <2>1. writing[c] \subseteq ClientSays
    BY <1>0 DEF RInv, Spoken, Says
  <2> QED
    BY <2>1 DEF WriteHeader, WriteLast
<1>2. /\ inbox'[c] = inbox[c] /\ pc'[v] = pc[v] /\ writing'[v] = writing[v]
      /\ inbox'[v] = IF link[c] = "open" THEN Append(inbox[v], x) ELSE inbox[v]
      /\ link[c] # "away"
  BY <1>0, <1>1 DEF Put, WriteHeader, WriteLast, Goto, TypeOK
<1>3. inc_flag' = inc_flag
  <2>1. \A p \in writing[c] : ~MarksClosed(p)
    BY <1>0, SaysWhat DEF RInv, Spoken, Says, MarksClosed
  <2>2. CASE WriteHeader(c)
    BY <2>2 DEF WriteHeader
  <2>3. CASE WriteLast(c)
    BY <1>0, <2>1, <2>3 DEF WriteLast, TypeOK
  <2> QED
    BY <2>2, <2>3
<1>4. pc[c] # "start" /\ pc'[c] # "start"
  BY <1>0 DEF WriteHeader, WriteLast, Writes, Goto, TypeOK
<1>5. Closing' = Closing /\ Sent' = Sent /\ Decided' = Decided
  BY <1>2, <1>3 DEF Closing, Sent, Decided
<1>6. UNCHANGED <<Status, Answers, Asleep, View>>
  BY <1>2, <1>3, <1>4, <1>5 DEF Status, Answers, Asleep, View
<1>7. CASE Closing
  <2>1. Todo' = Todo
    BY <1>5, <1>7 DEF Todo
  <2> QED
    BY <1>6, <2>1 DEF dialogueVars
<1>8. CASE ~Closing
  <2>1. inbox'[v] = Append(inbox[v], x)
    BY <1>0, <1>2, <1>8
  <2>2. Requested' = IF x \in Commands THEN Append(Requested, x) ELSE Requested
    <3> DEFINE T == ClientSays \cup {Data}
    <3>1. inbox[v] \in Seq(T) /\ x \in T
      BY <1>0
    <3> HIDE DEF T
    <3>2. Selected(Append(inbox[v], x), Commands)
            = IF x \in Commands THEN Append(Selected(inbox[v], Commands), x)
              ELSE Selected(inbox[v], Commands)
      BY <3>1, SelectedMore
    <3> QED
      BY <2>1, <3>2 DEF Requested
  <2>3. Todo = Requested /\ Todo' = Requested'
    BY <1>5, <1>8 DEF Todo
  <2>4. CASE x \in Commands
    <3>1. Todo' = Append(Todo, x) /\ Status \in {"waiting", "on"}
      BY <1>4, <1>8, <2>2, <2>3, <2>4 DEF Status
    <3> HIDE DEF v, c
    <3>2. Dialogue!Ask
      BY <1>6, <2>4, <3>1 DEF Dialogue!Ask, Status, Todo, Answers, Asleep, View
    <3> QED
      BY <3>2
  <2>5. CASE x \notin Commands
    BY <1>6, <2>2, <2>3, <2>5 DEF dialogueVars
  <2> QED
    BY <2>4, <2>5
<1> QED
  BY <1>7, <1>8

LEMMA SimulateOpen ==
  ASSUME RInv, RInv', ~Over, ~Over', Establish
  PROVE  Dialogue!Open
<1>0. /\ "server" \in Sides /\ "client" \in Sides /\ "client" # "server" /\ TypeOK
      /\ pc["client"] = "start" /\ pc["server"] = "listen" /\ ~Closing
  BY Going DEF Establish, Before
<1>1. /\ pc'["client"] = "select" /\ pc'["server"] = "listen"
      /\ UNCHANGED <<inc_flag, inbox, writing>>
  BY <1>0 DEF Establish, Goto, TypeOK, flagVars
<1>2. UNCHANGED <<Closing, Requested, Sent, Decided>>
  BY <1>0, <1>1 DEF Closing, Requested, Sent, Decided
<1>3. UNCHANGED <<Todo, Answers, Asleep, View>>
  BY <1>1, <1>2 DEF Todo, Answers, Asleep, View
<1>4. Status = "before" /\ Status' = "waiting"
  BY <1>0, <1>1, <1>2 DEF Status
<1> QED
  BY <1>3, <1>4 DEF Dialogue!Open, Status, Todo, Answers, Asleep, View

\* The client's other steps, the user's and the kernel's.
LEMMA SimulateClientGoesOn ==
  ASSUME RInv, RInv', ~Over, ~Over',
         \/ ReadEnd("client") \/ ReadFails("client") \/ WriteFails("client")
         \/ WriteKills("client") \/ EstablishFails \/ ClientSelect \/ ClientReturn
         \/ ReadLine \/ Type \/ Interrupt \/ (\E s \in Sides : ResetArrives(s))
         \/ UNCHANGED vars
  PROVE  UNCHANGED dialogueVars
<1>0. /\ "server" \in Sides /\ "client" \in Sides /\ "client" # "server" /\ TypeOK
      /\ pc'["client"] \notin Ended /\ inc_flag'["client"] # CANCEL
  BY Going DEF Over
<1> USE DEF Goto, Leave, TypeOK
<1>1. ~ReadEnd("client") /\ ~WriteKills("client") /\ ~EstablishFails /\ ~Interrupt
  BY <1>0 DEF ReadEnd, WriteKills, EstablishFails, Interrupt, Ended
<1>2. UNCHANGED <<writing["server"], inc_flag, inbox>> /\ pc'["server"] = pc["server"]
  <2>1. CASE ReadFails("client") \/ WriteFails("client") \/ ClientSelect
    BY <1>0, <2>1 DEF ReadFails, WriteFails, ClientSelect, flagVars, kernelVars
  <2>2. CASE ClientReturn \/ ReadLine
    BY <1>0, <2>2 DEF ClientReturn, ReadLine, flagVars, kernelVars, Ended
  <2>3. CASE Type \/ (\E s \in Sides : ResetArrives(s)) \/ UNCHANGED vars
    BY <2>3 DEF Type, ResetArrives, vars, flagVars, kernelVars
  <2> QED
    BY <1>1, <2>1, <2>2, <2>3
<1>3. pc'["client"] = "start" <=> pc["client"] = "start"
  <2>1. CASE ReadFails("client") \/ WriteFails("client") \/ ClientSelect \/ ClientReturn
             \/ ReadLine
    BY <1>0, <2>1 DEF ReadFails, WriteFails, ClientSelect, ClientReturn, ReadLine, Writes
  <2>2. CASE Type \/ (\E s \in Sides : ResetArrives(s)) \/ UNCHANGED vars
    BY <2>2 DEF Type, ResetArrives, vars
  <2> QED
    BY <1>1, <2>1, <2>2
<1> QED
  BY <1>2, <1>3, SessionKept

\* While the session is not over, the server's connection does not end.
LEMMA ServerHolds ==
  ASSUME RInv, ~Over
  PROVE  /\ ~ReadEnd("server") /\ ~ReadFails("server")
         /\ ~WriteFails("server") /\ ~WriteKills("server")
BY Going DEF ReadEnd, ReadFails, WriteFails, WriteKills

LEMMA SimulationInit == Init => Dialogue!Init
<1> SUFFICES ASSUME Init PROVE Dialogue!Init
  OBVIOUS
<1>1. /\ pc["client"] = "start" /\ pc["server"] = "listen"
      /\ inbox["server"] = <<>> /\ inbox["client"] = <<>>
      /\ writing["server"] = {} /\ inc_flag["server"] = NULL_BYTE
      /\ inc_flag["client"] = NULL_BYTE
  BY DEF Init, Sides
<1>2. ~Over
  BY <1>1 DEF Over, Ended, NULL_BYTE, CANCEL
<1>3. Requested = <<>> /\ Sent = <<>> /\ Decided = <<>>
  BY <1>1, SelectedEmpty DEF Requested, Sent, Decided
<1>4. Sent \o Decided = <<>>
  BY <1>3, EmptySeq, ConcatEmptySeq
<1> QED
  BY <1>1, <1>2, <1>3, <1>4
     DEF Dialogue!Init, Status, Todo, Answers, Asleep, View, NULL_BYTE, IDLE

LEMMA SimulationStep ==
  ASSUME RInv, RInv', [Next]_vars
  PROVE  [Dialogue!Next]_(Dialogue!vars)
<1>1. CASE Over
  BY <1>1, OverStays, SimulateOver, DialogueStutters
<1>2. CASE ~Over /\ Over'
  BY <1>2, SimulateEnd DEF Dialogue!Next
<1>3. CASE ~Over /\ ~Over'
  <2>1. CASE Thread("server")
    <3>1. CASE ReadHeader("server") /\ Head(inbox["server"]) \in Commands
      BY <1>3, <3>1, SimulateServe DEF Dialogue!Next
    <3>2. CASE ReadHeader("server") /\ Head(inbox["server"]) \notin Commands
      BY <1>3, <3>2, SimulateServerReads, DialogueStutters
    <3>3. CASE ReadData("server")
      BY <1>3, <3>3, SimulateServerReads, DialogueStutters
    <3>4. CASE WriteHeader("server") \/ WriteLast("server")
      BY <1>3, <3>4, SimulateServerWrites, DialogueStutters
    <3> QED
      BY <1>3, <2>1, <3>1, <3>2, <3>3, <3>4, ServerHolds DEF Thread
  <2>2. CASE Accept \/ AcceptRefuses
    BY <1>3, <2>2, SimulateAccept DEF Dialogue!Next
  <2>3. CASE ServerSelect \/ ServerReturn
    BY <1>3, <2>3, SimulateServerGoesOn, DialogueStutters
  <2>4. CASE ReadHeader("client")
    BY <1>3, <2>4, SimulateHear DEF Dialogue!Next
  <2>5. CASE ReadData("client")
    BY <1>3, <2>5, SimulateClientReads, DialogueStutters
  <2>6. CASE WriteHeader("client") \/ WriteLast("client")
    BY <1>3, <2>6, SimulateAsk, DialogueStutters DEF Dialogue!Next
  <2>7. CASE Establish
    BY <1>3, <2>7, SimulateOpen DEF Dialogue!Next
  <2>8. CASE \/ ReadEnd("client") \/ ReadFails("client") \/ WriteFails("client")
             \/ WriteKills("client") \/ EstablishFails \/ ClientSelect \/ ClientReturn
             \/ ReadLine \/ Type \/ Interrupt \/ (\E s \in Sides : ResetArrives(s))
             \/ UNCHANGED vars
    BY <1>3, <2>8, SimulateClientGoesOn, DialogueStutters
  <2> QED
    BY <2>1, <2>2, <2>3, <2>4, <2>5, <2>6, <2>7, <2>8 DEF Next, Server, Client, Thread
<1> QED
  BY <1>1, <1>2, <1>3

LEMMA SimulationInvariance == Spec => []RInv
BY RefinementInit, RefinementStep, PTL DEF Spec

\* A session implements the dialogue: the requests are served one at a time in
\* the order of their typing, each is answered once and in the state that those
\* before it have led to, and the client hears the answers in that order,
\* whatever is typed while packets are under way and wherever a process ends.
THEOREM SessionDialogue == Spec => ImplementsDialogue
<1>1. Init => Dialogue!Init
  BY SimulationInit
<1>2. RInv /\ RInv' /\ [Next]_vars => [Dialogue!Next]_(Dialogue!vars)
  BY SimulationStep
<1> QED
  BY <1>1, <1>2, SimulationInvariance, PTL DEF Spec, ImplementsDialogue, Dialogue!Spec

\* The proofs about the dialogue, of the session's.
Agreed == INSTANCE ChopDialogueProofs WITH
  Requests <- Commands, status <- Status, todo <- Todo,
  answers <- Answers, asleep <- Asleep, view <- View

LEMMA AgreedWords ==
  /\ Agreed!ESCAPE = ESCAPE /\ Agreed!IDLE = IDLE /\ Agreed!WAKEUP = WAKEUP
  /\ Agreed!NULL_BYTE = NULL_BYTE
  /\ \A x : Agreed!Acknowledge(x) = Acknowledge(x)
  /\ \A p, inc : Agreed!Answer(p, inc) = Answer(p, inc)
<1>1. /\ Agreed!ESCAPE = ESCAPE /\ Agreed!IDLE = IDLE /\ Agreed!WAKEUP = WAKEUP
      /\ Agreed!NULL_BYTE = NULL_BYTE
  BY DEF Agreed!ESCAPE, ESCAPE, Agreed!IDLE, IDLE, Agreed!WAKEUP, WAKEUP,
     Agreed!NULL_BYTE, NULL_BYTE
<1>2. \A x : Agreed!Acknowledge(x) = Acknowledge(x)
  BY DEF Agreed!Acknowledge, Acknowledge, Agreed!assemble_header, assemble_header,
     Agreed!ACKNOWLEDGE, ACKNOWLEDGE
<1>3. \A p, inc : Agreed!Answer(p, inc) = Answer(p, inc)
  BY DEF Agreed!Answer, Answer, Agreed!Acknowledge, Acknowledge, Agreed!Refuse,
     Refuse, Agreed!assemble_header, assemble_header, Agreed!IsLongText, IsLongText,
     Agreed!ACKNOWLEDGE, ACKNOWLEDGE, Agreed!NEG_ACKNOWLEDGE, NEG_ACKNOWLEDGE,
     Agreed!START_TEXT, START_TEXT, Agreed!ENQUIRY, ENQUIRY, Agreed!IDLE, IDLE,
     Agreed!WAKEUP, WAKEUP, Agreed!ESCAPE, ESCAPE, Agreed!NULL_BYTE, NULL_BYTE,
     Agreed!ENQUIRY_NORMAL, ENQUIRY_NORMAL, Agreed!ENQUIRY_RETURN, ENQUIRY_RETURN,
     Agreed!ENQUIRY_TIME, ENQUIRY_TIME, Agreed!ENQUIRY_RTIME, ENQUIRY_RTIME,
     Agreed!TIME_LEN, TIME_LEN
<1> QED
  BY <1>1, <1>2, <1>3

\* Whether the client is asleep is known at both ends, by inc_flag, once the
\* client has read the answers under way to it; and until then the last of them
\* that tells says what the server knows.
THEOREM SessionAgreement == Spec => []FlagsAgree
<1>1. Agreed!Spec => []Agreed!Accord
  BY Agreed!AccordCorrect
<1>2. Dialogue!Init => Agreed!Init
  BY DEF Dialogue!Init, Agreed!Init
<1>3. [Dialogue!Next]_(Dialogue!vars) => [Agreed!Next]_(Agreed!vars)
  <2>1. Dialogue!Open => Agreed!Open
    BY DEF Dialogue!Open, Agreed!Open
  <2>2. Dialogue!Admit => Agreed!Admit
    BY DEF Dialogue!Admit, Agreed!Admit
  <2>3. Dialogue!TurnAway => Agreed!TurnAway
    BY DEF Dialogue!TurnAway, Agreed!TurnAway
  <2>4. Dialogue!Ask => Agreed!Ask
    BY DEF Dialogue!Ask, Agreed!Ask
  <2>5. Dialogue!Serve => Agreed!Serve
    BY SameWords, AgreedWords
       DEF Dialogue!Serve, Agreed!Serve, Dialogue!AnswerTo, Agreed!AnswerTo
  <2>6. Dialogue!Hear => Agreed!Hear
    BY SameWords, AgreedWords
       DEF Dialogue!Hear, Agreed!Hear, Dialogue!Told, Agreed!Told
  <2>7. Dialogue!End => Agreed!End
    BY DEF Dialogue!End, Agreed!End
  <2>8. UNCHANGED Dialogue!vars => UNCHANGED Agreed!vars
    BY DEF Dialogue!vars, Agreed!vars
  <2> QED
    BY <2>1, <2>2, <2>3, <2>4, <2>5, <2>6, <2>7, <2>8 DEF Dialogue!Next, Agreed!Next
<1>4. Agreed!Accord => FlagsAgree
  BY SameWords, AgreedWords
     DEF FlagsAgree, Agreed!Accord, Dialogue!Accord, Agreed!Telling, Dialogue!Telling
<1> QED
  BY <1>1, <1>2, <1>3, <1>4, SessionDialogue, PTL
     DEF ImplementsDialogue, Dialogue!Spec, Agreed!Spec
=============================================================================
