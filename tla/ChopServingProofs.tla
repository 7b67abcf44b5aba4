--------------------------- MODULE ChopServingProofs ---------------------------
(***************************************************************************)
(* ChopServer implements ChopServing: every step of the event loop, of a   *)
(* peer or of the kernel is one step of the seats and the queue, or none.  *)
(***************************************************************************)
EXTENDS ChopServerProofs, FiniteSetTheorems

-----------------------------------------------------------------------------
(* The mapping of ChopServer, with names for its parts. *)

Status == CASE pc = "setup" -> "starting"
            [] pc \in {"exited", "killed"} -> "down"
            [] OTHER -> "serving"
Seated   == {c \in Conns : Served(c)}
Left(c)  == peer[c] \in HungUp \/ (peer[c] = "open" /\ (bye[c] \/ astray[c]))
Leaving  == {c \in Conns : Left(c)}
Finished == {c \in Conns : peer[c] \in {"refused", "gone"}}

-----------------------------------------------------------------------------
(* Who may lose a seat. *)

\* Why the server may close c: its peer said goodbye or hung up, or the server
\* has lost track of its packets.
Excused(c) == bye[c] \/ astray[c] \/ peer[c] \in HungUp

\* Every escape among the items q was sent by a peer that said goodbye (b).
Said(q, b) == \A k \in 1..Len(q) : q[k] # Data /\ SaysBye(q[k]) => b

\* What the server has of an escape, unread, not answered yet or in the flags
\* of a client, was sent by that client, unless there is another reason to
\* close it.  (Inside a long header the flag stays while other packets are
\* served.)
Unread    == \A c \in Conns : ~astray[c] => Said(inbox[c], bye[c])
Answering == pc \in {"data", "text", "answer", "answer_data"}
               /\ Acknowledge(ESCAPE) \in answer => Excused(Conn)
Marked    == \A i \in Occupied : inc_flag[i] = CANCEL => Excused(fdt[clients[i]])
Unheard   == \A c \in Conns : peer[c] = "away" => ~bye[c] /\ ~astray[c]
EscapeIsTheirs == Unheard /\ Unread /\ Answering /\ Marked

LEMMA SaidTail ==
  ASSUME NEW q \in Seq(Items), q # <<>>, NEW b, Said(q, b)
  PROVE  /\ Said(Tail(q), b)
         /\ Head(q) # Data /\ SaysBye(Head(q)) => b
<1>1. /\ Len(q) \in Nat \ {0} /\ Len(Tail(q)) = Len(q) - 1 /\ Head(q) = q[1]
      /\ \A k \in 1..Len(q) - 1 : Tail(q)[k] = q[k + 1]
  BY HeadTailProperties
<1>2. ASSUME NEW k \in 1..Len(Tail(q))
      PROVE  Tail(q)[k] # Data /\ SaysBye(Tail(q)[k]) => b
  <2>1. Tail(q)[k] = q[k + 1] /\ k + 1 \in 1..Len(q)
    BY <1>1
  <2>2. q[k + 1] # Data /\ SaysBye(q[k + 1]) => b
    BY <2>1 DEF Said
  <2> QED
    BY <2>1, <2>2
<1> QED
  BY <1>1, <1>2 DEF Said

LEMMA SaidAppend ==
  ASSUME NEW q \in Seq(Items), NEW x \in Items, NEW b, NEW d, Said(q, b),
         b => d, x # Data /\ SaysBye(x) => d
  PROVE  Said(Append(q, x), d)
<1>1. /\ Len(q) \in Nat /\ Len(Append(q, x)) = Len(q) + 1
      /\ Append(q, x)[Len(q) + 1] = x
      /\ \A k \in 1..Len(q) : Append(q, x)[k] = q[k]
  BY AppendProperties
<1> SUFFICES ASSUME NEW k \in 1..Len(Append(q, x))
             PROVE  Append(q, x)[k] # Data /\ SaysBye(Append(q, x)[k]) => d
  BY DEF Said
<1>2. CASE k = Len(q) + 1
  BY <1>1, <1>2
<1>3. CASE k # Len(q) + 1
  <2>1. k \in 1..Len(q)
    BY <1>1, <1>3
  <2> QED
    BY <1>1, <2>1 DEF Said
<1> QED
  BY <1>2, <1>3

\* A request reads one item of a connection that does not go astray, or none.
LEMMA RequestItem ==
  ASSUME TypeOK, ProcessRequest, NEW c \in Conns, ~astray'[c]
  PROVE  \/ inbox'[c] = inbox[c]
         \/ inbox[c] # <<>> /\ inbox'[c] = Tail(inbox[c])
<1>0. /\ inbox \in [Conns -> Seq(Items)] /\ astray \in [Conns -> BOOLEAN]
      /\ ~astray[c]
  BY AstrayKept DEF TypeOK, Items, Next, Server
<1>1. CASE c # Conn
  BY <1>1, RequestConns
<1>2. CASE c = Conn /\ (ReadHeader \/ ReadData)
  BY <1>0, <1>2 DEF ReadHeader, ReadData, Rests, Take
<1>3. CASE c = Conn /\ (ReadShort \/ AppendFails)
  BY <1>0, <1>3 DEF ReadShort, AppendFails, GoAstray
<1>4. CASE c = Conn /\ ReadText
  BY <1>0, <1>4 DEF ReadText, Take, GoAstray
<1>5. CASE ReadTextEnd \/ ReadEnd \/ ReadFails \/ WriteAnswer \/ WriteFails
           \/ WriteKills \/ OutOfMemory
  BY <1>5 DEF ReadTextEnd, ReadEnd, ReadFails, WriteAnswer, WriteFails,
     WriteKills, OutOfMemory, connVars
<1> QED
  BY <1>1, <1>2, <1>3, <1>4, <1>5 DEF ProcessRequest

\* A step reads one item of a connection, adds one, empties it with the end of
\* the connection, or leaves it alone, unless the connection is astray; and no
\* goodbye is taken back.
LEMMA OneItem ==
  ASSUME TypeOK, [Next]_vars, NEW c \in Conns
  PROVE  /\ bye[c] => bye'[c]
         /\ \/ astray'[c]
            \/ inbox'[c] = inbox[c]
            \/ inbox'[c] = <<>>
            \/ inbox[c] # <<>> /\ inbox'[c] = Tail(inbox[c])
            \/ \E x \in Items : /\ inbox'[c] = Append(inbox[c], x)
                                /\ x # Data /\ SaysBye(x) => bye'[c]
<1>0. inbox \in [Conns -> Seq(Items)] /\ bye \in [Conns -> BOOLEAN]
  BY DEF TypeOK, Items
<1>1. CASE Setup \/ SetupFails \/ CheckSignal \/ SelectBlocks \/ SelectReturns
           \/ ScanFinds \/ ScanEnds \/ KeepClient \/ AcceptSkipped \/ AcceptClient
           \/ AcceptFails \/ Interrupt \/ UNCHANGED vars
  <2>1. bye' = bye /\ inbox' = inbox
    BY <1>1 DEF Setup, SetupFails, CheckSignal, SelectBlocks, SelectReturns,
                ScanFinds, ScanEnds, KeepClient, AcceptSkipped, AcceptClient,
                AcceptFails, Interrupt, vars, connVars
  <2> QED
    BY <2>1
<1>2. CASE ProcessRequest
  BY <1>2, RequestFrame, RequestItem
<1>5. CASE RemoveClient \/ AcceptRefuses
  <2>1. /\ bye' = bye
        /\ inbox' = inbox \/ \E d : inbox' = [inbox EXCEPT ![d] = <<>>]
    BY <1>5 DEF RemoveClient, AcceptRefuses
  <2> QED
    BY <1>0, <2>1
<1>6. ASSUME NEW d \in Conns, SendHeader(d)
      PROVE  /\ bye[c] => bye'[c]
             /\ \/ inbox'[c] = inbox[c]
                \/ \E x \in Items : /\ inbox'[c] = Append(inbox[c], x)
                                    /\ x # Data /\ SaysBye(x) => bye'[c]
  <2>1. PICK p \in Packets : /\ inbox' = [inbox EXCEPT ![d] = Append(@, p)]
                             /\ bye' = [bye EXCEPT ![d] = @ \/ SaysBye(p)]
    BY <1>6 DEF SendHeader
  <2>2. (bye[c] => bye'[c]) /\ (c = d /\ SaysBye(p) => bye'[c])
    BY <1>0, <2>1
  <2>3. inbox'[c] = IF c = d THEN Append(inbox[c], p) ELSE inbox[c]
    BY <1>0, <2>1
  <2> QED
    BY <2>2, <2>3 DEF Items
<1>7. ASSUME NEW d \in Conns, SendData(d)
      PROVE  /\ bye[c] => bye'[c]
             /\ \/ inbox'[c] = inbox[c]
                \/ \E x \in Items : /\ inbox'[c] = Append(inbox[c], x)
                                    /\ x # Data /\ SaysBye(x) => bye'[c]
  BY <1>0, <1>7 DEF SendData, Items
<1>8. ASSUME NEW d \in Conns, Connect(d) \/ HangUp(d) \/ ResetArrives(d)
      PROVE  bye' = bye /\ inbox' = inbox
  BY <1>8 DEF Connect, HangUp, ResetArrives
<1> QED
  BY <1>1, <1>2, <1>5, <1>6, <1>7, <1>8 DEF Next, Server, Accept, Environment

\* How the state of a connection may change.
LEMMA PeerStep ==
  ASSUME TypeOK, [Next]_vars, NEW c \in Conns
  PROVE  \/ peer'[c] = peer[c]
         \/ {peer[c], peer'[c]} \subseteq HungUp
         \/ peer'[c] \in {"gone", "refused"}
         \/ peer[c] = "away" /\ peer'[c] = "open"
         \/ peer[c] = "open" /\ peer'[c] \in HungUp
<1>0. peer \in [Conns -> PeerStates]
  BY DEF TypeOK
<1>1. CASE ProcessRequest
  BY <1>0, <1>1, RequestReads DEF HungUp
<1>2. CASE RemoveClient \/ AcceptRefuses
  <2>1. peer' = peer \/ \E d, s : s \in {"gone", "refused"} /\ peer' = [peer EXCEPT ![d] = s]
    BY <1>2 DEF RemoveClient, AcceptRefuses
  <2> QED
    BY <1>0, <2>1
<1>3. ASSUME NEW d \in Conns, Connect(d) \/ HangUp(d) \/ ResetArrives(d)
      PROVE  \/ peer'[c] = peer[c]
             \/ {peer[c], peer'[c]} \subseteq HungUp
             \/ peer[c] = "away" /\ peer'[c] = "open"
             \/ peer[c] = "open" /\ peer'[c] \in HungUp
  BY <1>0, <1>3 DEF Connect, HangUp, ResetArrives, HungUp
<1>4. CASE /\ ~ProcessRequest /\ ~RemoveClient /\ ~AcceptRefuses
           /\ \A d \in Conns : ~Connect(d) /\ ~HangUp(d) /\ ~ResetArrives(d)
  BY <1>4 DEF Next, Server, Accept, Environment, Setup, SetupFails, CheckSignal,
     SelectBlocks, SelectReturns, ScanFinds, ScanEnds, KeepClient, AcceptSkipped,
     AcceptClient, AcceptFails, SendHeader, SendData, Interrupt, vars, connVars
<1> QED
  BY <1>1, <1>2, <1>3, <1>4

\* A reason to close a connection stays until it is closed.
LEMMA ExcusedKept ==
  ASSUME TypeOK, [Next]_vars, NEW c \in Conns, Excused(c)
  PROVE  Excused(c)' \/ peer'[c] \in {"gone", "refused"}
BY OneItem, AstrayKept, PeerStep DEF Excused, HungUp

LEMMA EscapeInit == Init => EscapeIsTheirs
BY EmptySeq
   DEF Init, EscapeIsTheirs, Unheard, Unread, Said, Answering, Marked, Occupied

LEMMA UnheardStep ==
  ASSUME TypeOK, AtClient, TablesInv, OnePlace, Unheard, [Next]_vars
  PROVE  Unheard'
<1> SUFFICES ASSUME NEW c \in Conns, peer'[c] = "away"
             PROVE  ~bye'[c] /\ ~astray'[c]
  BY DEF Unheard
<1>1. peer[c] = "away" /\ ~bye[c] /\ ~astray[c]
  BY PeerStep DEF Unheard, HungUp
<1>2. CASE ProcessRequest
  <2>1. c # Conn
    BY <1>1, <1>2, RequestFrame, ConnServed DEF Established
  <2> QED
    BY <1>1, <1>2, <2>1, RequestFrame, RequestConns
<1>3. ASSUME NEW d \in Conns, SendHeader(d) PROVE ~bye'[c] /\ ~astray'[c]
  BY <1>1, <1>3 DEF SendHeader, TypeOK
<1>4. CASE ~ProcessRequest /\ \A d \in Conns : ~SendHeader(d)
  <2>1. bye' = bye /\ astray' = astray
    BY <1>4 DEF Next, Server, Accept, Environment, Setup, SetupFails, CheckSignal,
       SelectBlocks, SelectReturns, ScanFinds, ScanEnds, RemoveClient, KeepClient,
       AcceptSkipped, AcceptClient, AcceptRefuses, AcceptFails, Connect, SendData,
       HangUp, ResetArrives, Interrupt, vars, connVars
  <2> QED
    BY <1>1, <2>1
<1> QED
  BY <1>2, <1>3, <1>4

LEMMA UnreadStep ==
  ASSUME TypeOK, Unread, [Next]_vars
  PROVE  Unread'
<1> SUFFICES ASSUME NEW c \in Conns, ~astray'[c] PROVE Said(inbox'[c], bye'[c])
  BY DEF Unread
<1>1. Said(inbox[c], bye[c]) /\ inbox[c] \in Seq(Items)
  BY AstrayKept DEF Unread, TypeOK, Items
<1>2. bye[c] => bye'[c]
  BY OneItem
<1>3. CASE inbox'[c] = inbox[c]
  BY <1>1, <1>2, <1>3 DEF Said
<1>4. CASE inbox'[c] = <<>>
  BY <1>4 DEF Said
<1>5. CASE inbox[c] # <<>> /\ inbox'[c] = Tail(inbox[c])
  <2>1. Said(Tail(inbox[c]), bye[c])
    BY <1>1, <1>5, SaidTail
  <2> QED
    BY <1>2, <1>5, <2>1 DEF Said
<1>6. CASE \E x \in Items : /\ inbox'[c] = Append(inbox[c], x)
                            /\ x # Data /\ SaysBye(x) => bye'[c]
  BY <1>1, <1>2, <1>6, SaidAppend
<1> QED
  BY <1>3, <1>4, <1>5, <1>6, OneItem

\* An escape is answered by the one answer that marks its sender; nothing else
\* is answered so.
LEMMA OnlyEscape ==
  ASSUME NEW p, NEW inc, Acknowledge(ESCAPE) \in Answer(p, inc)
  PROVE  SaysBye(p)
<1>1. Acknowledge(ESCAPE) # Acknowledge(START_TEXT)
  BY DEF Acknowledge, assemble_header, ESCAPE, START_TEXT
<1>2. Acknowledge(ESCAPE) # Acknowledge(ENQUIRY)
  BY DEF Acknowledge, assemble_header, ESCAPE, ENQUIRY
<1>3. Acknowledge(ESCAPE) # Acknowledge(WAKEUP)
  BY DEF Acknowledge, assemble_header, ESCAPE, WAKEUP
<1>4. Acknowledge(ESCAPE) # Acknowledge(IDLE)
  BY DEF Acknowledge, assemble_header, ESCAPE, IDLE
<1>5. \A s : Acknowledge(ESCAPE) # Refuse(s)
  BY DEF Acknowledge, Refuse, assemble_header, ACKNOWLEDGE, NEG_ACKNOWLEDGE
<1>6. \A s, t : Acknowledge(ESCAPE) # assemble_header(ENQUIRY, s, t)
  BY DEF Acknowledge, assemble_header, ACKNOWLEDGE, ENQUIRY
<1> QED
  BY <1>1, <1>2, <1>3, <1>4, <1>5, <1>6 DEF Answer, SaysBye

\* What the header of p makes of an unmarked client.
LEMMA OnlyByeMarks ==
  ASSUME NEW p, NEW inc, inc # CANCEL, FlagOnHeader(p, inc) = CANCEL
  PROVE  SaysBye(p)
BY DEF FlagOnHeader, SaysBye, CANCEL, NULL_BYTE, IDLE

\* A header that says goodbye is read from a peer that said so, or from a
\* connection that is astray.
LEMMA ByeHeard ==
  ASSUME TypeOK, Unread, pc \in Busy, Conn \in Conns, inbox[Conn] # <<>>,
         NEW p \in Headers(Conn), SaysBye(p)
  PROVE  bye[Conn] \/ astray[Conn]
<1>1. CASE ~astray[Conn]
  <2>1. inbox[Conn] \in Seq(Items) /\ Said(inbox[Conn], bye[Conn])
    BY <1>1 DEF TypeOK, Items, Unread
  <2>2. p = Head(inbox[Conn]) /\ p # Data
    BY <1>1 DEF Headers
  <2> QED
    BY <2>1, <2>2, SaidTail
<1> QED
  BY <1>1

\* process_request marks the client it serves for a reason ...
LEMMA RequestMarks ==
  ASSUME TypeOK, AtClient, TablesInv, OnePlace, Unread, Answering, ProcessRequest,
         inc_flag[index] # CANCEL, inc_flag'[index] = CANCEL
  PROVE  Excused(Conn) \/ peer'[Conn] \in HungUp
<1>0. /\ inc_flag \in [Slots -> Byte] /\ index \in Slots /\ pc \in Busy
      /\ Conn \in Conns /\ peer \in [Conns -> PeerStates]
  BY RequestFrame, ConnServed DEF TypeOK, AtClient, Occupied
<1>1. CASE ReadHeader
  <2>1. PICK p \in Headers(Conn) :
          inc_flag' = [inc_flag EXCEPT ![index] = FlagOnHeader(p, @)]
    BY <1>1 DEF ReadHeader
  <2>2. inc_flag'[index] = FlagOnHeader(p, inc_flag[index]) /\ inbox[Conn] # <<>>
    BY <1>0, <1>1, <2>1 DEF ReadHeader
  <2>3. SaysBye(p)
    BY <2>2, OnlyByeMarks
  <2> QED
    BY <1>0, <2>2, <2>3, ByeHeard DEF Excused
<1>2. CASE ReadEnd
  BY <1>2 DEF ReadEnd, connVars, HungUp
<1>3. CASE WriteAnswer
  <2>1. \E a \in answer : MarksClosed(a)
    BY <1>0, <1>3 DEF WriteAnswer
  <2>2. pc \in {"answer", "answer_data"}
    BY <1>3 DEF WriteAnswer
  <2> QED
    BY <2>1, <2>2 DEF Answering, MarksClosed
<1>4. CASE ReadData \/ ReadShort \/ ReadText \/ ReadTextEnd \/ ReadFails
           \/ WriteFails \/ WriteKills \/ OutOfMemory \/ AppendFails
  BY <1>4 DEF ReadData, ReadShort, ReadText, ReadTextEnd, ReadFails, WriteFails,
     WriteKills, OutOfMemory, AppendFails, flagVars
<1> QED
  BY <1>1, <1>2, <1>3, <1>4 DEF ProcessRequest

\* ... and has the answer to an escape for one.
LEMMA RequestAnswers ==
  ASSUME TypeOK, AtClient, TablesInv, OnePlace, Unread, Answering, ProcessRequest,
         pc' # "header", Acknowledge(ESCAPE) \in answer'
  PROVE  Excused(Conn) \/ pc' \in {"reap", "killed"}
<1>0. pc \in Busy /\ Conn \in Conns
  BY RequestFrame, ConnServed
<1>1. CASE ReadHeader
  <2>1. PICK p \in Headers(Conn) :
          \/ answer' = Answer(p, inc_flag[index])
          \/ \E b \in BOOLEAN : Return(b)
    BY <1>1 DEF ReadHeader
  <2>2. inbox[Conn] # <<>>
    BY <1>1 DEF ReadHeader
  <2>3. SaysBye(p)
    BY <2>1, OnlyEscape DEF Return
  <2> QED
    BY <1>0, <2>2, <2>3, ByeHeard DEF Excused
<1>2. CASE ReadData
  BY <1>2 DEF ReadData, callVars, Answering
<1>3. CASE ReadText
  BY <1>3 DEF ReadText, Return, callVars, Answering
<1>4. CASE WriteAnswer
  BY <1>4 DEF WriteAnswer, Return, callVars, Answering
<1>5. CASE ReadShort \/ ReadTextEnd \/ ReadEnd \/ ReadFails \/ WriteFails
           \/ OutOfMemory \/ AppendFails
  BY <1>5 DEF ReadShort, ReadTextEnd, ReadEnd, ReadFails, WriteFails, OutOfMemory,
     AppendFails, Return
<1>6. CASE WriteKills
  BY <1>6 DEF WriteKills
<1> QED
  BY <1>1, <1>2, <1>3, <1>4, <1>5, <1>6 DEF ProcessRequest

\* No client that has a slot is closed.
LEMMA SeatedStays ==
  ASSUME TypeOK, OnePlace', [Next]_vars, NEW i \in Occupied',
         Excused(fdt'[clients'[i]]), fdt'[clients'[i]] \in Conns
  PROVE  Excused(fdt[clients[i]])'
<1> DEFINE c == fdt'[clients'[i]]
<1>1. peer'[c] \in Established
  BY DEF OnePlace, Served
<1> QED
  BY <1>1, ExcusedKept DEF Excused, Established

LEMMA MarkedStep ==
  ASSUME IInv, IInv', EscapeIsTheirs, [Next]_vars
  PROVE  Marked'
<1> USE DEF IInv, EscapeIsTheirs
<1> SUFFICES ASSUME NEW i \in Occupied', inc_flag'[i] = CANCEL
             PROVE  Excused(fdt[clients[i]])'
  BY DEF Marked
<1>0. /\ inc_flag \in [Slots -> Byte] /\ fdt'[clients'[i]] \in Conns
      /\ i \in Slots /\ peer \in [Conns -> PeerStates]
  BY DEF TypeOK, TablesInv, DescriptorsAgree, NoLeak, Occupied
<1>1. CASE /\ i \in Occupied /\ fdt'[clients'[i]] = fdt[clients[i]]
           /\ inc_flag'[i] = inc_flag[i]
  BY <1>0, <1>1, SeatedStays DEF Marked
<1>2. CASE ProcessRequest
  <2>1. UNCHANGED <<clients, fdt, index>> /\ i \in Occupied
    BY <1>2, RequestFrame DEF tableVars, kernelVars, Occupied
  <2>2. CASE i # index \/ inc_flag[index] = CANCEL
    BY <1>0, <1>2, <2>1, <2>2, RequestCall, SeatedStays DEF Marked
  <2>3. CASE i = index /\ inc_flag[index] # CANCEL
    <3>1. Excused(Conn) \/ peer'[Conn] \in HungUp
      BY <1>2, <2>3, RequestMarks
    <3> QED
      BY <1>0, <2>1, <2>3, <3>1, SeatedStays DEF Conn, Excused
  <2> QED
    BY <2>2, <2>3
<1>3. CASE AcceptClient
  <2>1. PICK f \in Fds, k \in Slots :
          /\ fdt[f] = "free" /\ clients[k] = NULL
          /\ fdt' = [fdt EXCEPT ![f] = Head(backlog)]
          /\ clients' = [clients EXCEPT ![k] = f]
          /\ inc_flag' = [inc_flag EXCEPT ![k] = NULL_BYTE]
    BY <1>3 DEF AcceptClient, LowestFree, FirstEmpty
  <2>2. i # k
    BY <1>0, <2>1 DEF CANCEL, NULL_BYTE
  <2>3. clients'[i] = clients[i] /\ inc_flag'[i] = inc_flag[i]
    BY <1>0, <2>1, <2>2
  <2>4. i \in Occupied /\ fdt[clients[i]] \in Conns
    BY <2>3 DEF Occupied, TablesInv, DescriptorsAgree, NoLeak
  <2>5. clients[i] # f /\ fdt \in [Fds -> FdKinds \cup Conns]
    BY <2>1, <2>4, ServerAssumption DEF FdKinds, TypeOK
  <2>6. clients[i] \in Fds
    BY <2>4 DEF TypeOK, Occupied
  <2> QED
    BY <1>1, <2>1, <2>3, <2>4, <2>5, <2>6
<1>4. CASE RemoveClient
  BY <1>0, <1>1, <1>4, RemoveEffect DEF RemoveClient, Occupied, TypeOK
<1>5. CASE Setup
  BY <1>5 DEF Setup, TablesInv, Fresh, Occupied
<1>6. CASE ~ProcessRequest /\ ~AcceptClient /\ ~RemoveClient /\ ~Setup
  <2>1. UNCHANGED <<clients, fdt, inc_flag>>
    BY <1>6 DEF Next, Server, Accept, Environment, SetupFails, CheckSignal,
       SelectBlocks, SelectReturns, ScanFinds, ScanEnds, KeepClient, AcceptSkipped,
       AcceptRefuses, AcceptFails, Connect, SendHeader, SendData, HangUp,
       ResetArrives, Interrupt, vars, tableVars, flagVars, kernelVars
  <2> QED
    BY <1>1, <2>1 DEF Occupied
<1> QED
  BY <1>2, <1>3, <1>4, <1>5, <1>6

LEMMA AnsweringStep ==
  ASSUME IInv, IInv', EscapeIsTheirs, [Next]_vars
  PROVE  Answering'
<1> USE DEF IInv, EscapeIsTheirs
<1> SUFFICES ASSUME pc' \in {"data", "text", "answer", "answer_data"},
                    Acknowledge(ESCAPE) \in answer'
             PROVE  Excused(Conn)'
  BY DEF Answering
<1>0. pc' \in Busy /\ index' \in Occupied' /\ Conn' \in Conns
  BY DEF Busy, AtClient, TablesInv, DescriptorsAgree, NoLeak, Conn
<1>1. Conn' = fdt'[clients'[index']]
  BY DEF Conn
<1>2. Conn' = Conn /\ (Excused(Conn) \/ ProcessRequest)
  <2>1. CASE ProcessRequest
    BY <2>1, RequestFrame DEF tableVars, kernelVars, Conn
  <2>2. CASE ~ProcessRequest
    <3>1. /\ UNCHANGED <<pc, index, answer, clients, fdt>>
      BY <2>2 DEF Next, Server, Accept, Environment, Setup, SetupFails, CheckSignal,
         SelectBlocks, SelectReturns, ScanFinds, ScanEnds, RemoveClient, KeepClient,
         AcceptSkipped, AcceptClient, AcceptRefuses, AcceptFails, Connect, SendHeader,
         SendData, HangUp, ResetArrives, Interrupt, vars, loopVars, tableVars,
         callVars, kernelVars
    <3> QED
      BY <3>1 DEF Conn, Answering
  <2> QED
    BY <2>1, <2>2
<1>3. Excused(Conn)
  BY <1>2, RequestAnswers
<1> QED
  BY <1>0, <1>1, <1>2, <1>3, SeatedStays

LEMMA EscapeStep ==
  ASSUME IInv, IInv', EscapeIsTheirs, [Next]_vars
  PROVE  EscapeIsTheirs'
BY UnheardStep, UnreadStep, AnsweringStep, MarkedStep DEF EscapeIsTheirs, IInv

-----------------------------------------------------------------------------
(* Seats are slots. *)

LEMMA SeatsAreSlots ==
  ASSUME IInv
  PROVE  /\ Cardinality(Seated) \in Nat
         /\ Cardinality(Seated) <= MAX_CONNECTIONS
         /\ Cardinality(Seated) = MAX_CONNECTIONS <=> Occupied = Slots
<1> USE DEF IInv
<1>1. IsFiniteSet(Slots) /\ Cardinality(Slots) = MAX_CONNECTIONS
  BY FS_Interval, ServerAssumption DEF Slots
<1>2. Occupied \in SUBSET Slots
  BY DEF Occupied
<1>3. /\ IsFiniteSet(Occupied)
      /\ Cardinality(Occupied) <= MAX_CONNECTIONS
      /\ Cardinality(Occupied) = MAX_CONNECTIONS <=> Occupied = Slots
  BY <1>1, <1>2, FS_Subset
<1>4. ExistsBijection(Occupied, Seated)
  <2> DEFINE place == [i \in Occupied |-> fdt[clients[i]]]
  <2>1. place \in [Occupied -> Seated]
    BY DEF TablesInv, DescriptorsAgree, NoLeak, Seated, Served
  <2>2. \A i, j \in Occupied : place[i] = place[j] => i = j
    BY DEF OnePlace
  <2>3. \A c \in Seated : \E i \in Occupied : place[i] = c
    BY DEF Seated, Served
  <2> QED
    BY <2>1, <2>2, <2>3
       DEF ExistsBijection, Bijection, Injection, Surjection, IsInjective
<1>5. Cardinality(Seated) = Cardinality(Occupied)
  BY <1>3, <1>4, FS_Bijection
<1> QED
  BY <1>3, <1>5, FS_CardinalityType

-----------------------------------------------------------------------------
(* Every step is a step of ChopServing, or none. *)

servingVars == <<Status, backlog, Seated, Leaving, Finished>>

\* A step that moves no connection and neither starts nor ends the process.
LEMMA ServingKept ==
  ASSUME Status' = Status, UNCHANGED <<backlog, clients, fdt>>,
         \A c \in Conns : /\ Left(c)' <=> Left(c)
                          /\ c \in Finished' <=> c \in Finished
  PROVE  UNCHANGED servingVars
<1>1. \A c \in Conns : Served(c)' <=> Served(c)
  BY DEF Served, Occupied
<1>2. Seated' = Seated /\ Leaving' = Leaving
  BY <1>1 DEF Seated, Leaving
<1>3. Finished' = Finished
  BY DEF Finished
<1> QED
  BY <1>2, <1>3 DEF servingVars

LEMMA ServingStutters == UNCHANGED servingVars => UNCHANGED Serving!vars
BY DEF servingVars, Serving!vars, Status, Seated, Leaving, Finished, Left

LEMMA ServingInit == Init => Serving!Init
<1> SUFFICES ASSUME Init PROVE Serving!Init
  OBVIOUS
<1>1. pc = "setup" /\ backlog = <<>> /\ \A c \in Conns : peer[c] = "away"
  BY DEF Init
<1>2. \A i \in Slots : clients[i] = NULL
  BY DEF Init
<1>3. {c \in Conns : Served(c)} = {}
  BY <1>2 DEF Served, Occupied
<1> QED
  BY <1>1, <1>3 DEF Serving!Init, HungUp

\* Where a running server is, and where it is not.
LEMMA Serves ==
  ASSUME pc \notin {"setup", "exited", "killed"}, pc' \notin {"setup", "exited", "killed"}
  PROVE  Status = "serving" /\ Status' = "serving"
BY DEF Status

\* The operator of the module ChopServing has instantiated is the one here.
LEMMA SameCardinality == ASSUME NEW S PROVE Serving!Cardinality(S) = Cardinality(S)
BY DEF Serving!Cardinality, Cardinality

LEMMA SimulateSeat ==
  ASSUME IInv, AcceptClient
  PROVE  Serving!Seat
<1> USE DEF IInv
<1> DEFINE h == Head(backlog)
<1>1. PICK f \in Fds, i \in Slots : Accepts(f, i)
  BY AcceptEffect
<1>2. /\ pc = "accept" /\ pc' = "check" /\ backlog # <<>>
      /\ backlog' = Tail(backlog) /\ UNCHANGED <<peer, bye, astray>>
  BY DEF AcceptClient, connVars
<1>3. Status = "serving" /\ Status' = "serving"
  BY <1>2, Serves
<1>4. i \notin Occupied /\ Occupied' = Occupied \cup {i} /\ h \in Conns
  BY <1>1 DEF Accepts, Occupied
<1>5. \A j \in Occupied' : fdt'[clients'[j]] = IF j = i THEN h ELSE fdt[clients[j]]
  BY <1>1 DEF Accepts
<1>6. Seated' = Seated \cup {h}
  BY <1>4, <1>5 DEF Seated, Served
<1>7. Cardinality(Seated) < MAX_CONNECTIONS
  BY <1>4, SeatsAreSlots, ServerAssumption DEF Occupied
<1>8. Leaving' = Leaving /\ Finished' = Finished
  BY <1>2 DEF Leaving, Left, Finished
<1> QED
  BY <1>2, <1>3, <1>6, <1>7, <1>8, SameCardinality
     DEF Serving!Seat, Status, Seated, Leaving, Left, Finished

LEMMA SimulateTurnAway ==
  ASSUME IInv, AcceptRefuses
  PROVE  Serving!TurnAway
<1> USE DEF IInv
<1> DEFINE h == Head(backlog)
<1>1. /\ pc = "accept" /\ pc' = "check" /\ backlog # <<>>
      /\ backlog' = Tail(backlog) /\ UNCHANGED <<clients, fdt, bye, astray>>
      /\ MallocMayFail \/ Occupied = Slots
  BY DEF AcceptRefuses, NoSlotLeft, tableVars
<1>2. h \in Conns
  BY <1>1, HeadLeaves
<1>3. \A c \in Conns : peer'[c] = IF c = h THEN "refused" ELSE peer[c]
  BY DEF AcceptRefuses, TypeOK
<1>4. Status = "serving" /\ Status' = "serving"
  BY <1>1, Serves
<1>5. Seated' = Seated
  BY <1>1 DEF Seated, Served, Occupied
<1>6. Leaving' = Leaving \ {h} /\ Finished' = Finished \cup {h}
  BY <1>1, <1>2, <1>3 DEF Leaving, Left, Finished, HungUp
<1>7. MallocMayFail \/ Cardinality(Seated) = MAX_CONNECTIONS
  BY <1>1, SeatsAreSlots
<1> QED
  BY <1>1, <1>4, <1>5, <1>6, <1>7, SameCardinality
     DEF Serving!TurnAway, Status, Seated, Leaving, Left, Finished

LEMMA SimulateFinish ==
  ASSUME IInv, Marked, RemoveClient
  PROVE  \E c \in Conns : Serving!Finish(c)
<1> USE DEF IInv
<1>1. /\ pc = "reap" /\ pc' = "scan" /\ is_client_status(index, CANCEL)
      /\ UNCHANGED <<backlog, bye, astray>>
  BY DEF RemoveClient
<1>2. Status = "serving" /\ Status' = "serving"
  BY <1>1, Serves
<1>3. index \in Occupied /\ Conn \in Conns /\ peer[Conn] \in Established
  BY <1>1, RemoveEffect, ConnServed DEF Busy
<1>4. \A c \in Conns : peer'[c] = IF c = Conn THEN "gone" ELSE peer[c]
  BY RemoveEffect DEF TypeOK
<1>5. Conn \in Seated /\ Conn \in Leaving
  <2>1. Excused(Conn)
    BY <1>1, <1>3 DEF Marked, is_client_status, Conn
  <2> QED
    BY <1>3, <2>1 DEF Seated, Served, Conn, Leaving, Left, Excused, Established, HungUp
<1>6. Seated' = Seated \ {Conn}
  <2>1. \A i \in Occupied' : /\ i \in Occupied /\ i # index
                             /\ fdt'[clients'[i]] = fdt[clients[i]]
    BY RemoveEffect DEF TypeOK, Occupied
  <2>2. \A i \in Occupied \ {index} : i \in Occupied'
    BY RemoveEffect
  <2>3. \A c \in Conns : Served(c)' <=> Served(c) /\ c # Conn
    BY <1>3, <2>1, <2>2 DEF Served, Conn, OnePlace
  <2> QED
    BY <2>3 DEF Seated
<1>7. Leaving' = Leaving \ {Conn} /\ Finished' = Finished \cup {Conn}
  BY <1>1, <1>3, <1>4 DEF Leaving, Left, Finished, HungUp
<1>8. PICK c \in Conns : c = Conn
  BY <1>3
<1>9. Serving!Finish(c)
  BY <1>1, <1>2, <1>5, <1>6, <1>7, <1>8
     DEF Serving!Finish, Status, Seated, Leaving, Left, Finished
<1> QED
  BY <1>9

LEMMA SimulateArrive ==
  ASSUME IInv, Unheard, NEW c \in Conns, Connect(c)
  PROVE  Serving!Arrive(c)
<1> USE DEF IInv
<1>1. /\ pc \notin {"setup", "exited", "killed"} /\ pc' = pc
      /\ peer[c] = "away" /\ Len(backlog) < CONNECT_QUEUE
      /\ backlog' = Append(backlog, c) /\ UNCHANGED <<clients, fdt, bye, astray>>
  BY DEF Connect, Running, loopVars, tableVars
<1>2. \A d \in Conns : peer'[d] = IF d = c THEN "open" ELSE peer[d]
  BY DEF Connect, TypeOK
<1>3. Status = "serving" /\ Status' = "serving"
  BY <1>1, Serves
<1>4. ~Waiting(c) /\ ~Served(c) /\ c \notin Finished
  BY <1>1 DEF OnePlace, Established, Finished
<1>5. Seated' = Seated /\ Finished' = Finished
  BY <1>1, <1>2 DEF Seated, Served, Occupied, Finished
<1>6. ~bye[c] /\ ~astray[c]
  BY <1>1 DEF Unheard
<1>7. Leaving' = Leaving
  BY <1>1, <1>2, <1>6 DEF Leaving, Left, HungUp
<1> QED
  BY <1>1, <1>3, <1>4, <1>5, <1>7
     DEF Serving!Arrive, Serving!Present, Serving!InQueue, Waiting, Status, Seated,
         Leaving, Left, Finished

\* A step that moves no connection, and after which one more peer at most has
\* taken its leave.
LEMMA SimulateLeave ==
  ASSUME IInv, Status = "serving", Status' = "serving",
         UNCHANGED <<backlog, clients, fdt>>,
         NEW c \in Conns, peer[c] \in Established, Left(c) => Left(c)',
         \A d \in Conns : /\ d # c => (Left(d)' <=> Left(d))
                          /\ d \in Finished' <=> d \in Finished
  PROVE  Serving!Leave(c) \/ UNCHANGED servingVars
<1> USE DEF IInv
<1>1. CASE Left(c)' <=> Left(c)
  BY <1>1, ServingKept
<1>2. CASE ~(Left(c)' <=> Left(c))
  <2>1. Leaving' = Leaving \cup {c} /\ c \notin Leaving
    BY <1>2 DEF Leaving
  <2>2. Seated' = Seated
    BY DEF Seated, Served, Occupied
  <2>3. Finished' = Finished
    BY DEF Finished
  <2>4. Waiting(c) \/ c \in Seated
    BY DEF OnePlace, Seated
  <2> QED
    BY <2>1, <2>2, <2>3, <2>4
       DEF Serving!Leave, Serving!Present, Serving!InQueue, Waiting, Status, Seated,
           Leaving, Left, Finished
<1> QED
  BY <1>1, <1>2

\* A peer says goodbye, or hangs up.
LEMMA SimulatePeer ==
  ASSUME IInv, NEW c \in Conns, SendHeader(c) \/ HangUp(c)
  PROVE  Serving!Leave(c) \/ UNCHANGED servingVars
<1> USE DEF IInv
<1>1. /\ pc \notin {"setup", "exited", "killed"} /\ pc' = pc /\ peer[c] = "open"
      /\ UNCHANGED <<backlog, clients, fdt, astray>>
  BY DEF SendHeader, HangUp, Running, loopVars, tableVars, kernelVars
<1>2. Status = "serving" /\ Status' = "serving"
  BY <1>1, Serves
<1>3. \A d \in Conns : /\ d # c => (Left(d)' <=> Left(d))
                       /\ Left(d) => Left(d)'
                       /\ d \in Finished' <=> d \in Finished
  <2>1. CASE SendHeader(c)
    <3>1. peer' = peer /\ \A d \in Conns : /\ d # c => bye'[d] = bye[d]
                                           /\ bye[d] => bye'[d]
      BY <2>1 DEF SendHeader, TypeOK
    <3> QED
      BY <1>1, <3>1 DEF Left, Finished
  <2>2. CASE HangUp(c)
    <3>1. PICK s \in {"fin", "rst"} : peer' = [peer EXCEPT ![c] = s]
      BY <2>2 DEF HangUp
    <3>2. \A d \in Conns : peer'[d] = IF d = c THEN s ELSE peer[d]
      BY <3>1 DEF TypeOK
    <3>3. bye' = bye
      BY <2>2 DEF HangUp
    <3> QED
      BY <1>1, <3>2, <3>3 DEF Left, Finished, HungUp
  <2> QED
    BY <2>1, <2>2
<1> QED
  BY <1>1, <1>2, <1>3, SimulateLeave DEF Established

\* process_request may lose track of the packets of the client it serves.
LEMMA SimulateRequest ==
  ASSUME IInv, ProcessRequest, ~WriteKills
  PROVE  (\E c \in Conns : Serving!Leave(c)) \/ UNCHANGED servingVars
<1> USE DEF IInv
<1>1. /\ UNCHANGED <<backlog, clients, fdt, bye>> /\ pc \in Busy
      /\ Conn \in Conns /\ peer[Conn] \in Established
  BY RequestFrame, ConnServed DEF tableVars, kernelVars
<1>2. Status = "serving" /\ Status' = "serving"
  <2>1. pc' # "killed"
    BY DEF ProcessRequest, ReadHeader, ReadData, ReadShort, ReadText, ReadTextEnd,
       ReadEnd, ReadFails, WriteAnswer, WriteFails, OutOfMemory, AppendFails, Return
  <2> QED
    BY <1>1, <2>1, RequestFrame, Serves DEF Busy
<1>3. /\ peer \in [Conns -> PeerStates] /\ astray \in [Conns -> BOOLEAN]
      /\ [Next]_vars
  BY DEF TypeOK, Next, Server
<1>4. \A d \in Conns : \/ peer'[d] = peer[d]
                       \/ {peer[d], peer'[d]} \subseteq HungUp
  BY <1>3, RequestReads DEF HungUp
<1>5. \A d \in Conns : d \in Finished' <=> d \in Finished
  BY <1>4 DEF Finished, HungUp
<1>6. \A d \in Conns : d # Conn => (Left(d)' <=> Left(d))
  BY <1>1, RequestConns DEF Left
<1>7. Left(Conn) => \/ peer'[Conn] \in HungUp
                    \/ peer'[Conn] = "open" /\ (bye'[Conn] \/ astray'[Conn])
  BY <1>1, <1>3, <1>4, AstrayKept DEF Left, HungUp
<1>8. PICK c \in Conns : c = Conn
  BY <1>1
<1>9. Left(c) => Left(c)'
  BY <1>7, <1>8 DEF Left
<1> QED
  BY <1>1, <1>2, <1>5, <1>6, <1>8, <1>9, SimulateLeave

\* The process starts, or ends, or goes on; nothing else changes for its peers.
LEMMA SimulateProcess ==
  ASSUME IInv, Setup \/ SetupFails \/ CheckSignal \/ WriteKills
  PROVE  Serving!Start \/ Serving!Stop \/ UNCHANGED servingVars
<1> USE DEF IInv
<1>1. UNCHANGED <<backlog, peer, bye, astray>>
  BY DEF Setup, SetupFails, CheckSignal, WriteKills, kernelVars, connVars
<1>2. Leaving' = Leaving /\ Finished' = Finished
  BY <1>1 DEF Leaving, Left, Finished
<1>3. Seated' = Seated
  <2>1. CASE Setup
    <3>1. Occupied = {} /\ clients' = clients
      BY <2>1 DEF Setup, TablesInv, Fresh
    <3> QED
      BY <3>1 DEF Seated, Served, Occupied
  <2>2. CASE SetupFails \/ CheckSignal \/ WriteKills
    <3>1. UNCHANGED <<clients, fdt>>
      BY <2>2 DEF SetupFails, CheckSignal, WriteKills, tableVars, kernelVars
    <3> QED
      BY <3>1 DEF Seated, Served, Occupied
  <2> QED
    BY <2>1, <2>2
<1>4. CASE Setup
  <2>1. Status = "starting" /\ Status' = "serving"
    BY <1>4 DEF Setup, Status
  <2> QED
    BY <1>1, <1>2, <1>3, <2>1
       DEF Serving!Start, Status, Seated, Leaving, Left, Finished
<1>5. CASE (SetupFails \/ CheckSignal \/ WriteKills) /\ Status' = "down"
  <2>1. Status # "down"
    BY <1>5 DEF SetupFails, CheckSignal, WriteKills, Status
  <2> QED
    BY <1>1, <1>2, <1>3, <1>5, <2>1
       DEF Serving!Stop, Status, Seated, Leaving, Left, Finished
<1>6. CASE (SetupFails \/ CheckSignal \/ WriteKills) /\ Status' # "down"
  <2>1. Status' = Status
    BY <1>6 DEF SetupFails, CheckSignal, WriteKills, Status
  <2> QED
    BY <1>1, <1>2, <1>3, <2>1 DEF servingVars
<1> QED
  BY <1>4, <1>5, <1>6

\* The other steps are the server's own business.
LEMMA SimulateNothing ==
  ASSUME IInv, [Next]_vars, ~Setup, ~SetupFails, ~CheckSignal, ~ProcessRequest,
         ~RemoveClient, ~AcceptClient, ~AcceptRefuses,
         \A c \in Conns : ~Connect(c) /\ ~SendHeader(c) /\ ~HangUp(c)
  PROVE  UNCHANGED servingVars
<1> USE DEF IInv
<1>1. UNCHANGED <<backlog, clients, fdt>>
  BY TablesKept, EstablishedKept DEF tables
<1>2. bye' = bye /\ astray' = astray
  BY DEF Next, Server, Accept, Environment, SelectBlocks, SelectReturns, ScanFinds,
     ScanEnds, KeepClient, AcceptSkipped, AcceptFails, SendData, ResetArrives,
     Interrupt, vars, connVars
<1>3. ASSUME NEW c \in Conns
      PROVE  peer'[c] = peer[c] \/ {peer[c], peer'[c]} \subseteq HungUp
  <2>1. ASSUME NEW d \in Conns, ResetArrives(d)
        PROVE  peer'[c] = peer[c] \/ {peer[c], peer'[c]} \subseteq HungUp
    BY <2>1 DEF ResetArrives, TypeOK, HungUp
  <2>2. CASE \A d \in Conns : ~ResetArrives(d)
    <3>1. peer' = peer
      BY <2>2 DEF Next, Server, Accept, Environment, SelectBlocks, SelectReturns,
         ScanFinds, ScanEnds, KeepClient, AcceptSkipped, AcceptFails, SendData,
         Interrupt, vars, connVars
    <3> QED
      BY <3>1
  <2> QED
    BY <2>1, <2>2
<1>4. Status' = Status
  BY DEF Next, Server, Accept, Environment, SelectBlocks, SelectReturns, ScanFinds,
     ScanEnds, KeepClient, AcceptSkipped, AcceptFails, SendData, ResetArrives,
     Interrupt, vars, loopVars, Status
<1>5. \A c \in Conns : /\ Left(c)' <=> Left(c)
                       /\ c \in Finished' <=> c \in Finished
  BY <1>2, <1>3 DEF Left, Finished, HungUp
<1> QED
  BY <1>1, <1>4, <1>5, ServingKept

LEMMA ServingStep ==
  ASSUME IInv, EscapeIsTheirs, [Next]_vars
  PROVE  [Serving!Next]_(Serving!vars)
<1>1. CASE Setup \/ SetupFails \/ CheckSignal \/ WriteKills
  BY <1>1, SimulateProcess, ServingStutters DEF Serving!Next
<1>2. CASE AcceptClient
  BY <1>2, SimulateSeat DEF Serving!Next
<1>3. CASE AcceptRefuses
  BY <1>3, SimulateTurnAway DEF Serving!Next
<1>4. CASE RemoveClient
  BY <1>4, SimulateFinish DEF EscapeIsTheirs, Serving!Next
<1>5. ASSUME NEW c \in Conns, Connect(c) PROVE Serving!Next
  BY <1>5, SimulateArrive DEF EscapeIsTheirs, Serving!Next
<1>6. ASSUME NEW c \in Conns, SendHeader(c) \/ HangUp(c)
      PROVE  [Serving!Next]_(Serving!vars)
  BY <1>6, SimulatePeer, ServingStutters DEF Serving!Next
<1>7. CASE ProcessRequest /\ ~WriteKills
  BY <1>7, SimulateRequest, ServingStutters DEF Serving!Next
<1>8. CASE /\ ~Setup /\ ~SetupFails /\ ~CheckSignal /\ ~ProcessRequest
           /\ ~RemoveClient /\ ~AcceptClient /\ ~AcceptRefuses
           /\ \A c \in Conns : ~Connect(c) /\ ~SendHeader(c) /\ ~HangUp(c)
  BY <1>8, SimulateNothing, ServingStutters
<1> QED
  BY <1>1, <1>2, <1>3, <1>4, <1>5, <1>6, <1>7, <1>8

\* The event loop implements the queue and the seats: connections are accepted
\* in order, at most MAX_CONNECTIONS at once, turned away only when the slots
\* are taken (or memory is), and the server closes the connection of a client
\* only after its peer said goodbye or hung up, or once a short read or a buffer
\* it could not allocate made it lose track of that client's packets.
THEOREM ServingCorrect == Spec => ImplementsServing
<1>1. Init => Serving!Init
  BY ServingInit
<1>2. Init => EscapeIsTheirs
  BY EscapeInit
<1>3. IInv /\ IInv' /\ EscapeIsTheirs /\ [Next]_vars => EscapeIsTheirs'
  BY EscapeStep
<1>4. IInv /\ EscapeIsTheirs /\ [Next]_vars => [Serving!Next]_(Serving!vars)
  BY ServingStep
<1> QED
  BY <1>1, <1>2, <1>3, <1>4, Invariance, PTL
     DEF Spec, ImplementsServing, Serving!Spec
=============================================================================
