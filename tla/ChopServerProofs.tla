---------------------------- MODULE ChopServerProofs ----------------------------
(***************************************************************************)
(* Proofs about ChopServer, for any number of connections, packets, slots  *)
(* and descriptors.                                                        *)
(***************************************************************************)
EXTENDS ChopServer, ChopPacketProofs

-----------------------------------------------------------------------------
(* Type correctness. *)

\* While the server works on a client, index is one of its slots and the slot
\* is taken.
Busy == {"header", "data", "text", "answer", "answer_data", "reap"}
AtClient == pc \in Busy => index \in Occupied

Items == Packets \cup {Data}

\* What process_request leaves alone, and where it goes.
LEMMA RequestFrame ==
  ASSUME ProcessRequest
  PROVE  /\ UNCHANGED <<index, sigint_received, tableVars, selectVars, kernelVars,
                        owes, sent, bye>>
         /\ pc \in Busy \ {"reap"} /\ pc' \in Busy \cup {"killed"}
         /\ pc' = "header" => nested'
<1> USE DEF Busy, Return, connVars
<1>1. CASE ReadHeader
  BY <1>1 DEF ReadHeader
<1>2. CASE ReadData \/ ReadShort
  BY <1>2 DEF ReadData, ReadShort
<1>3. CASE ReadText
  BY <1>3 DEF ReadText
<1>4. CASE ReadTextEnd \/ ReadEnd \/ ReadFails
  BY <1>4 DEF ReadTextEnd, ReadEnd, ReadFails
<1>5. CASE WriteAnswer
  BY <1>5 DEF WriteAnswer
<1>6. CASE WriteFails \/ WriteKills \/ OutOfMemory \/ AppendFails
  BY <1>6 DEF WriteFails, WriteKills, OutOfMemory, AppendFails
<1> QED
  BY <1>1, <1>2, <1>3, <1>4, <1>5, <1>6 DEF ProcessRequest

\* What it does to the connection: it reads some of what has come, and may find
\* that the peer has hung up, or notice a reset.
LEMMA RequestReads ==
  ASSUME ProcessRequest
  PROVE  /\ \/ inbox' = inbox
            \/ \E rest \in Remainders(Conn) \cup {Tail(inbox[Conn]), inbox[Conn]} :
                 inbox[Conn] # <<>> /\ inbox' = [inbox EXCEPT ![Conn] = rest]
         /\ \/ peer' = peer
            \/ peer' = [peer EXCEPT ![Conn] = "dead"] /\ peer[Conn] = "rst"
            \/ peer' = [peer EXCEPT ![Conn] = IF @ = "fin" THEN "finw" ELSE @]
         /\ \/ astray' = astray
            \/ astray' = [astray EXCEPT ![Conn] = TRUE]
<1> USE DEF Take, GoAstray, Rests, connVars
<1>1. CASE ReadHeader
  BY <1>1 DEF ReadHeader
<1>2. CASE ReadData
  BY <1>2 DEF ReadData
<1>3. CASE ReadShort
  BY <1>3 DEF ReadShort
<1>4. CASE ReadText
  <2>1. \E rest \in Remainders(Conn) \cup {Tail(inbox[Conn])} :
          inbox' = [inbox EXCEPT ![Conn] = rest]
    BY <1>4 DEF ReadText
  <2>2. /\ inbox[Conn] # <<>> /\ peer' = peer
        /\ astray' = astray \/ astray' = [astray EXCEPT ![Conn] = TRUE]
    BY <1>4 DEF ReadText
  <2> QED
    BY <2>1, <2>2
<1>5. CASE ReadTextEnd \/ ReadEnd \/ ReadFails
  BY <1>5 DEF ReadTextEnd, ReadEnd, ReadFails
<1>6. CASE WriteAnswer
  BY <1>6 DEF WriteAnswer
<1>7. CASE WriteFails \/ WriteKills \/ OutOfMemory \/ AppendFails
  BY <1>7 DEF WriteFails, WriteKills, OutOfMemory, AppendFails
<1> QED
  BY <1>1, <1>2, <1>3, <1>4, <1>5, <1>6, <1>7 DEF ProcessRequest

\* What is left of a connection's input is of the same kind.
LEMMA RemainderType ==
  ASSUME TypeOK, NEW c \in Conns, inbox[c] # <<>>,
         NEW rest \in Remainders(c) \cup {Tail(inbox[c]), inbox[c]}
  PROVE  rest \in Seq(Items) /\ (inbox[c] \in Seq(Items))
<1>1. inbox[c] \in Seq(Items) /\ Len(inbox[c]) \in Nat
  BY LenProperties DEF TypeOK, Items
<1>2. CASE rest \in Remainders(c)
  <2>1. PICK k \in 1..Len(inbox[c]) + 1 : rest = SubSeq(inbox[c], k, Len(inbox[c]))
    BY <1>2 DEF Remainders
  <2>2. \A i \in k..Len(inbox[c]) : inbox[c][i] \in Items
    BY <1>1, <2>1
  <2>3. k \in Int /\ Len(inbox[c]) \in Int
    BY <1>1
  <2>4. SubSeq(inbox[c], k, Len(inbox[c])) \in Seq(Items)
    BY ONLY <2>2, <2>3, SubSeqProperties
  <2> QED
    BY <1>1, <2>1, <2>4
<1>3. CASE rest \in {Tail(inbox[c]), inbox[c]}
  BY <1>1, <1>3, HeadTailProperties
<1> QED
  BY <1>2, <1>3

LEMMA RequestConns ==
  ASSUME TypeOK, ProcessRequest
  PROVE  /\ inbox' \in [Conns -> Seq(Items)] /\ peer' \in [Conns -> PeerStates]
         /\ astray' \in [Conns -> BOOLEAN]
         /\ \A d \in Conns : d # Conn =>
              inbox'[d] = inbox[d] /\ peer'[d] = peer[d] /\ astray'[d] = astray[d]
<1>0. /\ inbox \in [Conns -> Seq(Items)] /\ peer \in [Conns -> PeerStates]
      /\ astray \in [Conns -> BOOLEAN]
  BY DEF TypeOK, Items
<1>1. /\ inbox' \in [Conns -> Seq(Items)]
      /\ \A d \in Conns : d # Conn => inbox'[d] = inbox[d]
  <2>1. CASE inbox' = inbox
    BY <1>0, <2>1
  <2>2. CASE inbox' # inbox
    <3>1. PICK rest \in Remainders(Conn) \cup {Tail(inbox[Conn]), inbox[Conn]} :
            inbox[Conn] # <<>> /\ inbox' = [inbox EXCEPT ![Conn] = rest]
      BY <2>2, RequestReads
    <3>2. Conn \in Conns => rest \in Seq(Items)
      BY <3>1, RemainderType
    <3> QED
      BY <1>0, <3>1, <3>2
  <2> QED
    BY <2>1, <2>2
<1>2. /\ peer' \in [Conns -> PeerStates]
      /\ \A d \in Conns : d # Conn => peer'[d] = peer[d]
  BY <1>0, RequestReads DEF PeerStates
<1>3. /\ astray' \in [Conns -> BOOLEAN]
      /\ \A d \in Conns : d # Conn => astray'[d] = astray[d]
  BY <1>0, RequestReads
<1> QED
  BY <1>1, <1>2, <1>3

\* Its flags and its answer are bytes and packets.
LEMMA RequestCall ==
  ASSUME TypeOK, ProcessRequest
  PROVE  /\ inc_flag' \in [Slots -> Byte] /\ out_flag' \in [Slots -> Byte]
         /\ nested' \in BOOLEAN /\ answer' \in SUBSET Packet
         /\ \A i \in Slots : i # index =>
              inc_flag'[i] = inc_flag[i] /\ out_flag'[i] = out_flag[i]
<1>0. /\ inc_flag \in [Slots -> Byte] /\ out_flag \in [Slots -> Byte]
      /\ nested \in BOOLEAN /\ answer \in SUBSET Packet
  BY DEF TypeOK
<1> DEFINE Goal == /\ inc_flag' \in [Slots -> Byte] /\ out_flag' \in [Slots -> Byte]
                   /\ nested' \in BOOLEAN /\ answer' \in SUBSET Packet
                   /\ \A i \in Slots : i # index =>
                        inc_flag'[i] = inc_flag[i] /\ out_flag'[i] = out_flag[i]
<1>a. ASSUME NEW v, NEW w, index \in Slots => v \in Byte /\ w \in Byte,
             inc_flag' = [inc_flag EXCEPT ![index] = v] \/ inc_flag' = inc_flag,
             out_flag' = [out_flag EXCEPT ![index] = w] \/ out_flag' = out_flag,
             nested' \in BOOLEAN, answer' \in SUBSET Packet
      PROVE  Goal
  BY <1>0, <1>a
<1>b. ASSUME NEW inside, Return(inside) PROVE nested' \in BOOLEAN /\ answer' \in SUBSET Packet
  BY <1>b DEF Return
<1> SUFFICES Goal
  OBVIOUS
<1> HIDE DEF Goal
<1>1. CASE ReadHeader
  <2>1. PICK p \in Headers(Conn) :
          /\ inc_flag' = [inc_flag EXCEPT ![index] = FlagOnHeader(p, inc_flag[index])]
          /\ out_flag' = [out_flag EXCEPT ![index] = OutOnHeader(p, out_flag[index])]
          /\ \/ answer' = Answer(p, inc_flag[index]) /\ nested' = nested
             \/ \E inside : Return(inside)
    BY <1>1 DEF ReadHeader
  <2>2. nested' \in BOOLEAN /\ answer' \in SUBSET Packet
    BY <1>0, <1>b, <2>1, AnswerIsPackets
  <2>3. index \in Slots => /\ FlagOnHeader(p, inc_flag[index]) \in Byte
                           /\ OutOnHeader(p, out_flag[index]) \in Byte
    BY <1>0, FlagInByte
  <2> DEFINE v == FlagOnHeader(p, inc_flag[index])
             w == OutOnHeader(p, out_flag[index])
  <2>4. /\ inc_flag' = [inc_flag EXCEPT ![index] = v]
        /\ out_flag' = [out_flag EXCEPT ![index] = w]
        /\ index \in Slots => v \in Byte /\ w \in Byte
    BY <2>1, <2>3
  <2> HIDE DEF v, w
  <2> QED
    BY <1>a, <2>2, <2>4
<1>2. CASE ReadData \/ ReadShort \/ ReadTextEnd \/ ReadFails \/ WriteKills
           \/ OutOfMemory \/ AppendFails
  <2>1. UNCHANGED flagVars /\ (UNCHANGED callVars \/ Return(nested))
    BY <1>2 DEF ReadData, ReadShort, ReadTextEnd, ReadFails, WriteKills,
                OutOfMemory, AppendFails
  <2> QED
    BY <1>0, <1>a, <1>b, <2>1, FlagValues DEF flagVars, callVars
<1>3. CASE ReadText
  <2>1. UNCHANGED flagVars /\ (UNCHANGED callVars \/ Return(nested))
    BY <1>3 DEF ReadText
  <2> QED
    BY <1>0, <1>a, <1>b, <2>1, FlagValues DEF flagVars, callVars
<1>4. CASE ReadEnd
  <2>1. /\ inc_flag' = [inc_flag EXCEPT ![index] = CANCEL]
        /\ out_flag' = [out_flag EXCEPT ![index] = CANCEL] /\ Return(nested)
    BY <1>4 DEF ReadEnd
  <2>2. nested' \in BOOLEAN /\ answer' \in SUBSET Packet
    BY <1>b, <2>1
  <2> QED
    BY <1>a, <2>1, <2>2, FlagValues
<1>5. CASE WriteAnswer \/ WriteFails
  <2>1. \A a \in answer : a.status \in Byte
    BY <1>0 DEF Packet
  <2>2. PICK v \in Byte, w \in Byte :
          /\ inc_flag' = inc_flag \/ inc_flag' = [inc_flag EXCEPT ![index] = v]
          /\ out_flag' = [out_flag EXCEPT ![index] = w]
    <3>1. CASE WriteAnswer
      <4>1. PICK a \in answer :
              \/ /\ out_flag' = [out_flag EXCEPT ![index] = a.status]
                 /\ inc_flag' = inc_flag
              \/ /\ out_flag' = [out_flag EXCEPT ![index] =
                                   IF MarksClosed(a) THEN CANCEL ELSE NULL_BYTE]
                 /\ inc_flag' = [inc_flag EXCEPT ![index] =
                                   IF MarksClosed(a) THEN CANCEL ELSE @]
        BY <3>1 DEF WriteAnswer
      <4>2. CASE MarksClosed(a)
        BY <2>1, <4>1, <4>2, FlagValues
      <4>3. CASE ~MarksClosed(a)
        <5>1. [inc_flag EXCEPT ![index] = @] = inc_flag
          BY <1>0
        <5> QED
          BY <2>1, <4>1, <4>3, <5>1, FlagValues
      <4> QED
        BY <4>2, <4>3
    <3>2. CASE WriteFails
      BY <2>1, <3>2, FlagValues DEF WriteFails
    <3> QED
      BY <1>5, <3>1, <3>2
  <2>3. UNCHANGED callVars \/ Return(nested)
    BY <1>5 DEF WriteAnswer, WriteFails
  <2> QED
    BY <1>0, <1>a, <1>b, <2>2, <2>3 DEF callVars
<1> QED
  BY <1>1, <1>2, <1>3, <1>4, <1>5 DEF ProcessRequest

LEMMA TypeInit == Init => TypeOK /\ AtClient
<1> SUFFICES ASSUME Init PROVE TypeOK /\ AtClient
  OBVIOUS
<1>1. fdt \in [Fds -> FdKinds \cup Conns]
  BY DEF Init, FdKinds
<1>2. backlog \in Seq(Conns) /\ inbox \in [Conns -> Seq(Packets \cup {Data})]
  BY EmptySeq DEF Init
<1>3. /\ clients \in [Slots -> Fds \cup {NULL}]
      /\ inc_flag \in [Slots -> Byte] /\ out_flag \in [Slots -> Byte]
  BY FlagValues DEF Init
<1>4. peer \in [Conns -> PeerStates] /\ owes \in [Conns -> BOOLEAN]
  BY DEF Init, PeerStates
<1>5. /\ sent \in [Conns -> Nat] /\ bye \in [Conns -> BOOLEAN]
      /\ astray \in [Conns -> BOOLEAN]
  BY DEF Init
<1>6. /\ index \in 0..MAX_CONNECTIONS
      /\ cur_connections \in Nat
      /\ server_fd \in Fds \cup {NULL} /\ max_fd \in Fds \cup {NULL}
  BY ServerAssumption DEF Init
<1>7. /\ pc = "setup" /\ sigint_received \in BOOLEAN
      /\ all_fds \subseteq Fds /\ listen_fds \subseteq Fds
      /\ nested \in BOOLEAN /\ answer \in SUBSET Packet
  BY DEF Init
<1> QED
  BY <1>1, <1>2, <1>3, <1>4, <1>5, <1>6, <1>7 DEF TypeOK, AtClient, Busy

LEMMA TypeStep ==
  ASSUME TypeOK, AtClient, [Next]_vars
  PROVE  TypeOK' /\ AtClient'
<1> USE ServerAssumption DEF TypeOK, AtClient, Busy, Occupied, Slots
<1>1. CASE Setup
  BY <1>1 DEF Setup, FdKinds, connVars, flagVars, callVars
<1>2. CASE SetupFails
  BY <1>2 DEF SetupFails, tableVars, flagVars, selectVars, callVars, kernelVars, connVars
<1>3. CASE CheckSignal
  BY <1>3 DEF CheckSignal, tableVars, flagVars, selectVars, callVars, kernelVars, connVars
<1>4. CASE SelectBlocks
  BY <1>4 DEF SelectBlocks, tableVars, flagVars, selectVars, callVars, kernelVars, connVars
<1>5. CASE SelectReturns
  <2>1. listen_fds' \subseteq Fds
    BY <1>5 DEF SelectReturns, Watching
  <2> QED
    BY <1>5, <2>1 DEF SelectReturns, tableVars, flagVars, callVars, kernelVars, connVars
<1>6. CASE ScanFinds
  <2>1. index' \in 0..MAX_CONNECTIONS /\ index' \in Occupied
    BY <1>6 DEF ScanFinds, InSnapshot, Fds, NULL
  <2> QED
    BY <1>6, <2>1 DEF ScanFinds, tableVars, flagVars, selectVars, callVars, kernelVars, connVars
<1>7. CASE ScanEnds
  BY <1>7 DEF ScanEnds, tableVars, flagVars, selectVars, callVars, kernelVars, connVars
<1>8. CASE ProcessRequest
  <2>1. /\ inbox' \in [Conns -> Seq(Packets \cup {Data})]
        /\ peer' \in [Conns -> PeerStates] /\ astray' \in [Conns -> BOOLEAN]
    BY <1>8, RequestConns DEF Items
  <2>2. /\ inc_flag' \in [Slots -> Byte] /\ out_flag' \in [Slots -> Byte]
        /\ nested' \in BOOLEAN /\ answer' \in SUBSET Packet
    BY <1>8, RequestCall
  <2>3. /\ UNCHANGED <<index, sigint_received, tableVars, selectVars, kernelVars,
                       owes, sent, bye>>
        /\ pc \in Busy /\ pc' \in Busy \cup {"killed"}
    BY <1>8, RequestFrame
  <2>4. UNCHANGED <<server_fd, clients, cur_connections, all_fds, listen_fds,
                    max_fd, fdt, backlog>>
    BY <2>3 DEF tableVars, selectVars, kernelVars
  <2>5. TypeOK'
    BY <2>1, <2>2, <2>3, <2>4
  <2>6. AtClient'
    BY <2>3, <2>4
  <2> QED
    BY <2>5, <2>6
<1>16. CASE RemoveClient
  <2>1. fdt' \in [Fds -> FdKinds \cup Conns] /\ peer' \in [Conns -> PeerStates]
    BY <1>16 DEF RemoveClient, FdKinds, PeerStates
  <2>2. inbox' \in [Conns -> Seq(Packets \cup {Data})]
    <3>1. <<>> \in Seq(Packets \cup {Data})
      BY EmptySeq
    <3>2. inbox' = inbox \/ inbox' = [inbox EXCEPT ![Conn] = <<>>]
      BY <1>16 DEF RemoveClient
    <3> QED
      BY <3>1, <3>2
  <2>3. /\ clients' \in [Slots -> Fds \cup {NULL}]
        /\ inc_flag' \in [Slots -> Byte] /\ out_flag' \in [Slots -> Byte]
    BY <1>16, FlagValues DEF RemoveClient
  <2>4. all_fds' \subseteq Fds /\ index' \in 0..MAX_CONNECTIONS
    BY <1>16 DEF RemoveClient
  <2> QED
    BY <1>16, <2>1, <2>2, <2>3, <2>4 DEF RemoveClient, callVars
<1>17. CASE KeepClient
  BY <1>17 DEF KeepClient, tableVars, flagVars, selectVars, callVars, kernelVars, connVars
<1>18. CASE AcceptSkipped
  BY <1>18 DEF AcceptSkipped, tableVars, flagVars, selectVars, callVars, kernelVars, connVars
<1>19. CASE AcceptClient
  <2>1. fdt' \in [Fds -> FdKinds \cup Conns] /\ backlog' \in Seq(Conns)
    BY <1>19, HeadTailProperties DEF AcceptClient
  <2>2. /\ clients' \in [Slots -> Fds \cup {NULL}]
        /\ inc_flag' \in [Slots -> Byte] /\ out_flag' \in [Slots -> Byte]
    BY <1>19, FlagValues DEF AcceptClient
  <2>3. all_fds' \subseteq Fds /\ max_fd' \in Fds \cup {NULL}
    BY <1>19 DEF AcceptClient, MaxFd
  <2> QED
    BY <1>19, <2>1, <2>2, <2>3 DEF AcceptClient, callVars, connVars
<1>20. CASE AcceptRefuses
  BY <1>20, HeadTailProperties, EmptySeq
     DEF AcceptRefuses, PeerStates, tableVars, flagVars, selectVars, callVars
<1>21. CASE AcceptFails
  BY <1>21 DEF AcceptFails, tableVars, flagVars, selectVars, callVars, kernelVars, connVars
<1>22. ASSUME NEW c \in Conns, Connect(c) PROVE TypeOK' /\ AtClient'
  BY <1>22, AppendProperties
     DEF Connect, PeerStates, loopVars, tableVars, flagVars, selectVars, callVars
<1>23. ASSUME NEW c \in Conns, SendHeader(c) PROVE TypeOK' /\ AtClient'
  BY <1>23, AppendProperties
     DEF SendHeader, HasData, loopVars, tableVars, flagVars, selectVars, callVars, kernelVars
<1>24. ASSUME NEW c \in Conns, SendData(c) PROVE TypeOK' /\ AtClient'
  BY <1>24, AppendProperties
     DEF SendData, loopVars, tableVars, flagVars, selectVars, callVars, kernelVars
<1>25. ASSUME NEW c \in Conns, HangUp(c) PROVE TypeOK' /\ AtClient'
  BY <1>25 DEF HangUp, PeerStates, loopVars, tableVars, flagVars, selectVars, callVars, kernelVars
<1>26. ASSUME NEW c \in Conns, ResetArrives(c) PROVE TypeOK' /\ AtClient'
  BY <1>26 DEF ResetArrives, PeerStates, loopVars, tableVars, flagVars, selectVars, callVars,
               kernelVars
<1>27. CASE Interrupt
  BY <1>27 DEF Interrupt, tableVars, flagVars, selectVars, callVars, kernelVars, connVars
<1>28. CASE UNCHANGED vars
  BY <1>28 DEF vars, loopVars, tableVars, flagVars, selectVars, callVars, kernelVars, connVars
<1> QED
  BY <1>1, <1>2, <1>3, <1>4, <1>5, <1>6, <1>7, <1>8, <1>16, <1>17, <1>18, <1>19, <1>20, <1>21, <1>22, <1>23,
     <1>24, <1>25, <1>26, <1>27, <1>28
     DEF Next, Server, Accept, Environment
-----------------------------------------------------------------------------
(* The tables of the server: DescriptorsAgree. *)

\* What DescriptorsAgree needs to be inductive: nothing exists before Setup,
\* and afterwards descriptor 0 belongs to no client, because Setup has taken
\* it if it was free.  Otherwise destroy_client_struct, which does not close
\* MIN_FD, would leak it.
Fresh ==
  pc = "setup" =>
    /\ server_fd = NULL /\ Occupied = {} /\ all_fds = {}
    /\ \A f \in Fds : fdt[f] \in {"free", "inherited"}
ZeroTaken ==
  pc \notin {"setup", "exited"} =>
    server_fd \in Fds /\ fdt[MIN_FD] \in {"inherited", "listening"}

TablesInv == DescriptorsAgree /\ Fresh /\ ZeroTaken

\* The steps other than Setup, RemoveClient and AcceptClient leave the tables
\* alone, and none of them goes back to the setup.
tables == <<server_fd, clients, all_fds, max_fd, fdt>>

LEMMA TablesKept ==
  ASSUME [Next]_vars, ~Setup, ~RemoveClient, ~AcceptClient
  PROVE  /\ UNCHANGED tables
         /\ pc' = "setup" => pc = "setup"
         /\ pc' \notin {"setup", "exited"} => pc \notin {"setup", "exited"}
<1> USE DEF tables, tableVars, selectVars, kernelVars
<1>1. CASE SetupFails \/ CheckSignal \/ SelectBlocks \/ SelectReturns
  BY <1>1 DEF SetupFails, CheckSignal, SelectBlocks, SelectReturns
<1>2. CASE ScanFinds \/ ScanEnds \/ KeepClient
  BY <1>2 DEF ScanFinds, ScanEnds, KeepClient
<1>3. CASE ProcessRequest
  <2>1. UNCHANGED <<tableVars, selectVars, kernelVars>> /\ pc \in Busy \ {"reap"}
        /\ pc' \in Busy \cup {"killed"}
    BY <1>3, RequestFrame
  <2> QED
    BY <2>1 DEF Busy
<1>5. CASE AcceptSkipped \/ AcceptRefuses \/ AcceptFails
  BY <1>5 DEF AcceptSkipped, AcceptRefuses, AcceptFails
<1>6. CASE Environment
  BY <1>6 DEF Environment, Connect, SendHeader, SendData, HangUp, ResetArrives,
              Interrupt, Running, loopVars
<1>7. CASE UNCHANGED vars
  BY <1>7 DEF vars, loopVars
<1> QED
  BY <1>1, <1>2, <1>3, <1>5, <1>6, <1>7 DEF Next, Server, Accept

LEMMA TablesInit == Init => TablesInv
BY ServerAssumption
   DEF Init, TablesInv, DescriptorsAgree, Watched, WithinRange, NoLeak, Fresh,
       ZeroTaken, Occupied, FdKinds, Fds, NULL

\* What removing a client does to the tables: its descriptor is really closed.
LEMMA RemoveEffect ==
  ASSUME TypeOK, AtClient, TablesInv, RemoveClient
  PROVE  /\ index \in Slots /\ index \in Occupied /\ Conn \in Conns
         /\ clients[index] \in Fds \ {MIN_FD, server_fd}
         /\ \A g \in Fds : fdt'[g] = IF g = clients[index] THEN "free" ELSE fdt[g]
         /\ \A i \in Slots : clients'[i] = IF i = index THEN NULL ELSE clients[i]
         /\ Occupied' = Occupied \ {index}
         /\ \A i \in Occupied' : clients[i] # clients[index] /\ clients'[i] = clients[i]
         /\ peer' = [peer EXCEPT ![Conn] = "gone"]
         /\ inbox' = [inbox EXCEPT ![Conn] = <<>>]
<1> USE DEF TablesInv, DescriptorsAgree
<1>0. FdKinds \cap Conns = {} /\ MIN_FD \in Fds
  BY ServerAssumption DEF MIN_FD, Fds
<1>1. /\ pc = "reap" /\ clients' = [clients EXCEPT ![index] = NULL]
      /\ UNCHANGED server_fd
  BY DEF RemoveClient
<1>2. /\ index \in Slots /\ index \in Occupied /\ clients[index] \in Fds
      /\ fdt[clients[index]] \in Conns
  BY <1>1 DEF AtClient, Busy, Occupied, NoLeak, TypeOK
<1>3. clients[index] > MIN_FD /\ clients[index] \notin {MIN_FD, server_fd}
  <2>1. clients[index] # MIN_FD
    BY <1>0, <1>1, <1>2 DEF ZeroTaken, FdKinds
  <2>2. fdt[clients[index]] # "listening"
    BY <1>0, <1>2 DEF FdKinds
  <2> QED
    BY <1>2, <2>1, <2>2 DEF NoLeak, Fds, MIN_FD
<1>4. /\ fdt' = [fdt EXCEPT ![clients[index]] = "free"]
      /\ peer' = [peer EXCEPT ![Conn] = "gone"]
      /\ inbox' = [inbox EXCEPT ![Conn] = <<>>]
  BY <1>3 DEF RemoveClient
<1>5. \A g \in Fds : fdt'[g] = IF g = clients[index] THEN "free" ELSE fdt[g]
  BY <1>4 DEF TypeOK
<1>6. /\ \A i \in Slots : clients'[i] = IF i = index THEN NULL ELSE clients[i]
      /\ Occupied' = Occupied \ {index}
  BY <1>1, <1>2 DEF TypeOK, Occupied
<1>7. \A i \in Occupied' : clients[i] # clients[index] /\ clients'[i] = clients[i]
  BY <1>2, <1>6 DEF NoLeak, Occupied
<1> QED
  BY <1>2, <1>3, <1>4, <1>5, <1>6, <1>7 DEF Conn

\* The head of the backlog gets descriptor f and slot i, both free before.
Accepts(f, i) ==
  /\ pc = "accept" /\ pc' = "check" /\ server_fd' = server_fd
  /\ fdt[f] = "free" /\ clients[i] = NULL
  /\ f \notin {NULL, server_fd}
  /\ Head(backlog) \in Conns
  /\ \A g \in Fds : fdt'[g] = IF g = f THEN Head(backlog) ELSE fdt[g]
  /\ \A j \in Slots : clients'[j] = IF j = i THEN f ELSE clients[j]
  /\ Occupied' = Occupied \cup {i}
  /\ \A j \in Occupied : clients[j] \in Fds /\ clients[j] # f /\ clients'[j] = clients[j]
  /\ all_fds' = all_fds \cup {f}
  /\ max_fd' = IF f > max_fd THEN f ELSE max_fd

LEMMA AcceptEffect ==
  ASSUME TypeOK, TablesInv, AcceptClient
  PROVE  \E f \in Fds, i \in Slots : Accepts(f, i)
<1> USE DEF TablesInv, DescriptorsAgree
<1>0. FdKinds \cap Conns = {}
  BY ServerAssumption
<1>1. PICK f \in Fds, i \in Slots :
        /\ fdt[f] = "free" /\ clients[i] = NULL
        /\ fdt' = [fdt EXCEPT ![f] = Head(backlog)]
        /\ clients' = [clients EXCEPT ![i] = f]
        /\ all_fds' = all_fds \cup {f}
        /\ max_fd' = IF f > max_fd THEN f ELSE max_fd
  BY DEF AcceptClient, LowestFree, FirstEmpty, MaxFd
<1>2. pc = "accept" /\ pc' = "check" /\ server_fd' = server_fd
  BY DEF AcceptClient
<1>3. Head(backlog) \in Conns
  BY HeadTailProperties DEF AcceptClient, TypeOK
<1>4. \A g \in Fds : fdt'[g] = IF g = f THEN Head(backlog) ELSE fdt[g]
  BY <1>1 DEF TypeOK
<1>5. \A j \in Slots : clients'[j] = IF j = i THEN f ELSE clients[j]
  BY <1>1 DEF TypeOK
<1>6. f # NULL /\ f # server_fd
  BY <1>0, <1>1, <1>2 DEF NoLeak, NULL, Fds, ZeroTaken
<1>7. Occupied' = Occupied \cup {i}
  BY <1>5, <1>6 DEF Occupied
<1>8. \A j \in Occupied : clients[j] \in Fds /\ clients[j] # f /\ clients'[j] = clients[j]
  BY <1>0, <1>1, <1>5 DEF NoLeak, FdKinds, Occupied, TypeOK
<1> QED
  BY <1>1, <1>2, <1>3, <1>4, <1>5, <1>6, <1>7, <1>8 DEF Accepts

LEMMA TablesStep ==
  ASSUME TypeOK, AtClient, TablesInv, [Next]_vars
  PROVE  TablesInv'
<1> USE DEF TablesInv, DescriptorsAgree
<1>0. FdKinds \cap Conns = {} /\ MIN_FD \in Fds
  BY ServerAssumption DEF MIN_FD, Fds
<1>1. CASE ~Setup /\ ~RemoveClient /\ ~AcceptClient
  BY <1>1, TablesKept
     DEF tables, Watched, WithinRange, NoLeak, Fresh, ZeroTaken, Occupied
<1>2. CASE Setup
  <2>1. PICK f \in Fds :
          /\ LowestFree(f)
          /\ fdt' = [fdt EXCEPT ![f] = "listening"]
          /\ server_fd' = f /\ all_fds' = {f} /\ max_fd' = f
    BY <1>2 DEF Setup
  <2>2. Occupied' = {} /\ pc' = "check" /\ pc = "setup"
    BY <1>2 DEF Setup, Fresh, Occupied, tableVars
  <2>3. \A g \in Fds : fdt[g] \in {"free", "inherited"}
    BY <2>2 DEF Fresh
  <2>4. \A g \in Fds : fdt'[g] = IF g = f THEN "listening" ELSE fdt[g]
    BY <2>1 DEF TypeOK
  <2>5. fdt'[MIN_FD] \in {"inherited", "listening"}
    <3>1. CASE f = MIN_FD
      BY <1>0, <2>4, <3>1
    <3>2. CASE f # MIN_FD
      <4>1. MIN_FD < f
        BY <3>2 DEF MIN_FD, Fds
      <4> QED
        BY <1>0, <2>1, <2>3, <2>4, <4>1 DEF LowestFree
    <3> QED
      BY <3>1, <3>2
  <2>6. WithinRange'
    BY <2>1 DEF WithinRange, Fds
  <2>7. NoLeak'
    BY <1>0, <2>1, <2>2, <2>3, <2>4 DEF NoLeak, FdKinds
  <2> QED
    BY <2>1, <2>2, <2>5, <2>6, <2>7 DEF Watched, Fresh, ZeroTaken
<1>3. CASE RemoveClient
  <2>1. /\ pc = "reap" /\ pc' = "scan"
        /\ all_fds' = all_fds \ {clients[index]}
        /\ UNCHANGED <<server_fd, max_fd>>
    BY <1>3 DEF RemoveClient
  <2>2. index \in Slots /\ clients[index] \in Fds /\ clients[index] # server_fd
    BY <1>3, RemoveEffect
  <2>5. \A g \in Fds : fdt'[g] = IF g = clients[index] THEN "free" ELSE fdt[g]
    BY <1>3, RemoveEffect
  <2>6. /\ \A i \in Slots : clients'[i] = IF i = index THEN NULL ELSE clients[i]
        /\ Occupied' = Occupied \ {index}
    BY <1>3, RemoveEffect
  <2>7. \A i \in Occupied' : clients[i] # clients[index] /\ clients'[i] = clients[i]
    BY <1>3, RemoveEffect
  <2>8. Watched'
    <3>1. all_fds = {server_fd} \cup {clients[i] : i \in Occupied}
      BY <2>1 DEF Watched
    <3>2. {clients'[i] : i \in Occupied'} = {clients[i] : i \in Occupied} \ {clients[index]}
      BY <2>6, <2>7
    <3> QED
      BY <2>1, <2>2, <3>1, <3>2 DEF Watched
  <2>9. WithinRange'
    BY <2>1 DEF WithinRange
  <2>10. NoLeak'
    <3>1. \A i \in Occupied' : fdt'[clients'[i]] \in Conns
      <4>1. \A i \in Occupied : clients[i] \in Fds /\ fdt[clients[i]] \in Conns
        BY DEF NoLeak, Occupied, TypeOK
      <4> QED
        BY <2>5, <2>6, <2>7, <4>1
    <3>2. \A i, j \in Occupied' : clients'[i] = clients'[j] => i = j
      BY <2>6, <2>7 DEF NoLeak
    <3>3. \A f \in Fds : fdt'[f] \in Conns => \E i \in Slots : clients'[i] = f
      BY <1>0, <2>2, <2>5, <2>6 DEF NoLeak, FdKinds
    <3>4. \A f \in Fds : fdt'[f] = "listening" <=> f = server_fd'
      BY <2>1, <2>2, <2>5 DEF NoLeak
    <3> QED
      BY <3>1, <3>2, <3>3, <3>4 DEF NoLeak
  <2>11. ZeroTaken'
    <3>1. clients[index] # MIN_FD
      BY <1>3, RemoveEffect
    <3> QED
      BY <1>0, <2>1, <2>5, <3>1 DEF ZeroTaken
  <2> QED
    BY <2>1, <2>8, <2>9, <2>10, <2>11 DEF Fresh
<1>4. CASE AcceptClient
  <2>1. PICK f \in Fds, i \in Slots : Accepts(f, i)
    BY <1>4, AcceptEffect
  <2>2. /\ pc = "accept" /\ pc' = "check" /\ server_fd' = server_fd
        /\ Head(backlog) \in Conns /\ f # server_fd
    BY <2>1 DEF Accepts
  <2>4. \A g \in Fds : fdt'[g] = IF g = f THEN Head(backlog) ELSE fdt[g]
    BY <2>1 DEF Accepts
  <2>5. \A j \in Slots : clients'[j] = IF j = i THEN f ELSE clients[j]
    BY <2>1 DEF Accepts
  <2>7. Occupied' = Occupied \cup {i}
    BY <2>1 DEF Accepts
  <2>8. \A j \in Occupied : clients[j] \in Fds /\ clients[j] # f /\ clients'[j] = clients[j]
    BY <2>1 DEF Accepts
  <2>9. Watched'
    <3>1. {clients'[j] : j \in Occupied'} = {clients[j] : j \in Occupied} \cup {f}
      BY <2>5, <2>7, <2>8
    <3> QED
      BY <2>1, <2>2, <3>1 DEF Watched, Accepts
  <2>10. WithinRange'
    BY <2>1 DEF Accepts, WithinRange, TypeOK, Fds, NULL
  <2>11. NoLeak'
    <3>1. \A j \in Occupied' : fdt'[clients'[j]] \in Conns
      BY <2>2, <2>4, <2>5, <2>7, <2>8 DEF NoLeak
    <3>2. \A j, k \in Occupied' : clients'[j] = clients'[k] => j = k
      BY <2>5, <2>7, <2>8 DEF NoLeak
    <3>3. \A g \in Fds : fdt'[g] \in Conns => \E j \in Slots : clients'[j] = g
      <4> SUFFICES ASSUME NEW g \in Fds, fdt'[g] \in Conns
                   PROVE  \E j \in Slots : clients'[j] = g
        OBVIOUS
      <4>1. CASE g = f
        BY <2>5, <4>1
      <4>2. CASE g # f
        <5>1. PICK j \in Slots : clients[j] = g
          BY <2>4, <4>2 DEF NoLeak
        <5>2. j # i
          BY <2>1, <5>1 DEF Accepts, NULL, Fds
        <5> QED
          BY <2>5, <5>1, <5>2
      <4> QED
        BY <4>1, <4>2
    <3>4. \A g \in Fds : fdt'[g] = "listening" <=> g = server_fd'
      BY <1>0, <2>1, <2>2, <2>4 DEF NoLeak, FdKinds, Accepts
    <3> QED
      BY <3>1, <3>2, <3>3, <3>4 DEF NoLeak
  <2>12. ZeroTaken'
    BY <1>0, <2>1, <2>2, <2>4 DEF ZeroTaken, Accepts
  <2> QED
    BY <2>2, <2>9, <2>10, <2>11, <2>12 DEF Fresh
<1> QED
  BY <1>1, <1>2, <1>3, <1>4
-----------------------------------------------------------------------------
(* The place of each connection: OnePlace. *)

\* A step that changes neither the tables nor the backlog, nor which
\* connections are established, keeps every connection in its place.
LEMMA PlacesKept ==
  ASSUME OnePlace, UNCHANGED <<clients, fdt, backlog>>,
         \A c \in Conns : peer'[c] \in Established <=> peer[c] \in Established
  PROVE  OnePlace'
BY DEF OnePlace, Waiting, Served, Occupied

\* No step but these four changes which connections are established.
LEMMA EstablishedKept ==
  ASSUME TypeOK, [Next]_vars, ~RemoveClient, ~AcceptClient, ~AcceptRefuses,
         \A c \in Conns : ~Connect(c)
  PROVE  /\ backlog' = backlog
         /\ \A c \in Conns : /\ peer'[c] \in Established <=> peer[c] \in Established
                             /\ peer[c] \in HungUp => peer'[c] \in HungUp
<1> USE DEF TypeOK, Established, HungUp
<1>1. CASE Setup \/ SetupFails \/ CheckSignal \/ SelectBlocks \/ SelectReturns
           \/ ScanFinds \/ ScanEnds \/ KeepClient \/ AcceptSkipped \/ AcceptFails
           \/ Interrupt \/ UNCHANGED vars
  <2>1. backlog' = backlog /\ peer' = peer
    BY <1>1 DEF Setup, SetupFails, CheckSignal, SelectBlocks, SelectReturns,
                ScanFinds, ScanEnds, KeepClient, AcceptSkipped, AcceptFails,
                Interrupt, vars, kernelVars, connVars
  <2> QED
    BY <2>1
<1>2. CASE ProcessRequest
  <2>1. backlog' = backlog
    BY <1>2, RequestFrame DEF kernelVars
  <2> QED
    BY <1>2, <2>1, RequestReads
<1>5. ASSUME NEW d \in Conns, SendHeader(d) \/ SendData(d)
      PROVE  backlog' = backlog /\ peer' = peer
  BY <1>5 DEF SendHeader, SendData, kernelVars
<1>6. ASSUME NEW d \in Conns, HangUp(d) \/ ResetArrives(d)
      PROVE  /\ backlog' = backlog
             /\ \A c \in Conns :
                  /\ peer'[c] \in Established <=> peer[c] \in Established
                  /\ peer[c] \in HungUp => peer'[c] \in HungUp
  BY <1>6 DEF HangUp, ResetArrives, kernelVars
<1> QED
  BY <1>1, <1>2, <1>5, <1>6
     DEF Next, Server, Accept, Environment

\* Taking the head of the backlog: it waits no longer, all others still do.
LEMMA HeadLeaves ==
  ASSUME TypeOK, OnePlace, backlog # <<>>, backlog' = Tail(backlog)
  PROVE  /\ Head(backlog) \in Conns
         /\ Waiting(Head(backlog)) /\ ~Served(Head(backlog))
         /\ \A c \in Conns : Waiting(c)' <=> Waiting(c) /\ c # Head(backlog)
         /\ \A j, k \in 1..Len(backlog') : backlog'[j] = backlog'[k] => j = k
<1>1. /\ Len(backlog') = Len(backlog) - 1 /\ Len(backlog) \in Nat \ {0}
      /\ \A k \in 1..Len(backlog') : backlog'[k] = backlog[k + 1]
      /\ Head(backlog) = backlog[1] /\ Head(backlog) \in Conns
  BY HeadTailProperties, EmptySeq DEF TypeOK
<1>2. \A j, k \in 1..Len(backlog) : backlog[j] = backlog[k] => j = k
  BY DEF OnePlace
<1>3. Waiting(Head(backlog)) /\ ~Served(Head(backlog))
  BY <1>1 DEF Waiting, OnePlace
<1>4. ASSUME NEW k \in 1..Len(backlog')
      PROVE  \E m \in 1..Len(backlog) : m = k + 1 /\ backlog[m] # Head(backlog)
  <2>1. k + 1 \in 1..Len(backlog) /\ 1 \in 1..Len(backlog) /\ k + 1 # 1
    BY <1>1, <1>4
  <2> QED
    BY <1>1, <1>2, <2>1
<1>5. ASSUME NEW c \in Conns, Waiting(c), c # Head(backlog)
      PROVE  \E m \in 1..Len(backlog') : backlog'[m] = c
  <2>1. PICK k \in 1..Len(backlog) : backlog[k] = c
    BY <1>5 DEF Waiting
  <2>2. k - 1 \in 1..Len(backlog') /\ (k - 1) + 1 = k
    BY <1>1, <1>5, <2>1
  <2> QED
    BY <1>1, <2>1, <2>2
<1>6. \A c \in Conns : Waiting(c)' <=> Waiting(c) /\ c # Head(backlog)
  BY <1>1, <1>4, <1>5 DEF Waiting
<1>7. \A j, k \in 1..Len(backlog') : backlog'[j] = backlog'[k] => j = k
  BY <1>1, <1>2
<1> QED
  BY <1>1, <1>3, <1>6, <1>7

LEMMA PlacesInit == Init => OnePlace
BY EmptySeq DEF Init, OnePlace, Waiting, Served, Occupied, Established

LEMMA PlacesStep ==
  ASSUME TypeOK, AtClient, TablesInv, OnePlace, [Next]_vars
  PROVE  OnePlace'
<1>0. /\ FdKinds \cap Conns = {}
      /\ Len(backlog) \in Nat
      /\ \A i \in Occupied : clients[i] \in Fds /\ fdt[clients[i]] \in Conns
  BY ServerAssumption, LenProperties
     DEF TablesInv, DescriptorsAgree, NoLeak, TypeOK, Occupied
<1>1. CASE RemoveClient
  <2>1. \A i \in Occupied' : /\ i \in Occupied /\ i # index
                             /\ fdt'[clients'[i]] = fdt[clients[i]]
    BY <1>0, <1>1, RemoveEffect
  <2>2. \A i \in Occupied \ {index} : i \in Occupied'
    BY <1>1, RemoveEffect
  <2>3. index \in Occupied /\ Conn \in Conns /\ Served(Conn)
    BY <1>1, RemoveEffect DEF Served, Conn
  <2>4. \A c \in Conns : Served(c)' <=> Served(c) /\ c # Conn
    BY <2>1, <2>2, <2>3 DEF Served, Conn, OnePlace
  <2>5. \A c \in Conns : peer'[c] = IF c = Conn THEN "gone" ELSE peer[c]
    BY <1>1, RemoveEffect DEF TypeOK
  <2>6. backlog' = backlog
    BY <1>1 DEF RemoveClient
  <2>7. \A c \in Conns : Waiting(c)' <=> Waiting(c)
    BY <2>6 DEF Waiting
  <2> QED
    BY <2>1, <2>3, <2>4, <2>5, <2>6, <2>7 DEF OnePlace, Established
<1>2. CASE AcceptClient
  <2> DEFINE h == Head(backlog)
  <2>1. PICK f \in Fds, i \in Slots : Accepts(f, i)
    BY <1>2, AcceptEffect
  <2>2. \A j \in Occupied' : fdt'[clients'[j]] = IF j = i THEN h ELSE fdt[clients[j]]
    BY <1>0, <2>1 DEF Accepts
  <2>3. Occupied' = Occupied \cup {i} /\ i \notin Occupied /\ h \in Conns
    BY <2>1 DEF Accepts, Occupied
  <2>4. backlog # <<>> /\ backlog' = Tail(backlog) /\ peer' = peer
    BY <1>2 DEF AcceptClient, connVars
  <2>5. \A c \in Conns : Waiting(c)' <=> Waiting(c) /\ c # h
    BY <2>4, HeadLeaves
  <2>6. Waiting(h) /\ ~Served(h)
    BY <2>4, HeadLeaves
  <2>7. \A c \in Conns : Served(c)' <=> Served(c) \/ c = h
    BY <2>2, <2>3 DEF Served
  <2>8. \A j, k \in Occupied' : fdt'[clients'[j]] = fdt'[clients'[k]] => j = k
    BY <2>2, <2>3, <2>6 DEF Served, OnePlace
  <2>9. \A j, k \in 1..Len(backlog') : backlog'[j] = backlog'[k] => j = k
    BY <2>4, HeadLeaves
  <2> QED
    BY <2>4, <2>5, <2>6, <2>7, <2>8, <2>9 DEF OnePlace
<1>3. CASE AcceptRefuses
  <2> DEFINE h == Head(backlog)
  <2>1. backlog # <<>> /\ backlog' = Tail(backlog)
    BY <1>3 DEF AcceptRefuses
  <2>2. \A c \in Conns : peer'[c] = IF c = h THEN "refused" ELSE peer[c]
    BY <1>3 DEF AcceptRefuses, TypeOK
  <2>3. \A c \in Conns : Waiting(c)' <=> Waiting(c) /\ c # h
    BY <2>1, HeadLeaves
  <2>4. Waiting(h) /\ ~Served(h)
    BY <2>1, HeadLeaves
  <2>5. UNCHANGED <<clients, fdt>>
    BY <1>3 DEF AcceptRefuses, tableVars
  <2>6. Occupied' = Occupied /\ \A c \in Conns : Served(c)' <=> Served(c)
    BY <2>5 DEF Served, Occupied
  <2>7. \A j, k \in 1..Len(backlog') : backlog'[j] = backlog'[k] => j = k
    BY <2>1, HeadLeaves
  <2> QED
    BY <2>2, <2>3, <2>4, <2>5, <2>6, <2>7 DEF OnePlace, Established
<1>4. ASSUME NEW c \in Conns, Connect(c)
      PROVE  OnePlace'
  <2>1. /\ peer[c] = "away" /\ backlog' = Append(backlog, c)
        /\ Len(backlog') = Len(backlog) + 1
        /\ \A k \in 1..Len(backlog) : backlog'[k] = backlog[k]
        /\ backlog'[Len(backlog) + 1] = c
    BY <1>4, AppendProperties DEF Connect, TypeOK
  <2>2. \A d \in Conns : peer'[d] = IF d = c THEN "open" ELSE peer[d]
    BY <1>4 DEF Connect, TypeOK
  <2>3. ~Waiting(c) /\ ~Served(c)
    BY <2>1 DEF OnePlace, Established
  <2>4. \A d \in Conns : Waiting(d)' <=> Waiting(d) \/ d = c
    BY <1>0, <2>1 DEF Waiting
  <2>5. UNCHANGED <<clients, fdt>>
    BY <1>4 DEF Connect, tableVars
  <2>6. Occupied' = Occupied /\ \A d \in Conns : Served(d)' <=> Served(d)
    BY <2>5 DEF Served, Occupied
  <2>7. \A j, k \in 1..Len(backlog') : backlog'[j] = backlog'[k] => j = k
    BY <1>0, <2>1, <2>3 DEF Waiting, OnePlace
  <2> QED
    BY <2>2, <2>3, <2>4, <2>5, <2>6, <2>7 DEF OnePlace, Established
<1>5. CASE Setup
  <2>1. Occupied = {} /\ UNCHANGED <<clients, backlog, peer>>
    BY <1>5 DEF Setup, TablesInv, Fresh, connVars
  <2> QED
    BY <2>1 DEF OnePlace, Waiting, Served, Occupied
<1>6. CASE ~RemoveClient /\ ~AcceptClient /\ ~AcceptRefuses /\ ~Setup
           /\ \A c \in Conns : ~Connect(c)
  BY <1>6, TablesKept, EstablishedKept, PlacesKept DEF tables
<1> QED
  BY <1>1, <1>2, <1>3, <1>4, <1>5, <1>6
-----------------------------------------------------------------------------
(* The snapshot of select: SnapshotFresh. *)

\* Slots the pass has not visited yet.
Ahead(i) == IF pc = "scan" THEN i >= index ELSE i > index

\* A slot in the snapshot has a client, with a connection of its own.
LEMMA SlotInSnapshot ==
  ASSUME TypeOK, TablesInv, NEW i \in Slots, clients[i] \in listen_fds
  PROVE  i \in Occupied /\ clients[i] \in Fds /\ fdt[clients[i]] \in Conns
BY DEF TypeOK, TablesInv, DescriptorsAgree, NoLeak, Occupied, Fds, NULL

\* What peers do makes no connection less readable and the backlog no shorter.
LEMMA PeersOnlyAdd ==
  ASSUME TypeOK, Environment
  PROVE  /\ UNCHANGED <<index, clients, fdt, listen_fds, server_fd>>
         /\ UNCHANGED <<pc, nested>> \/ pc' = "check"
         /\ backlog # <<>> => backlog' # <<>>
         /\ \A d \in Conns : Readable(d) => Readable(d)'
<1> USE DEF TypeOK, Readable, HungUp, loopVars, tableVars, selectVars, kernelVars
<1>1. ASSUME NEW c \in Conns, Connect(c)
      PROVE  backlog' # <<>> /\ \A d \in Conns : Readable(d) => Readable(d)'
  <2>1. backlog \in Seq(Conns) /\ backlog' = Append(backlog, c) /\ peer[c] = "away"
    BY <1>1 DEF Connect
  <2>2. backlog' # <<>>
    BY ONLY <2>1, AppendProperties, c \in Conns
  <2>3. inbox' = inbox /\ \A d \in Conns : d # c => peer'[d] = peer[d]
    BY <1>1 DEF Connect
  <2> QED
    BY <2>1, <2>2, <2>3
<1>2. ASSUME NEW c \in Conns, SendHeader(c) \/ SendData(c)
      PROVE  backlog' = backlog /\ \A d \in Conns : Readable(d) => Readable(d)'
  <2>1. PICK x \in Packets \cup {Data} : inbox' = [inbox EXCEPT ![c] = Append(@, x)]
    BY <1>2 DEF SendHeader, SendData
  <2>2. Append(inbox[c], x) # <<>>
    <3>1. inbox[c] \in Seq(Packets \cup {Data})
      OBVIOUS
    <3> QED
      BY ONLY <3>1, AppendProperties, x \in Packets \cup {Data}
  <2>3. \A d \in Conns : inbox[d] # <<>> => inbox'[d] # <<>>
    BY <2>1, <2>2
  <2> QED
    BY <1>2, <2>3 DEF SendHeader, SendData
<1>3. ASSUME NEW c \in Conns, HangUp(c) \/ ResetArrives(c)
      PROVE  backlog' = backlog /\ \A d \in Conns : Readable(d) => Readable(d)'
  BY <1>3 DEF HangUp, ResetArrives
<1>4. CASE Interrupt
  BY <1>4 DEF Interrupt, callVars, connVars
<1>5. /\ UNCHANGED <<index, clients, fdt, listen_fds, server_fd>>
      /\ UNCHANGED <<pc, nested>> \/ pc' = "check"
  BY DEF callVars, Environment, Connect, SendHeader, SendData, HangUp, ResetArrives, Interrupt
<1> QED
  BY <1>1, <1>2, <1>3, <1>4, <1>5 DEF Environment

\* process_request touches no connection but its own.
LEMMA RequestIsLocal ==
  ASSUME TypeOK, ProcessRequest
  PROVE  /\ UNCHANGED <<index, clients, fdt, listen_fds, server_fd, backlog>>
         /\ pc \in Pass \ {"scan"}
         /\ pc' \in (Pass \ {"scan"}) \cup {"killed"} /\ (pc' = "header" => nested')
         /\ \A d \in Conns \ {Conn} : inbox'[d] = inbox[d] /\ peer'[d] = peer[d]
BY RequestFrame, RequestConns DEF Busy, Pass, tableVars, selectVars, kernelVars

LEMMA SnapshotInit == Init => SnapshotFresh
BY DEF Init, SnapshotFresh, Pass

LEMMA SnapshotStep ==
  ASSUME TypeOK, AtClient, TablesInv, OnePlace, SnapshotFresh, [Next]_vars
  PROVE  SnapshotFresh'
<1>0. FdKinds \cap Conns = {} /\ "listening" \in FdKinds
  BY ServerAssumption DEF FdKinds
<1>1. CASE SelectReturns
  <2>1. /\ pc' = "scan" /\ listen_fds' = {f \in Watching : FdReady(f)}
        /\ UNCHANGED <<clients, fdt, server_fd, backlog, inbox, peer>>
    BY <1>1 DEF SelectReturns, tableVars, kernelVars, connVars
  <2>2. ASSUME NEW i \in Slots, clients'[i] \in listen_fds'
        PROVE  Readable(fdt[clients[i]])'
    <3>1. clients[i] \in Fds /\ FdReady(clients[i])
      BY <2>1, <2>2 DEF TypeOK, Watching
    <3>2. clients[i] # NULL
      BY <3>1 DEF Fds, NULL
    <3>3. fdt[clients[i]] \in Conns
      BY <3>2 DEF TablesInv, DescriptorsAgree, NoLeak, Occupied
    <3>4. Readable(fdt[clients[i]])
      BY <1>0, <3>1, <3>3 DEF FdReady
    <3> QED
      BY <2>1, <3>4 DEF Readable
  <2>3. server_fd' \in listen_fds' => backlog' # <<>>
    BY <2>1 DEF TypeOK, TablesInv, DescriptorsAgree, NoLeak, FdReady, Watching
  <2> QED
    BY <2>1, <2>2, <2>3 DEF SnapshotFresh, Pass
<1>2. CASE ScanFinds
  <2>1. PICK i \in Slots : i >= index /\ clients[i] \in listen_fds /\ index' = i
    BY <1>2 DEF ScanFinds, InSnapshot
  <2>2. /\ pc = "scan" /\ pc' = "header"
        /\ UNCHANGED <<clients, fdt, server_fd, backlog, inbox, peer, listen_fds>>
    BY <1>2 DEF ScanFinds, tableVars, selectVars, kernelVars, connVars
  <2>3. \A j \in Slots : j >= index /\ clients[j] \in listen_fds
                           => Readable(fdt[clients[j]])
    BY <2>2 DEF SnapshotFresh, Pass
  <2>4. \A j \in Slots : j > i => j >= index
    BY <2>1 DEF Slots, TypeOK
  <2>5. \A c : Readable(c) <=> Readable(c)'
    BY <2>2 DEF Readable
  <2> QED
    BY <2>1, <2>2, <2>3, <2>4, <2>5 DEF SnapshotFresh, Pass, Conn
<1>3. CASE ScanEnds
  BY <1>3 DEF ScanEnds, SnapshotFresh, Pass, tableVars, selectVars, kernelVars
<1>4. CASE ProcessRequest
  <2>1. /\ UNCHANGED <<index, clients, fdt, listen_fds, server_fd, backlog>>
        /\ pc \in Pass \ {"scan"}
        /\ pc' \in (Pass \ {"scan"}) \cup {"killed"} /\ (pc' = "header" => nested')
        /\ \A d \in Conns \ {Conn} : inbox'[d] = inbox[d] /\ peer'[d] = peer[d]
    BY <1>4, RequestIsLocal
  <2>2. ASSUME NEW i \in Slots, i > index, clients[i] \in listen_fds
        PROVE  Readable(fdt[clients[i]])'
    <3>1. fdt[clients[i]] \in Conns /\ i \in Occupied
      BY <2>2, SlotInSnapshot
    <3>2. index \in Occupied /\ i # index
      BY <1>4, <2>2, RequestFrame DEF AtClient, Occupied, Slots
    <3>3. fdt[clients[i]] # Conn
      BY <3>1, <3>2 DEF OnePlace, Conn
    <3>4. Readable(fdt[clients[i]])
      BY <2>1, <2>2 DEF SnapshotFresh, Pass
    <3> QED
      BY <2>1, <3>1, <3>3, <3>4 DEF Readable
  <2> QED
    BY <2>1, <2>2 DEF SnapshotFresh, Pass
<1>5. CASE RemoveClient
  <2>1. /\ pc = "reap" /\ pc' = "scan" /\ index' = index + 1
        /\ UNCHANGED <<listen_fds, server_fd, backlog>>
    BY <1>5 DEF RemoveClient
  <2>2. ASSUME NEW i \in Slots, i >= index', clients'[i] \in listen_fds'
        PROVE  Readable(fdt[clients[i]])'
    <3>1. i > index /\ i # index /\ index \in Slots
      BY <1>5, <2>1, <2>2, RemoveEffect DEF Slots
    <3>2. clients'[i] = clients[i]
      BY <1>5, <3>1, RemoveEffect
    <3>3. i \in Occupied /\ clients[i] \in Fds /\ fdt[clients[i]] \in Conns
      BY <2>1, <2>2, <3>2, SlotInSnapshot
    <3>4. fdt[clients[i]] # Conn /\ clients[i] # clients[index]
      BY <1>5, <3>1, <3>3, RemoveEffect DEF OnePlace, Conn
    <3>5. fdt'[clients'[i]] = fdt[clients[i]]
      BY <1>5, <3>2, <3>3, <3>4, RemoveEffect
    <3>6. Readable(fdt[clients[i]])
      BY <2>1, <2>2, <3>1, <3>2 DEF SnapshotFresh, Pass
    <3>7. LET c == fdt[clients[i]] IN inbox'[c] = inbox[c] /\ peer'[c] = peer[c]
      BY <1>5, <3>3, <3>4, RemoveEffect DEF TypeOK
    <3> QED
      BY <3>5, <3>6, <3>7 DEF Readable
  <2> QED
    BY <2>1, <2>2 DEF SnapshotFresh, Pass
<1>6. CASE KeepClient
  <2>1. /\ pc = "reap" /\ pc' = "scan" /\ index' = index + 1 /\ index \in Slots
        /\ UNCHANGED <<clients, fdt, server_fd, backlog, inbox, peer, listen_fds>>
    BY <1>6 DEF KeepClient, tableVars, selectVars, kernelVars, connVars, AtClient,
                Busy, Occupied
  <2>2. \A i \in Slots : i >= index' => i > index
    BY <2>1 DEF Slots
  <2> QED
    BY <2>1, <2>2 DEF SnapshotFresh, Pass, Readable
<1>7. CASE Setup \/ SetupFails \/ CheckSignal \/ SelectBlocks \/ Accept
  <2>1. pc' \in {"check", "exited", "select", "blocked"}
    BY <1>7 DEF Setup, SetupFails, CheckSignal, SelectBlocks, Accept, AcceptSkipped,
                AcceptClient, AcceptRefuses, AcceptFails
  <2> QED
    BY <2>1 DEF SnapshotFresh, Pass
<1>8. CASE Environment \/ UNCHANGED vars
  <2>1. /\ UNCHANGED <<index, clients, fdt, listen_fds, server_fd>>
        /\ UNCHANGED <<pc, nested>> \/ pc' = "check"
        /\ backlog # <<>> => backlog' # <<>>
        /\ \A d \in Conns : Readable(d) => Readable(d)'
    <3>1. CASE Environment
      BY <3>1, PeersOnlyAdd
    <3>2. CASE UNCHANGED vars
      BY <3>2 DEF vars, loopVars, callVars, tableVars, selectVars, kernelVars, connVars, Readable
    <3> QED
      BY <1>8, <3>1, <3>2
  <2>2. CASE pc' = "check"
    BY <2>2 DEF SnapshotFresh, Pass
  <2>3. CASE pc' = pc /\ nested' = nested
    <3>1. pc = "header" /\ ~nested => Readable(Conn)'
      BY <2>1 DEF SnapshotFresh, Conn, AtClient, Busy, TablesInv, DescriptorsAgree, NoLeak
    <3>2. \A i \in Slots : clients[i] \in listen_fds => fdt[clients[i]] \in Conns
      BY SlotInSnapshot
    <3> QED
      BY <2>1, <2>3, <3>1, <3>2 DEF SnapshotFresh, Pass
  <2> QED
    BY <2>1, <2>2, <2>3
<1> QED
  BY <1>1, <1>2, <1>3, <1>4, <1>5, <1>6, <1>7, <1>8 DEF Next, Server

\* What process_request works on is a connection, and an established one.
LEMMA ConnServed ==
  ASSUME TypeOK, AtClient, TablesInv, OnePlace, pc \in Busy
  PROVE  Conn \in Conns /\ peer[Conn] \in Established
<1>1. index \in Occupied
  BY DEF AtClient
<1>2. Conn \in Conns
  BY <1>1 DEF TablesInv, DescriptorsAgree, NoLeak, Conn
<1>3. Served(Conn)
  BY <1>1 DEF Served, Conn
<1> QED
  BY <1>2, <1>3 DEF OnePlace

-----------------------------------------------------------------------------
(* The marks of closed clients. *)

\* A client that is not marked as closed.
Unmarked(i) == inc_flag[i] # CANCEL /\ out_flag[i] # CANCEL

\* Whether no header can be taken for a long one.
Flat == \A p \in Packets \cup Strays : ~IsLongHeader(p)

\* ClosedNotServed is not inductive: the mark is set in one step and looked at
\* in another.  In between only the client of this pass has it, in both flags,
\* and no answer may leave its like in out_flag.
FlagsInv ==
  /\ ~nested
  /\ \A i \in Slots :
       Unmarked(i) \/ (pc = "reap" /\ i = index /\ is_client_status(i, CANCEL))
  /\ \A a \in answer : a.status # CANCEL

LEMMA FlagsInit == Init => FlagsInv
BY DEF Init, FlagsInv, Unmarked, NULL_BYTE, CANCEL

LEMMA FlagsStep ==
  ASSUME TypeOK, AtClient, TablesInv, OnePlace, Flat, FlagsInv, [Next]_vars
  PROVE  FlagsInv'
<1>0. /\ inc_flag \in [Slots -> Byte] /\ out_flag \in [Slots -> Byte]
      /\ pc \in Busy => index \in Slots
  BY DEF TypeOK, AtClient, Occupied
\* Steps that leave the flags and the place of the thread alone, or only go
\* from one place without a marked client to another.
<1>1. CASE /\ UNCHANGED <<flagVars, callVars>>
           /\ pc # "reap" \/ UNCHANGED <<pc, index>>
  BY <1>1 DEF FlagsInv, Unmarked, is_client_status, flagVars, callVars
\* Where process_request returns to, and whom it finds marked on its way.
<1>a. Return(nested) => pc' = "reap" /\ ~nested' /\ answer' = {}
  BY DEF Return, FlagsInv
<1>b. pc \in Busy \ {"reap"} => \A i \in Slots : Unmarked(i)
  BY DEF FlagsInv, Busy
<1>2. CASE ReadHeader
  <2>1. PICK p \in Headers(Conn) :
          /\ inc_flag' = [inc_flag EXCEPT ![index] = FlagOnHeader(p, @)]
          /\ out_flag' = [out_flag EXCEPT ![index] = OutOnHeader(p, @)]
          /\ IF ReadsData(p) \/ IsLongText(p) \/ Answer(p, inc_flag[index]) # {}
             THEN /\ pc' \in {"data", "text", "answer"}
                  /\ answer' = Answer(p, inc_flag[index]) /\ nested' = nested
             ELSE Return(nested \/ (IsLongHeader(p) /\ p.control1 > 0))
    BY <1>2 DEF ReadHeader
  <2>2. index' = index /\ index \in Slots /\ pc = "header"
    BY <1>0, <1>2 DEF ReadHeader, Busy
  <2>3. ~IsLongHeader(p)
    <3>1. inbox[Conn] \in Seq(Items) /\ inbox[Conn] # <<>>
      BY <1>2, <2>2, ConnServed DEF ReadHeader, TypeOK, Items, Busy
    <3>2. Head(inbox[Conn]) \in Items
      BY <3>1, HeadTailProperties
    <3> QED
      BY <2>1, <3>2 DEF Headers, Items, Flat
  <2>4. ~nested'
    <3>1. ~nested
      BY DEF FlagsInv
    <3> QED
      BY <2>1, <2>3, <3>1 DEF Return
  <2>5. /\ \A a \in answer' : a.status # CANCEL
        /\ Answer(p, inc_flag[index]) = {} /\ ~HasData(p) => pc' = "reap"
    BY <2>1, <2>4, AnswerNotCancel DEF Return, ReadsData, HasData
  <2>6. \/ /\ inc_flag'[index] = CANCEL /\ out_flag'[index] = CANCEL
           /\ pc' = "reap"
        \/ inc_flag'[index] # CANCEL /\ out_flag'[index] # CANCEL
    <3>1. inc_flag[index] # CANCEL /\ out_flag[index] # CANCEL
      BY <1>b, <2>2 DEF Unmarked, Busy
    <3>2. /\ inc_flag'[index] = FlagOnHeader(p, inc_flag[index])
          /\ out_flag'[index] = OutOnHeader(p, out_flag[index])
      BY <1>0, <2>1, <2>2
    <3> QED
      BY <2>5, <3>1, <3>2, HeaderMarks
  <2>7. \A i \in Slots : i # index =>
          inc_flag'[i] = inc_flag[i] /\ out_flag'[i] = out_flag[i]
    BY <1>0, <2>1
  <2> QED
    BY <2>2, <2>4, <2>5, <2>6, <2>7 DEF FlagsInv, Unmarked, is_client_status
<1>3. CASE ReadEnd
  <2>1. /\ index' = index /\ pc \in Busy \ {"reap"} /\ Return(nested)
        /\ inc_flag' = [inc_flag EXCEPT ![index] = CANCEL]
        /\ out_flag' = [out_flag EXCEPT ![index] = CANCEL]
    BY <1>3 DEF ReadEnd, Busy
  <2> QED
    BY <1>0, <1>a, <1>b, <2>1 DEF FlagsInv, Unmarked, is_client_status
<1>4. CASE ReadShort \/ ReadTextEnd \/ ReadFails \/ OutOfMemory \/ AppendFails \/ ReadText
  <2>1. /\ index' = index /\ pc \in Busy \ {"reap"} /\ UNCHANGED flagVars
        /\ Return(nested) \/ UNCHANGED <<pc, callVars>>
    <3>1. CASE ReadText
      BY <3>1 DEF ReadText, Busy
    <3> QED
      BY <1>4, <3>1 DEF ReadShort, ReadTextEnd, ReadFails, OutOfMemory, AppendFails, Busy
  <2>2. CASE Return(nested)
    BY <1>a, <1>b, <2>1, <2>2 DEF FlagsInv, Unmarked, flagVars
  <2>3. CASE UNCHANGED <<pc, callVars>>
    BY <1>1, <2>1, <2>3 DEF Busy
  <2> QED
    BY <2>1, <2>2, <2>3
<1>5. CASE WriteAnswer
  <2>1. PICK a \in answer :
          IF pc = "answer" /\ DataLen(a) > 0
          THEN /\ pc' = "answer_data"
               /\ out_flag' = [out_flag EXCEPT ![index] = a.status]
               /\ UNCHANGED <<inc_flag, callVars>>
          ELSE /\ Return(nested)
               /\ out_flag' = [out_flag EXCEPT ![index] =
                                 IF MarksClosed(a) THEN CANCEL ELSE NULL_BYTE]
               /\ inc_flag' = [inc_flag EXCEPT ![index] =
                                 IF MarksClosed(a) THEN CANCEL ELSE @]
    BY <1>5 DEF WriteAnswer
  <2>2. index' = index /\ index \in Slots /\ pc \in {"answer", "answer_data"}
    BY <1>0, <1>5 DEF WriteAnswer, Busy
  <2>3. \A i \in Slots : inc_flag[i] # CANCEL /\ out_flag[i] # CANCEL
    BY <1>b, <2>2 DEF Unmarked, Busy
  <2>4. CASE pc = "answer" /\ DataLen(a) > 0
    BY <1>0, <2>1, <2>2, <2>3, <2>4 DEF FlagsInv, Unmarked, callVars
  <2>5. CASE ~(pc = "answer" /\ DataLen(a) > 0)
    <3>0. Return(nested)
      BY <2>1, <2>5
    <3>1. CASE MarksClosed(a)
      BY <1>0, <1>a, <2>1, <2>2, <2>3, <2>5, <3>0, <3>1
         DEF FlagsInv, Unmarked, is_client_status
    <3>2. CASE ~MarksClosed(a)
      BY <1>0, <1>a, <2>1, <2>2, <2>3, <2>5, <3>0, <3>2
         DEF FlagsInv, Unmarked, NULL_BYTE, CANCEL
    <3> QED
      BY <3>1, <3>2
  <2> QED
    BY <2>4, <2>5
<1>6. CASE WriteFails
  <2>1. PICK a \in answer : out_flag' = [out_flag EXCEPT ![index] = a.status]
    BY <1>6 DEF WriteFails
  <2>2. /\ index' = index /\ pc \in Busy \ {"reap"} /\ inc_flag' = inc_flag
        /\ Return(nested)
    BY <1>6 DEF WriteFails, Busy
  <2>3. a.status # CANCEL
    BY DEF FlagsInv
  <2> QED
    BY <1>0, <1>a, <1>b, <2>1, <2>2, <2>3 DEF FlagsInv, Unmarked
<1>7. CASE RemoveClient
  BY <1>0, <1>7 DEF RemoveClient, FlagsInv, Unmarked, is_client_status, Busy,
     NULL_BYTE, CANCEL, callVars
<1>8. CASE KeepClient
  BY <1>0, <1>8 DEF KeepClient, FlagsInv, Unmarked, is_client_status, flagVars, Busy,
     callVars
<1>9. CASE AcceptClient
  <2>1. PICK i \in Slots : /\ inc_flag' = [inc_flag EXCEPT ![i] = NULL_BYTE]
                           /\ out_flag' = [out_flag EXCEPT ![i] = NULL_BYTE]
    BY <1>9 DEF AcceptClient
  <2>2. pc = "accept" /\ UNCHANGED <<nested, answer>>
    BY <1>9 DEF AcceptClient, callVars
  <2> QED
    BY <1>0, <2>1, <2>2 DEF FlagsInv, Unmarked, NULL_BYTE, CANCEL
<1>10. CASE Setup \/ SetupFails \/ CheckSignal \/ SelectBlocks \/ SelectReturns
              \/ ScanFinds \/ ScanEnds \/ ReadData \/ WriteKills
              \/ AcceptSkipped \/ AcceptRefuses \/ AcceptFails
  BY <1>1, <1>10 DEF Setup, SetupFails, CheckSignal, SelectBlocks, SelectReturns,
     ScanFinds, ScanEnds, ReadData, WriteKills, AcceptSkipped, AcceptRefuses,
     AcceptFails
<1>11. CASE Environment
  BY <1>1, <1>11 DEF Environment, Connect, SendHeader, SendData, HangUp,
     ResetArrives, Interrupt, loopVars
<1>12. CASE UNCHANGED vars
  BY <1>1, <1>12 DEF vars, loopVars
<1> QED
  BY <1>2, <1>3, <1>4, <1>5, <1>6, <1>7, <1>8, <1>9, <1>10, <1>11, <1>12
     DEF Next, Server, ProcessRequest, Accept

-----------------------------------------------------------------------------
(* Where packets begin. *)

\* InSync is not inductive: that what the peer sends next fits what it has sent
\* is the meaning of owes, as long as it can send.
SyncAt(c) ==
  /\ Framed(inbox[c], ExpectsData(c), Data)
  /\ peer[c] = "open" => (owes[c] <=> Owing(inbox[c], ExpectsData(c), Data))
  /\ peer[c] = "away" => inbox[c] = <<>> /\ ~owes[c]
SyncInv == \A c \in Conns : ~astray[c] => SyncAt(c)

\* A connection that has gone astray stays so.
LEMMA AstrayKept ==
  ASSUME TypeOK, [Next]_vars, NEW c \in Conns, astray[c]
  PROVE  astray'[c]
<1>0. astray \in [Conns -> BOOLEAN]
  BY DEF TypeOK
<1>1. CASE ProcessRequest
  BY <1>0, <1>1, RequestReads
<1>2. CASE ~ProcessRequest
  BY <1>2 DEF Next, Server, Accept, Environment, Setup, SetupFails, CheckSignal,
     SelectBlocks, SelectReturns, ScanFinds, ScanEnds, RemoveClient, KeepClient,
     AcceptSkipped, AcceptClient, AcceptRefuses, AcceptFails, Connect, SendHeader,
     SendData, HangUp, ResetArrives, Interrupt, vars, connVars
<1> QED
  BY <1>1, <1>2

LEMMA SyncInit == Init => SyncInv
BY FramedEmpty DEF Init, SyncInv, SyncAt, Owing, ExpectsData

\* A step that moves nothing on c, and neither begins nor ends the reading of
\* data from it.
LEMMA SyncAtKept ==
  ASSUME NEW c \in Conns, SyncAt(c), inbox'[c] = inbox[c], owes'[c] = owes[c],
         ExpectsData(c)' <=> ExpectsData(c),
         peer'[c] \in {"open", "away"} => peer'[c] = peer[c]
  PROVE  SyncAt(c)'
BY FramedEquiv DEF SyncAt

LEMMA SyncStep ==
  ASSUME TypeOK, AtClient, TablesInv, OnePlace, SyncInv, [Next]_vars
  PROVE  SyncInv'
<1> SUFFICES ASSUME NEW c \in Conns, ~astray'[c] PROVE SyncAt(c)'
  BY DEF SyncInv
<1>0. /\ inbox \in [Conns -> Seq(Items)] /\ owes \in [Conns -> BOOLEAN]
      /\ peer \in [Conns -> PeerStates] /\ ExpectsData(c) \in BOOLEAN
      /\ astray \in [Conns -> BOOLEAN]
      /\ ~astray[c] /\ SyncAt(c)
  BY AstrayKept DEF TypeOK, Items, SyncInv, ExpectsData
<1>a. pc \in Busy => Conn \in Conns /\ peer[Conn] \in Established
  BY ConnServed
<1> DEFINE AtData == pc \in {"data", "text"}
<1>1. CASE /\ ~AtData /\ ~AtData'
           /\ inbox'[c] = inbox[c] /\ owes'[c] = owes[c]
           /\ peer'[c] \in {"open", "away"} => peer'[c] = peer[c]
  BY <1>0, <1>1, SyncAtKept DEF ExpectsData
<1>2. CASE /\ UNCHANGED <<pc, index, clients, fdt>>
           /\ inbox'[c] = inbox[c] /\ owes'[c] = owes[c]
           /\ peer'[c] \in {"open", "away"} => peer'[c] = peer[c]
  <2>1. ExpectsData(c)' <=> ExpectsData(c)
    BY <1>2 DEF ExpectsData, Conn
  <2> QED
    BY <1>0, <1>2, <2>1, SyncAtKept
<1>3. CASE ProcessRequest /\ c # Conn
  <2>1. /\ UNCHANGED <<owes, clients, index, fdt>>
        /\ inbox'[c] = inbox[c] /\ peer'[c] = peer[c]
    BY <1>3, RequestFrame, RequestConns DEF tableVars, kernelVars
  <2>2. ExpectsData(c)' <=> ExpectsData(c)
    BY <1>3, <2>1 DEF ExpectsData, Conn
  <2> QED
    BY <1>0, <2>1, <2>2, SyncAtKept
<1>4. CASE ProcessRequest /\ c = Conn
  <2>0. /\ UNCHANGED <<owes, clients, index, fdt>> /\ pc \in Busy
        /\ Conn' = Conn /\ peer[c] # "away"
    BY <1>4, <1>a, RequestFrame DEF tableVars, kernelVars, Conn, Established
  \* One item is read from c.
  <2>1. CASE ReadHeader \/ ReadData \/ ReadText
    <3>1. /\ pc \in {"header", "data", "text"} /\ inbox[c] # <<>> /\ peer' = peer
          /\ inbox' = [inbox EXCEPT ![c] = Tail(inbox[c])]
          /\ pc' \in {"data", "text"} <=> pc = "header" /\ HasData(Head(inbox[c]))
      <4>1. CASE ReadHeader
        <5>1. /\ pc = "header" /\ inbox[c] # <<>> /\ peer' = peer
              /\ inbox' = [inbox EXCEPT ![c] = Tail(inbox[c])]
          BY <1>0, <1>4, <4>1 DEF ReadHeader, Rests, Take
        <5>2. pc' \in {"data", "text"} <=> HasData(Head(inbox[c]))
          BY <1>0, <1>4, <4>1 DEF ReadHeader, Headers, Return, ReadsData, HasData
        <5> QED
          BY <5>1, <5>2
      <4>2. CASE ReadData
        BY <1>0, <1>4, <4>2 DEF ReadData, Rests, Take
      <4>3. CASE ReadText
        <5>1. /\ pc = "text" /\ inbox[c] # <<>> /\ peer' = peer
              /\ inbox' = [inbox EXCEPT ![c] = Tail(inbox[c])] /\ Return(nested)
          BY <1>0, <1>4, <4>3 DEF ReadText, Take, GoAstray
        <5> QED
          BY <5>1 DEF Return
      <4> QED
        BY <2>1, <4>1, <4>2, <4>3
    <3>2. inbox'[c] = Tail(inbox[c]) /\ inbox[c] \in Seq(Items)
      BY <1>0, <3>1
    <3>3. /\ inbox[c][1] = Data <=> ExpectsData(c)
          /\ Head(inbox[c]) = inbox[c][1]
      BY <1>0, <3>1, <3>2, HeadTailProperties DEF SyncAt, Framed
    <3>4. ExpectsData(c)' <=> Announces(Head(inbox[c]), Data)
      BY <1>4, <2>0, <3>1, <3>3 DEF ExpectsData, Announces
    <3>5. /\ Framed(inbox'[c], Announces(Head(inbox[c]), Data), Data)
          /\ Owing(inbox'[c], Announces(Head(inbox[c]), Data), Data)
               <=> Owing(inbox[c], ExpectsData(c), Data)
      BY <1>0, <3>1, <3>2, FramedTail DEF SyncAt
    <3> QED
      BY <1>0, <2>0, <3>1, <3>4, <3>5, FramedEquiv DEF SyncAt
  \* What remains is not read, so the connection goes astray.
  <2>2. CASE ReadShort \/ AppendFails
    BY <1>0, <1>4, <2>2 DEF ReadShort, AppendFails, GoAstray
  \* The connection is at its end, and nothing will be sent on it.
  <2>3. CASE ReadEnd \/ ReadTextEnd \/ ReadFails
    <3>1. /\ inbox' = inbox /\ inbox[c] = <<>> /\ peer[c] \notin {"open", "away"}
          /\ peer' = peer \/ peer' = [peer EXCEPT ![c] = "dead"]
      BY <1>4, <2>3 DEF ReadEnd, ReadTextEnd, ReadFails, connVars
    <3>2. inbox'[c] = <<>> /\ peer'[c] \notin {"open", "away"}
      BY <1>0, <3>1
    <3> QED
      BY <3>2, FramedEmpty DEF SyncAt
  <2>4. CASE WriteAnswer \/ WriteFails \/ WriteKills \/ OutOfMemory
    <3>1. ~AtData /\ ~AtData' /\ inbox' = inbox
      <4>1. CASE WriteAnswer
        BY <4>1 DEF WriteAnswer, Return
      <4> QED
        BY <2>4, <4>1 DEF WriteFails, WriteKills, OutOfMemory, Return, connVars
    <3>2. peer'[c] \in {"open", "away"} => peer'[c] = peer[c]
      BY <1>0, <1>4, RequestReads
    <3> QED
      BY <1>1, <2>0, <3>1, <3>2
  <2> QED
    BY <1>4, <2>1, <2>2, <2>3, <2>4 DEF ProcessRequest
\* The server closes a connection.
<1>7. CASE RemoveClient \/ AcceptRefuses
  <2>1. /\ ~AtData /\ ~AtData' /\ owes' = owes
        /\ \/ UNCHANGED <<inbox, peer>>
           \/ \E d, s : /\ s \in {"gone", "refused"}
                        /\ inbox' = [inbox EXCEPT ![d] = <<>>]
                        /\ peer' = [peer EXCEPT ![d] = s]
    BY <1>7 DEF RemoveClient, AcceptRefuses
  <2>2. CASE UNCHANGED <<inbox, peer>>
    BY <1>1, <2>1, <2>2
  <2>3. CASE ~UNCHANGED <<inbox, peer>>
    <3>1. PICK d, s : /\ s \in {"gone", "refused"}
                      /\ inbox' = [inbox EXCEPT ![d] = <<>>]
                      /\ peer' = [peer EXCEPT ![d] = s]
      BY <2>1, <2>3
    <3>2. CASE c = d
      <4>1. inbox'[c] = <<>> /\ peer'[c] \notin {"open", "away"}
        BY <1>0, <3>1, <3>2
      <4> QED
        BY <4>1, FramedEmpty DEF SyncAt
    <3>3. CASE c # d
      BY <1>0, <1>1, <2>1, <3>1, <3>3
    <3> QED
      BY <3>2, <3>3
  <2> QED
    BY <2>2, <2>3
<1>8. CASE Setup \/ SetupFails \/ CheckSignal \/ SelectBlocks \/ SelectReturns
             \/ ScanFinds \/ ScanEnds \/ KeepClient
             \/ AcceptSkipped \/ AcceptClient \/ AcceptFails
  BY <1>1, <1>8 DEF Setup, SetupFails, CheckSignal, SelectBlocks, SelectReturns,
     ScanFinds, ScanEnds, KeepClient, AcceptSkipped,
     AcceptClient, AcceptFails, connVars
\* Peers.
<1>9. ASSUME NEW d \in Conns, Connect(d) PROVE SyncAt(c)'
  <2>1. /\ UNCHANGED <<pc, index, clients, fdt, inbox, owes>>
        /\ peer[d] = "away" /\ peer' = [peer EXCEPT ![d] = "open"]
    BY <1>9 DEF Connect, loopVars, tableVars
  <2>2. CASE c = d
    <3>1. inbox'[c] = <<>> /\ ~owes'[c]
      BY <1>0, <2>1, <2>2 DEF SyncAt
    <3>2. ~ExpectsData(c)
      BY <1>a, <2>1, <2>2 DEF ExpectsData, Busy, Established
    <3>3. ~ExpectsData(c)'
      BY <2>1, <3>2 DEF ExpectsData, Conn
    <3>4. peer'[c] = "open"
      BY <1>0, <2>1, <2>2
    <3> QED
      BY <3>1, <3>3, <3>4, FramedEmpty DEF SyncAt, Owing
  <2>3. CASE c # d
    BY <1>0, <1>2, <2>1, <2>3
  <2> QED
    BY <2>2, <2>3
<1>10. ASSUME NEW d \in Conns, SendHeader(d) \/ SendData(d) PROVE SyncAt(c)'
  <2>1. PICK x \in Items :
          /\ x = Data <=> owes[d]
          /\ inbox' = [inbox EXCEPT ![d] = Append(@, x)]
          /\ owes'[d] <=> Announces(x, Data)
          /\ c # d => owes'[c] = owes[c]
    <3>1. CASE SendHeader(d)
      <4>1. PICK p \in Packets :
              /\ inbox' = [inbox EXCEPT ![d] = Append(@, p)]
              /\ owes' = [owes EXCEPT ![d] = HasData(p)]
        BY <3>1 DEF SendHeader
      <4>2. p \in Items /\ p # Data /\ ~owes[d]
        BY <3>1, ServerAssumption DEF SendHeader, Items
      <4>3. owes'[d] <=> Announces(p, Data)
        BY <1>0, <4>1, <4>2 DEF Announces
      <4>4. c # d => owes'[c] = owes[c]
        BY <1>0, <4>1
      <4> QED
        BY <4>1, <4>2, <4>3, <4>4
    <3>2. CASE SendData(d)
      BY <1>0, <3>2 DEF SendData, Items, Announces
    <3> QED
      BY <1>10, <3>1, <3>2
  <2>2. UNCHANGED <<pc, index, clients, fdt, peer>> /\ peer[d] = "open"
    BY <1>10 DEF SendHeader, SendData, loopVars, tableVars, kernelVars, connVars
  <2>3. ExpectsData(c)' <=> ExpectsData(c)
    BY <2>2 DEF ExpectsData, Conn
  <2>4. CASE c = d
    <3>1. inbox'[c] = Append(inbox[c], x) /\ inbox[c] \in Seq(Items)
      BY <1>0, <2>1, <2>4
    <3>2. owes'[c] <=> Announces(x, Data)
      BY <1>0, <2>1, <2>4
    <3>3. x = Data <=> Owing(inbox[c], ExpectsData(c), Data)
      BY <1>0, <2>1, <2>2, <2>4 DEF SyncAt
    <3>4. /\ Framed(inbox'[c], ExpectsData(c), Data)
          /\ Owing(inbox'[c], ExpectsData(c), Data) <=> Announces(x, Data)
      BY <1>0, <3>1, <3>3, FramedAppend DEF SyncAt
    <3> QED
      BY <2>2, <2>3, <2>4, <3>2, <3>4, FramedEquiv DEF SyncAt
  <2>5. CASE c # d
    BY <1>0, <1>2, <2>1, <2>2, <2>5
  <2> QED
    BY <2>4, <2>5
<1>11. ASSUME NEW d \in Conns, HangUp(d) \/ ResetArrives(d) PROVE SyncAt(c)'
  <2>1. /\ UNCHANGED <<pc, index, clients, fdt, inbox, owes>>
        /\ \E s \in {"fin", "rst", "dead"} : peer' = [peer EXCEPT ![d] = s]
    BY <1>11 DEF HangUp, ResetArrives, loopVars, tableVars, kernelVars
  <2>2. peer'[c] \in {"open", "away"} => peer'[c] = peer[c]
    BY <1>0, <2>1
  <2> QED
    BY <1>2, <2>1, <2>2
<1>12. CASE Interrupt
  BY <1>1, <1>2, <1>12 DEF Interrupt, tableVars, kernelVars, connVars
<1>13. CASE UNCHANGED vars
  BY <1>2, <1>13 DEF vars, loopVars, tableVars, kernelVars, connVars
<1> QED
  BY <1>3, <1>4, <1>7, <1>8, <1>9, <1>10, <1>11, <1>12, <1>13
     DEF Next, Server, Accept, Environment

-----------------------------------------------------------------------------
(* The theorems. *)

\* The inductive invariant: each part needs the ones before it.
IInv ==
  /\ TypeOK /\ AtClient
  /\ TablesInv
  /\ OnePlace
  /\ SnapshotFresh
  /\ Flat => FlagsInv
  /\ SyncInv

LEMMA Invariance == Spec => []IInv
<1>1. Init => IInv
  BY TypeInit, TablesInit, PlacesInit, SnapshotInit, FlagsInit, SyncInit DEF IInv
<1>2. IInv /\ [Next]_vars => IInv'
  BY TypeStep, TablesStep, PlacesStep, SnapshotStep, FlagsStep, SyncStep DEF IInv
<1> QED
  BY <1>1, <1>2, PTL DEF Spec

\* Every variable of the event loop has its type in every reachable state.
THEOREM TypeCorrect == Spec => []TypeOK
<1>1. IInv => TypeOK
  BY DEF IInv
<1> QED
  BY <1>1, Invariance, PTL

\* all_fds and max_fd, the slots and the descriptors of the process agree: no
\* sequence of accepts, refusals and removals leaks a descriptor, leaves a
\* client unwatched or makes select look at a closed one.
THEOREM TablesCorrect == Spec => []DescriptorsAgree
<1>1. IInv => DescriptorsAgree
  BY DEF IInv, TablesInv
<1> QED
  BY <1>1, Invariance, PTL

\* No connection is lost or held twice between the kernel's queue and a slot.
THEOREM PlacesCorrect == Spec => []OnePlace
<1>1. IInv => OnePlace
  BY DEF IInv
<1> QED
  BY <1>1, Invariance, PTL

\* The first read of process_request, and accept, never wait for a peer.
THEOREM SnapshotCorrect == Spec => []SnapshotFresh
<1>1. IInv => SnapshotFresh
  BY DEF IInv
<1> QED
  BY <1>1, Invariance, PTL

\* Where no peer sends a long header, and no bytes are taken for one, a client
\* marked as closed, by whichever other read, write or handler, is removed in
\* the same pass: process_request never serves one.
THEOREM ClosedCorrect ==
  ASSUME \A p \in Packets \cup Strays : ~IsLongHeader(p)
  PROVE  Spec => []ClosedNotServed
<1>1. IInv => ClosedNotServed
  <2>1. Flat
    BY DEF Flat
  <2> QED
    BY <2>1 DEF IInv, AtClient, Occupied, Busy, FlagsInv, Unmarked, ClosedNotServed
<1> QED
  BY <1>1, Invariance, PTL

\* Server and peer agree where packets begin, whatever is sent, inside long
\* headers too, and whoever hangs up, on every connection on which no read came
\* up short, no buffer was missing and no long text overran.
THEOREM SyncCorrect == Spec => []InSync
<1>1. SyncInv => InSync
  BY DEF SyncInv, SyncAt, Framed, Announces, InSync
<1>2. IInv => SyncInv
  BY DEF IInv
<1> QED
  BY <1>1, <1>2, Invariance, PTL
=============================================================================
