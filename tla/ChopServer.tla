------------------------------ MODULE ChopServer ------------------------------
(***************************************************************************)
(* The event loop of chopserver (main in chopserver.c) with everything it  *)
(* calls: select, the pass over the client slots, process_request for one  *)
(* packet, is_client_status / remove_client_index, accept_new_client, and  *)
(* the SIGINT handler.  The server is one thread; what runs beside it are  *)
(* its peers (chopclient processes), the kernel and the user who presses   *)
(* control-C.                                                              *)
(*                                                                         *)
(* A step of the server ends where its next system call may block, fail or *)
(* be overtaken by one of those actors: the check of sigint_received,      *)
(* select, the read of a header, the read of its data, each write of the   *)
(* answer, the close of a connection and accept are steps of their own.    *)
(*                                                                         *)
(* Peers write a header and its data with two calls of write, and both are *)
(* items of inbox.  A read takes the one item it asks for, until a read    *)
(* comes up short, a buffer cannot be allocated or a long text overruns:   *)
(* from then on the connection is astray, and what the server takes for a  *)
(* header are bytes of any packet.  ChopEndpoint is the same code byte by  *)
(* byte, and counts the packets left in a long header, which here may end  *)
(* after any of them.                                                      *)
(***************************************************************************)
EXTENDS ChopPacket, Sequences, FiniteSets

CONSTANTS
  Conns,           \* the connections peers make, each at most once
  Packets,         \* the headers peers send
  Strays,          \* what bytes of a packet may be taken for once astray
  Data,            \* the item of inbox that stands for the data of a packet
  MAX_CONNECTIONS, \* number of slots for clients
  CONNECT_QUEUE,   \* length of the kernel's queue of pending connections
  FdLimit,         \* file descriptors the process may have (RLIMIT_NOFILE)
  Inherited,       \* sets of descriptors that may be open when main starts
  MallocMayFail,   \* whether malloc may return NULL
  ShortReads,      \* whether the network may cut what a peer writes at once
  MaxSent          \* bound: headers a peer sends on one connection

\* States of a file descriptor that is not a connection.
FdKinds == {"free", "inherited", "listening"}

ASSUME ServerAssumption ==
  /\ FdKinds \cap Conns = {}
  /\ Packets \subseteq Packet /\ Strays \subseteq Packet
  /\ Data \notin Packet
  /\ MAX_CONNECTIONS \in Nat \ {0}
  /\ CONNECT_QUEUE \in Nat \ {0}
  /\ FdLimit \in Nat \ {0}
  /\ \A open \in Inherited : {1, 2} \subseteq open /\ open \subseteq 0..FdLimit - 1
  /\ MallocMayFail \in BOOLEAN /\ ShortReads \in BOOLEAN
  /\ MaxSent \in Nat

Fds    == 0..FdLimit - 1
Slots  == 0..MAX_CONNECTIONS - 1
NULL   == -1  \* an empty slot, and server_fd before the socket exists

MIN_FD_Three == 3 \* a mutant: the first descriptor after the standard ones
MIN_FD == 0

VARIABLES
  pc,              \* where the server's only thread is
  index,           \* the loop variable of the pass over the slots
  sigint_received, \* the flag the signal handler sets
  server_fd,       \* struct server
  clients,         \*   per slot: socket_fd of its struct client, or NULL
  inc_flag,        \*   per slot: flags of its struct client
  out_flag,
  cur_connections,
  all_fds,         \* the set select watches
  listen_fds,      \* the snapshot select returned
  max_fd,
  nested,          \* whether process_request is inside parse_long_header
  answer,          \* packets process_request still has to write: none or one
  fdt,             \* kernel: what each descriptor of the process refers to
  backlog,         \* kernel: connections waiting to be accepted
  peer,            \* kernel: state of each connection
  inbox,           \* kernel: items received on each connection and not read
  owes,            \* per connection: its peer has sent a header, not its data
  sent,            \* per connection: headers sent
  bye,             \* per connection: one of them was an escape, or confirmed one
  astray           \* history, per connection: the server may have lost track of
                   \* where packets begin

loopVars   == <<pc, index, sigint_received>>
tableVars  == <<server_fd, clients, cur_connections>>
flagVars   == <<inc_flag, out_flag>>
selectVars == <<all_fds, listen_fds, max_fd>>
kernelVars == <<fdt, backlog>>
callVars   == <<nested, answer>>
connVars   == <<peer, inbox, owes, sent, bye, astray>>
vars == <<loopVars, tableVars, flagVars, selectVars, callVars, kernelVars, connVars>>

(***************************************************************************)
(* States of a connection, as the server's kernel sees it:                 *)
(*   away     not made yet                                                 *)
(*   open     established                                                  *)
(*   fin      the peer closed it: reads return what is left, then 0        *)
(*   finw     and the server has written since, which the peer resets      *)
(*   rst      the peer reset it: the next read or write reports an error   *)
(*   dead     reset, and reported: reads return 0, a write raises SIGPIPE  *)
(*   refused  closed by the server without giving it a slot                *)
(*   gone     closed by the server after serving it                        *)
(***************************************************************************)
PeerStates == {"away", "open", "fin", "finw", "rst", "dead", "refused", "gone"}
Established == {"open", "fin", "finw", "rst", "dead"}
HungUp == {"fin", "finw", "rst", "dead"}

\* select reports a connection that has input, or whose peer is no longer there.
Readable(c) == inbox[c] # <<>> \/ peer[c] \in HungUp
FdReady(f) == IF fdt[f] = "listening" THEN backlog # <<>> ELSE Readable(fdt[f])

Occupied == {i \in Slots : clients[i] # NULL}

\* What select(max_fd + 1, ...) looks at.
Watching == {f \in all_fds : f <= max_fd}

\* The connection process_request is working on.
Conn == fdt[clients[index]]

\* POSIX: a new descriptor is the lowest one that is free.
LowestFree(f) == fdt[f] = "free" /\ \A g \in Fds : g < f => fdt[g] # "free"

Init ==
  /\ pc = "setup" /\ index = 0 /\ sigint_received = FALSE
  /\ server_fd = NULL
  /\ clients = [i \in Slots |-> NULL] /\ cur_connections = 0
  /\ inc_flag = [i \in Slots |-> NULL_BYTE]
  /\ out_flag = [i \in Slots |-> NULL_BYTE]
  /\ all_fds = {} /\ listen_fds = {} /\ max_fd = NULL
  /\ nested = FALSE /\ answer = {}
  /\ \E open \in Inherited :
       fdt = [f \in Fds |-> IF f \in open THEN "inherited" ELSE "free"]
  /\ backlog = <<>>
  /\ peer = [c \in Conns |-> "away"]
  /\ inbox = [c \in Conns |-> <<>>]
  /\ owes = [c \in Conns |-> FALSE]
  /\ sent = [c \in Conns |-> 0]
  /\ bye = [c \in Conns |-> FALSE]
  /\ astray = [c \in Conns |-> FALSE]

-----------------------------------------------------------------------------
(* Start of main, and the head of its loop. *)

\* setup_server_socket succeeds and the socket becomes the first member of
\* all_fds.
Setup ==
  /\ pc = "setup"
  /\ \E f \in Fds :
       /\ LowestFree(f)
       /\ fdt' = [fdt EXCEPT ![f] = "listening"]
       /\ server_fd' = f /\ all_fds' = {f} /\ max_fd' = f
  /\ pc' = "check"
  /\ UNCHANGED <<index, sigint_received, clients, cur_connections, flagVars,
                 listen_fds, callVars, backlog, connVars>>

\* A mutant: main does not look at the result of setup_server_socket.
SetupFailsUnseen ==
  /\ pc = "setup"
  /\ pc' = "check"
  /\ server_fd' = NULL /\ all_fds' = {NULL}
  /\ UNCHANGED <<index, sigint_received, clients, cur_connections, flagVars,
                 listen_fds, max_fd, callVars, kernelVars, connVars>>

\* socket, setsockopt, bind or listen fails: main exits with the error.
SetupFails ==
  /\ pc = "setup"
  /\ pc' = "exited"
  /\ UNCHANGED <<index, sigint_received, tableVars, flagVars, selectVars,
                 callVars, kernelVars, connVars>>

\* if (sigint_received) exit(1)
CheckSignal ==
  /\ pc = "check"
  /\ pc' = IF sigint_received THEN "exited" ELSE "select"
  /\ UNCHANGED <<index, sigint_received, tableVars, flagVars, selectVars,
                 callVars, kernelVars, connVars>>

\* select is called and nothing is ready.
SelectBlocks ==
  /\ pc = "select"
  /\ ~\E f \in Watching : FdReady(f)
  /\ pc' = "blocked"
  /\ UNCHANGED <<index, sigint_received, tableVars, flagVars, selectVars,
                 callVars, kernelVars, connVars>>

\* select returns the ready members of Watching and the pass begins.
SelectReturns ==
  /\ pc \in {"select", "blocked"}
  /\ \E f \in Watching : FdReady(f)
  /\ listen_fds' = {f \in Watching : FdReady(f)}
  /\ pc' = "scan" /\ index' = 0
  /\ UNCHANGED <<sigint_received, tableVars, flagVars, all_fds, max_fd,
                 callVars, kernelVars, connVars>>

-----------------------------------------------------------------------------
(* The pass over the slots. *)

\* A mutant: FD_ISSET is asked about the wrong set.
InAllFds(i) == clients[i] \in all_fds
InSnapshot(i) == clients[i] \in listen_fds

\* The next slot of the pass whose client is in the snapshot.
ScanFinds ==
  /\ pc = "scan"
  /\ \E i \in Slots :
       /\ i >= index /\ InSnapshot(i)
       /\ \A j \in Slots : index <= j /\ j < i => ~InSnapshot(j)
       /\ index' = i
  /\ pc' = "header"
  /\ UNCHANGED <<sigint_received, tableVars, flagVars, selectVars, callVars,
                 kernelVars, connVars>>

\* A mutant: the server accepts only when it has nobody to serve.
ScanEndsBusy ==
  /\ pc = "scan"
  /\ \A i \in Slots : i >= index => ~InSnapshot(i)
  /\ pc' = (IF Occupied = {} THEN "accept" ELSE "check") /\ index' = 0
  /\ UNCHANGED <<sigint_received, tableVars, flagVars, selectVars, callVars,
                 kernelVars, connVars>>

\* No slot is left.
ScanEnds ==
  /\ pc = "scan"
  /\ \A i \in Slots : i >= index => ~InSnapshot(i)
  /\ pc' = "accept" /\ index' = 0
  /\ UNCHANGED <<sigint_received, tableVars, flagVars, selectVars, callVars,
                 kernelVars, connVars>>

-----------------------------------------------------------------------------
(* process_request, for the client at index. *)

\* What a handler may leave of inbox[c] once it is not known where packets begin.
Remainders(c) == {SubSeq(inbox[c], k, Len(inbox[c])) : k \in 1..Len(inbox[c]) + 1}

\* What is left after a read that returns what it asks for, and what the server
\* takes for a header.
Rests(c)   == IF astray[c] THEN Remainders(c) ELSE {Tail(inbox[c])}
Headers(c) == IF astray[c] THEN Packets \cup Strays ELSE {Head(inbox[c])} \ {Data}

Take(c, rest) == inbox' = [inbox EXCEPT ![c] = rest]
GoAstray(c)   == astray' = [astray EXCEPT ![c] = TRUE]

\* A handler returns, with an error or not.  parse_long_header then reads the
\* next of its packets, or is done with them and returns 0 to the one it is
\* nested in, if any, which goes on in the same way.
Return(inside) ==
  /\ pc' \in IF inside THEN {"header", "reap"} ELSE {"reap"}
  /\ nested' = (pc' = "header")
  /\ answer' = {}

\* A mutant: the packets of a sleeping client are dropped after their header.
ReadsDataAwake(p) == DataLen(p) > 0 /\ inc_flag[index] # IDLE

\* Whether the handler of p calls read_data and finds something to read.
ReadsData(p) == DataLen(p) > 0

\* read_header gets a header and parse_header dispatches it, up to the next
\* system call.  Before the connection is astray what is at the head of inbox
\* is a header: see InSync.
ReadHeader ==
  /\ pc = "header"
  /\ inbox[Conn] # <<>>
  /\ \E p \in Headers(Conn), rest \in Rests(Conn) :
       /\ Take(Conn, rest)
       /\ inc_flag' = [inc_flag EXCEPT ![index] = FlagOnHeader(p, @)]
       /\ out_flag' = [out_flag EXCEPT ![index] = OutOnHeader(p, @)]
       /\ LET reply == Answer(p, inc_flag[index])
          IN IF ReadsData(p) \/ IsLongText(p) \/ reply # {}
             THEN /\ pc' = IF ReadsData(p) THEN "data"
                           ELSE IF IsLongText(p) THEN "text" ELSE "answer"
                  /\ answer' = reply
                  /\ UNCHANGED nested
             ELSE Return(nested \/ (IsLongHeader(p) /\ p.control1 > 0))
  /\ UNCHANGED <<index, sigint_received, tableVars, selectVars, kernelVars,
                 peer, owes, sent, bye, astray>>

\* read_data gets the data of the packet.
ReadData ==
  /\ pc = "data"
  /\ inbox[Conn] # <<>>
  /\ \E rest \in Rests(Conn) : Take(Conn, rest)
  /\ pc' = "answer"
  /\ UNCHANGED <<index, sigint_received, tableVars, flagVars, selectVars,
                 callVars, kernelVars, peer, owes, sent, bye, astray>>

\* read_header or read_data gets a part of what it asks for, and gives up: the
\* rest of it is still to be read.
ReadShort ==
  /\ pc \in {"header", "data"}
  /\ inbox[Conn] # <<>>
  /\ ShortReads \/ astray[Conn]
  /\ \E rest \in IF astray[Conn] THEN Remainders(Conn) ELSE {inbox[Conn]} :
       Take(Conn, rest)
  /\ GoAstray(Conn)
  /\ Return(nested)
  /\ UNCHANGED <<index, sigint_received, tableVars, flagVars, selectVars,
                 kernelVars, peer, owes, sent, bye>>

\* read_long_text reads up to an END_TEXT.  A window of it may hold more than
\* the text, and that is dropped; astray, the END_TEXT may be anywhere.
ReadText ==
  /\ pc = "text"
  /\ inbox[Conn] # <<>>
  /\ \/ /\ Take(Conn, Tail(inbox[Conn]))
        /\ Return(nested)
        /\ UNCHANGED astray
     \/ /\ Len(inbox[Conn]) > 1
        /\ \E rest \in Remainders(Conn) \ {inbox[Conn]} : Take(Conn, rest)
        /\ GoAstray(Conn)
        /\ Return(nested)
     \/ /\ astray[Conn]
        /\ \E rest \in Remainders(Conn) : Take(Conn, rest)
        /\ Return(nested) \/ UNCHANGED <<pc, callVars>>
        /\ UNCHANGED astray
  /\ UNCHANGED <<index, sigint_received, tableVars, flagVars, selectVars,
                 kernelVars, peer, owes, sent, bye>>

\* The connection ends before the text: the handler returns, and the client is
\* not marked as closed.
ReadTextEnd ==
  /\ pc = "text"
  /\ inbox[Conn] = <<>> /\ peer[Conn] \in {"fin", "finw", "dead"}
  /\ Return(nested)
  /\ UNCHANGED <<index, sigint_received, tableVars, flagVars, selectVars,
                 kernelVars, connVars>>

\* A read returns 0: the client is marked as closed and nothing is answered.
ReadEnd ==
  /\ pc \in {"header", "data"}
  /\ inbox[Conn] = <<>> /\ peer[Conn] \in {"fin", "finw", "dead"}
  /\ inc_flag' = [inc_flag EXCEPT ![index] = CANCEL]
  /\ out_flag' = [out_flag EXCEPT ![index] = CANCEL]
  /\ Return(nested)
  /\ UNCHANGED <<index, sigint_received, tableVars, selectVars, kernelVars,
                 connVars>>

\* A read fails with the error of a reset connection: the flags stay.
ReadFails ==
  /\ pc \in {"header", "data", "text"}
  /\ inbox[Conn] = <<>> /\ peer[Conn] = "rst"
  /\ peer' = [peer EXCEPT ![Conn] = "dead"]
  /\ Return(nested)
  /\ UNCHANGED <<index, sigint_received, tableVars, flagVars, selectVars,
                 kernelVars, inbox, owes, sent, bye, astray>>

\* write_packet writes the header of the answer and, if it has data, goes on
\* to write that: out_flag holds the status of the answer in between.  After
\* the last write out_flag is cleared, and an acknowledged escape then marks
\* the client as closed.
WriteAnswer ==
  /\ pc \in {"answer", "answer_data"}
  /\ peer[Conn] \in {"open", "fin", "finw"}
  /\ peer' = [peer EXCEPT ![Conn] = IF @ = "fin" THEN "finw" ELSE @]
  /\ \E a \in answer :
       IF pc = "answer" /\ DataLen(a) > 0
       THEN /\ pc' = "answer_data"
            /\ out_flag' = [out_flag EXCEPT ![index] = a.status]
            /\ UNCHANGED <<inc_flag, callVars>>
       ELSE /\ Return(nested)
            /\ out_flag' = [out_flag EXCEPT ![index] =
                              IF MarksClosed(a) THEN CANCEL ELSE NULL_BYTE]
            /\ inc_flag' = [inc_flag EXCEPT ![index] =
                              IF MarksClosed(a) THEN CANCEL ELSE @]
  /\ UNCHANGED <<index, sigint_received, tableVars, selectVars, kernelVars,
                 inbox, owes, sent, bye, astray>>

\* A write fails with the error of a reset connection: out_flag keeps the
\* status of the answer, and parse_escape returns before it marks anything.
WriteFails ==
  /\ pc \in {"answer", "answer_data"}
  /\ peer[Conn] = "rst"
  /\ peer' = [peer EXCEPT ![Conn] = "dead"]
  /\ \E a \in answer : out_flag' = [out_flag EXCEPT ![index] = a.status]
  /\ Return(nested)
  /\ UNCHANGED <<index, sigint_received, tableVars, inc_flag, selectVars,
                 kernelVars, inbox, owes, sent, bye, astray>>

\* A write to a connection already known to be reset raises SIGPIPE, which
\* main leaves at its default: the process is terminated.
WriteKills ==
  /\ pc \in {"answer", "answer_data"}
  /\ peer[Conn] = "dead"
  /\ pc' = "killed"
  /\ UNCHANGED <<index, sigint_received, tableVars, flagVars, selectVars,
                 callVars, kernelVars, connVars>>

-----------------------------------------------------------------------------
(* process_request without memory. *)

\* init_packet_struct fails before the first header is read, or there is no
\* memory for the answer: nothing is read or written, and the flags stay.
OutOfMemory ==
  /\ MallocMayFail
  /\ pc = "answer" \/ (pc = "header" /\ ~nested)
  /\ Return(nested)
  /\ UNCHANGED <<index, sigint_received, tableVars, flagVars, selectVars,
                 kernelVars, connVars>>

\* append_buffer fails before the data is read, or before the next part of it
\* is: the handler gives up, and what it has not read will be taken for headers.
AppendFails ==
  /\ MallocMayFail
  /\ pc \in {"data", "text"}
  /\ GoAstray(Conn)
  /\ Return(nested)
  /\ UNCHANGED <<index, sigint_received, tableVars, flagVars, selectVars,
                 kernelVars, peer, inbox, owes, sent, bye>>

-----------------------------------------------------------------------------
(* After process_request, and accept_new_client. *)

\* A mutant: out_flag is expected to have been cleared.
is_client_status_out(i, status) == inc_flag[i] = status /\ out_flag[i] = NULL_BYTE

is_client_status(i, status) == inc_flag[i] = status /\ out_flag[i] = status

\* A client marked as closed leaves all_fds and its slot, and
\* destroy_client_struct closes its descriptor unless that is MIN_FD.
RemoveClient ==
  /\ pc = "reap"
  /\ is_client_status(index, CANCEL)
  /\ all_fds' = all_fds \ {clients[index]}
  /\ IF clients[index] > MIN_FD
     THEN /\ fdt' = [fdt EXCEPT ![clients[index]] = "free"]
          /\ peer' = [peer EXCEPT ![Conn] = "gone"]
          /\ inbox' = [inbox EXCEPT ![Conn] = <<>>]
     ELSE UNCHANGED <<fdt, peer, inbox>>
  /\ clients' = [clients EXCEPT ![index] = NULL]
  /\ inc_flag' = [inc_flag EXCEPT ![index] = NULL_BYTE]
  /\ out_flag' = [out_flag EXCEPT ![index] = NULL_BYTE]
  /\ pc' = "scan" /\ index' = index + 1
  /\ UNCHANGED <<sigint_received, server_fd, cur_connections, listen_fds,
                 max_fd, callVars, backlog, owes, sent, bye, astray>>

KeepClient ==
  /\ pc = "reap"
  /\ ~is_client_status(index, CANCEL)
  /\ pc' = "scan" /\ index' = index + 1
  /\ UNCHANGED <<sigint_received, tableVars, flagVars, selectVars, callVars,
                 kernelVars, connVars>>

\* The listening socket was not ready when select returned.
AcceptSkipped ==
  /\ pc = "accept"
  /\ server_fd \notin listen_fds
  /\ pc' = "check"
  /\ UNCHANGED <<index, sigint_received, tableVars, flagVars, selectVars,
                 callVars, kernelVars, connVars>>

\* A mutant: the loop over the slots does not look whether they are taken.
FirstSlot(i) == i = 0
FirstEmpty(i) == clients[i] = NULL /\ \A j \in Slots : j < i => clients[j] # NULL

\* A mutant: the number of clients is taken from the counter of struct server.
NoSlotLeft_Counter == cur_connections >= MAX_CONNECTIONS
NoSlotLeft == Occupied = Slots

\* Mutants: max_fd is forgotten, or is the newest descriptor.
MaxFdOld(f)  == max_fd
MaxFdLast(f) == f
MaxFd(f) == IF f > max_fd THEN f ELSE max_fd

\* The head of the backlog gets the lowest free descriptor and the first
\* empty slot, and select will watch it.
AcceptClient ==
  /\ pc = "accept"
  /\ server_fd \in listen_fds /\ backlog # <<>>
  /\ \E f \in Fds, i \in Slots :
       /\ LowestFree(f) /\ FirstEmpty(i)
       /\ fdt' = [fdt EXCEPT ![f] = Head(backlog)]
       /\ clients' = [clients EXCEPT ![i] = f]
       /\ inc_flag' = [inc_flag EXCEPT ![i] = NULL_BYTE]
       /\ out_flag' = [out_flag EXCEPT ![i] = NULL_BYTE]
       /\ all_fds' = all_fds \cup {f}
       /\ max_fd' = MaxFd(f)
  /\ cur_connections' = cur_connections + 1
  /\ backlog' = Tail(backlog)
  /\ pc' = "check"
  /\ UNCHANGED <<index, sigint_received, server_fd, listen_fds, callVars, connVars>>

\* There is a free descriptor, but no empty slot, or no memory for the struct
\* client (then refuse_connection is called): accepted and closed at once.
AcceptRefuses ==
  /\ pc = "accept"
  /\ server_fd \in listen_fds /\ backlog # <<>>
  /\ \E f \in Fds : LowestFree(f)
  /\ MallocMayFail \/ NoSlotLeft
  /\ backlog' = Tail(backlog)
  /\ peer' = [peer EXCEPT ![Head(backlog)] = "refused"]
  /\ inbox' = [inbox EXCEPT ![Head(backlog)] = <<>>]
  /\ pc' = "check"
  /\ UNCHANGED <<index, sigint_received, tableVars, flagVars, selectVars,
                 callVars, fdt, owes, sent, bye, astray>>

\* accept fails because no descriptor is free: the connection stays pending.
AcceptFails ==
  /\ pc = "accept"
  /\ server_fd \in listen_fds
  /\ \A f \in Fds : fdt[f] # "free"
  /\ pc' = "check"
  /\ UNCHANGED <<index, sigint_received, tableVars, flagVars, selectVars,
                 callVars, kernelVars, connVars>>

-----------------------------------------------------------------------------
(* The peers, the network, and the user. *)

Running == pc \notin {"setup", "exited", "killed"}

\* The kernel completes a connection while the backlog has room.
Connect(c) ==
  /\ Running
  /\ peer[c] = "away" /\ Len(backlog) < CONNECT_QUEUE
  /\ peer' = [peer EXCEPT ![c] = "open"]
  /\ backlog' = Append(backlog, c)
  /\ UNCHANGED <<loopVars, tableVars, flagVars, selectVars, callVars, fdt, inbox,
                 owes, sent, bye, astray>>

SendHeader(c) ==
  /\ Running
  /\ peer[c] = "open" /\ ~owes[c] /\ sent[c] < MaxSent
  /\ \E p \in Packets :
       /\ inbox' = [inbox EXCEPT ![c] = Append(@, p)]
       /\ owes' = [owes EXCEPT ![c] = HasData(p)]
       /\ bye' = [bye EXCEPT ![c] = @ \/ SaysBye(p)]
  /\ sent' = [sent EXCEPT ![c] = @ + 1]
  /\ UNCHANGED <<loopVars, tableVars, flagVars, selectVars, callVars, kernelVars,
                 peer, astray>>

SendData(c) ==
  /\ Running
  /\ peer[c] = "open" /\ owes[c]
  /\ inbox' = [inbox EXCEPT ![c] = Append(@, Data)]
  /\ owes' = [owes EXCEPT ![c] = FALSE]
  /\ UNCHANGED <<loopVars, tableVars, flagVars, selectVars, callVars, kernelVars,
                 peer, sent, bye, astray>>

\* The peer exits or is killed, between any two of its writes.  Its kernel
\* sends a reset instead of an orderly end if it had not read all it was sent.
HangUp(c) ==
  /\ Running
  /\ peer[c] = "open"
  /\ \E how \in {"fin", "rst"} : peer' = [peer EXCEPT ![c] = how]
  /\ UNCHANGED <<loopVars, tableVars, flagVars, selectVars, callVars, kernelVars,
                 inbox, owes, sent, bye, astray>>

\* The reset that answers a write to a closed peer arrives.
ResetArrives(c) ==
  /\ Running
  /\ peer[c] = "finw"
  /\ peer' = [peer EXCEPT ![c] = "dead"]
  /\ UNCHANGED <<loopVars, tableVars, flagVars, selectVars, callVars, kernelVars,
                 inbox, owes, sent, bye, astray>>

\* SIGINT.  It interrupts select, which then fails with EINTR and the loop
\* starts again; every other call is restarted (SA_RESTART).
Interrupt ==
  /\ pc \notin {"exited", "killed"}
  /\ sigint_received => pc = "blocked"
  /\ sigint_received' = TRUE
  /\ pc' = IF pc = "blocked" THEN "check" ELSE pc
  /\ UNCHANGED <<index, tableVars, flagVars, selectVars, callVars, kernelVars,
                 connVars>>

-----------------------------------------------------------------------------
ProcessRequest ==
  \/ ReadHeader \/ ReadData \/ ReadShort \/ ReadText \/ ReadTextEnd \/ ReadEnd
  \/ ReadFails \/ WriteAnswer \/ WriteFails \/ WriteKills \/ OutOfMemory
  \/ AppendFails

Accept == AcceptSkipped \/ AcceptClient \/ AcceptRefuses \/ AcceptFails

Server ==
  \/ Setup \/ SetupFails \/ CheckSignal \/ SelectBlocks \/ SelectReturns
  \/ ScanFinds \/ ScanEnds \/ ProcessRequest \/ RemoveClient \/ KeepClient
  \/ Accept

Environment ==
  \/ \E c \in Conns :
       Connect(c) \/ SendHeader(c) \/ SendData(c) \/ HangUp(c) \/ ResetArrives(c)
  \/ Interrupt

Next == Server \/ Environment

Spec == Init /\ [][Next]_vars

\* The server is scheduled, and a peer that has written a header goes on to
\* write its data (or hangs up).
FairSpec ==
  /\ Spec
  /\ WF_vars(Server)
  /\ \A c \in Conns : WF_vars(SendData(c))
-----------------------------------------------------------------------------
(* Properties. *)

\* Every variable has its type.
TypeOK ==
  /\ pc \in {"setup", "check", "select", "blocked", "scan", "header", "data",
             "text", "answer", "answer_data", "reap", "accept", "exited", "killed"}
  /\ index \in 0..MAX_CONNECTIONS
  /\ sigint_received \in BOOLEAN
  /\ server_fd \in Fds \cup {NULL}
  /\ clients \in [Slots -> Fds \cup {NULL}]
  /\ inc_flag \in [Slots -> Byte] /\ out_flag \in [Slots -> Byte]
  /\ cur_connections \in Nat
  /\ all_fds \subseteq Fds /\ listen_fds \subseteq Fds
  /\ max_fd \in Fds \cup {NULL}
  /\ nested \in BOOLEAN /\ answer \in SUBSET Packet
  /\ fdt \in [Fds -> FdKinds \cup Conns]
  /\ backlog \in Seq(Conns)
  /\ peer \in [Conns -> PeerStates]
  /\ inbox \in [Conns -> Seq(Packets \cup {Data})]
  /\ owes \in [Conns -> BOOLEAN]
  /\ sent \in [Conns -> Nat]
  /\ bye \in [Conns -> BOOLEAN] /\ astray \in [Conns -> BOOLEAN]

\* Between setup_server_socket and the end of the process, all_fds is the
\* listening socket and the sockets of the clients that have a slot ...
Watched ==
  pc \notin {"setup", "exited"} =>
    all_fds = {server_fd} \cup {clients[i] : i \in Occupied}

\* ... select is told of all of them by max_fd + 1 ...
WithinRange == \A f \in all_fds : f <= max_fd

\* ... each client has a connection, no two have the same one, and no socket
\* is open that is neither a client's nor the server's.
NoLeak ==
  /\ \A i \in Occupied : fdt[clients[i]] \in Conns
  /\ \A i, j \in Occupied : clients[i] = clients[j] => i = j
  /\ \A f \in Fds : fdt[f] \in Conns => \E i \in Slots : clients[i] = f
  /\ \A f \in Fds : fdt[f] = "listening" <=> f = server_fd

\* The three tables of main (all_fds and max_fd, host->clients, the kernel's
\* descriptors) agree through every order of accept, refusal and removal, so
\* select never fails with EBADF, no client is left unwatched and no closed
\* client's descriptor leaks, though destroy_client_struct spares MIN_FD.
DescriptorsAgree == Watched /\ WithinRange /\ NoLeak

\* Where a connection can be: in the kernel's queue, or in a slot.
Waiting(c) == \E k \in 1..Len(backlog) : backlog[k] = c
Served(c)  == \E i \in Occupied : fdt[clients[i]] = c

Pass == {"scan", "header", "data", "text", "answer", "answer_data", "reap"}

\* The snapshot of select is never stale when it is used: a slot the pass has
\* still to visit and finds in listen_fds has input (or its end) to read, and
\* accept finds a connection, though descriptors are closed during the pass
\* and given out again.  So the server is never stuck in process_request or
\* accept for a peer that has sent nothing (inside a long header it may wait
\* for a packet).
SnapshotFresh ==
  /\ pc = "header" /\ ~nested => Readable(Conn)
  /\ pc \in Pass =>
       \A i \in Slots :
         /\ IF pc = "scan" THEN i >= index ELSE i > index
         /\ clients[i] \in listen_fds
         => Readable(fdt[clients[i]])
  /\ pc \in Pass \cup {"accept"} /\ server_fd \in listen_fds => backlog # <<>>

\* An established connection is either waiting to be accepted or some slot's,
\* never both and never twice, and no other connection is: refusing, removing
\* and accepting clients loses none and duplicates none.
OnePlace ==
  /\ \A c \in Conns : peer[c] \in Established <=> Waiting(c) \/ Served(c)
  /\ \A c \in Conns : ~(Waiting(c) /\ Served(c))
  /\ \A j, k \in 1..Len(backlog) : backlog[j] = backlog[k] => j = k
  /\ \A i, j \in Occupied : fdt[clients[i]] = fdt[clients[j]] => i = j

\* Whether the server is about to read data on c, and not a header.
ExpectsData(c) == pc \in {"data", "text"} /\ Conn = c

\* Server and peer agree where packets begin: the next item to read is data
\* exactly when the server is about to read data, and every later item is data
\* exactly when the header before it announces some.  No branch of
\* parse_header may leave the data of its packet behind, inside long headers
\* or out: only a short read, a failed append_buffer or an overrun does, and
\* only on its own connection.
InSync ==
  \A c \in Conns : ~astray[c] =>
    \A k \in 1..Len(inbox[c]) :
      inbox[c][k] = Data <=>
        IF k = 1 THEN ExpectsData(c)
        ELSE inbox[c][k-1] # Data /\ HasData(inbox[c][k-1])

\* process_request has a case for a client that is marked as closed, but "this
\* shouldn't need to happen" (chopconn.c:171): whichever read, write or handler
\* sets a flag to CANCEL, the loop removes the client in the same pass, and no
\* later tenant of the slot inherits the flag.  (Only without long headers:
\* inside one the answer to the next packet clears out_flag, and the client is
\* served again.)
ClosedNotServed ==
  pc = "header" => inc_flag[index] # CANCEL /\ out_flag[index] # CANCEL

\* ChopServer implements ChopServing: connections are accepted in order, at
\* most MAX_CONNECTIONS at once, refused only when the slots are taken (or
\* memory is), and the server closes the connection of a client only after an
\* escape, after its peer closed it, or once it has lost track of its packets
\* and may take any bytes for an escape: no other error in process_request does.
Serving == INSTANCE ChopServing WITH
  Seats    <- MAX_CONNECTIONS,
  QueueLen <- CONNECT_QUEUE,
  Overload <- MallocMayFail,
  status   <- CASE pc = "setup" -> "starting"
                [] pc \in {"exited", "killed"} -> "down"
                [] OTHER -> "serving",
  waiting  <- backlog,
  served   <- {c \in Conns : Served(c)},
  leaving  <- {c \in Conns : peer[c] \in HungUp \/ (peer[c] = "open" /\ (bye[c] \/ astray[c]))},
  done     <- {c \in Conns : peer[c] \in {"refused", "gone"}}

ImplementsServing == Serving!Spec

Down == pc \in {"exited", "killed"}

\* A client whose peer has hung up loses its slot, and a connection that waits
\* is accepted or refused, unless the server ends first.  This rests on the
\* peers: the server waits in a blocking read for data that was announced, and
\* FairSpec has them write it.
HangUpSeen == \A c \in Conns :
  Served(c) /\ peer[c] \in HungUp ~> peer[c] = "gone" \/ Down
NobodyForgotten == \A c \in Conns :
  Waiting(c) ~> Served(c) \/ peer[c] \in {"refused", "gone"} \/ Down

\* An escape is obeyed: the client that sent one loses its slot.
EscapeObeyed == \A c \in Conns :
  Served(c) /\ bye[c] ~> peer[c] = "gone" \/ Down

\* What chopserver.c says of SIGINT (lines 53-54, 86-88): once it is received
\* the process exits.
SigintStops == sigint_received ~> Down

\* What write_packet says of a write to a closed socket (chopdata.c:153-159):
\* it is reported to the caller, which goes on.
SurvivesPeers == pc # "killed"
=============================================================================
