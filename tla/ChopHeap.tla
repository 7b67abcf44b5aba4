------------------------------- MODULE ChopHeap -------------------------------
(***************************************************************************)
(* What the two programs have on the heap: the structs of server, clients, *)
(* packets and buffers, from malloc to free, with calls that fail on the   *)
(* way.  An object is a number, and a pointer is such a number or NULL; a  *)
(* new object takes the lowest number that is free, so that freed memory   *)
(* is used again at once.                                                  *)
(*                                                                         *)
(* What packets say is left out (see ChopEndpoint): process_request reads  *)
(* any number of buffers and writes any number of answers, as the handler  *)
(* of a long header does.  After a failure it may go on, as that handler    *)
(* does, and an error may be returned to main or not.                      *)
(***************************************************************************)
EXTENDS Integers, Sequences, FiniteSets

CONSTANTS
  Programs,        \* of "chopserver" and "chopclient"
  MAX_CONNECTIONS, \* number of slots for clients
  MaxBuffers,      \* bound: buffers of data read in one process_request
  MaxFaults        \* bound: calls that fail

ASSUME HeapAssumption ==
  /\ Programs \subseteq {"chopserver", "chopclient"}
  /\ MAX_CONNECTIONS \in Nat \ {0}
  /\ MaxBuffers \in Nat /\ MaxFaults \in Nat

Slots == 0..MAX_CONNECTIONS - 1
NULL  == 0

VARIABLES
  program,
  pc,       \* where main, or the function it calls, is
  heap,     \* kernel: the objects allocated
  host,     \* struct server, and its array of clients
  array,
  clients,  \* per slot: a struct client; chopclient's server_connection is in 0
  newcli,   \* accept_new_client: the struct not yet in a slot
  current,  \* the slot main is looking at
  pack,     \* process_request: its struct packet
  data,     \*   and the buffers of it: pairs of struct buffer and its memory
  out,      \* the write functions: their struct packet
  segment,  \*   and its buffers: one pair at most
  faults    \* history: how often malloc, accept and write have failed

ptrVars == <<host, array, clients, newcli>>
packVars == <<pack, data>>
outVars  == <<out, segment>>
vars == <<program, pc, heap, ptrVars, current, packVars, outVars, faults>>

FaultKinds == {"malloc", "accept", "write"}
Fault(kind) ==
  /\ faults.malloc + faults.accept + faults.write < MaxFaults
  /\ faults' = [faults EXCEPT ![kind] = @ + 1]

\* What malloc returns when the objects in h are allocated.
Fresh(h) == CHOOSE i \in 1..Cardinality(h) + 1 : i \notin h /\ 1..i - 1 \subseteq h

\* The objects of a list of buffers.
Buffers(list) == UNION {{list[i][1], list[i][2]} : i \in 1..Len(list)}

\* A new struct buffer and its memory.
NewBuffer == LET a == Fresh(heap) IN <<a, Fresh(heap \cup {a})>>

Init ==
  /\ program \in Programs /\ pc = "start"
  /\ heap = {}
  /\ host = NULL /\ array = NULL /\ clients = [i \in Slots |-> NULL]
  /\ newcli = NULL /\ current = 0
  /\ pack = NULL /\ data = <<>> /\ out = NULL /\ segment = <<>>
  /\ faults = [k \in FaultKinds |-> 0]

-----------------------------------------------------------------------------
(* The start of either program. *)

init_server_struct ==
  /\ pc = "start" /\ program = "chopserver"
  /\ host' = Fresh(heap) /\ array' = Fresh(heap \cup {host'})
  /\ heap' = heap \cup {host', array'}
  /\ pc' = "setup"
  /\ UNCHANGED <<program, clients, newcli, current, packVars, outVars, faults>>

establish_server_connection ==
  /\ pc = "start" /\ program = "chopclient"
  /\ clients' = [clients EXCEPT ![0] = Fresh(heap)]
  /\ heap' = heap \cup {Fresh(heap)}
  /\ pc' = "setup"
  /\ UNCHANGED <<program, host, array, newcli, current, packVars, outVars, faults>>

\* No memory: what was allocated has been freed, and main exits.
StartFails ==
  /\ pc = "start" /\ Fault("malloc")
  /\ pc' = "exited"
  /\ UNCHANGED <<program, heap, ptrVars, current, packVars, outVars>>

\* The socket is set up, or connected; or not, and main exits.
SetupSocket ==
  /\ pc = "setup"
  /\ pc' \in {"select", "exited"}
  /\ UNCHANGED <<program, heap, ptrVars, current, packVars, outVars, faults>>

\* SIGINT, an error of select, or the end of stdin.
Exit ==
  /\ pc = "select"
  /\ pc' = "exited"
  /\ UNCHANGED <<program, heap, ptrVars, current, packVars, outVars, faults>>

-----------------------------------------------------------------------------
(* accept_new_client. *)

InitClient ==
  /\ pc = "select" /\ program = "chopserver"
  /\ newcli' = Fresh(heap) /\ heap' = heap \cup {newcli'}
  /\ pc' = "accept"
  /\ UNCHANGED <<program, host, array, clients, current, packVars, outVars, faults>>

\* The connection is refused.
InitClientFails ==
  /\ pc = "select" /\ program = "chopserver" /\ Fault("malloc")
  /\ UNCHANGED <<program, pc, heap, ptrVars, current, packVars, outVars>>

\* accept fails, and nobody keeps the pointer to the new struct.
AcceptFails ==
  /\ pc = "accept" /\ Fault("accept")
  /\ newcli' = NULL /\ pc' = "select"
  /\ UNCHANGED <<program, heap, host, array, clients, current, packVars, outVars>>

Empty(i) == clients[i] = NULL

AcceptClient ==
  /\ pc = "accept"
  /\ \E i \in Slots :
       /\ Empty(i) /\ \A j \in 0..i - 1 : ~Empty(j)
       /\ clients' = [clients EXCEPT ![i] = newcli]
  /\ newcli' = NULL /\ pc' = "select"
  /\ UNCHANGED <<program, heap, host, array, current, packVars, outVars, faults>>

\* A mutant: a client without a slot is only closed.
AcceptFullForgets ==
  /\ pc = "accept" /\ \A i \in Slots : ~Empty(i)
  /\ newcli' = NULL /\ pc' = "select"
  /\ UNCHANGED <<program, heap, host, array, clients, current, packVars, outVars, faults>>

\* There is no slot: destroy_client_struct takes the new struct back.
AcceptFull ==
  /\ pc = "accept" /\ \A i \in Slots : ~Empty(i)
  /\ heap' = heap \ {newcli}
  /\ newcli' = NULL /\ pc' = "select"
  /\ UNCHANGED <<program, host, array, clients, current, packVars, outVars, faults>>

-----------------------------------------------------------------------------
(* process_request. *)

InitPacket ==
  /\ pc = "select"
  /\ \E i \in Slots : ~Empty(i) /\ current' = i
  /\ pack' = Fresh(heap) /\ heap' = heap \cup {pack'}
  /\ pc' = "handling"
  /\ UNCHANGED <<program, ptrVars, data, outVars, faults>>

InitPacketFails ==
  /\ pc = "select" /\ Fault("malloc")
  /\ \E i \in Slots : ~Empty(i) /\ current' = i
  /\ pc' = "returned"
  /\ UNCHANGED <<program, heap, ptrVars, packVars, outVars>>

\* read_data and read_long_text append a buffer to the packet.
append_buffer ==
  /\ pc = "handling" /\ Len(data) < MaxBuffers
  /\ data' = Append(data, NewBuffer)
  /\ heap' = heap \cup Buffers(data')
  /\ UNCHANGED <<program, pc, ptrVars, current, pack, outVars, faults>>

\* One of its two mallocs fails: if it is the second, the first is undone.  The
\* packet of the peer is given up, but the loop of parse_long_header returns no
\* error, so that a loop around it reads the next header and goes on.
AppendBufferFails ==
  /\ pc = "handling" /\ Fault("malloc")
  /\ UNCHANGED <<program, pc, heap, ptrVars, current, packVars, outVars>>

\* What destroy_packet_struct frees.
Freed(p, list) == {p} \cup Buffers(list)

\* The request has been handled, or given up.
DestroyPacket ==
  /\ pc = "handling"
  /\ heap' = heap \ Freed(pack, data)
  /\ pack' = NULL /\ data' = <<>>
  /\ pc' = "returned"
  /\ UNCHANGED <<program, ptrVars, current, outVars, faults>>

-----------------------------------------------------------------------------
(* write_dataless, write_wordpack and write_datapack, called by a handler or, *)
(* for a command, by chopclient's main.                                       *)

MayWrite == pc = "handling" \/ (pc = "select" /\ program = "chopclient")

\* Where a write goes that fails: to the handler, after which DestroyPacket or,
\* in a long header within another, the next packet follows; or to main, if it
\* was a command.
GivesUp == IF pack = NULL THEN "failed" ELSE "handling"

InitOut ==
  /\ MayWrite
  /\ out' = Fresh(heap) /\ heap' = heap \cup {out'}
  /\ pc' \in {"write", "segment"}
  /\ UNCHANGED <<program, ptrVars, current, packVars, segment, faults>>

InitOutFails ==
  /\ MayWrite /\ Fault("malloc")
  /\ pc' = GivesUp
  /\ UNCHANGED <<program, heap, ptrVars, current, packVars, outVars>>

\* The packet gets its one buffer of data.
AppendSegment ==
  /\ pc = "segment"
  /\ segment' = <<NewBuffer>> /\ heap' = heap \cup Buffers(segment')
  /\ pc' = "write"
  /\ UNCHANGED <<program, ptrVars, current, packVars, out, faults>>

\* The write function returns, and its packet with it.
AppendSegmentFails ==
  /\ pc = "segment" /\ Fault("malloc")
  /\ out' = NULL /\ pc' = GivesUp
  /\ UNCHANGED <<program, heap, ptrVars, current, packVars, segment>>

WriteFails ==
  /\ pc = "write" /\ Fault("write")
  /\ out' = NULL /\ segment' = <<>> /\ pc' = GivesUp
  /\ UNCHANGED <<program, heap, ptrVars, current, packVars>>

\* write_packet succeeds and the packet is destroyed.
WritePacket ==
  /\ pc = "write"
  /\ heap' = heap \ Freed(out, segment)
  /\ out' = NULL /\ segment' = <<>>
  /\ pc' = IF pack = NULL THEN "select" ELSE "handling"
  /\ UNCHANGED <<program, ptrVars, current, packVars, faults>>

-----------------------------------------------------------------------------
(* main, when process_request or a write has returned. *)

\* The client stays.  chopclient goes on only if there was no error, or
\* parse_long_header did not return it.
Keep ==
  /\ pc = "returned"
  /\ pc' = "select"
  /\ UNCHANGED <<program, heap, ptrVars, current, packVars, outVars, faults>>

\* A mutant: the slot of a destroyed client is not emptied.
remove_client_index_Stale ==
  /\ pc = "returned" /\ program = "chopserver"
  /\ heap' = heap \ {clients[current]}
  /\ pc' = "select"
  /\ UNCHANGED <<program, ptrVars, current, packVars, outVars, faults>>

remove_client_index ==
  /\ pc = "returned" /\ program = "chopserver"
  /\ heap' = heap \ {clients[current]}
  /\ clients' = [clients EXCEPT ![current] = NULL]
  /\ pc' = "select"
  /\ UNCHANGED <<program, host, array, newcli, current, packVars, outVars, faults>>

\* chopclient ends after an error, a failed command or a confirmed escape.
ClientExits ==
  /\ program = "chopclient"
  /\ pc \in {"returned", "failed"}
  /\ pc' = "exited"
  /\ UNCHANGED <<program, heap, ptrVars, current, packVars, outVars, faults>>

-----------------------------------------------------------------------------
Next ==
  \/ init_server_struct \/ establish_server_connection \/ StartFails
  \/ SetupSocket \/ Exit
  \/ InitClient \/ InitClientFails \/ AcceptFails \/ AcceptClient \/ AcceptFull
  \/ InitPacket \/ InitPacketFails
  \/ append_buffer \/ AppendBufferFails \/ DestroyPacket
  \/ InitOut \/ InitOutFails \/ AppendSegment \/ AppendSegmentFails
  \/ WriteFails \/ WritePacket
  \/ Keep \/ remove_client_index \/ ClientExits

Spec == Init /\ [][Next]_vars
-----------------------------------------------------------------------------
(* Properties. *)

\* The pointers the program has: variables, slots, and lists of buffers.
Single == {host, array, newcli, pack, out} \ {NULL}
Held   == {clients[i] : i \in Slots} \ {NULL}
Owned  == Single \cup Held \cup Buffers(data) \cup Buffers(segment)
Count  == Cardinality({v \in 1..5 : <<host, array, newcli, pack, out>>[v] # NULL})
            + Cardinality({i \in Slots : ~Empty(i)})
            + 2 * (Len(data) + Len(segment))

\* No pointer is left to freed memory, where the next malloc would make it an
\* alias, and no object has two owners, which would both free it.
PointersSound == Owned \subseteq heap /\ Cardinality(Owned) = Count

Lost == heap \ Owned

\* Memory is lost by failures only, and each costs at most one packet with its
\* buffer: a failed accept a struct client, a failed write a packet, a failed
\* malloc at most the packet it was for.  And each failed accept and write does
\* lose memory: it is not freed on those paths (chopconn.c:37, choppacket.c:39,
\* 87, 141).
LossIsFailure ==
  /\ Cardinality(Lost) <= faults.accept + faults.malloc + 3 * faults.write
  /\ Cardinality(Lost) >= faults.accept + faults.write
=============================================================================
