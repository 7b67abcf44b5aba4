------------------------------ MODULE ChopSession ------------------------------
(***************************************************************************)
(* One chopclient and chopserver's service of it, composed: the two select *)
(* loops, with the same process_request on both sides, over the two        *)
(* directions of one connection.  Both programs write with blocking calls, *)
(* so a direction that is full stops its writer, and neither program reads *)
(* while it waits to write.                                                *)
(*                                                                         *)
(* Of chopserver there is what concerns this client (the rest is in        *)
(* ChopServer): accept, select, process_request, and the removal of the    *)
(* client.  chopclient is complete: establish_server_connection, the loop  *)
(* over the connection and stdin, and its commands.  As in ChopServer a    *)
(* header and the data of a packet are one item each and are read whole    *)
(* (ChopEndpoint has the reads that are not), and memory suffices.         *)
(***************************************************************************)
EXTENDS ChopPacket, Sequences, FiniteSets, SequencesExt

Sides == {"client", "server"}
Other(s) == IF s = "client" THEN "server" ELSE "client"

CONSTANTS
  Commands, \* the packets chopclient makes of the lines its user types
  Data,     \* the item that stands for the data of a packet
  Room      \* per side: items its kernel holds before the other side's writes block

ASSUME SessionAssumption ==
  /\ Commands \subseteq Packet
  /\ \A p \in Commands :
       p.status \notin {NULL_BYTE, START_HEADER, ACKNOWLEDGE, NEG_ACKNOWLEDGE}
  /\ \A p \in Commands : Known(p) /\ ~IsLongText(p)
  /\ Data \notin Packet
  /\ Room \in [Sides -> Nat \ {0}]

\* Lines that are no commands: the end of stdin, and a line without newline in
\* its first 126 characters.
NoLine   == [line |-> "none"]
EndOfIn  == [line |-> "end"]
Overlong == [line |-> "overlong"]

VARIABLES
  pc,       \* per side: where its thread is
  ready,    \* chopclient: what select reported, of "socket" and "stdin"
  line,     \* what can be read from stdin
  inc_flag, \* per side: its struct client for the other
  out_flag,
  writing,  \* per side: the packet it has to write: none or one
  inbox,    \* per side, kernel: items received and not read
  link      \* per side, kernel: what it knows of the other (see PeerStates in
            \*   ChopServer): "away", "open", "fin", "finw", "rst" or "dead"

vars == <<pc, ready, line, inc_flag, out_flag, writing, inbox, link>>
loopVars == <<ready, line>>
flagVars == <<inc_flag, out_flag>>
kernelVars == <<inbox, link>>

Ended == {"closed", "exited", "killed"}

Readable(s) == inbox[s] # <<>> \/ link[s] \in {"fin", "finw", "rst", "dead"}

Init ==
  /\ pc = [s \in Sides |-> IF s = "client" THEN "start" ELSE "listen"]
  /\ ready = {} /\ line = NoLine
  /\ inc_flag = [s \in Sides |-> NULL_BYTE] /\ out_flag = [s \in Sides |-> NULL_BYTE]
  /\ writing = [s \in Sides |-> {}]
  /\ inbox = [s \in Sides |-> <<>>]
  /\ link = [s \in Sides |-> "away"]

Goto(s, where) == pc' = [pc EXCEPT ![s] = where]

\* The process ends, or closes the connection: what s has not read is lost, and
\* then the other side is told by a reset instead of an orderly end.
Leave(s, how) ==
  /\ Goto(s, how)
  /\ link' = [link EXCEPT ![Other(s)] =
                IF @ # "open" THEN @ ELSE IF inbox[s] = <<>> THEN "fin" ELSE "rst"]
  /\ inbox' = [inbox EXCEPT ![s] = <<>>]
  /\ writing' = [writing EXCEPT ![s] = {}]

-----------------------------------------------------------------------------
(* process_request, on either side. *)

ReadHeader(s) ==
  /\ pc[s] = "header" /\ inbox[s] # <<>>
  /\ LET p == Head(inbox[s])
         reply == Answer(p, inc_flag[s])
     IN /\ p # Data
        /\ writing' = [writing EXCEPT ![s] = reply]
        /\ inc_flag' = [inc_flag EXCEPT ![s] = FlagOnHeader(p, @)]
        /\ out_flag' = [out_flag EXCEPT ![s] = OutOnHeader(p, @)]
        /\ Goto(s, IF DataLen(p) > 0 THEN "data"
                   ELSE IF reply # {} THEN "answer"
                   ELSE IF Known(p) THEN "returned" ELSE "failed")
  /\ inbox' = [inbox EXCEPT ![s] = Tail(@)]
  /\ UNCHANGED <<loopVars, link>>

ReadData(s) ==
  /\ pc[s] = "data" /\ inbox[s] # <<>>
  /\ inbox' = [inbox EXCEPT ![s] = Tail(@)]
  /\ Goto(s, "answer")
  /\ UNCHANGED <<loopVars, flagVars, writing, link>>

\* The end of the connection: the other side is marked as closed.
ReadEnd(s) ==
  /\ pc[s] \in {"header", "data"}
  /\ inbox[s] = <<>> /\ link[s] \in {"fin", "finw", "dead"}
  /\ inc_flag' = [inc_flag EXCEPT ![s] = CANCEL]
  /\ out_flag' = [out_flag EXCEPT ![s] = CANCEL]
  /\ writing' = [writing EXCEPT ![s] = {}]
  /\ Goto(s, "failed")
  /\ UNCHANGED <<loopVars, kernelVars>>

ReadFails(s) ==
  /\ pc[s] \in {"header", "data"}
  /\ inbox[s] = <<>> /\ link[s] = "rst"
  /\ link' = [link EXCEPT ![s] = "dead"]
  /\ writing' = [writing EXCEPT ![s] = {}]
  /\ Goto(s, "failed")
  /\ UNCHANGED <<loopVars, flagVars, inbox>>

-----------------------------------------------------------------------------
(* write_packet, for answers and for commands. *)

Writes == {"answer", "answer_data", "command", "command_data"}
Full(s) == Len(inbox[s]) >= Room[s]

\* A mutant: the write does not wait.
PutAnyway(s, item) ==
  /\ link[s] \in {"open", "fin", "finw"}
  /\ inbox' = IF link[s] = "open"
              THEN [inbox EXCEPT ![Other(s)] = Append(@, item)] ELSE inbox
  /\ link' = [link EXCEPT ![s] = IF @ = "fin" THEN "finw" ELSE @]

\* A write to a connection that is still open waits for room; one to a side
\* that has closed goes nowhere, and is answered by a reset.
Put(s, item) ==
  /\ link[s] \in {"open", "fin", "finw"}
  /\ link[s] = "open" => ~Full(Other(s))
  /\ inbox' = IF link[s] = "open"
              THEN [inbox EXCEPT ![Other(s)] = Append(@, item)] ELSE inbox
  /\ link' = [link EXCEPT ![s] = IF @ = "fin" THEN "finw" ELSE @]

\* The header of a packet with data, which the same call goes on to write.
WriteHeader(s) ==
  /\ pc[s] \in {"answer", "command"}
  /\ \E p \in writing[s] :
       /\ DataLen(p) > 0
       /\ Put(s, p)
       /\ out_flag' = [out_flag EXCEPT ![s] = p.status]
  /\ Goto(s, IF pc[s] = "answer" THEN "answer_data" ELSE "command_data")
  /\ UNCHANGED <<loopVars, inc_flag, writing>>

\* The last write of a packet.  The caller is parse_header, or main for a
\* command.
WriteLast(s) ==
  /\ pc[s] \in Writes
  /\ \E p \in writing[s] :
       /\ pc[s] \in {"answer", "command"} => DataLen(p) = 0
       /\ Put(s, IF DataLen(p) = 0 THEN p ELSE Data)
       /\ out_flag' = [out_flag EXCEPT ![s] =
                         IF MarksClosed(p) THEN CANCEL ELSE NULL_BYTE]
       /\ inc_flag' = [inc_flag EXCEPT ![s] = IF MarksClosed(p) THEN CANCEL ELSE @]
  /\ writing' = [writing EXCEPT ![s] = {}]
  /\ Goto(s, IF pc[s] \in {"answer", "answer_data"} THEN "returned" ELSE "select")
  /\ UNCHANGED loopVars

\* The write reports the reset of the connection.
WriteFails(s) ==
  /\ pc[s] \in Writes /\ link[s] = "rst"
  /\ link' = [link EXCEPT ![s] = "dead"]
  /\ \E p \in writing[s] : out_flag' = [out_flag EXCEPT ![s] = p.status]
  /\ writing' = [writing EXCEPT ![s] = {}]
  /\ Goto(s, "failed")
  /\ UNCHANGED <<loopVars, inc_flag, inbox>>

\* SIGPIPE, which neither program handles.
WriteKills(s) ==
  /\ pc[s] \in Writes /\ link[s] = "dead"
  /\ Leave(s, "killed")
  /\ UNCHANGED <<loopVars, flagVars>>

\* A mutant: the two flags are compared with different things.
is_client_status_out(s, status) == inc_flag[s] = status /\ out_flag[s] = NULL_BYTE

\* Whether both flags of the client say status.
is_client_status(s, status) == inc_flag[s] = status /\ out_flag[s] = status

-----------------------------------------------------------------------------
(* chopserver. *)

\* accept_new_client finds a slot, or closes the connection at once.
Accept ==
  /\ pc["server"] = "listen" /\ link["server"] # "away"
  /\ Goto("server", "select")
  /\ UNCHANGED <<loopVars, flagVars, writing, kernelVars>>

AcceptRefuses ==
  /\ pc["server"] = "listen" /\ link["server"] # "away"
  /\ Leave("server", "closed")
  /\ UNCHANGED <<loopVars, flagVars>>

\* A mutant: the server does not look at a client that sleeps.
ServerSelectAwake ==
  /\ pc["server"] = "select" /\ Readable("server") /\ inc_flag["server"] # IDLE
  /\ Goto("server", "header")
  /\ UNCHANGED <<loopVars, flagVars, writing, kernelVars>>

ServerSelect ==
  /\ pc["server"] = "select" /\ Readable("server")
  /\ Goto("server", "header")
  /\ UNCHANGED <<loopVars, flagVars, writing, kernelVars>>

\* The error of process_request is ignored; a closed client is removed.
ServerReturn ==
  /\ pc["server"] \in {"returned", "failed"}
  /\ IF is_client_status("server", CANCEL)
     THEN Leave("server", "closed")
     ELSE Goto("server", "select") /\ UNCHANGED <<writing, kernelVars>>
  /\ UNCHANGED <<loopVars, flagVars>>

-----------------------------------------------------------------------------
(* chopclient. *)

\* establish_server_connection: the connection waits in the server's queue.
Establish ==
  /\ pc["client"] = "start"
  /\ link' = [s \in Sides |-> "open"]
  /\ Goto("client", "select")
  /\ UNCHANGED <<loopVars, flagVars, writing, inbox>>

EstablishFails ==
  /\ pc["client"] = "start"
  /\ Goto("client", "exited")
  /\ UNCHANGED <<loopVars, flagVars, writing, kernelVars>>

\* A mutant: stdin is read before the connection is.
ClientSelectStdin ==
  /\ pc["client"] = "select"
  /\ ready' = {f \in {"socket", "stdin"} :
                 IF f = "socket" THEN Readable("client") ELSE line # NoLine}
  /\ ready' # {}
  /\ Goto("client", IF "stdin" \in ready' THEN "stdin" ELSE "header")
  /\ UNCHANGED <<line, flagVars, writing, kernelVars>>

\* select on the connection and stdin; the connection is read first.
ClientSelect ==
  /\ pc["client"] = "select"
  /\ ready' = {f \in {"socket", "stdin"} :
                 IF f = "socket" THEN Readable("client") ELSE line # NoLine}
  /\ ready' # {}
  /\ Goto("client", IF "socket" \in ready' THEN "header" ELSE "stdin")
  /\ UNCHANGED <<line, flagVars, writing, kernelVars>>

\* A packet that failed, or a confirmed escape, ends the program; otherwise
\* stdin is read if the same select reported it.  A write of a command that
\* fails ends it too.
ClientReturn ==
  /\ pc["client"] \in {"returned", "failed"}
  /\ IF pc["client"] = "failed" \/ is_client_status("client", CANCEL)
     THEN Leave("client", "exited")
     ELSE /\ Goto("client", IF "stdin" \in ready THEN "stdin" ELSE "select")
          /\ UNCHANGED <<writing, kernelVars>>
  /\ UNCHANGED <<loopVars, flagVars>>

\* One line is read: a command, or the end of the program.
ReadLine ==
  /\ pc["client"] = "stdin"
  /\ IF line \in Commands
     THEN /\ writing' = [writing EXCEPT !["client"] = {line}]
          /\ Goto("client", "command")
          /\ UNCHANGED kernelVars
     ELSE Leave("client", "exited")
  /\ line' = NoLine
  /\ UNCHANGED <<ready, flagVars>>

-----------------------------------------------------------------------------
(* The user, and the network. *)

Type ==
  /\ line = NoLine /\ pc["client"] \notin Ended
  /\ line' \in Commands \cup {EndOfIn, Overlong}
  /\ UNCHANGED <<pc, ready, flagVars, writing, kernelVars>>

\* SIGINT.  chopclient has a handler and a flag for it, but never installs the
\* handler: the process is killed wherever it is.
Interrupt ==
  /\ pc["client"] \notin Ended
  /\ Leave("client", "killed")
  /\ UNCHANGED <<loopVars, flagVars>>

\* The reset that answers a write to a side that has closed.
ResetArrives(s) ==
  /\ link[s] = "finw" /\ pc[s] \notin Ended
  /\ link' = [link EXCEPT ![s] = "dead"]
  /\ UNCHANGED <<pc, loopVars, flagVars, writing, inbox>>

-----------------------------------------------------------------------------
Thread(s) ==
  ReadHeader(s) \/ ReadData(s) \/ ReadEnd(s) \/ ReadFails(s)
    \/ WriteHeader(s) \/ WriteLast(s) \/ WriteFails(s) \/ WriteKills(s)

Server == Thread("server") \/ Accept \/ ServerSelect \/ ServerReturn
Client ==
  Thread("client") \/ Establish \/ ClientSelect \/ ClientReturn \/ ReadLine

Next ==
  \/ Server \/ AcceptRefuses
  \/ Client \/ EstablishFails
  \/ Type \/ Interrupt
  \/ \E s \in Sides : ResetArrives(s)

Spec == Init /\ [][Next]_vars

\* Both processes are scheduled.  Nothing is assumed of the user.
FairSpec == Spec /\ WF_vars(Server) /\ WF_vars(Client)
-----------------------------------------------------------------------------
(* Properties. *)

PC == {"start", "listen", "select", "header", "data", "answer", "answer_data",
       "returned", "failed", "stdin", "command", "command_data"} \cup Ended

\* Every variable has its type, and no kernel holds more than it has room for.
TypeOK ==
  /\ pc \in [Sides -> PC]
  /\ ready \subseteq {"socket", "stdin"}
  /\ line \in Commands \cup {NoLine, EndOfIn, Overlong}
  /\ inc_flag \in [Sides -> Byte] /\ out_flag \in [Sides -> Byte]
  /\ writing \in [Sides -> SUBSET Packet]
  /\ inbox \in [Sides -> Seq(Packet \cup {Data})]
  /\ \A s \in Sides : Len(inbox[s]) <= Room[s]
  /\ link \in [Sides -> {"away", "open", "fin", "finw", "rst", "dead"}]

\* Neither program ever gives up on a packet of the other's: what it reads as a
\* header is one, with a status and control1 its handlers know, whatever was
\* typed and however requests and answers cross.  An error of process_request
\* means that the other side is gone.
Understood ==
  \A s \in Sides :
    /\ pc[s] = "failed" => link[s] # "open"
    /\ pc[s] = "header" /\ inbox[s] # <<>> => Head(inbox[s]) # Data
    /\ pc[s] = "data" /\ inbox[s] # <<>> => Head(inbox[s]) = Data

\* What is under way: the requests not read yet, the one being served, and the
\* answers not read yet.  Only an acknowledgement, which the client makes of an
\* answer that is a request, asks for nothing.
Asked(q)    == Cardinality({k \in 1..Len(q) : q[k] \in Packet /\ q[k].status # ACKNOWLEDGE})
Serving(at) == IF at \in {"data", "answer"} THEN 1 ELSE 0
Unread(q)   == Cardinality({k \in 1..Len(q) : q[k] \in Packet})
Load == Asked(inbox["server"]) + Serving(pc["server"]) + Unread(inbox["client"])

\* However fast commands are typed, the answers do not pile up: chopclient reads
\* the connection before stdin, so it sends a request only when it has found
\* nothing to read or has just read an answer, and what the server's kernel can
\* hold bounds what is under way.
BacklogBounded == Load <= Room["server"] + 2

\* A side that waits for room to write.
Stuck(s) == pc[s] \in Writes /\ link[s] = "open" /\ Full(Other(s))

\* Both programs write before they read, and each waits for the other: enough
\* requests with long answers, typed ahead, fill both directions.
Standstill == \A s \in Sides : Stuck(s)

\* ChopSession implements ChopDialogue: every request is answered once, in
\* order, in the state the requests before it have led to.
Closing ==
  \/ pc["server"] \in Ended
  \/ writing["server"] = {Acknowledge(ESCAPE)}
  \/ inc_flag["server"] = CANCEL
Over == pc["client"] \in Ended \/ inc_flag["client"] = CANCEL
Status ==
  IF pc["client"] = "start" THEN "before"
  ELSE IF Over THEN "over"
  ELSE IF Closing THEN "closing"
  ELSE IF pc["server"] = "listen" THEN "waiting" ELSE "on"

\* The items of q that are in X, in their order.
Selected(q, X) ==
  FlattenSeq([k \in 1..Len(q) |-> IF q[k] \in X THEN <<q[k]>> ELSE <<>>])
Requested == Selected(inbox["server"], Commands)
Sent      == Selected(inbox["client"], Packet)
Decided   == IF pc["server"] \in {"data", "answer"}
             THEN <<CHOOSE a \in writing["server"] : TRUE>> ELSE <<>>

Todo    == IF Over \/ Closing THEN <<>> ELSE Requested
Answers == IF Over THEN <<>> ELSE Sent \o Decided
Asleep  == ~Over /\ ~Closing /\ inc_flag["server"] = IDLE
View    == ~Over /\ inc_flag["client"] = IDLE

Dialogue == INSTANCE ChopDialogue WITH
  Requests <- Commands, status <- Status, todo <- Todo,
  answers <- Answers, asleep <- Asleep, view <- View

ImplementsDialogue == Dialogue!Spec

\* The two inc_flags, which change at different times, agree once the client
\* has read the answers under way.
FlagsAgree == Dialogue!Accord

\* After "exit" both ends let go of the connection, whatever else is typed,
\* unless what was typed before it leads to a standstill.
ExitEnds ==
  (\E k \in 1..Len(inbox["server"]) :
     inbox["server"][k] # Data /\ inbox["server"][k].status = ESCAPE)
  ~> (\A s \in Sides : pc[s] \in Ended) \/ Standstill

\* A write waits for ever only when both sides do: whatever the other side is
\* doing, asleep or not, it goes on to read, to end, or to fill this side too.
WritesEnd == \A s \in Sides : pc[s] \in Writes ~> pc[s] \notin Writes \/ Standstill
=============================================================================
