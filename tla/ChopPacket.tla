------------------------------ MODULE ChopPacket ------------------------------
(***************************************************************************)
(* The packets of chopserver and what the code does with one of them.      *)
(*                                                                         *)
(* A packet on the wire is a header of four bytes (head, status, control1  *)
(* and control2) followed, for some statuses, by data.  The head byte is   *)
(* always 0 and never read, so it is left out.  Server and client handle a *)
(* received packet with the same code, process_request -> read_header ->   *)
(* parse_header, so the operators below are shared by the models of both.  *)
(*                                                                         *)
(* parse_header is cut where it makes a system call: what is read after    *)
(* the header (DataLen), what the flags of struct client become before the *)
(* answer is written (FlagOnHeader), what is written back (Answer), and    *)
(* what the flags become once the answer is out (MarksClosed).             *)
(***************************************************************************)
EXTENDS Integers

Byte == 0..255

\* Status bytes (packet types, and the values of inc_flag and out_flag).
NULL_BYTE       == 0
START_HEADER    == 1
START_TEXT      == 2
END_TEXT        == 3
ENQUIRY         == 5
ACKNOWLEDGE     == 6
WAKEUP          == 7
NEG_ACKNOWLEDGE == 21
IDLE            == 22
CANCEL          == 24
ESCAPE          == 27

\* Values of control1 in an ENQUIRY packet.
ENQUIRY_NORMAL == 0
ENQUIRY_RETURN == 1
ENQUIRY_TIME   == 2
ENQUIRY_RTIME  == 3

\* sizeof(time_t), the width of the data of a time packet.
TIME_LEN == 8

-----------------------------------------------------------------------------
\* struct packet, without its head byte and its list of buffers.
Packet == [status : Byte, control1 : Byte, control2 : Byte]

assemble_header(status, control1, control2) ==
  [status |-> status, control1 |-> control1, control2 |-> control2]

Acknowledge(status) == assemble_header(ACKNOWLEDGE, status, 0)
Refuse(status)      == assemble_header(NEG_ACKNOWLEDGE, status, 0)

\* Text of a length the header does not tell: it ends at an END_TEXT byte.
IsLongText(p) == p.status = START_TEXT /\ p.control1 = 0 /\ p.control2 = 0

\* A packet whose handler reads further packets: parse_long_header.
IsLongHeader(p) == p.status = START_HEADER

\* The number of bytes of data that follow the header of p.
DataLen(p) ==
  CASE p.status = START_TEXT -> p.control1 * p.control2
    [] p.status = ENQUIRY /\ p.control1 = ENQUIRY_TIME -> p.control2
    [] OTHER -> 0

\* Whether data follows the header of p.
HasData(p) == DataLen(p) > 0 \/ IsLongText(p)

\* A mutant: a confirmed wakeup is only printed.
FlagOnHeaderDeaf(p, inc) ==
  CASE p.status = WAKEUP /\ inc = IDLE -> NULL_BYTE
    [] p.status = IDLE /\ inc = NULL_BYTE -> IDLE
    [] p.status = ACKNOWLEDGE /\ p.control1 = IDLE -> IDLE
    [] p.status = ACKNOWLEDGE /\ p.control1 = ESCAPE -> CANCEL
    [] OTHER -> inc

\* The inc_flag of the sender of p once the header of p has been dispatched
\* and before anything is written back.
FlagOnHeader(p, inc) ==
  CASE p.status = WAKEUP /\ inc = IDLE -> NULL_BYTE
    [] p.status = IDLE /\ inc = NULL_BYTE -> IDLE
    [] p.status = ACKNOWLEDGE /\ p.control1 = WAKEUP -> NULL_BYTE
    [] p.status = ACKNOWLEDGE /\ p.control1 = IDLE -> IDLE
    [] p.status = ACKNOWLEDGE /\ p.control1 = ESCAPE -> CANCEL
    [] OTHER -> inc

\* The same for out_flag: only a confirmed escape touches it.
OutOnHeader(p, out) ==
  IF p.status = ACKNOWLEDGE /\ p.control1 = ESCAPE THEN CANCEL ELSE out

\* The set of packets written back when p is received: none or one.  inc is
\* the inc_flag at the time the header of p is read.
Answer(p, inc) ==
  CASE p.status = START_TEXT /\ ~IsLongText(p) -> {Acknowledge(START_TEXT)}
    [] p.status = ENQUIRY /\ p.control1 \in {ENQUIRY_NORMAL, ENQUIRY_TIME} ->
         {Acknowledge(ENQUIRY)}
    [] p.status = ENQUIRY /\ p.control1 = ENQUIRY_RETURN ->
         {assemble_header(ENQUIRY, ENQUIRY_NORMAL, 0)}
    [] p.status = ENQUIRY /\ p.control1 = ENQUIRY_RTIME ->
         {assemble_header(ENQUIRY, ENQUIRY_TIME, TIME_LEN)}
    [] p.status = WAKEUP ->
         {IF inc = IDLE THEN Acknowledge(WAKEUP) ELSE Refuse(WAKEUP)}
    [] p.status = IDLE ->
         {IF inc = NULL_BYTE THEN Acknowledge(IDLE) ELSE Refuse(IDLE)}
    [] p.status = ESCAPE -> {Acknowledge(ESCAPE)}
    [] OTHER -> {}

\* Mutants: nothing marks the client, or every acknowledgement does.
MarksClosedNever(a) == FALSE
MarksClosedAny(a) == a.status = ACKNOWLEDGE

\* Whether writing the answer a was the last thing before parse_escape marks
\* the client as closed.  Only parse_escape acknowledges an ESCAPE.
MarksClosed(a) == a = Acknowledge(ESCAPE)

\* A mutant: parse_acknowledge has no case for a confirmed wakeup.
KnownNoWakeup(p) ==
  CASE p.status = ENQUIRY -> p.control1 \in ENQUIRY_NORMAL..ENQUIRY_RTIME
    [] p.status \in {ACKNOWLEDGE, NEG_ACKNOWLEDGE} ->
         p.control1 \in {START_TEXT, ENQUIRY, IDLE, ESCAPE}
    [] OTHER -> p.status \in {NULL_BYTE, START_HEADER, START_TEXT, WAKEUP,
                              IDLE, ESCAPE}

\* Whether parse_header and the handler of p know its status and control1; if
\* not, parse_header fails after the header.
Known(p) ==
  CASE p.status = ENQUIRY -> p.control1 \in ENQUIRY_NORMAL..ENQUIRY_RTIME
    [] p.status \in {ACKNOWLEDGE, NEG_ACKNOWLEDGE} ->
         p.control1 \in {START_TEXT, ENQUIRY, WAKEUP, IDLE, ESCAPE}
    [] OTHER -> p.status \in {NULL_BYTE, START_HEADER, START_TEXT, WAKEUP,
                              IDLE, ESCAPE}

\* Whether the print function of p fails: print_time wants data, and a time
\* packet of width 0 has none.
PrintFails(p, hasData) ==
  p.status = ENQUIRY /\ p.control1 = ENQUIRY_TIME /\ ~hasData

\* Whether the sender of p asks for the end of the connection, or confirms it.
SaysBye(p) ==
  p.status = ESCAPE \/ (p.status = ACKNOWLEDGE /\ p.control1 = ESCAPE)
=============================================================================
