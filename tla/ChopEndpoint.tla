----------------------------- MODULE ChopEndpoint -----------------------------
(***************************************************************************)
(* process_request on one connection, byte by byte: what ChopServer takes  *)
(* for granted.  The peer writes a sequence of messages; TCP delivers the  *)
(* bytes in pieces of any size, and a read returns at most what has come.  *)
(* Here are the reads that come up short, the data that is read in pieces  *)
(* of the client's window, the text that ends at END_TEXT, and the long    *)
(* header, whose handler reads and handles further packets with the same   *)
(* struct packet.                                                          *)
(*                                                                         *)
(* The steps are those of the thread that calls process_request, each one  *)
(* up to the next read or write.  Both programs call it: chopserver goes   *)
(* on after an error, chopclient exits.                                    *)
(***************************************************************************)
EXTENDS ChopPacket, Sequences, FiniteSetsExt, SequencesExt

CONSTANTS
  Messages,    \* what the peer may send: [header, body] records
  MaxMessages, \* bound: number of messages the peer sends
  Window,      \* struct client: bytes per buffer of data
  Cuts,        \* where the network may cut the stream: "anywhere", or only
               \* between two writes of the peer: "writes"
  Callers,     \* the programs: of "chopserver" and "chopclient"
  MayFail      \* whether a malloc for data or an answer, or a write, may fail

HEADER_LEN == 4

\* The data of a message: as long as its header says, or up to END_TEXT.
BodyFits(m) ==
  IF IsLongText(m.header)
  THEN /\ Len(m.body) > 0
       /\ \A i \in 1..Len(m.body) : m.body[i] = END_TEXT <=> i = Len(m.body)
  ELSE Len(m.body) = DataLen(m.header)

ASSUME EndpointAssumption ==
  /\ \A m \in Messages :
       m.header \in Packet /\ m.body \in Seq(Byte) /\ BodyFits(m)
  /\ MaxMessages \in Nat \ {0}
  /\ Window \in Nat \ {0}
  /\ Cuts \in {"anywhere", "writes"}
  /\ Callers \subseteq {"chopserver", "chopclient"}
  /\ MayFail \in BOOLEAN

VARIABLES
  caller,   \* the program this is
  sent,     \* the messages the peer writes
  arrived,  \* how many bytes of them have arrived
  link,     \* the connection: "open", "fin" after a hang-up, "rst" after a reset
  taken,    \* how many bytes have been read
  pc,       \* where the thread is
  nest,     \* packets left to read in each parse_long_header that is running
  pack,     \* struct packet: the header read last
  data,     \*   the contents of its buffers, as far as inbuf says
  first,    \*   what was read into the memory of the first of them
  need,     \* read_data: bytes remaining
  answer,   \* packets still to be written: none or one
  inc_flag, \* struct client
  out_flag,
  ret,      \* whether process_request returns 0
  at,       \* history: where the header read last began in the stream
  printed,  \*   what was printed of its data
  lost,     \*   how a packet was left unread or overrun: "error" if a call came
            \*   up short or failed, "text" if a text ended inside a buffer
  escaped   \*   an escape has been acknowledged

sentVars   == <<caller, sent, arrived, link>>
packVars   == <<pack, data, first, need, answer>>
flagVars   == <<inc_flag, out_flag>>
callVars   == <<pc, nest, ret>>
vars == <<sentVars, taken, callVars, packVars, flagVars, at, printed, lost,
          escaped>>

-----------------------------------------------------------------------------
(* The stream. *)

HeaderBytes(p) == <<0, p.status, p.control1, p.control2>>
HeaderOf(b) == assemble_header(b[2], b[3], b[4])

Bytes(ms) == FlattenSeq([i \in 1..Len(ms) |-> HeaderBytes(ms[i].header) \o ms[i].body])
Stream == Bytes(sent)

\* Where message i begins; where the messages begin; where a write ends.
Start(i) == Len(Bytes(SubSeq(sent, 1, i - 1)))
Starts   == {Start(i) : i \in 1..Len(sent)}
WriteEnds == {Start(i) + HEADER_LEN : i \in 1..Len(sent)}
               \cup Starts \cup {Len(Stream)}

Available == arrived - taken
Piece(n)  == SubSeq(Stream, taken + 1, taken + n)

\* What read_data asks the kernel for.
Expected == IF need < Window THEN need ELSE Window

Init ==
  /\ caller \in Callers
  /\ sent \in UNION {[1..n -> Messages] : n \in 1..MaxMessages}
  /\ arrived = 0 /\ link = "open" /\ taken = 0
  /\ pc = "select" /\ nest = <<>> /\ ret = TRUE
  /\ pack = assemble_header(NULL_BYTE, 0, 0) /\ data = <<>> /\ first = <<>>
  /\ need = 0 /\ answer = {}
  /\ inc_flag = NULL_BYTE /\ out_flag = NULL_BYTE
  /\ at = 0 /\ printed = {} /\ lost = {} /\ escaped = FALSE

-----------------------------------------------------------------------------
(* Returning from the handler of a packet. *)

\* A mutant: the count of packets is not looked at before the next is read.
OpenAll(s) == s

\* The loops of parse_long_header on the stack s that have packets to read.
Open(s) == SubSeq(s, 1, Max({i \in DOMAIN s : s[i] > 0} \cup {0}))

\* A handler returns to the loops of parse_long_header on the stack s, which
\* read the next packet, or end because ok is FALSE or their packets are
\* read.  parse_long_header itself returns 0 in any case.
Return(ok, s) ==
  LET left == Open(IF ok \/ s = <<>> THEN s ELSE Front(s))
  IN IF left = <<>>
     THEN /\ pc' = "done" /\ nest' = <<>> /\ ret' = (ok \/ s # <<>>)
     ELSE /\ pc' = "header" /\ nest' = [left EXCEPT ![Len(left)] = @ - 1]
          /\ UNCHANGED ret

\* Where the symbol is in a buffer (the code returns the first place).
buf_contains_symbol(buf, symbol) == {i \in DOMAIN buf : buf[i] = symbol}

\* What "%.*s" prints of a buffer: it stops at the first NUL.
CString(b) == SubSeq(b, 1, Min(buf_contains_symbol(b, NULL_BYTE) \cup {Len(b) + 1}) - 1)
CStrings(bufs) == FlattenSeq([i \in 1..Len(bufs) |-> CString(bufs[i])])

\* A byte of the memory of a buffer into which nothing was read: whatever malloc
\* left there.
Stale == -1

\* A mutant: only the first buffer of a text is printed.
PrintedFirst(p, bufs, mem) ==
  IF p.status = START_TEXT /\ bufs # <<>> THEN {CString(bufs[1])} ELSE {}

\* What print_text and print_time print: every buffer as a string, or the time
\* that lies in the memory of the first buffer, however much was read into it.
Printed(p, bufs, mem) ==
  CASE p.status = START_TEXT -> {CStrings(bufs)}
    [] p.status = ENQUIRY /\ p.control1 = ENQUIRY_TIME /\ bufs # <<>> ->
         {[k \in 1..TIME_LEN |-> IF k <= Len(mem) THEN mem[k] ELSE Stale]}
    [] OTHER -> {}

\* The packet has been dealt with, and parse_header prints it and returns.
Handled(ok, bufs, mem) ==
  /\ printed' = Printed(pack, bufs, mem)
  /\ Return(ok /\ ~PrintFails(pack, bufs # <<>>), nest)
  /\ answer' = {} /\ need' = 0 /\ data' = bufs /\ first' = mem
  /\ UNCHANGED <<pack, at>>

-----------------------------------------------------------------------------
(* process_request, and read_header wherever it is called. *)

\* select reports the connection.
Begin ==
  /\ pc = "select"
  /\ Available > 0 \/ link # "open"
  /\ pc' = "header" /\ data' = <<>> /\ first' = <<>>
  /\ UNCHANGED <<sentVars, taken, nest, ret, pack, need, answer, flagVars, at,
                 printed, lost, escaped>>

\* A whole header is read and dispatched, up to the next read or write.
ReadHeader ==
  /\ pc = "header" /\ Available >= HEADER_LEN
  /\ LET p == HeaderOf(Piece(HEADER_LEN)) IN
     /\ pack' = p
     /\ need' = DataLen(p)
     /\ answer' = Answer(p, inc_flag)
     /\ inc_flag' = FlagOnHeader(p, inc_flag)
     /\ out_flag' = OutOnHeader(p, out_flag)
     /\ IF IsLongHeader(p) THEN Return(TRUE, Append(nest, p.control1))
        ELSE IF answer' = {} /\ ~IsLongText(p) THEN Return(Known(p), nest)
        ELSE /\ pc' = IF IsLongText(p) THEN "text"
                      ELSE IF need' > 0 THEN "data" ELSE "answer"
             /\ UNCHANGED <<nest, ret>>
  /\ at' = taken /\ taken' = taken + HEADER_LEN
  /\ printed' = {}
  /\ UNCHANGED <<sentVars, data, first, lost, escaped>>

\* Part of a header is read: it is dropped, and the call fails.
ReadHeaderShort ==
  /\ pc = "header" /\ Available \in 1..HEADER_LEN - 1
  /\ taken' = arrived /\ lost' = lost \cup {"error"}
  /\ Return(FALSE, nest)
  /\ UNCHANGED <<sentVars, packVars, flagVars, at, printed, escaped>>

\* The peer has hung up: the client is marked as closed.
ReadHeaderEnd ==
  /\ pc = "header" /\ Available = 0 /\ link = "fin"
  /\ inc_flag' = CANCEL /\ out_flag' = CANCEL
  /\ Return(FALSE, nest)
  /\ UNCHANGED <<sentVars, taken, packVars, at, printed, lost, escaped>>

\* The peer was reset: the kernel reports that once.
ReadHeaderFails ==
  /\ pc = "header" /\ Available = 0 /\ link = "rst"
  /\ link' = "fin"
  /\ Return(FALSE, nest)
  /\ UNCHANGED <<caller, sent, arrived, taken, packVars, flagVars, at, printed, lost,
                 escaped>>

-----------------------------------------------------------------------------
(* read_data. *)

\* A mutant: the number of buffers is not rounded up.
LastDataDown == need < 2 * Window
\* This is the last of the buffers the data needs.
LastData == need <= Window

\* The memory of the first buffer, when bytes are read into a new one.
First(bytes) == IF data = <<>> THEN bytes ELSE first

\* One buffer is filled.
ReadData ==
  /\ pc = "data" /\ Available >= Expected
  /\ data' = Append(data, Piece(Expected)) /\ first' = First(Piece(Expected))
  /\ need' = need - Expected /\ taken' = taken + Expected
  /\ pc' = IF LastData THEN "answer" ELSE "data"
  /\ UNCHANGED <<sentVars, nest, ret, pack, answer, flagVars, at, printed,
                 lost, escaped>>

\* Part of it arrives: inbuf stays 0 although there is something in the buffer,
\* and the call fails.
ReadDataShort ==
  /\ pc = "data" /\ Available \in 1..Expected - 1
  /\ taken' = arrived /\ lost' = lost \cup {"error"}
  /\ Handled(FALSE, Append(data, <<>>), First(Piece(Available)))
  /\ UNCHANGED <<sentVars, flagVars, escaped>>

ReadDataEnd ==
  /\ pc = "data" /\ Available = 0 /\ link = "fin"
  /\ inc_flag' = CANCEL /\ out_flag' = CANCEL
  /\ Handled(FALSE, Append(data, <<>>), First(<<>>))
  /\ UNCHANGED <<sentVars, taken, lost, escaped>>

-----------------------------------------------------------------------------
(* read_long_text. *)

\* A window of text is read, or what there is of it.  What follows END_TEXT in
\* the buffer is dropped, and nothing is acknowledged.
ReadText ==
  /\ pc = "text" /\ Available > 0
  /\ LET n     == IF Available < Window THEN Available ELSE Window
         ends  == buf_contains_symbol(Piece(n), END_TEXT)
     IN /\ taken' = taken + n
        /\ IF ends = {}
           THEN /\ data' = Append(data, Piece(n)) /\ first' = First(Piece(n))
                /\ UNCHANGED <<callVars, pack, need, answer, at, printed, lost>>
           ELSE /\ Handled(TRUE, Append(data, Piece(Min(ends) - 1)), First(Piece(n)))
                /\ lost' = IF Min(ends) < n THEN lost \cup {"text"} ELSE lost
  /\ UNCHANGED <<sentVars, flagVars, escaped>>

\* A mutant: the end of the connection is an empty piece like any other.
ReadTextEndWaits ==
  /\ pc = "text" /\ Available = 0 /\ link = "fin"
  /\ UNCHANGED vars

\* The connection ends before the text: its handler is content with that, and
\* the client is not marked as closed.
ReadTextEnd ==
  /\ pc = "text" /\ Available = 0 /\ link = "fin"
  /\ Handled(TRUE, Append(data, <<>>), First(<<>>))
  /\ UNCHANGED <<sentVars, taken, flagVars, lost, escaped>>

\* The error of a reset connection, in either kind of data.
ReadBodyFails ==
  /\ pc \in {"data", "text"} /\ Available = 0 /\ link = "rst"
  /\ link' = "fin"
  /\ Handled(FALSE, Append(data, <<>>), First(<<>>))
  /\ UNCHANGED <<caller, sent, arrived, taken, flagVars, lost, escaped>>

\* append_buffer fails before the read: the data stays in the stream.
AppendFails ==
  /\ MayFail /\ pc \in {"data", "text"}
  /\ Handled(FALSE, data, first)
  /\ lost' = lost \cup {"error"}
  /\ UNCHANGED <<sentVars, taken, flagVars, escaped>>

-----------------------------------------------------------------------------
(* The answer, and the caller of process_request. *)

WriteAnswer ==
  /\ pc = "answer"
  /\ \E a \in answer :
       /\ out_flag' = IF MarksClosed(a) THEN CANCEL ELSE NULL_BYTE
       /\ inc_flag' = IF MarksClosed(a) THEN CANCEL ELSE inc_flag
       /\ escaped' = (escaped \/ a = Acknowledge(ESCAPE))
  /\ Handled(TRUE, data, first)
  /\ UNCHANGED <<sentVars, taken, lost>>

\* There is no memory for the answer, or write_packet fails and leaves the
\* status of the answer in out_flag.
WriteFails ==
  /\ MayFail /\ pc = "answer"
  /\ \E a \in answer : out_flag' \in {out_flag, a.status}
  /\ Handled(FALSE, data, first)
  /\ UNCHANGED <<sentVars, taken, inc_flag, lost, escaped>>

is_client_status(status) == inc_flag = status /\ out_flag = status

\* A mutant: chopclient goes on after an error, as chopserver does.
DoneAnyway ==
  /\ pc = "done"
  /\ pc' = IF is_client_status(CANCEL) THEN "closed" ELSE "select"
  /\ UNCHANGED <<sentVars, taken, nest, ret, packVars, flagVars, at, printed,
                 lost, escaped>>

\* chopclient exits on an error; both end the connection of a closed client.
Done ==
  /\ pc = "done"
  /\ pc' = IF (caller = "chopclient" /\ ~ret) \/ is_client_status(CANCEL)
           THEN "closed" ELSE "select"
  /\ UNCHANGED <<sentVars, taken, nest, ret, packVars, flagVars, at, printed,
                 lost, escaped>>

-----------------------------------------------------------------------------
(* The peer and the network. *)

Arrive ==
  /\ link = "open"
  /\ \E n \in arrived + 1 .. Len(Stream) :
       /\ Cuts = "writes" => n \in WriteEnds
       /\ arrived' = n
  /\ UNCHANGED <<caller, sent, link, taken, callVars, packVars, flagVars, at, printed,
                 lost, escaped>>

\* The peer closes the connection, or is killed, wherever it is.
HangUp ==
  /\ link = "open"
  /\ link' \in {"fin", "rst"}
  /\ UNCHANGED <<caller, sent, arrived, taken, callVars, packVars, flagVars, at,
                 printed, lost, escaped>>

-----------------------------------------------------------------------------
Steps ==
  \/ Begin \/ ReadHeader \/ ReadHeaderShort \/ ReadHeaderEnd \/ ReadHeaderFails
  \/ ReadData \/ ReadDataShort \/ ReadDataEnd
  \/ ReadText \/ ReadTextEnd \/ ReadBodyFails
  \/ WriteAnswer \/ Done

Failures == AppendFails \/ WriteFails

Next == Steps \/ Failures \/ Arrive \/ HangUp

Spec == Init /\ [][Next]_vars

\* The thread is scheduled whenever a call of it can return; nothing is assumed
\* of failures, of the network or of the peer.
FairSpec == Spec /\ WF_vars(Steps)
-----------------------------------------------------------------------------
(* Properties. *)

\* Every variable has its type.
TypeOK ==
  /\ caller \in Callers /\ sent \in Seq(Messages) /\ arrived \in 0..Len(Stream)
  /\ link \in {"open", "fin", "rst"}
  /\ taken \in 0..arrived
  /\ pc \in {"select", "header", "data", "text", "answer", "done", "closed"}
  /\ nest \in Seq(Byte)
  /\ pack \in Packet /\ data \in Seq(Seq(Byte)) /\ first \in Seq(Byte) /\ need \in Nat
  /\ answer \in SUBSET Packet
  /\ inc_flag \in Byte /\ out_flag \in Byte
  /\ ret \in BOOLEAN /\ at \in 0..taken
  /\ printed \in SUBSET Seq(Byte \cup {Stale})
  /\ lost \subseteq {"error", "text"} /\ escaped \in BOOLEAN

ReadsAHeader == pc = "header" /\ Available >= HEADER_LEN

\* As long as every read returned what it was asked for and no text ended
\* inside a buffer, a header is read only where the peer wrote one: each
\* handler takes exactly its packet, in pieces of the window, inside long
\* headers, and when answers fail.
InStep == ReadsAHeader /\ lost = {} => taken \in Starts

\* chopconst.h:12: the second byte of a header "defines what this packet
\* means", so what is read as a header is one the peer wrote, however the stream
\* is cut and whatever fails.
HeadersAreSent == ReadsAHeader => taken \in Starts

\* chopclient exits at the first error (chopclient.c:75), so it keeps to the
\* headers the peer wrote where chopserver does not: no answer is made up from
\* the middle of a packet.
ClientKeepsStep ==
  caller = "chopclient" /\ "text" \notin lost => HeadersAreSent

\* The thread is in step: nothing came up short, failed or ended inside a
\* buffer, or it is chopclient, which exits then.
Kept == lost = {} \/ (caller = "chopclient" /\ "text" \notin lost)

\* The message whose header was read last, the text it carries, and whether that
\* is one string for "%.*s": it lies in one buffer, or has no NUL.
Message == sent[CHOOSE i \in 1..Len(sent) : Start(i) = at]
Carried(m) == IF IsLongText(m.header) THEN Front(m.body) ELSE m.body
OneString(m) ==
  \/ ~IsLongText(m.header) /\ Len(m.body) <= Window
  \/ \A k \in 1..Len(m.body) : m.body[k] # NULL_BYTE

AllRead == taken >= at + HEADER_LEN + Len(Message.body) /\ lost = {}

TextShown(text) ==
  OneString(Message) =>
    /\ IsPrefix(text, CString(Carried(Message)))
    /\ AllRead => text = CString(Carried(Message))

TimeShown(time) ==
  \A k \in 1..TIME_LEN :
    /\ time[k] # Stale => k <= Len(Message.body) /\ time[k] = Message.body[k]
    /\ AllRead /\ k <= Len(Message.body) /\ k <= Window => time[k] # Stale

\* In step, what is printed of a packet (choppacket.c:182, "print incoming
\* text") is the data of that packet, in order, and all of it if all of it was
\* read, however it was cut into reads and buffers.  A text is one up to its
\* first NUL; a text with a NUL and several buffers is left out, as each of its
\* buffers is printed up to a NUL of its own.  Of a time, each of the eight bytes
\* printed is the peer's, or stale if it was not read: after a failed read some
\* are.  (Not so inside a long header, whose packets share their buffers.)
PrintsWhatWasSent ==
  Kept => \A p \in printed : IF pack.status = START_TEXT THEN TextShown(p) ELSE TimeShown(p)

\* choppacket.c:590: after an escape has been acknowledged, parse_escape is
\* "marking this client as closed", so its connection is closed before another
\* request is awaited, if the thread is in step.  (Not so inside a long header:
\* the answer to the next packet of it clears out_flag.  Out of step, any byte
\* may be taken for a long header.)
EscapeCloses == Kept /\ escaped => pc # "select"

\* chopconst.h:40: a sleeper "only accept[s] wakeup or escape as signals" (and
\* it may refuse to sleep again), so no other packet is read on or answered.
SleepersOnlyWake ==
  inc_flag = IDLE /\ pc \in {"data", "text", "answer"} =>
    pack.status \in {WAKEUP, ESCAPE, IDLE}

\* When the peer is gone the thread is done with the connection, whatever it
\* takes the rest of the stream for: no read loop goes on for ever.
HangUpEnds == link # "open" ~> pc = "closed"
=============================================================================
