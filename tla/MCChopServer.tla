------------------------------ MODULE MCChopServer ------------------------------
(***************************************************************************)
(* Values for model checking ChopServer: one packet of each kind that makes *)
(* the server do something of its own.                                      *)
(***************************************************************************)
EXTENDS ChopServer, TLC

\* What chopclient can be made to send, by what it does to the server: data
\* to read, an answer with data, a change of inc_flag, the end.
Text   == assemble_header(START_TEXT, 1, 127)
Time   == assemble_header(ENQUIRY, ENQUIRY_RTIME, 0)
Sleep  == assemble_header(IDLE, 0, 0)
Exit   == assemble_header(ESCAPE, 0, 0)
ExitOk == Acknowledge(ESCAPE)

\* What another client may send besides: packets in a long header, and text of
\* a length it does not tell.
Long     == assemble_header(START_HEADER, 2, 0)
LongText == assemble_header(START_TEXT, 0, 0)

AllPackets  == {Text, Time, Sleep, Exit, ExitOk}
MorePackets == AllPackets \cup {Long, LongText}
\* Packets that are answered in one and in two writes or not at all, and both
\* goodbyes.
LastPackets == {Text, LongText, Time, Exit, ExitOk}
\* What the middle of a packet may be taken for besides: nothing that is known.
AnyBytes == {assemble_header(255, 0, 0)}
None     == {}
TextOnly   == {Text}

\* Standard descriptors: all open, or main started with stdin closed, so that
\* the listening socket gets descriptor 0.
StdOpen  == {{0, 1, 2}}
MayClose == {{0, 1, 2}, {1, 2}}

ConnSymmetry == Permutations(Conns)
=============================================================================
