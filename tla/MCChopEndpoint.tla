---------------------------- MODULE MCChopEndpoint ----------------------------
(***************************************************************************)
(* Values for model checking ChopEndpoint: messages with bodies of up to   *)
(* four bytes, some of which are status bytes, so that a reader that is    *)
(* out of step takes them for packets.                                     *)
(***************************************************************************)
EXTENDS ChopEndpoint

Message3(status, control1, control2, body) ==
  [header |-> assemble_header(status, control1, control2), body |-> body]
Bare(status, control1) == Message3(status, control1, 0, <<>>)

Text     == Message3(START_TEXT, 1, 3, <<65, WAKEUP, 66>>)
Words    == Message3(START_TEXT, 2, 2, <<65, WAKEUP, 66, IDLE>>)
Line     == Message3(START_TEXT, 1, 3, <<65, NULL_BYTE, 66>>)
Empty    == Message3(START_TEXT, 2, 0, <<>>)
LongText == Message3(START_TEXT, 0, 0, <<65, 66, END_TEXT>>)
Time     == Message3(ENQUIRY, ENQUIRY_TIME, 2, <<IDLE, 9>>)
NoTime   == Message3(ENQUIRY, ENQUIRY_TIME, 0, <<>>)
Ping     == Bare(ENQUIRY, ENQUIRY_NORMAL)
Sleep    == Bare(IDLE, 0)
Exit     == Bare(ESCAPE, 0)
ExitOk   == Bare(ACKNOWLEDGE, ESCAPE)
BadAck   == Bare(ACKNOWLEDGE, 99)
Long(n)  == Bare(START_HEADER, n)

\* Everything but long headers (of which a server that is out of step reads some,
\* as control1 of a text is 1); and a few packets to put inside long headers.
Flat   == {Words, Line, Empty, LongText, Time, Exit, ExitOk, BadAck}
Nested == {Long(1), Long(2), Text, LongText, NoTime, Exit}
\* The packets whose length their header tells.
Sized  == {Text, Empty, Time, NoTime, Sleep, Exit}
Sleepy == {Sleep, Ping}
=============================================================================
