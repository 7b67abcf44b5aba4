---------------------------- MODULE MCChopSession ----------------------------
(***************************************************************************)
(* Values for model checking ChopSession: the packets of the commands of   *)
(* chopclient.                                                             *)
(***************************************************************************)
EXTENDS ChopSession, TLC

Exit    == assemble_header(ESCAPE, 0, 0)
Ping    == assemble_header(ENQUIRY, ENQUIRY_NORMAL, 0)
PingTime == assemble_header(ENQUIRY, ENQUIRY_TIME, TIME_LEN)
PingRet == assemble_header(ENQUIRY, ENQUIRY_RETURN, 0)
TimeRet == assemble_header(ENQUIRY, ENQUIRY_RTIME, 0)
Sleep   == assemble_header(IDLE, 0, 0)
Wake    == assemble_header(WAKEUP, 0, 0)
Text    == assemble_header(START_TEXT, 1, 127)

\* One command of each kind: the end, an answer that is answered in turn, an
\* answer with data, the changes of inc_flag, data to write.
AllCommands == {Exit, Ping, PingRet, PingTime, TimeRet, Sleep, Wake, Text}

\* The smallest rooms with which answers could pile up: an answer is shorter than
\* a text, so a kernel holds more of them.  Both directions can fill at once.
Room21 == "client" :> 2 @@ "server" :> 1
==============================================================================
