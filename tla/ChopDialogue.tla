----------------------------- MODULE ChopDialogue -----------------------------
(***************************************************************************)
(* What a session of chopclient with chopserver amounts to, without        *)
(* processes, system calls, channels or flags: the client asks, the server *)
(* serves what was asked in that order, with one answer to each request,   *)
(* and the client hears the answers in that order.  The server knows       *)
(* whether the client is asleep; the client believes what it last heard.   *)
(* ChopSession implements this specification (see Dialogue there).         *)
(***************************************************************************)
EXTENDS ChopPacket, Sequences

CONSTANT Requests \* what the client may ask

VARIABLES
  status,  \* "before", "waiting" for the server, "on", "closing" (nothing more
           \*   is served), or "over"
  todo,    \* requests not served yet
  answers, \* answers not heard yet
  asleep,  \* whether the server has the client down as asleep
  view     \* whether the client believes it is

vars == <<status, todo, answers, asleep, view>>

Init ==
  /\ status = "before"
  /\ todo = <<>> /\ answers = <<>> /\ asleep = FALSE /\ view = FALSE

Open ==
  /\ status = "before"
  /\ status' = "waiting"
  /\ UNCHANGED <<todo, answers, asleep, view>>

Admit ==
  /\ status = "waiting"
  /\ status' = "on"
  /\ UNCHANGED <<todo, answers, asleep, view>>

\* The server has no place for the client.
TurnAway ==
  /\ status = "waiting"
  /\ status' = "closing" /\ todo' = <<>>
  /\ UNCHANGED <<answers, asleep, view>>

Ask ==
  /\ status \in {"waiting", "on"}
  /\ \E r \in Requests : todo' = Append(todo, r)
  /\ UNCHANGED <<status, answers, asleep, view>>

\* The answer depends on the request and on whether the client is asleep.
AnswerTo(r) == Answer(r, IF asleep THEN IDLE ELSE NULL_BYTE)

Serve ==
  /\ status = "on" /\ todo # <<>>
  /\ \E a \in AnswerTo(Head(todo)) : answers' = Append(answers, a)
  /\ IF Head(todo).status = ESCAPE
     THEN status' = "closing" /\ todo' = <<>> /\ asleep' = FALSE
     ELSE /\ todo' = Tail(todo)
          /\ asleep' = CASE Head(todo).status = IDLE   -> TRUE
                         [] Head(todo).status = WAKEUP -> FALSE
                         [] OTHER -> asleep
          /\ UNCHANGED status
  /\ UNCHANGED view

\* What the client believes after it has heard a, and v before.
Told(a, v) ==
  IF a = Acknowledge(IDLE) THEN TRUE
  ELSE IF a \in {Acknowledge(WAKEUP), Acknowledge(ESCAPE)} THEN FALSE
  ELSE v

Hear ==
  /\ answers # <<>> /\ Head(answers) # Acknowledge(ESCAPE)
  /\ answers' = Tail(answers)
  /\ view' = Told(Head(answers), view)
  /\ UNCHANGED <<status, todo, asleep>>

\* The escape is confirmed, or the connection or a process fails.
End ==
  /\ status' = "over"
  /\ todo' = <<>> /\ answers' = <<>> /\ asleep' = FALSE /\ view' = FALSE

Next == Open \/ Admit \/ TurnAway \/ Ask \/ Serve \/ Hear \/ End

Spec == Init /\ [][Next]_vars
-----------------------------------------------------------------------------
\* The answers that tell the client whether it is asleep.
Telling == {k \in 1..Len(answers) :
              answers[k] \in {Acknowledge(IDLE), Acknowledge(WAKEUP),
                              Acknowledge(ESCAPE)}}

\* Once the client has heard what is under way to it, it believes what the
\* server knows: the last of the answers that tell says so, or, if there is
\* none, the client believes it now.
Accord ==
  status \in {"on", "closing"} =>
    IF Telling = {} THEN view = asleep
    ELSE \E k \in Telling :
           /\ \A j \in Telling : j <= k
           /\ asleep = (answers[k] = Acknowledge(IDLE))
=============================================================================
