-------------------------- MODULE ChopDialogueProofs --------------------------
(***************************************************************************)
(* That both ends of a session come to agree on who is asleep, for any     *)
(* requests and any number of them and of answers under way.               *)
(***************************************************************************)
EXTENDS ChopDialogue, ChopPacketProofs

\* The answers that tell the client whether it is asleep.
Tellers == {Acknowledge(IDLE), Acknowledge(WAKEUP), Acknowledge(ESCAPE)}

\* Accord, with the value v for what the server knows.
Agree(v) ==
  IF Telling = {} THEN view = v
  ELSE \E k \in Telling :
         /\ \A j \in Telling : j <= k
         /\ v = (answers[k] = Acknowledge(IDLE))

\* Accord says nothing until the client has been admitted: until then nothing
\* has been answered.
DInv ==
  /\ status \in {"before", "waiting", "on", "closing", "over"}
  /\ answers \in Seq(Packet)
  /\ asleep \in BOOLEAN /\ view \in BOOLEAN
  /\ status \in {"before", "waiting", "over"} =>
       answers = <<>> /\ asleep = FALSE /\ view = FALSE
  /\ Accord

-----------------------------------------------------------------------------
(* What answers tell. *)

\* The answer to r tells the client exactly the changes that r makes.
LEMMA AnswerTells ==
  ASSUME NEW r, NEW a \in AnswerTo(r), asleep \in BOOLEAN
  PROVE  LET after == CASE r.status \in {ESCAPE, WAKEUP} -> FALSE
                        [] r.status = IDLE -> TRUE
                        [] OTHER -> asleep
         IN IF a \in Tellers THEN after = (a = Acknowledge(IDLE))
                             ELSE after = asleep
<1>0. /\ Acknowledge(ESCAPE) \in Tellers /\ Acknowledge(ESCAPE) # Acknowledge(IDLE)
      /\ Acknowledge(WAKEUP) \in Tellers /\ Acknowledge(WAKEUP) # Acknowledge(IDLE)
      /\ Acknowledge(IDLE) \in Tellers
      /\ \A t \in Tellers : t.status = ACKNOWLEDGE /\ t.control1 \in {IDLE, WAKEUP, ESCAPE}
  BY DEF Tellers, Acknowledge, assemble_header, IDLE, WAKEUP, ESCAPE
<1>1. CASE r.status = ESCAPE
  <2>1. a = Acknowledge(ESCAPE)
    BY <1>1 DEF AnswerTo, Answer, START_TEXT, ENQUIRY, WAKEUP, IDLE, ESCAPE
  <2> QED
    BY <1>0, <1>1, <2>1
<1>2. CASE r.status = WAKEUP
  <2>1. a = IF asleep THEN Acknowledge(WAKEUP) ELSE Refuse(WAKEUP)
    <3>1. Answer(r, IDLE) = {Acknowledge(WAKEUP)} /\ Answer(r, NULL_BYTE) = {Refuse(WAKEUP)}
      BY <1>2, StatusesDiffer DEF Answer
    <3>2. AnswerTo(r) = IF asleep THEN Answer(r, IDLE) ELSE Answer(r, NULL_BYTE)
      BY DEF AnswerTo
    <3> QED
      BY <3>1, <3>2
  <2>2. Refuse(WAKEUP) \notin Tellers
    BY <1>0 DEF Refuse, assemble_header, ACKNOWLEDGE, NEG_ACKNOWLEDGE
  <2> QED
    BY <1>0, <1>2, <2>1, <2>2
<1>3. CASE r.status = IDLE
  <2>1. a = IF asleep THEN Refuse(IDLE) ELSE Acknowledge(IDLE)
    <3>1. Answer(r, IDLE) = {Refuse(IDLE)} /\ Answer(r, NULL_BYTE) = {Acknowledge(IDLE)}
      BY <1>3, StatusesDiffer DEF Answer
    <3>2. AnswerTo(r) = IF asleep THEN Answer(r, IDLE) ELSE Answer(r, NULL_BYTE)
      BY DEF AnswerTo
    <3> QED
      BY <3>1, <3>2
  <2>2. Refuse(IDLE) \notin Tellers
    BY <1>0 DEF Refuse, assemble_header, ACKNOWLEDGE, NEG_ACKNOWLEDGE
  <2> QED
    BY <1>0, <1>3, <2>1, <2>2 DEF IDLE, ESCAPE, WAKEUP
<1>4. CASE r.status \notin {ESCAPE, WAKEUP, IDLE}
  <2>1. \/ a.status = ENQUIRY
        \/ a.status = ACKNOWLEDGE /\ a.control1 \in {START_TEXT, ENQUIRY}
    BY <1>4 DEF AnswerTo, Answer, Acknowledge, assemble_header
  <2>2. a \notin Tellers
    BY <1>0, <2>1 DEF START_TEXT, ENQUIRY, ACKNOWLEDGE, IDLE, WAKEUP, ESCAPE
  <2> QED
    BY <1>4, <2>2
<1> QED
  BY <1>1, <1>2, <1>3, <1>4

-----------------------------------------------------------------------------
(* The two ends of the queue of answers. *)

\* An answer is added at the end: it is the last that tells, or nothing changes.
LEMMA AgreeAppend ==
  ASSUME answers \in Seq(Packet), NEW a \in Packet,
         answers' = Append(answers, a), view' = view,
         NEW v \in BOOLEAN, NEW w \in BOOLEAN, Agree(v),
         IF a \in Tellers THEN w = (a = Acknowledge(IDLE)) ELSE w = v
  PROVE  Agree(w)'
<1> DEFINE n == Len(answers)
<1>1. /\ n \in Nat /\ Len(answers') = n + 1 /\ answers'[n + 1] = a
      /\ \A k \in 1..n : answers'[k] = answers[k]
  BY AppendProperties
<1>2. Telling \subseteq 1..n
  BY DEF Telling
<1>3. CASE a \in Tellers
  <2>1. n + 1 \in Telling' /\ \A j \in Telling' : j <= n + 1
    BY <1>1, <1>3 DEF Telling, Tellers
  <2> QED
    BY <1>1, <1>3, <2>1 DEF Agree
<1>4. CASE a \notin Tellers
  <2>1. Telling' = Telling
    BY <1>1, <1>4 DEF Telling, Tellers
  <2>2. w = v
    BY <1>4
  <2> QED
    BY <1>1, <1>2, <2>1, <2>2 DEF Agree
<1> QED
  BY <1>3, <1>4

\* The first answer is heard: if it was the only one that tells, the client
\* believes it now.
LEMMA AgreeTail ==
  ASSUME answers \in Seq(Packet), answers # <<>>,
         answers' = Tail(answers), view' = Told(Head(answers), view),
         NEW v \in BOOLEAN, Agree(v)
  PROVE  Agree(v)'
<1> DEFINE n == Len(answers)
<1>1. /\ n \in Nat \ {0} /\ Len(answers') = n - 1 /\ Head(answers) = answers[1]
      /\ \A k \in 1..n - 1 : answers'[k] = answers[k + 1]
  BY HeadTailProperties
<1>2. Telling \subseteq 1..n
  BY DEF Telling
<1>3. \A k \in 1..n - 1 : k \in Telling' <=> k + 1 \in Telling
  BY <1>1 DEF Telling
<1>4. Telling' \subseteq 1..n - 1
  BY <1>1 DEF Telling
<1>5. CASE Telling = {}
  <2>1. Telling' = {}
    BY <1>1, <1>3, <1>4, <1>5
  <2>2. answers[1] \notin Tellers
    BY <1>1, <1>5 DEF Telling, Tellers
  <2> QED
    BY <1>1, <1>5, <2>1, <2>2 DEF Agree, Told, Tellers
<1>6. CASE Telling # {}
  <2>1. PICK k \in Telling : /\ \A j \in Telling : j <= k
                             /\ v = (answers[k] = Acknowledge(IDLE))
    BY <1>6 DEF Agree
  <2>2. CASE k = 1
    <3>1. Telling' = {}
      BY <1>1, <1>2, <1>3, <1>4, <2>1, <2>2
    <3>2. answers[1] \in Tellers
      BY <2>1, <2>2 DEF Telling, Tellers
    <3>3. view' = v
      BY <1>1, <2>1, <2>2, <3>2
         DEF Told, Tellers, Acknowledge, assemble_header, IDLE, WAKEUP, ESCAPE
    <3> QED
      BY <3>1, <3>3 DEF Agree
  <2>3. CASE k # 1
    <3>1. k - 1 \in Telling' /\ \A j \in Telling' : j <= k - 1
      BY <1>1, <1>2, <1>3, <1>4, <2>1, <2>3
    <3>2. answers'[k - 1] = answers[k]
      BY <1>1, <1>2, <2>1, <2>3
    <3> QED
      BY <2>1, <3>1, <3>2 DEF Agree
  <2> QED
    BY <2>2, <2>3
<1> QED
  BY <1>5, <1>6

-----------------------------------------------------------------------------
(* The invariant. *)

LEMMA DialogueInit == Init => DInv
<1> SUFFICES ASSUME Init PROVE DInv
  OBVIOUS
<1>1. answers = <<>> /\ answers \in Seq(Packet)
  BY EmptySeq DEF Init
<1> QED
  BY <1>1 DEF Init, DInv, Accord

LEMMA DialogueStep == DInv /\ [Next]_vars => DInv'
<1> SUFFICES ASSUME DInv, [Next]_vars PROVE DInv'
  OBVIOUS
<1>0. Accord <=> (status \in {"on", "closing"} => Agree(asleep))
  BY DEF Accord, Agree
<1>a. Accord' <=> (status' \in {"on", "closing"} => Agree(asleep)')
  BY DEF Accord, Agree
<1>1. CASE Open \/ Ask
  <2>1. UNCHANGED <<answers, asleep, view, Telling>>
    BY <1>1 DEF Open, Ask, Telling
  <2> QED
    BY <1>1, <2>1 DEF Open, Ask, DInv, Accord
<1>2. CASE Admit \/ TurnAway
  <2>1. answers' = <<>> /\ asleep' = FALSE /\ view' = FALSE
    BY <1>2 DEF Admit, TurnAway, DInv
  <2>2. Telling' = {}
    BY <2>1 DEF Telling
  <2> QED
    BY <1>2, <2>1, <2>2 DEF Admit, TurnAway, DInv, Accord
<1>3. CASE Serve
  <2>1. PICK a \in AnswerTo(Head(todo)) : answers' = Append(answers, a)
    BY <1>3 DEF Serve
  <2>2. a \in Packet
    BY AnswerIsPackets DEF AnswerTo
  <2>3. answers' \in Seq(Packet)
    BY <2>1, <2>2, AppendProperties DEF DInv
  <2>4. status = "on" /\ view' = view /\ status' \in {"on", "closing"}
    BY <1>3 DEF Serve
  <2>4a. asleep' = CASE Head(todo).status \in {ESCAPE, WAKEUP} -> FALSE
                     [] Head(todo).status = IDLE -> TRUE
                     [] OTHER -> asleep
    <3>1. CASE Head(todo).status \in {ESCAPE, WAKEUP}
      BY <1>3, <3>1, StatusesDiffer DEF Serve
    <3>2. CASE Head(todo).status = IDLE
      BY <1>3, <3>2, StatusesDiffer DEF Serve
    <3>3. CASE Head(todo).status \notin {ESCAPE, WAKEUP, IDLE}
      BY <1>3, <3>3 DEF Serve
    <3> QED
      BY <3>1, <3>2, <3>3
  <2>5. asleep' \in BOOLEAN
    BY <2>4a DEF DInv
  <2>6. IF a \in Tellers THEN asleep' = (a = Acknowledge(IDLE)) ELSE asleep' = asleep
    BY <2>1, <2>4a, AnswerTells DEF DInv
  <2>7. Agree(asleep)'
    BY <1>0, <2>1, <2>2, <2>4, <2>5, <2>6, AgreeAppend DEF DInv
  <2> QED
    BY <1>a, <2>3, <2>4, <2>5, <2>7 DEF DInv
<1>4. CASE Hear
  <2>1. answers # <<>> /\ status \in {"on", "closing"} /\ status' = status
    BY <1>4 DEF Hear, DInv
  <2>2. /\ answers' = Tail(answers) /\ view' = Told(Head(answers), view)
        /\ asleep' = asleep
    BY <1>4 DEF Hear
  <2>3. answers' \in Seq(Packet)
    BY <2>1, <2>2, HeadTailProperties DEF DInv
  <2>4. view' \in BOOLEAN
    BY <2>2 DEF DInv, Told
  <2>5. Agree(asleep)'
    <3>1. Agree(asleep) /\ asleep \in BOOLEAN
      BY <1>0, <2>1 DEF DInv
    <3> QED
      BY <2>1, <2>2, <3>1, AgreeTail DEF DInv, Agree
  <2> QED
    BY <1>a, <2>1, <2>2, <2>3, <2>4, <2>5 DEF DInv
<1>5. CASE End
  <2>1. answers' \in Seq(Packet)
    BY <1>5, EmptySeq DEF End
  <2> QED
    BY <1>5, <2>1 DEF End, DInv, Accord
<1>6. CASE UNCHANGED vars
  BY <1>6 DEF vars, DInv, Accord, Telling
<1> QED
  BY <1>1, <1>2, <1>3, <1>4, <1>5, <1>6 DEF Next

-----------------------------------------------------------------------------
\* Whatever the client asks and however many answers are under way, the last of
\* them that tells the client whether it is asleep tells what the server knows;
\* if none does, the client believes it already (FlagsAgree in ChopSession).
THEOREM AccordCorrect == Spec => []Accord
<1>1. DInv => Accord
  BY DEF DInv
<1> QED
  BY <1>1, DialogueInit, DialogueStep, PTL DEF Spec
===============================================================================
