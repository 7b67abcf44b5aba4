------------------------------ MODULE ChopInput ------------------------------
(***************************************************************************)
(* How chopclient takes lines from its stdin: one read into a buffer on    *)
(* the stack for each time select reports it, the search for the newline,  *)
(* and the packet that comes of the line.  The buffer is never cleared: a  *)
(* line lies over what the lines before it have left.                      *)
(*                                                                         *)
(* Stdin is a terminal, whose reads end with a line, or a pipe, whose      *)
(* reads take what there is.  ChopSession has the loop around this.        *)
(***************************************************************************)
EXTENDS Integers, Sequences, FiniteSetsExt, SequencesExt

CONSTANTS
  Letters,  \* the characters of lines, no NUL among them
  Commands, \* the lines that are commands
  BUF,      \* the characters main asks read for (126)
  MaxTyped, \* bound: characters typed
  Kinds     \* of stdin: "terminal", "pipe"

LF   == "LF"
CR   == "CR"
NUL  == "NUL"
Junk == "junk" \* what the stack holds when main starts: nothing may depend on it

Chars == Letters \cup {LF, CR}

ASSUME InputAssumption ==
  /\ Letters \cap {LF, CR, NUL, Junk} = {}
  /\ Commands \subseteq Seq(Letters)
  /\ BUF \in Nat \ {0} /\ MaxTyped \in Nat
  /\ Kinds \subseteq {"terminal", "pipe"}

VARIABLES
  stdin,  \* what it is
  typed,  \* all that has been typed
  ended,  \* whether that is all
  taken,  \* how many characters of it have been read
  buffer, \* char buffer[127]
  sent,   \* the packets made of lines: commands, and texts with their data
  pc      \* "loop" or "exited"

vars == <<stdin, typed, ended, taken, buffer, sent, pc>>

Init ==
  /\ stdin \in Kinds
  /\ typed = <<>> /\ ended = FALSE /\ taken = 0
  /\ buffer = [i \in 0..BUF |-> Junk]
  /\ sent = <<>> /\ pc = "loop"

-----------------------------------------------------------------------------
(* The newline. *)

NotFound == -1

\* Where the first newline of the n characters is, of a unix or a network line.
find_newline(buf, n) ==
  IF \E i \in 0..n - 1 : buf[i] = LF
  THEN Min({i \in 0..n - 1 : buf[i] = LF}) ELSE NotFound

\* A mutant: the carriage return of a network newline stays.
remove_newline_CR(buf, n) ==
  LET end == find_newline(buf, n) IN
  [i \in DOMAIN buf |-> IF i = end THEN NUL ELSE buf[i]]

\* The buffer after the newline, "\n" or "\r\n", has been overwritten.
remove_newline(buf, n) ==
  LET end == find_newline(buf, n) IN
  [i \in DOMAIN buf |->
     IF i = end \/ (i = end - 1 /\ buf[i] = CR) THEN NUL ELSE buf[i]]

\* The string at the start of a buffer, which strcmp compares and "%.*s"
\* prints: up to NUL, or all of it.
CString(buf) ==
  LET ends == {i \in DOMAIN buf : buf[i] = NUL} \cup {Cardinality(DOMAIN buf)}
  IN [i \in 1..Min(ends) |-> buf[i - 1]]

\* The packet made of what is in the buffer: for a text, all of the buffer.
PacketOf(buf) ==
  IF CString(buf) \in Commands
  THEN [command |-> CString(buf)] ELSE [text |-> buf]

-----------------------------------------------------------------------------
Left == SubSeq(typed, taken + 1, Len(typed))
Ends == {i \in 1..Len(Left) : Left[i] = LF}

\* How much one read may return: from a terminal a line, or as much of it as
\* fits, or what was typed before the end; from a pipe whatever there is.
MayRead(n) ==
  /\ n \in 1..Len(Left) /\ n <= BUF
  /\ stdin = "terminal" =>
       \/ n = Min(Ends \cup {BUF}) \/ (ended /\ Ends = {} /\ n = Min({Len(Left), BUF}))

\* What one read of n characters leaves in the buffer.
Filled(n) == [i \in 0..BUF |-> IF i < n THEN Left[i + 1]
                              ELSE IF i = BUF THEN NUL ELSE buffer[i]]

\* A mutant: the result of remove_newline is not looked at.
IsLineAnyway(buf, n) == TRUE
\* remove_newline does not fail.
IsLine(buf, n) == find_newline(buf, n) # NotFound

\* A line is read and made into a packet; without a newline main exits.
ReadLine ==
  /\ pc = "loop"
  /\ \E n \in 1..BUF :
       /\ MayRead(n)
       /\ taken' = taken + n
       /\ buffer' = remove_newline(Filled(n), n)
       /\ IF IsLine(Filled(n), n)
          THEN sent' = Append(sent, PacketOf(buffer')) /\ UNCHANGED pc
          ELSE pc' = "exited" /\ UNCHANGED sent
  /\ UNCHANGED <<stdin, typed, ended>>

ReadEnd ==
  /\ pc = "loop" /\ ended /\ Left = <<>>
  /\ pc' = "exited"
  /\ UNCHANGED <<stdin, typed, ended, taken, buffer, sent>>

\* The user.
Type ==
  /\ ~ended /\ Len(typed) < MaxTyped
  /\ \E c \in Chars : typed' = Append(typed, c)
  /\ UNCHANGED <<stdin, ended, taken, buffer, sent, pc>>

EndInput ==
  /\ ~ended
  /\ ended' = TRUE
  /\ UNCHANGED <<stdin, typed, taken, buffer, sent, pc>>

Next == ReadLine \/ ReadEnd \/ Type \/ EndInput

Spec == Init /\ [][Next]_vars
-----------------------------------------------------------------------------
(* Properties. *)

\* The lines typed so far, with their newlines taken off.
Newlines   == {i \in 1..Len(typed) : typed[i] = LF}
LineEnd(k) == CHOOSE i \in Newlines : Cardinality({j \in Newlines : j <= i}) = k
LineStart(k) == IF k = 1 THEN 1 ELSE LineEnd(k - 1) + 1
Stripped(s) == IF s # <<>> /\ Last(s) = CR THEN Front(s) ELSE s
Line(k) == Stripped(SubSeq(typed, LineStart(k), LineEnd(k) - 1))

\* What the other side makes of a packet: the command, or the text it prints.
Meant(p) == IF "command" \in DOMAIN p THEN p.command ELSE CString(p.text)
IsCommand(p) == "command" \in DOMAIN p

\* From a terminal every line becomes one packet, in order, and is understood
\* as it was typed, whatever longer or shorter lines were in the buffer before
\* it; chopclient ends rather than cut a line in two.
LinesArrive ==
  stdin = "terminal" =>
    \A k \in 1..Len(sent) :
      /\ k <= Cardinality(Newlines)
      /\ Meant(sent[k]) = Line(k)
      /\ IsCommand(sent[k]) <=> Line(k) \in Commands

\* From a pipe, where a read may take several lines, the others are dropped
\* (README.md:8 says that it "will read from stdin and interpret messages"); but
\* what is sent is at least the end of a line that was typed, never a line
\* without its end.
NothingMadeUp ==
  \A k \in 1..Len(sent) :
    \E l \in 1..Cardinality(Newlines) : IsSuffix(Meant(sent[k]), Line(l))
=============================================================================
