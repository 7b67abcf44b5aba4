------------------------------ MODULE ChopServing ------------------------------
(***************************************************************************)
(* What chopserver promises its peers, without descriptors, slots, flags,  *)
(* select or packets: connections are taken from a bounded queue in the    *)
(* order they came, each gets one of a fixed number of seats or is turned  *)
(* away, and a seat is given up only by a peer that has taken its leave or *)
(* that the server no longer understands.                                  *)
(* ChopServer implements this specification (see Serving there).           *)
(***************************************************************************)
EXTENDS Integers, Sequences, FiniteSets

CONSTANTS
  Conns,     \* the connections peers make
  Seats,     \* number of clients served at once
  QueueLen,  \* number of connections that may wait
  Overload   \* whether a connection may be turned away for want of memory

VARIABLES
  status,    \* of the server: "starting", "serving" or "down"
  waiting,   \* connections not accepted yet, in order of arrival
  served,    \* connections with a seat
  leaving,   \* connections whose peer has taken its leave or, to the server,
             \* might have
  done       \* connections turned away or finished

vars == <<status, waiting, served, leaving, done>>

InQueue(c) == \E k \in 1..Len(waiting) : waiting[k] = c
Present(c) == InQueue(c) \/ c \in served

Init ==
  /\ status = "starting"
  /\ waiting = <<>> /\ served = {} /\ leaving = {} /\ done = {}

Start ==
  /\ status = "starting"
  /\ status' = "serving"
  /\ UNCHANGED <<waiting, served, leaving, done>>

\* The server ends, and every connection with it.
Stop ==
  /\ status # "down"
  /\ status' = "down"
  /\ UNCHANGED <<waiting, served, leaving, done>>

Arrive(c) ==
  /\ status = "serving"
  /\ ~Present(c) /\ c \notin done
  /\ Len(waiting) < QueueLen
  /\ waiting' = Append(waiting, c)
  /\ UNCHANGED <<status, served, leaving, done>>

\* The peer asks for the end of the connection, or is gone, or the server can
\* no longer tell what it asks for.
Leave(c) ==
  /\ status = "serving"
  /\ Present(c) /\ c \notin leaving
  /\ leaving' = leaving \cup {c}
  /\ UNCHANGED <<status, waiting, served, done>>

Seat ==
  /\ status = "serving"
  /\ waiting # <<>> /\ Cardinality(served) < Seats
  /\ served' = served \cup {Head(waiting)}
  /\ waiting' = Tail(waiting)
  /\ UNCHANGED <<status, leaving, done>>

TurnAway ==
  /\ status = "serving"
  /\ waiting # <<>>
  /\ Overload \/ Cardinality(served) = Seats
  /\ done' = done \cup {Head(waiting)}
  /\ leaving' = leaving \ {Head(waiting)}
  /\ waiting' = Tail(waiting)
  /\ UNCHANGED <<status, served>>

Finish(c) ==
  /\ status = "serving"
  /\ c \in served \cap leaving
  /\ served' = served \ {c}
  /\ leaving' = leaving \ {c}
  /\ done' = done \cup {c}
  /\ UNCHANGED <<status, waiting>>

Next ==
  \/ Start \/ Stop \/ Seat \/ TurnAway
  \/ \E c \in Conns : Arrive(c) \/ Leave(c) \/ Finish(c)

Spec == Init /\ [][Next]_vars
=============================================================================
