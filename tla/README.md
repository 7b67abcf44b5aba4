# chopserver in TLA+

A verification development of chopserver: TLA+ modules translated from the C
source, TLC runs that check them on small instances, and TLAPS proofs that hold
for every value of the constants. Paths below are relative to the repository's
`src/` directory.

## 1. The system

Two programs share all their code but `main`:

* **chopserver** (`chopserver.c`): one thread, one `select` loop. It accepts
  clients into a table of slots, reads one packet per ready client and pass,
  answers it, and prints what it received.
* **chopclient** (`chopclient.c`): one thread, one `select` loop over stdin and
  one connection. It turns a line of input into a packet and handles what
  comes back with the same `process_request` as the server.

A packet is a header of four bytes (head, status, control1, control2) and, for
text and time packets, data whose length the header gives.

### Inventory

| component | state | operations | correct when |
|---|---|---|---|
| event loop, `chopserver.c` | `sigint_received`, `host`, `all_fds`, `listen_fds`, `max_fd`, loop index | start; check the flag; `select`; pass over the slots; accept | its tables agree with the kernel's; the `select` result is never stale when used; hang-ups are noticed; SIGINT ends it |
| connection management, `chopconn.c`, `chopsocket.c` | `struct server` (slots, `cur_connections`), `struct client` (fd, `inc_flag`, `out_flag`) | `accept_new_client`, `refuse_connection`, `remove_client_index`, `process_request`, `is_client_status` | no connection lost or held twice, no descriptor leaked, refusal only for want of a slot, a descriptor or memory |
| packet dispatch, `choppacket.c` | the flags of the client | `parse_header` and one handler per status, `write_dataless`, `write_datapack`, `write_wordpack` | each handler consumes exactly its packet, until a read or a buffer fails; an escape closes the client, and no other error does |
| reading and writing, `chopdata.c` | the byte stream | `read_header`, `read_data`, `write_packet`, `fill_buf` | both ends agree where packets begin; an error concerns one client |
| client program, `chopclient.c` | one `struct client`, stdin | main loop, commands | its flags follow the server's answers; `exit` ends the session |
| structures, `chopconst.c` | heap | `init_*`, `destroy_*` | no leak on error paths |
| text and buffer utilities | the line buffer of `chopclient` | `find_newline`, `remove_newline`, `buf_contains_symbol`, `append_buffer`, `packet_style`, `is_address`, ... | a line means what was typed, whatever was in the buffer before |
| debug printing, `chopdebug.c` | none | `print_*`, `*_to_str` | return values; table bounds |

How they interact: peers and server share only TCP connections; the event loop
and `accept_new_client` share the slots and, through `max_fd` and `all_fds`, the
descriptors; `process_request` tells the loop that a client is finished only
through the two flags (`CANCEL` in both); the signal handler shares one flag with
the loop.

What is hard to test: a signal between two statements; a peer that hangs up or
is reset between two system calls made for it; descriptors that are closed in a
pass and given out again while the pass still holds an older `select` result;
the limits (slots, descriptors, memory, queue) all reached; blocking reads of
one client while others wait; handlers that return early and leave bytes behind.
`PROJECT.json` lists these hazards at their lines with the properties for them.

## 2. Modules

| module | models | from |
|---|---|---|
| `ChopPacket` | statuses, packets, and what one received packet makes the receiver do: data to read, flags, answer | `chopconst.h`, `choppacket.c` |
| `ChopServer` | the event loop with everything it calls, its peers, the kernel's descriptors and queues, SIGINT | `chopserver.c`, `chopconn.c`, `chopsocket.c`, `chopdata.c`, `chopconst.c` |
| `ChopServing` | the promise to the peers, abstractly: queue, seats, leaving | no code: the specification `ChopServer` implements |
| `ChopEndpoint` | `process_request` of either program on one connection, byte by byte: short reads, buffers of the window's size, texts up to `END_TEXT`, long headers with packets within packets | `choppacket.c`, `chopdata.c`, `chopconn.c`, `chopdebug.c` |
| `ChopSession` | one `chopclient` and the server's service of it over two bounded channels | `chopclient.c`, `chopserver.c`, `chopconn.c`, `chopdata.c` |
| `ChopDialogue` | requests, their answers and who is asleep, abstractly | no code: the specification `ChopSession` implements |
| `ChopHeap` | what both programs have allocated, with calls that fail | `chopconst.c`, `chopconn.c`, `choppacket.c`, `chopdata.c`, both `main` |
| `ChopInput` | the reading of lines from stdin | `chopclient.c:86-135`, `chopdata.c` |
| `MCChopServer`, `MCChopEndpoint`, `MCChopSession`, `MCChopInput` | values for TLC | |
| `ChopServerProofs`, `ChopServingProofs` | proofs about `ChopServer`: its invariants; the refinement of `ChopServing` | |
| `ChopDialogueProofs`, `ChopSessionProofs` | proofs about `ChopDialogue`; about `ChopSession` and its refinement of `ChopDialogue` | |
| `ChopEndpointProofs`, `ChopHeapProofs`, `ChopInputProofs` | proofs about the module of that name | |
| `ChopPacketProofs` | the lemmas these share: packets, queues of packets, counting, concatenation, least and greatest numbers | |

`ChopPacket` is shared: `ChopServer`, `ChopEndpoint`, `ChopSession` and
`ChopDialogue` take from it what one packet does. `ChopServer` has many clients
and whole packets, `ChopEndpoint` one connection and single bytes, `ChopSession`
both ends of one connection.

### ChopServer

State. `pc` and `index` are where the one thread is; `server_fd`, `clients`,
`cur_connections` are `struct server`, where `clients[i]` is the `socket_fd` of
the client in slot `i` or `NULL`; `inc_flag` and `out_flag` are per slot;
`all_fds`, `listen_fds`, `max_fd` are the locals of `main`. `fdt` (what each
descriptor refers to) and `backlog` (connections that wait for `accept`) belong
to the kernel, and so do, per connection, `peer` (its TCP state) and `inbox`
(items received and not read). `nested` says that `process_request` is inside
`parse_long_header`, and `answer` holds the packet it has still to write. `owes`,
`sent` and `bye` record what the peer has done, `astray` whether the server may
have lost track of where that peer's packets begin.

Steps. A step of the server ends where its next system call may block, fail or be
overtaken by a peer or a signal:

| `pc` | actions | code |
|---|---|---|
| `setup` | `Setup`, `SetupFails` | `setup_server_socket`, `chopserver.c:67-79` |
| `check` | `CheckSignal` | `chopserver.c:85-89` |
| `select`, `blocked` | `SelectBlocks`, `SelectReturns` | `chopserver.c:91-101` |
| `scan` | `ScanFinds`, `ScanEnds` | `chopserver.c:103-108` |
| `header` | `ReadHeader`, `ReadShort`, `ReadEnd`, `ReadFails` | `read_header`, `parse_header` |
| `data` | `ReadData`, `ReadShort`, `ReadEnd`, `ReadFails`, `AppendFails` | `read_data` |
| `text` | `ReadText`, `ReadTextEnd`, `ReadFails`, `AppendFails` | `read_long_text` |
| `answer`, `answer_data` | `WriteAnswer`, `WriteFails`, `WriteKills` | `write_packet` |
| `header`, `answer` | `OutOfMemory` | `init_packet_struct`, or a buffer of the answer, returning an error |
| `reap` | `RemoveClient`, `KeepClient` | `chopserver.c:113-118`, `destroy_client_struct` |
| `accept` | `AcceptSkipped`, `AcceptClient`, `AcceptRefuses`, `AcceptFails` | `chopserver.c:122-133`, `accept_new_client` |

Beside it run `Connect`, `SendHeader`, `SendData`, `HangUp`, `ResetArrives` for
each connection, and `Interrupt`.

The kernel, which is not in the repository, is modelled by what the code relies
on: a new descriptor is the lowest free one; `select` reports a socket that can
be read without blocking, at end of stream and after a reset too; what was
received before a hang-up can still be read; a reset is reported once, by the
next read or write, and a later write raises SIGPIPE; a handler installed with
`SA_RESTART` interrupts `select` and nothing else that the server calls.

A handler that returns inside a long header goes on with its next packet
(`Return`); the long header may end after any of them (`ChopEndpoint` counts them).

Abstractions. An item of `inbox` is a whole header or the whole data of a packet,
and a read takes the one it asks for, until a read comes up short (`ReadShort`), a
buffer cannot be allocated (`AppendFails`) or a text overruns (`ReadText`). Then the
rest of the packet stays in the stream, the connection is `astray`, and from there
on a read may take any number of items and find any header (`Headers`: the peer's
own and `Strays`). Text is one model value. A write
never waits for the peer to read: what a peer is sent before it reads is less than
a socket buffer holds (`ChopSession` has the writes that wait). Printing is left
out. A standard output or error that is
closed when the server starts is excluded (`Inherited`): descriptors 1 and 2
would then become sockets that the server prints into. Where `MallocMayFail`, every
malloc after the start may: for the struct of a new client, a packet, a buffer of
data and an answer. An error of `process_request` is not represented, because
`main` ignores it.

### ChopEndpoint

State. `sent` is what the peer writes, `arrived` how many bytes of it have come,
`taken` how many have been read; `link` is the connection. `pack`, `data` and
`need` are `struct packet` with its buffers and the remaining length in
`read_data`; `first` is what was read into the memory of the first buffer, which
`print_time` looks at whatever `inbuf` says; `nest` is the stack of the
`parse_long_header` calls that are
running, each with the packets it has still to read; `answer`, `inc_flag`,
`out_flag` are as in `ChopServer`; `ret` is the result of `process_request`,
which `chopserver` ignores and `chopclient` exits on (`caller`). `at`, `printed`,
`lost` and `escaped` record what happened, for the properties.

| `pc` | actions | code |
|---|---|---|
| `select` | `Begin` | `process_request` |
| `header` | `ReadHeader`, `ReadHeaderShort`, `ReadHeaderEnd`, `ReadHeaderFails` | `read_header`, `parse_header`, `parse_long_header` |
| `data` | `ReadData`, `ReadDataShort`, `ReadDataEnd`, `ReadBodyFails`, `AppendFails` | `read_data` |
| `text` | `ReadText`, `ReadTextEnd`, `ReadBodyFails`, `AppendFails` | `read_long_text` |
| `answer` | `WriteAnswer`, `WriteFails` | the handlers, `write_dataless`, `write_packet` |
| `done` | `Done` | `is_client_status` and the rest of either loop |

A handler that returns into a running `parse_long_header` goes on with the next
packet of it (`Return`). Beside the thread run `Arrive`, by any number of bytes or
only by whole writes of the peer (`Cuts`), and `HangUp`.

`Printed` is what `print_text` and `print_time` print: each buffer of a text as
`"%.*s"` does, which is up to its first NUL (`CString`), and `TIME_LEN` bytes of the
first buffer of a time, those that were not read being `Stale`.

### ChopSession

State. Everything is per side, `client` or `server`: `pc`, the two flags, the
packet it has to write (`writing`), and for its kernel what it has received
(`inbox`) and what it knows of the other (`link`). `ready` and `line` are what
`chopclient` got from `select` and can read from stdin. `ReadHeader` ...
`WriteKills` are `process_request` and `write_packet` and are the same definition
for both sides, as they are the same function; `Accept`, `ServerSelect`,
`ServerReturn` are `chopserver.c:91-133` for this client; `Establish`,
`ClientSelect`, `ClientReturn`, `ReadLine` are `chopclient.c:30-141`. A write waits
while the other side's kernel has no room. `chopclient` declares a SIGINT handler
and never installs it, so `Interrupt` kills it.

`Dialogue` maps this to `ChopDialogue`: the requests not served are the headers
in the server's `inbox`, the answers not heard those in the client's and the one
being written (`Selected` picks them out). `SessionAssumption` leaves out what
`chopclient` has no command for: acknowledgements, long headers, texts of unknown
length, packets the server does not know, and status 0, which it does not answer.

### ChopHeap

State. `heap` is the set of allocated objects, and `host`, `array`, `clients`,
`newcli`, `pack`, `data`, `out`, `segment` the pointers the code has to them. A
`malloc` returns the lowest free number, so that a stale pointer is an alias at
once. Each action is a function or a path through it, with its allocations and
frees: `init_*`, `append_buffer`, `destroy_*`, `accept_new_client`,
`remove_client_index`, the write functions. Packet contents are left out: any
number of buffers and answers per request. A request in which a call has failed
may be given up, or go on to read, allocate and write, as the loop of
`parse_long_header` does (`GivesUp`): it can lose memory more than once.

### ChopInput

State. `typed` is the input so far, `taken` how much has been read, `buffer` the
127 bytes on `main`'s stack, which are never cleared, `sent` the packets made. A
read from a terminal returns at most one line, one from a pipe anything that is
there. `find_newline` and `remove_newline` are functions on the buffer;
`PacketOf` says whether `strcmp` finds a command.

## 3. Runs

| run | question | instance |
|---|---|---|
| `tables` | do the tables of `main` and the kernel agree, is the `select` result fresh, and does the loop implement `ChopServing` | 3 peers, 2 slots, 6 descriptors |
| `requests` | do packet boundaries stay in step until a call fails, and till then do only goodbyes close a connection | 1 peer, 3 packets of every kind, short reads, malloc may fail |
| `progress` | is no closed client served, and does every hang-up, escape and waiting connection get its due | 2 peers, 2 slots, no long headers, fair scheduling |
| `framing` | does each handler take exactly its packet | 3 messages, long headers among them, cut anywhere, calls may fail |
| `handling` | is what is printed what was sent, does an escape close, does a hang-up end everything | 2 messages, cut anywhere, calls may fail, both programs, fair |
| `session` | do client and server understand each other, agree, and end | all commands in any order, room for 2 and 1 items, fair |
| `heap` | are the pointers sound, and when is memory lost | both programs, 2 slots, 2 buffers per request, 3 failing calls, in one request or several |
| `input` | does each line arrive | 7 characters typed, buffer of 4, terminal and pipe |
| `sigint` | is SIGINT always obeyed (no) | 1 peer |
| `sigpipe` | does the server survive its peers (no) | 1 peer |
| `short_reads` | is what is read as a header one (no) | 2 messages, cut anywhere |
| `sleepers` | does a sleeper only wake (no) | 2 messages |

Deadlock is not checked by TLC: all the programs end, and the bounded peers stop.
That client and server can wait for each other for ever is `Standstill` of
`ChopSession`; `WritesEnd` and `ExitEnds` name it as the only exception.

### Bounds

`ChopServer`. Three connections and two slots are the least with which a slot and
a descriptor are freed, given out again and refused, while another client is in
the same pass. With 6 descriptors and the standard ones open, the third client
meets `EMFILE`; with stdin closed the listening socket gets descriptor 0 and the
third client meets a full table: both ends of `accept_new_client` occur. One text
per peer suffices there, since the tables do not depend on what is read; with three
peers for two slots that run also has connections refused, which `progress`, with
two, has not.
`requests` needs one connection, as a request touches no other: three packets are a
long header with two in it, or a packet after the rest of a broken one and before
another. The packets are one for each different course of `process_request`;
`Strays` adds one that is not known. `MaxSent`, `CONNECT_QUEUE` and `FdLimit` are the
only bounds on what would otherwise grow, apart from the number of connections.

`ChopEndpoint`. In `framing` the window is 2 bytes, and bodies have 0, 2 and 3:
none, exactly one buffer, one more byte. In `handling` it is 3, and bodies have 0, 2,
3 and 4: a time shorter than the window and than the 8 bytes that are printed, a
text of one buffer with a NUL in it (what `chopclient` sends), one of two buffers
without. Three messages are what it takes for a long header of two packets or for
one within another; two are enough for a packet that is read after the rest of a
broken one. Bodies contain status bytes, so that a reader out of step acts on them.

`ChopSession`. `Room` is the only bound; nothing else grows, and the user types
for ever. With rooms of 2 and 1 items an answer with data fills the one, a request
with data does not fit the other at once, and both directions can be full
together: the standstill occurs. Nothing in the code sets the size of a socket
buffer or keeps the programs from filling it, so the safety properties are proved
for any rooms (section 4) and the standstill is named in those it affects.

`ChopHeap`. Three faults are three in one request, or two and one before or after;
two slots give a client to keep and one to lose. `ChopInput`: 7 characters are a line
that overfills the buffer of 4, or three lines one of which ends in `\r\n`. No NUL
is typed.

### Properties

* `TypeOK` - types, in the modules with a run of their own.

`ChopServer`:

* `DescriptorsAgree` - between start and end, `all_fds` is the listening socket
  and the clients' sockets, all at most `max_fd`; each client has its own open
  connection, and every open connection has a slot.
* `SnapshotFresh` - a slot the pass finds in `listen_fds` still has something to
  read, and `accept` finds a connection.
* `OnePlace` - an established connection is in the queue or in one slot.
* `InSync` - on each connection, until it is astray: what the server reads as a
  header is one, and as data is data, inside long headers too. No handler leaves
  the data of its packet behind, only a short read, a missing buffer or an overrun
  does, and only on its own connection.
* `ClosedNotServed` - a client with a flag at `CANCEL` is removed before the loop
  goes on; `process_request` itself would serve it. It holds where no long header
  is sent: inside one the answer to the next packet clears `out_flag`.
* `ImplementsServing` - refinement of `ChopServing`: first come, first served;
  refused only when the slots (or memory) are exhausted; a seat is lost only
  after an escape or a hang-up, or once the connection is astray and bytes of any
  packet may be taken for an escape. Other errors of `process_request` end nothing.
* `HangUpSeen`, `EscapeObeyed`, `NobodyForgotten` - liveness, if peers finish the
  packets they begin.

`ChopEndpoint`:

* `InStep` - as long as no read was short, no buffer was missing and no text
  overran, a header is read only where the peer wrote one: lengths, rounding,
  nesting and failing answers are all right.
* `ClientKeepsStep` - `chopclient`, which exits on errors, is never out of step.
* `PrintsWhatWasSent` - in step, what is printed of a text is its string, up to the
  first NUL, in order, and all of it if all of it was read (for a text that is
  `OneString`: one buffer, or no NUL; with several buffers each is cut at a NUL of
  its own). Each byte printed of a time is the peer's or stale, and none that was
  read is stale.
* `EscapeCloses` - in step, after an acknowledged escape the connection is closed,
  before another request.
* `HangUpEnds` - when the peer is gone every loop ends, whatever the rest of the
  stream is taken for.

`ChopSession`:

* `Understood` - neither side fails on a packet of the other's: an error means
  the other is gone.
* `BacklogBounded` - requests under way and answers not yet read are at most two
  more than the server's kernel holds, whatever is typed: `chopclient` looks at the
  connection before stdin.
* `WritesEnd` - a write ends, whatever the other side is doing, unless both sides
  are writing and neither has room: `Standstill` is the only deadlock.
* `ImplementsDialogue` - refinement of `ChopDialogue`: one answer to each request,
  in order, according to the state the earlier requests led to.
* `FlagsAgree` - the client's `inc_flag`, after the answers under way, is the
  server's.
* `ExitEnds` - after `exit` both ends let go, whether the confirmation, a reset or
  SIGPIPE comes first, unless what was typed before leads to a standstill.

`ChopHeap`: `PointersSound` (no pointer to freed memory, no object with two
owners), `LossIsFailure` (memory is lost exactly on the failing paths of `accept`
and write that do not free it, and at most a packet with its buffer each time).

`ChopInput`: `LinesArrive` (each line typed at a terminal is one packet that
means what was typed), `NothingMadeUp` (from a pipe, what is sent is the end of a
line that was typed).

### Fairness

* `ChopServer!FairSpec`. Weak fairness of the server's thread: it is runnable
  whenever one of its steps is enabled. Weak fairness of `SendData`: a peer writes
  header and data in the same call of `write_packet` (`chopdata.c:150-171`), with
  nothing in between that waits for anyone. No peer is assumed to send, to read or
  to hang up. But a peer that stops between the two, and stays connected, holds the
  server in a blocking read: nothing in the code bounds that, and the liveness
  properties assume it away.
* `ChopEndpoint!FairSpec`. Weak fairness of the thread's steps, without those
  that stand for a failing call; nothing of the network or the peer.
* `ChopSession!FairSpec`. Weak fairness of each process; nothing of the user.

Weak fairness is enough, as a step of a thread stays enabled until it or another
step of that thread is taken.

### Findings

* `sigint`: the flag is checked at `chopserver.c:86` and `select` called at `:93`;
  a signal between the two sets the flag and `select` then sleeps, until a client
  does something. (`pselect` would close the gap.)
* `sigpipe`: `write_packet` returns an error for a closed socket and `main`
  carries on, but SIGPIPE keeps its default action, so the second write to a
  client that is gone kills the process.
* `short_reads`: `read_header` and `read_data` fail on a short read and leave the
  rest of the packet in the stream; `chopserver` goes on and reads it as a header.
* `sleepers`: `IDLE` is documented as "only accept wakeup or escape"; nothing but
  `parse_wakeup` and `parse_idle` looks at the flag.

Seen while modelling, and not the subject of a run:

* `cur_connections` is raised and never lowered. Nothing reads it; the mutant
  `NoSlotLeft_Counter` shows what would become of a server that did.
* `parse_long_header` (which neither program's peer sends): an escape inside is
  acknowledged but does not close, as the next answer clears `out_flag`, and the
  client is served again; a second
  text is printed with the first, whose buffers are kept; an error inside is
  returned as 0. `chopconst.h:18` says that control1 counts bytes, the code
  counts packets.
* Client and server write before they read. When the buffers of both directions are
  full, which takes enough requests with long answers typed ahead, both wait for
  ever (`Standstill`).
* `print_text` prints each buffer up to its first NUL, so a text of several buffers
  with NULs in them has holes; `print_time` prints 8 bytes of the buffer however
  many were read, the rest being what malloc left there.
* `read_long_text` drops what follows `END_TEXT` in its buffer.
* From a pipe only the first line of each read is used (`README.md:8` promises
  more), and a line of 126 characters ends `chopclient`.
* The structure allocated is lost when `accept` or a write fails, and the
  `exit(1)` paths free nothing, unlike what `chopserver.c:85` says.
* `init_buffer_struct` refuses size 0, which `append_buffer` lets through;
  `stat_to_str` is off by one at 32.

### Mutants

Each property is paired in `PROJECT.json` with a variant of one definition,
defined right before it and commented as a mutant, under which the run must
fail.

## 4. Proofs

Every safety property that a passing run checks is also a theorem, for any value
of the constants: the invariants, and the two refinements. The hypotheses, beside
the modules' own assumptions, are named with each theorem.

### The event loop

`ChopServerProofs`, for any set of connections and packets, any number of slots
and descriptors and any bounds, under `ServerAssumption`:

* `TypeCorrect`: `Spec => []TypeOK`
* `TablesCorrect`: `Spec => []DescriptorsAgree`
* `PlacesCorrect`: `Spec => []OnePlace`
* `SnapshotCorrect`: `Spec => []SnapshotFresh`
* `ClosedCorrect`: `Spec => []ClosedNotServed`, if no member of `Packets` or `Strays`
  is a long header
* `SyncCorrect`: `Spec => []InSync`

They follow from one inductive invariant, `IInv`, proved in layers, each using the
ones before:

1. `TypeStep`. `AtClient` (while a client is served, `index` is its slot) makes
   the types inductive.
2. `TablesStep`. `DescriptorsAgree` alone is not inductive: `destroy_client_struct`
   does not close descriptor 0. `ZeroTaken` says why no client has it: descriptor
   0 was inherited or `Setup` took it, since a new descriptor is the lowest free
   one and clients come later. `Fresh` says that nothing exists before `Setup`.
   Only `Setup`, `RemoveClient` and `AcceptClient` touch the tables
   (`TablesKept`); `RemoveEffect` and `AcceptEffect` say what they do to them.
3. `PlacesStep`. `HeadLeaves` is the fact about queues without repetition.
   Every other step keeps the set of established connections (`EstablishedKept`).
4. `SnapshotStep`. Peers only make connections more readable (`PeersOnlyAdd`),
   `process_request` touches only its own (`RequestIsLocal`), and by `OnePlace` no
   later slot of the pass has the same connection.
5. `FlagsStep`. `ClosedNotServed` is about the client to be served next, the marks
   are set on the one before: `FlagsInv` says that nobody but the client at
   `reap` is marked, and that one in both flags. `HeaderMarks` and
   `AnswerNotCancel` are the facts about `parse_header` that it rests on. The layer
   stands only if `Flat`, the hypothesis of `ClosedCorrect`.
6. `SyncStep`. `InSync` is about what has arrived; `SyncInv` adds what will, for each
   connection that is not astray: `owes` is true exactly if data is the next thing
   an open peer sends. `FramedTail` and `FramedAppend` say that reading an item and
   receiving the one that is owed keep a queue framed; `SyncStep` looks at one
   connection at a time, and `AstrayKept` says that no connection gets back in step.

`ChopServingProofs` proves `ServingCorrect`: `Spec => ImplementsServing`, by step
simulation: one lemma for each abstract action that a step of the loop is
(`SimulateSeat`, `SimulateTurnAway`, `SimulateFinish`, `SimulateArrive`,
`SimulateLeave`), and `SimulateProcess`, `SimulateNothing` for the steps that are
none. `SeatsAreSlots` counts: there are as many seats taken as slots. That a seat is
given up only for a reason (`Excused`: a goodbye, a hang-up, or the connection is
astray) needs one more invariant, `EscapeIsTheirs`: an escape that is queued, read,
being answered or left in the flags of a client that a long header keeps was sent by
that peer, unless there is another reason.

### A session

`ChopDialogueProofs` proves `AccordCorrect`: `Spec => []Accord` of `ChopDialogue`, for
any requests and any number of requests and answers under way. `AnswerTells` says
that the answer to a request tells exactly the change it makes; `AgreeAppend` and
`AgreeTail` carry the agreement over the two ends of the queue.

`ChopSessionProofs`, for any commands and any `Room`, under `SessionAssumption`:

* `SessionTypes`: `Spec => []TypeOK`
* `SessionUnderstood`: `Spec => []Understood`
* `SessionBacklog`: `Spec => []BacklogBounded`
* `SessionDialogue`: `Spec => ImplementsDialogue`
* `SessionAgreement`: `Spec => []FlagsAgree`

`SInv` is the invariant of the first two: for each direction, what is in the
receiver's kernel, what it is reading and what the sender has yet to write fit
together (`Rcv`, `Own`), and nothing happens before there is a connection
(`Before`). `BacklogBounded` adds `Kinds` (the server writes only answers, the client
acknowledges and asks, and an acknowledgement is not answered) and `LoadBound`,
which counts: requests that wait, plus the one being served, plus answers not yet
read are never more than `Room["server"] + 2`, one less while the client may be
about to ask, since it asks only when it found nothing to read or has just read
an answer. That no standstill happens is not a theorem: it is false unless the
client's room is about twice the server's, which nothing in the code sees to.

The refinement uses `RInv`: `SInv`, `Kinds`, and two more. `Spoken`: each side
writes only what it says, and has something to write exactly where it is about to.
`Marks`: a side that has the other down as closed says so in both flags and then
only leaves. The step simulation has a lemma for each side and kind of step
(`SimulateServe`, `SimulateHear`, `SimulateAsk`, ...; `SimulateOver` for what happens
when a process has ended). The mapped queues are what `Selected` picks from a
channel; `SelectedMore` and `SelectedLess` say what an item at either end does to
it. `SessionAgreement` is `AccordCorrect` carried over this refinement, as
`FlagsAgree` is `Accord` under the mapping.

### One connection, byte by byte

`ChopEndpointProofs`, for any messages, any number of them, any window and any way
to cut the stream, with any calls failing, under `EndpointAssumption`:

* `EndpointTypes`: `Spec => []TypeOK`
* `EndpointInStep`: `Spec => []InStep`
* `ClientHeadersAreSent`: `Spec => []ClientKeepsStep`, if `Plain`
* `EndpointEscape`: `Spec => []EscapeCloses`, if `Plain`
* `EndpointPrints`: `Spec => []PrintsWhatWasSent`, if `Plain`

`Plain` says that no message is a long header, which is what both programs send.
Without it the three properties are false: `parse_long_header` hides the errors of
the packets inside it, clears `out_flag` with the answer to the next one, and lets
them share buffers. Nothing is assumed of the bytes of a message. The last two are
about a thread that is `Kept` in step: nothing has come up short or failed and no
text has ended inside a buffer, or the program is `chopclient`, which exits on
errors. A `chopserver` out of step may take any byte for a long header.

The invariants. `Steady`: while nothing is lost, the thread is `Aligned` - between
two messages, or at its place in one, with what it has and what it still needs
adding up to that message - or `Dried`, with nothing left to come. `ClientSteady`
says so of `chopclient` after failures too, unless it is about to exit.
`EscapeSteady`: after an acknowledged escape both flags are `CANCEL` and the thread
only leaves. `Showing`: the buffers hold a part of the body of the message whose
header was read last, and `first` is the beginning of it; `Shown`: what was printed
was made of such buffers. `KeptHeader` and `KeptPlace` say that in step a header is
read only at a message, and not a long one. `PrintsPart` is the fact about
`Printed`, `StringGrows` that about strings: a text in several buffers is printed as
one string if it has no NUL. `StreamShape` says where each message is in the
stream, and `ReadHeaderIs`, `HandledIs`, `ReturnIs` what a handler and the stack of
long headers come to.

### Memory and lines

`ChopHeapProofs`, for any number of slots, buffers and faults, in one request or many:
`HeapSound`
(`Spec => []PointersSound`) and `HeapLoss` (`Spec => []LossIsFailure`). `HInv` says of
every stage of the program which pointers are set (`Stages`), that the parts of the
program's structures are disjoint and allocated (`Sound`), that no part has an
object twice (`NoTwice`), and that what is allocated and not reached is bounded by
the faults. `FreshIsNew` says that `malloc` returns what is not allocated. The
actions reduce to the few ways a heap changes: `Grows`, `Shrinks`, `Moves`,
`Freeing`, `Losing`.

`ChopInputProofs`, for any letters, commands and size of the buffer, however much
is typed: `InputLines` (`Spec => []LinesArrive`) and `InputReal`
(`Spec => []NothingMadeUp`). `LineUnderstood` says that the string in the buffer
after `remove_newline` is the line, whatever is behind it; `ReadIs` where in the
input the line ends that one read takes; `EndExists` and `LinesStay` that the lines
typed so far have their ends and do not change when more is typed. The invariant
adds `AtLine`: from a terminal, as many characters have been taken as the lines
sent take up.

### Induction

Neither the backends nor the library's theorems with an operator parameter do
inductions over numbers here. `Ind` of `ChopPacketProofs` does, for a set: a set of
numbers that contains 0 and, with each number, the next one is `Nat`. It follows
from `WFMin`. With it the lemmas about concatenation (`FlattenJoins`,
`FlattenAppend`), counting, and the picking of items from a queue are proved;
`Joins` says of a function that it computes, step by step, what the fold of
`FlattenSeq` does.

### What the proofs changed

* `PrintsWhatWasSent` did not say that a time shorter than the window is shown whole;
  `handling` had no such time. It says so now (`TimeShown`), and `handling` has one.
* A text is printed as one string only if it lies in one buffer or has no NUL: the
  induction over the buffers fails for others, and so does the code.
* `SessionAssumption` allowed commands with status 0, which the server does not
  answer: the refinement fails for them. `chopclient` sends none.
* The mapping of `ChopSession` was written with `SelectSeq`, of which the prover
  knows nothing; it is written with `FlattenSeq` now.

### Only model-checked

Liveness: `HangUpSeen`, `EscapeObeyed`, `NobodyForgotten`, `HangUpEnds`, `WritesEnd`,
`ExitEnds`. Fairness and `ENABLED` are beyond this prover. The four runs that
expect a violation are counterexamples, not theorems.

## 5. Plan

What could be done next, in this order:

1. The safety half of the liveness properties: for instance that a client that
   has read the confirmation of `exit` takes no step but to leave.
2. The hazards without a property that concern long headers: a model of what a
   reader may rely on inside one.
3. A peer that stops in the middle of a packet: what the others then still get.

## 6. Not modelled

* The wording of what is printed, `_debug_print` and the name tables of
  `chopdebug.c`: no property is about them. Which data is printed, and when a print
  function fails, is in `ChopEndpoint`.
* Code no program calls: `remove_client_address`, `is_address`, `char_to_bin`,
  `fill_buf`, `destroy_server_struct`, `destroy_buffer_struct`, and
  `chopconn.c:191-351`, which is commented out; `packet_style` serves debug output.
* `write` that returns less than it was given: on a blocking socket that takes a
  signal, and the only handler is installed with `SA_RESTART`.
* Errors of `select` other than `EINTR` (`TablesCorrect` excludes `EBADF`), of
  `accept` other than a lack of descriptors, of reads from stdin.
* A SIGINT before its handler is installed.
* A peer that writes the header of a packet, stays connected and never writes the
  rest: the server then waits in `read` for ever, and every liveness property of
  `ChopServer` is void.
* The value of the bytes that `print_time` prints beyond what was read (`Stale`).
* The build files.
