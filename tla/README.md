# A TLA+ verification of obdii

obdii talks to the ECUs of a vehicle over ISO-TP sockets on a CAN interface. It
has a library (a *communication layer* over a *protocol layer*), a daemon,
`obdiid`, through which several processes share one ISO-TP socket, a command line
utility and Python bindings. This directory models the parts that keep state,
share it between processes, or size and fill memory; it checks them with TLC on
small instances and proves the central results with TLAPS for all instances.

Paths below are relative to the repository root: `src/OBDIIDaemon.c` is listed as
`src/src/OBDIIDaemon.c` in `PROJECT.json`.

## Inventory

| Component | State | Operations | Interacts with |
|---|---|---|---|
| obdiid (`src/OBDIIDaemon.c`) | list of `OBDIISocketConnection` nodes (tuple, socket, refcount, prev, next); its Unix datagram socket | receive a request, open or count a socket, count down or tear down, send a response code and a descriptor; exit, start | clients, by datagrams; kernel, by descriptors |
| opening and closing (`OBDIICommunication.c:17-184`) | the static `daemonSocket`; each `OBDIISocket` | connect, request, wait for the code and the descriptor; own `socket`/`bind` when not shared | obdiid |
| queries (`OBDIICommunication.c:292-362`, `OBDII.c:39-64`) | the socket's receive queue, the flock on it | lock, write, select with a timeout, read, unlock, decode | ECU; other processes on the same socket |
| supported commands (`OBDIICommunication.c:186-290`, `OBDII.c:5-37`) | bitfields, array and count of an `OBDIICommandSet` | up to four queries, count, allocate, fill; membership test | queries, command tables |
| decoders (`OBDII.c:66-459`) | none, but memory in responses | the command tables, one decoder per kind of value, `OBDIIResponseFree` | queries |
| command line utility (`cli.c`) | flag `interrupted`, the command set, one socket | read a selection, query once or repeatedly | library |
| Python bindings, log, unit tests | none | | |

What is hard here, and a unit test hardly reaches: requests and replies of several
processes in any order; clients that die with a reply on the way; a daemon that
restarts while its sockets are in use; calls ended by signals; two processes
between the system calls of a query on one socket; answers that come after a
timeout; a buffer that is counted in one way and filled in another, or that still
holds an earlier request; some eighty table rows that pair a length, a type and a
decoder by hand; a SIGINT in the middle of a repeated query. The `hazards` of `PROJECT.json` name each with its line.

What makes the components correct:

* sharing: a user of a socket has a reference, a node is torn down only when
  unused, sharers have one socket, bound to the tuple they asked for, and keep it
  when the daemon has ended; the daemon never blocks; every call returns;
* list: pointers stay valid, no node is lost, the list behaves as a table;
* queries: a success is a positive answer to the command, the lock is given back,
  a query returns (which fails on shared sockets, see `query_shared_returns`);
* command sets: the array is large enough and lists what the vehicle supports;
* requests: the daemon acts on what was packed and on nothing else, and its dump
  stays in its buffer (which fails where `char` is signed, see `dump`);
* decoders: none reads beyond the answer, each writes the member that the type of
  its command announces, and all memory is given back;
* command line utility: on a socket of its own, SIGINT ends a repeated query, and
  every query returns.

## Modules

| Module | Models |
|---|---|
| `DaemonProtocol` | constants, datagrams and kernel state that the daemon and its clients share |
| `OBDIIDaemon` | the daemon process, with its list as a table from keys to (socket, refcount) |
| `OBDIIClient` | `OBDIIOpenSocket`, `OBDIICloseSocket`, `requestRemoteSocket`, `receiveFD`, `setupDaemonCommunication` |
| `SharedSockets` | the composition of the two; properties, inductive invariant, fairness |
| `SharedSocketsProofs`, `RefcountProofs` | its theorems: safety under all crashes; exactness of the reference counts |
| `SocketService`, `ServiceProofs` | what obdiid promises, without messages and counts; proof that `SharedSockets` implements it |
| `Wire`, `WireProofs` | the bytes of requests, from `pack` to `asuint32`, and a turn of the daemon's loop up to the dispatch; theorems |
| `ConnList`, `ConnListProofs` | the doubly linked list with its pointers; proof that it implements the table of `OBDIIDaemon` |
| `Decoders` | the command tables, `OBDIIResponseSuccessful`, and of each decoder what it reads, writes and allocates |
| `Query`, `QueryProofs` | `OBDIIPerformQuery` by processes on one socket, and the ECU; extends `Decoders`; theorems |
| `CommandSet`, `CommandSetProofs` | `OBDIIGetSupportedCommands`, `OBDIICommandSetContainsCommand`; theorems |
| `Cli`, `CliProofs` | `cli.c`: one process that lists, selects, queries and repeats; extends `Query`; theorems |
| `MC...` | values of constants and symmetry for TLC |

Definitions named "a bug" are mutants: variants of the definition that follows
them, used to show that a property notices the mistake. No specification uses them.

### Sharing: `DaemonProtocol`, `OBDIIDaemon`, `OBDIIClient`, `SharedSockets`

A *key* stands for an `(interface index, transfer ID, receive ID)` tuple; an *OFD*
is the kernel's open file description behind an ISO-TP socket. Passing a
descriptor with `SCM_RIGHTS` gives another descriptor of the same OFD, which is
what the daemon relies on. An OFD is free for a new `socket()` when no descriptor
of the daemon, of a client or in a queued datagram refers to it.

The table update of the daemon is one step, because nobody else sees the table;
each of its sends is a step of its own, because clients run in between: `out`
holds the datagrams that the handler has still to send. The client's `pc` stands
at the system call it is about to make (`send`, `recv`, `recvmsg`).

Kernel behaviour that the model takes from how the code uses it: a connected
datagram socket leads to the socket it was connected to, not to the path, so that
after a restart `send` fails (`SendRefused`) while `daemonSocket` is kept; a send
blocks while the receiver's queue is full (`QLen`; Linux also limits the bytes a
sender may have queued, which makes a sender wait in the same places); a `recv`
of the datagram with the descriptor reads no data and drops the descriptor;
`recvmsg` of a response code yields no control message, and `CMSG_DATA(NULL)`
then ends the process.

The environment: an application has at most one `OBDIISocket` per key and closes
each at most once. `Faults` chooses what else may happen: clients end at any
step, the daemon ends at any step and starts again, its sends fail, a signal ends
a blocked call of a client.

A request stays in the daemon's queue when its sender ends; the daemon then
changes its table and fails to answer. This is why `Holds` counts a queued close
as a use.

`SocketService` is the abstract specification: a socket per key that processes
join and leave, that is withdrawn only when nobody has it, and that a restart takes
away from all. The refinement mapping (`Service` in `SharedSockets`) takes the
daemon's table for the sockets and, for a process that is connected to the running
daemon, its open `OBDIISocket`s for what it has joined.

### Requests: `Wire`

One turn of the daemon's loop for one datagram. The buffer keeps what it held
beyond the datagram, at first what the stack held. A 32-bit number is a pair of
16-bit ones, so that all of its values are within TLC's integers; the bytes of a
request are the ones a little-endian host packs. Datagrams are those of the
communication layer, for an 11-bit ECU, an interface number of two bytes and the
29-bit IDs of `README.md`, and others: cut short, too long, of another version or
type. `CharSigned` is the signedness of `char` in the build, on which the dump
depends: the daemon passes its bytes as `char`. What a dump that leaves its buffer
does to other variables is not modelled: `wire` has an unsigned `char`, where the
dump of every datagram is two digits a byte, and `dump` a signed one.

### The list: `ConnList`

Nodes are addresses with the fields of the structure; `heap` is what `malloc`
has handed out, and the memory of a freed node stays as it was. The property
`ImplementsTable` instantiates `OBDIIDaemon` with the table computed from the
list and states that each request is a step of one of its actions, reply
included.

### Queries: `Decoders`, `Query`

`Decoders` has no state. A command is a row of the tables: mode, PID, type, length
and decoder. A decoder is the index of the last byte it reads and the member of
the union it writes. Two decoders read as far as the length of the answer tells them
and allocate what they write: that of the trouble codes takes two bytes for each of
`(len - 2) / 2` codes, that of the VIN hands `len - 2` to `strncpy`, as a `size_t`
(`LastByteRead`).

`Query` has one ISO-TP socket, the processes with descriptors of it, and the ECU.
`flock` is modelled as it works: the lock belongs to the OFD, so that `LOCK_EX` by
any sharer succeeds at once. The ECU deals with requests in order and answers
positively, negatively (0x7F), with another length than expected if `OddLengths`,
or not at all, and as late as it likes; requests and answers that find their queue
full are lost. `select` fails only when the queue is empty. Of an answer the model
keeps the two bytes and the length that the code looks at; the field `to` is there
for the properties. The decoder runs as part of `Read`: it ends the process if it
is NULL or, for trouble codes, if `malloc` fails. A process that ends otherwise
inside a query is not modelled: it would leave the lock set, which delays nobody.

### The command line utility: `Cli`

`main` runs from one step to the next (`at`) and calls the queries of `Query`, to
which it returns (`ret`) either in `OBDIIGetSupportedCommands` or in the loop of a
selection. There is one process, and in the run its socket is not shared; with the
option `-d` and other processes on the socket, its queries are those of `query_shared`
and `query_shared_returns`, and need not return. `main` does not look at what
`OBDIICloseSocket` returns; what it does to the socket is in `SharedSockets`. Which commands are listed is left open (`Lists`), as `CommandSet` tells
how they come about; a list with the unwritten slot of `command_set_slots` is left
out. SIGINT may arrive at any step; the system calls it ends are the failing
actions. A line `-p <interval>` never repeats, because `repeatQuery` asks for two
scanned items and the interval makes three (`cli.c:163`), so that a line is one of:
a number, a number with `-p`, neither.

### Command sets: `CommandSet`

Bitfields are sets of bit numbers; the tables are sets of (mode, PID) pairs with
the sizes they have in `OBDII.c`; masks are intervals of bit numbers. The order
of the array is left out, as the loops visit the tables in order.

## Runs

| Run | Shows | Bounds |
|---|---|---|
| `sharing_faults` | the safety of sharing under crashes, restarts and failing sends; `Inv`; one socket per tuple for the clients of each incarnation; `SocketService` is implemented | 2 clients, 2 keys, 2 OFDs, queues of 2, 2 incarnations |
| `sharing_interrupts` | the daemon's nodes stay well formed when calls are interrupted | 1 client, 2 keys, queues of 3 |
| `sharing_returns` | every call returns unless the daemon it was sent to ends; the counts are exact while no client is lost; a code comes before its descriptor | 3 clients, 1 key, 1 OFD, queues of 2, 2 incarnations |
| `wrong_tuple` | *violated*: an open after an interrupted call returns the socket of another tuple | 1 client, 2 keys |
| `conn_list` | pointers, no lost node, the invariant `ListInv`, the table is implemented | 3 addresses, 3 keys, 2 references |
| `wire` | the daemon acts on what was packed and on nothing else | 3 tuples, datagrams of 0 to 20 bytes, a buffer of 18 |
| `dump` | *violated*: with a signed `char` the dump of a 29-bit ID leaves its buffer | 1 tuple |
| `query_shared` | success means an answer to the command; the lock is given back | 2 processes, 5 commands, 1 request and 2 answers on their way |
| `query_shared_returns` | *violated*: a query on a shared socket waits in `read` for ever | 2 processes, 1 command |
| `cli` | decoders and tables agree, memory is given back, SIGINT ends a repetition, queries return, on an unshared socket | one process, all 83 commands, each as the list of its own and 5 in one list; 1 request and 1 answer on their way |
| `command_set` | the array is large enough and lists what is supported | 4 bits at the edges of ranges and masks |
| `command_set_slots` | *violated*: with mode 9 PID 3 a slot stays unwritten | 2 bits |

Two clients are enough for every conflict between a user and the one who closes,
and two keys for a mix-up of tuples; three clients with a queue of two make a
sender wait. Two incarnations show every mix of sockets from before and after a
restart. Three nodes have a head, a middle and an end. Two queued answers and one
unanswered request let the late answer to one query be read by another while a third
is asked; there is no bound on the number of queries (`EcuLen` and `RxLen` bound the
queues, as an ECU and a kernel do). The lengths of `cli` are below, between and above
those of the tables, and 1 is the length of an answer without a PID. The buffer of `wire` is smaller than the 100 bytes of the
program and still longer than a request, so that a long datagram is cut. The four
bits of `command_set` are the continuation bit, the bits on both sides of the
mask 0xFFFC0000 and the last one in the mask 0xE0000000. `MaxEpoch` and `MaxRefs`
bound what is unbounded in the program.

Deadlock is not checked in the sharing, query and cli runs: with crashes enabled every
client may have ended and the daemon may be down for good, a client may wait for
a daemon that has died, every process may have died in a decoder, and the utility
ends. `conn_list`, `wire` and `command_set` check it.

### Fairness

`FairSpec` of `SharedSockets` assumes that the daemon's loop goes on (its steps
are weakly fair: a running process is scheduled), and that a client takes what
has arrived. Senders that wait for room in the daemon's queue are woken by the
kernel in turn, so `send` is strongly fair. No fairness is put on opening or
closing. `FairSpec` of `Query` assumes only that a process that is not blocked
runs on, which includes that the one-second timeout of `select` passes; nothing
is assumed of the ECU. `CliSpec` assumes the same of the one process; the user need
never type a line nor send a signal.

## What the runs found

The runs marked *violated* state what the documentation or a comment says of the
program; `findings` in `PROJECT.json` quotes the lines. In short:

1. flock does not exclude processes that share an open file description, which is
   what the daemon gives them; the exclusion `doc/daemon.md` speaks of is missing,
   and a query can lose its answer to another process and wait in `read` for ever
   (`query_shared_returns`).
2. A request ended by a signal leaves its reply behind for the next request
   (`wrong_tuple`).
3. Mode 9 PID 3 counts a slot that is never written (`command_set_slots`).
4. Where `char` is signed, the dump of a request writes eight digits for a byte from
   0x80 up; the top byte of every 29-bit ID is one (`dump`).

Behaviour that the models contain, that is plain from the code once seen, and that
has no run of its own: replies left by interrupted calls fill the client's queue
until the daemon blocks in the next reply (`DaemonNeverBlocked` fails if `Faults`
has "interrupt"); a restarted daemon opens a second socket for a tuple that clients
of the one before still have open, so that what sharers can rely on is one socket per
incarnation of the daemon (`OneSocketPerIncarnation`); a SIGINT that comes before a repeated query ends it after its
first round; a late answer shifts all later answers on a socket by one,
which is noticed when the commands differ (`AnswerMatchesCommand`) and not when they
are the same; a shared close leaves the client's descriptor open; the length check
of a query comes after `read` has cut the answer; the VIN message count has a NULL
decoder and ends the process that queries it; `OBDIICommandSetContainsCommand` does not know the DTCs command, which
every set lists.

## Proofs

All theorems hold for every value of the constants that satisfies the named
assumptions: a finite set of clients, `NoFD` not an OFD, positive bounds; commands
distinct in mode and PID; bitfields of 32 bits; finitely many addresses, `NULL` not
one of them; interface numbers and IDs of 32 bits and a buffer that a request fits
into. `CliProofs` also has the assumptions of `Cli` that the commands are the rows of
the tables and that the utility is one process.

* `SharedSocketsProofs`. `TypeTheorem` and `NodesTheorem` prove the types and
  `NodesWellFormed` for all faults; a socket is bound anew only when nothing refers to
  it, which is why bindings in use do not change. The other theorems assume that calls are not
  interrupted (`"interrupt" \notin Faults`; with interruptions they are false, see
  `wrong_tuple`) and follow from `Inv`. `RefcountCovers` is not inductive: that a
  close gives back the closer's own reference needs to know that a queued request
  is its sender's only one and that its sender waits for it (`QueuedInv`); that an
  open is counted once needs to know what is on its way to a waiting client
  (`ReplyInv`) and that nothing is on its way to others (`QuietInv`). `FdsInv`,
  `CallInv`, `ConnInv` and `DownInv` relate open sockets, descriptors and
  connections. There is one lemma per action, and one step per conjunct that the
  action can disturb. `NeverBlockedTheorem` also needs `QLen >= 2`.
* `RefcountProofs`. `ExactTheorem`: as long as all processes run, every reference has
  a user, so that with `RefcountCovers` the counts are the numbers of users. It assumes
  that sends do not fail either, since a lost reply leaves a reference with nobody.
  Each step keeps all users or moves the count by the one it adds or takes away. `Inv`
  is too weak for the receipt of a response code: a descriptor in its place would be
  dropped, and its reference lost. The strengthening is `CodeComesFirst`, which is a
  property of the replies in its own right (`CodeFirstTheorem`).
* `ServiceProofs`. `ServiceTheorem`: each step maps to a step of `SocketService` or
  to a stutter, for clients that are not interrupted. A close maps to `Leave` when it
  is sent, and to `Withdraw` when the daemon tears the node down, which is allowed by
  the lemma behind `TeardownTheorem` (`TeardownStep`); the receipt of a descriptor maps
  to `Join`, where `ReplyInv` says that it is the node's; a new socket is not one the
  table has, because those are in use; the daemon's end maps to `Restart`.
  `IncarnationTheorem`: while the daemon runs, all that its clients have or are about
  to receive is in its table (`ServedInv`); once it has ended its clients get nothing new
  (`OldGets`), so that they stay with what they shared. `PeersInv` says so of sockets
  and of descriptors that have arrived, and that a process that has ended is connected
  to none.
* `ConnListProofs`. The invariant `ListInv` says that there is a row of the nodes in
  use in which `next` leads to the right and `prev` to the left. An open puts a node in
  front of the row, the last close takes one out of any place of it, and the proof
  gives the new row each time. The search (`Reached`) is a recursive function; that it
  walks along the row is proved by looking at the least number of steps after which it
  would not (lemma `LeastNumber`), which takes the place of induction. From it follow `PointersTheorem`,
  `NoNodeLostTheorem` and, since the keys in a row differ, that the first node the
  search finds is the only one: `TableTheorem`, that each request is a step of
  `OBDIIDaemon`'s table. So what is proved of the table holds of the list.
* `WireProofs`. `ActsTheorem`: the bytes of a marshalled request are followed field by
  field through `pack`, the buffer and `asuint16`/`asuint32`. A datagram that has all of a request
  is accepted exactly if its version and type are known, and a short one never,
  whatever the rest of the buffer holds.
* `QueryProofs`. `AnswerTheorem` and `UnlockTheorem` follow from the types and the
  fact that each queued answer carries the mode and the PID of its request or is
  negative.
* `CliProofs`. Lemma `Rows` proves of each row of the tables that its length covers
  what its decoder reads, or that it is the trouble codes or the VIN, and that its type
  names what the decoder writes. For the VIN the theorem needs that an answer with a PID
  has two bytes at least, which `OBDIIResponseSuccessful` has tested (`ResponseInv`). `CliInv` adds
  to the invariant of the queries what the last one has left in the union and in memory
  at each place of `main`; `ReadsTheorem`, `MemberTheorem` and `MemoryTheorem` follow,
  for answers of all lengths and all lists of supported commands.
* `CommandSetProofs`. `ArrayTheorem`: each command the loops write, other than the
  three fixed ones, has a bit of its own; so the commands are at most as many as
  the bits. `ListTheorem`: `BitsInv` says at each query what the bitfields read so far
  are, a range being zero when it was not asked for or the query failed, and a command
  is in the array exactly if its bit is in the field of its range.

Only model-checked: the liveness properties `RequestReturns`, `QueryReturns` and
`InterruptEndsRepeat`, as fairness is out of the prover's reach. Every safety property
of the passing runs is also a theorem, under the hypotheses named above.

## Not modelled

* The values the decoders compute: most are formulas in floating point, which TLC
  has not; the bytes they are computed from are in `Decoders`.
* The log, but for the dump of requests; the Python bindings, which are declarations.
* Big-endian hosts: `pack` copies numbers in the order of the host, while
  `doc/daemon.md` and the daemon have them little-endian.
* Threads within one process: the library keeps `daemonSocket` in a static variable
  without a lock and does not claim to be thread safe.
* The opening of a shared socket by the command line utility is one step of `Cli`; its
  own steps, and what a signal in them leaves behind, are in `SharedSockets`.

## Plan

Done, in this order: the sharing protocol and its proofs, queries, command sets, the
list; the decoders, the command line utility, the bytes of requests, and the
abstract service with the proof of its refinement; then the proofs of the list, of the
command set's contents, of the requests, of the command line utility, and of the
exactness of the reference counts; then what sharers keep when the daemon ends. What is
left:

1. `SharedSockets`: what remains true of a client whose calls are interrupted, beyond
   `NodesWellFormed`.
2. `SharedSockets` over `ConnList`: the two are linked by `TableTheorem`; a composed
   module would state it as one refinement.
