# Verification of the systems programs in University

The repository collects course projects. Most of them are sequential programs, notebooks,
generated web applications and vendored packages. Six C programs have a core that is hard to
test; so has a browser game, written twice, whose handlers and timers share state; and a few smaller
programs share state between threads. This directory holds TLA+ models of the six C programs and of the
game, the TLC runs that check the models on small instances, and proofs, checked by TLAPS, that
hold for every value of the constants.

## Inventory

| Component | Source | State | Operations | Interaction | What is hard |
|---|---|---|---|---|---|
| Producers and consumers | `Operating Systems/Project1/main.c` | ring buffers, counters, semaphores, round counter, locals of each thread | `producer`, `consumer`, `reset_consumer_sems`, `main` | threads over shared memory and POSIX semaphores | unlocked loop conditions, early returns, rounds across buffers, deadlock |
| Download client | `Computer Networks/P3` | window of segments, file, count of saved bytes | `send_requests`, `get_messages`, `update_window` | UDP with a server outside the repository | loss, duplication, reordering, timeouts, slots used again, failing system calls |
| File system | `Operating Systems/Project2` | allocation table, file table, descriptors in memory; metadata and data on the disk file | `make_fs`, `mount_fs`, `umount_fs`, `fs_create/delete/open/close/read/write/lseek/truncate` | one client process, whose end is a crash | allocation in portions, full disk in mid-call, two descriptors on one file, restart from old metadata, decoding of the metadata |
| Distance-vector router | `Computer Networks/P2` | vector of networks with distance, via, silent turns | `send_vector`, `receive_vectors`, `update_no_respond`, `interface_unreachable_update` | routers over broadcast UDP | counting to infinity, silent neighbours, failing interfaces, a vector of fixed size |
| HTTP server | `Computer Networks/P4` | receive buffer, request, timer of the connection | `read_request`, `fill_buffer`, `parse_line`, `send_reply` | one TCP connection at a time | requests split over reads, several in one read, timer against input, keep-alive |
| Box game | `WWW Course/Lista4/Zad3`, `Lista5/Zad3` | game object, handlers, intervals, timeouts, classes of the boxes, `localStorage` | `gameStart`, `restart`, `gameEnd`, `centralBoxEnter/Leave`, `boxEnter`, `timer` | mouse events, timers and reloads of one page | timers whose number is lost, handlers bound twice, restarts halfway |
| Traceroute | `Computer Networks/P1` | three time stamps, addresses seen | `main`, `send_icmp_request`, `pick_messages`, `check_message`, `unique_ip` | raw ICMP | late answers, answers out of order, identifiers of 16 bits |
| Sleeping barber | `Programming in .NET/3.3/Zad4`, `Zad4sem` | free seats, clients left, three semaphores (or monitors) | `ClientProc`, `BarberProc` | threads | bounded semaphores, monitors used without their lock |
| Command invoker | `Design Patterns/Lista8/Zad1` | queue, manual-reset event | `AddCommand`, `HandleCommands` | one client and two worker threads | a lost wake-up, two workers that both saw the last command |
| Singletons | `Design Patterns/Lista4` | instances, time of creation | `GetInstance` | threads | a dictionary read without the lock |
| Memento caretaker | `Design Patterns/Lista7/Zad2` | undo and redo stacks | undo, redo, save | a form | none: sequential |
| Sextium compiler | `Programming/Compiler Project` | none | a Prolog translation | none | a pure function over unbounded programs |
| Crawler, log server | `Programming in Ruby/lista8`, `lista7` | visited pages; next client id | `przeglad`, `assign_id` | threads, network, SQLite | test-then-act without a lock |
| Beer ranking, visits service | `Programming in Ruby/rails`, `WWW Course/Lista8` | database tables | controllers | HTTP | a score read, changed and written back |
| Rest | other JavaScript, Arduino, neural networks, artificial intelligence, evolutionary algorithms, computer architecture, packages | | | | exercises, numerical notebooks, third-party code |

What makes the modelled components correct:

- *Producers and consumers.* One thread at a time uses a buffer; nothing is put on a full buffer
  or taken from an empty one; products leave in the order they came; no token is lost on an
  early return; consumers stay within one product of each other; every thread ends.
- *Download client.* Whatever the network does, the file is a prefix of the data, and the client
  ends with success only when it is complete; if requests are answered in the end, it ends.
- *File system.* A block belongs to one file; what is read is what was written; a descriptor
  stays on its file; a file has the blocks its size needs; after a crash the disk is as
  consistent as at the last `umount_fs`; what was saved is what is loaded.
- *Router.* A distance is never shorter than the shortest way; a network whose router has gone
  silent is given up, and no other one; when failures end, the vectors settle on the shortest ways.

- *HTTP server.* Clients are served in turn, and each gets the answers to its requests in their
  order, however the text is cut into pieces; no answer depends on an earlier request; a silent
  client costs one second and no more, and nobody waits for ever.
- *Box game.* The clock runs once, where it should, and can be stopped; boxes shown and boxes counted
  agree; results survive.
- *Traceroute.* The average that is printed is that of the true times, whatever order the answers
  come in; the trace ends at the destination, only there, and in any case.

`PROJECT.json` lists the hazards behind these properties, each at its line.

## Modules

| Module | Models | Role |
|---|---|---|
| `SynchronizedBuffers` | | what the producers and consumers promise: bounded FIFO buffers, consumers that wait for each other |
| `ProducerConsumer` | `Operating Systems/Project1/main.c` | threads and semaphores; implements `SynchronizedBuffers` |
| `MCProducerConsumer` | | instances for TLC |
| `ProducerConsumerProofs` | | theorems about `ProducerConsumer`, and that it implements `SynchronizedBuffers` |
| `Transport` | `Computer Networks/P3` | the client, its clock, the network and the server |
| `MCTransport` | | instances for TLC: the stray datagrams |
| `TransportProofs` | | theorems about `Transport` |
| `FileStore` | | what the file system promises: named sequences of bytes, descriptors, a durable copy |
| `FileSystem` | `Operating Systems/Project2/filesystem.c`, `disk.c` | tables, portions and blocks; implements `FileStore` |
| `MCFileSystem` | | instances for TLC, symmetry of the names |
| `FileSystemProofs` | | theorems about `FileSystem` |
| `FileSystemRefinement` | | that it implements `FileStore` |
| `Routing` | `Computer Networks/P2` | routers, their sockets, networks, failures |
| `MCRouting` | | instances for TLC, a specification with fewer interleavings |
| `RoutingProofs` | | theorems about `Routing` |
| `HttpService` | | what the HTTP server promises: clients served in turn, each answered request by request |
| `HttpServer` | `Computer Networks/P4` | the server, its connections, its clients; implements `HttpService` |
| `MCHttpServer` | | instances for TLC: scripts and a site, a specification with fewer interleavings |
| `HttpServerProofs` | | theorems about `HttpServer` |
| `BoxGame` | `WWW Course/Lista4/Zad3/script.js`, `Lista5/Zad3/script.js` | both pages of the game |
| `MCBoxGame` | | instances for TLC, symmetry of the boxes |
| `BoxGameProofs` | | theorems about `BoxGame` |
| `Traceroute` | `Computer Networks/P1` | the program, its clock, the routers and other programs |
| `MCTraceroute` | | instances for TLC: who answers, the stray packet |
| `TracerouteProofs` | | theorems about `Traceroute` |

Definitions called *faulty variant* in the modules are no part of a specification. Each is a
mapped definition with a plausible mistake; put in its place, it makes TLC find one of the
properties violated. `PROJECT.json` pairs them ("mutants").

### ProducerConsumer

A thread is a program counter `pc[t]`; an action is the code from one semaphore operation, or
one unlocked read of shared data, up to the next. `Loop` is the unlocked loop condition
(`main.c:92`, `145`), `ReserveSlot`/`ReserveProduct` the wait for a token, `Enter` and `Leave`
the buffer's own semaphore, `FindLimit` the early return, `Put` and `Take` the work on the
ring, `EnterCount` to `WaitRound` the end of a round with one step per turn of
`reset_consumer_sems`. Both kinds of threads share the actions that their code shares. Semaphore
operations are full barriers, so an unlocked read returns a value from before or after a
concurrent increment, which are two interleavings. The product is drawn when it is put, since
nothing looks at it between. Printing is its two semaphore operations. `main` joins the threads;
a failing `pthread_create` or `malloc` is not modelled.

`_Consumers_left` counts the consumers of all buffers, so the buffers are not independent.

### Transport

The loop of `main` runs `send_requests`, `get_messages`, `update_window`; each turn of the loops
in them is an action, and `Fail` ends the program between any two, with part of a segment
written if it is `fwrite` that fails. A byte of the data is its offset. A clock is not needed:
`segments[x].waiting` says that the timeout of the last request has not passed yet, and
`Expire` ends that. Requests stay in `requests` until lost, so that they are answered any
number of times and in any order; a reply goes to `replies` until it is read. `Strays` are
datagrams of other hosts or other requests; they test the filters of `get_messages` and
`is_datagram_foreign`. `StraysAssumption` says that the server sends none that looks like an
answer to a request of this run; a datagram has no identifier beyond start and length, so the
code has to rely on that as well.

### FileSystem

`dat`, `file_count`, `entry`, `fildes` are `fs_dat.blocks`, `fs_fat.file_count` and the non-NULL
elements of `fs_fat.entry` and `fs_fildes`; `saved` is the metadata on blocks 0, 1 and 2+i of
the disk, `disk` its data blocks. Files keep their list of portions as in the code. A byte
written is the name of the file, its offset and the version of the write, so that a byte in a
wrong place is seen.

A call is one action, but `fs_write` and `fs_truncate` take one action per turn of their loops
(`StartWrite`, `WriteOn`, `WriteGrowing`, `EndWrite`; `StartTruncate`, `TruncateOn`); `call` keeps
their locals. The bytes of one block are copied in one step, as they go to the disk in one
`block_write`. `Exit`, the end or death of the process, is possible everywhere except inside
`umount_fs`, and it loses all memory. Calls that return -1 without a change are left out.

Two details of the C program are in the model because they matter to its properties. The byte
after `fs_dat.blocks` is `fs_fat.file_count` in the program that the makefile links, so the read
past the table at `filesystem.c:597` finds a number that is not 0 and the file does not grow
past the disk (`IsFree`). And `load_meta` decodes two-byte numbers from a `char` buffer, which is
signed (`Signed`, `Reload`; `Radix` stands for 256).

Not modelled: dying within `save_meta`, errors of the underlying file, descriptors that are not
open, the size of an index block (`save_meta` writes the portions of a file into a single one, at
`filesystem.c:191-201`, which has room for 1024; the model saves any number), and the heap errors at `filesystem.c:39`, `510` (a read that ends with the last block looks
at the portion after the last one and drops what it finds), `812` and `831`.

### Routing

`vector[r]` is router `r`'s `Vector` as a function from networks to elements (`distance`,
`is_neighbour`, `via_ip`, `no_respond_turns`, the last counted up to one more than its threshold);
`phase[r]` and `next[r]` say where in the loop of `main` it is. `Announce` is
`neighbour_messages` with the `update_no_respond` at the start of `receive_vectors`; `Receive` is a
turn of the loop of `receive_vectors`, `Timeout` the `select` that ends it; `SendVector` and
`SendFails` are a turn of the outer loop of `send_vector`, without and with
`interface_unreachable_update`; `EndTurn` goes back to the top of `main`.

An interface is the pair of its router and its network, which is its address too. The datagrams of
one loop travel together as a report, a function from networks to datagrams: each changes only
the element of its own network, so their order does not matter, and `Lose` can take one out. A
broadcast is heard by the working interfaces of the network, the sender's own included, which is
how a router learns that its interface works. `init_vector` leaves `via_ip` uninitialised:
`Leftovers` are the addresses that may be there. `Fail`, `Repair`, `Stop` and `Restart` are the
environment, `MaxChanges` of these and of the losses.

Every router waits for seven seconds per turn. `turned` says that for the model: a router does not
come to its next timeout before all others have sent their vector once. Within a period the
order is open, so that a router may hear nothing from another one in one turn and two vectors
in the next.

Not modelled: a failing `select` or `recvfrom`, which ends the program; a `sendto` that fails in
the middle of a vector (all or none fail, since an interface does not change within the loop); the
size of 50 of the vector; datagrams of strangers; addresses as numbers (`own_network` and
`memcmp` compare networks without masks, here networks are different if their addresses are).

### HttpServer

`pc` is where `main` is: in `accept`, in `read_request`, in `send_reply`, or before `Close`. `buffer` is what
lies between `buffer_readen` and `buffer_len`, `line` and `newlines` are locals of `read_request`, `req` the
fields of `Request` that a reply depends on, `tv` the timer. `ReadChar` is a turn of the loop for one
character, with `parse_line` at the end of a line; `Fill`, `EndOfInput` and `TimeOut` are the outcomes of
`fill_buffer`; `EndRequest` is the rest of `read_request`, with `check_realpath`; `SendReply` and `SendFails` are
`send_reply` with what `main` does after it; `Fail` is a wrapper of `sockwrap.c` that ends the program.

A client sends the text of its script character by character, may end its side or reset the connection
anywhere, and does so also before it is accepted. A line is the name of its field and a
value, each standing for one character; a line with a third one is too long. `Site` says what is at
each path of each host: a file, a folder, nothing, or something outside of the catalog. `Tick` is the
time that `select` waits; Linux's `select` takes it off the timer, which the code relies on.

In `HttpService` a request is answered when its text has come, and the answer is computed from the whole
request. So the refinement compares what `read_request` collects, character by character and over the
pieces of the buffer, with what a request says; and it says that answers come in order, none twice,
none before its request, none after an error, and none to a client whose turn it is not.

Not modelled: `connection_close`, which is set by the wrong lines and never read; `version`, which an error
reply to a request without a GET line copies from whatever the struct held; the wording of replies;
slashes; the sizes of the arrays for paths and types in `send_replies.c` and `utils.c`, and that of `version`,
into which `get_requests.c:84` copies without looking at its length; the 0 that `Recv` puts after the bytes it got
(`sockwrap.c:43`), which after a full buffer goes one past it, into `buffer_len`, just before that is set; a `send` that waits
because the client does not read; the limit of 64 waiting connections.

### BoxGame

The two scripts are one game, first with `addEventListener`, then with jQuery; `page` says which is open.
`handlers` counts how often the handlers are bound: `addEventListener` binds a function once (`BindOnce`),
`mouseenter` once more at every restart (`BindAgain`), and all of them run in one event. A browser
gives every timer a number, and the game keeps the last one: `intervals` and `timeouts` say
whether the kept one is alive and how many others are. Leaving one place and entering the next
are one step, since no timer runs between the two events. `Load` is a reload, at any time: nothing
but `stored` is left. `Sorted` is one of the orders of a list (`Orders`) that rises; it is
not `SortSeq` of the module `TLC`, of which nothing can be proved. Where the boxes are and how the time is printed is layout.

### Traceroute

`pc` is where the program is: sending the three probes of a turn, in `pick_messages`, or before the
printing of its reply. `SendProbe` is a turn of the inner loop of `main`, with the time stamp after `sendto`;
`Receive` is a turn of the inner loop of `pick_messages`: `check_message` (`IsOurs`), the time
stamp (`Count`), `unique_ip` and what follows from it (`ListAddress`); going back to `select` between two packets
changes nothing. `TimeOut` is `select` when nothing waits and its second is used up, `Fail` a system
call that fails, `PrintReply` the rest of a turn of `main`. `listed` is what both `reply` and `ips` hold.

`Packets` are what `check_message` sees of an answer. It sees no number of the probe, since the three probes
of a turn are the same; `probe` is in the model for the property only. So are `counted`, of which
the program keeps the length (`packet_num`), and `sent_at`. The times are `now`, which starts again in every
turn because only differences within a turn are used, and `left`, what Linux's `select` has left of the timeout.
A probe stays in `net` until it is answered, perhaps in a later turn, perhaps twice, or never. `Strays` are
the packets of other programs; `StraysAssumption` says that they have another identifier. The identifier of a
probe is the process id cut to 16 bits (`Probe`), while `check_message` compares it with the whole one.

Not modelled: a clock that is set while the program runs (`CLOCK_REALTIME`); a probe that is answered before
its time stamp is taken; the length of `reply`; checksums; the layout of the output.

## Runs

| Run | Instance | Checks |
|---|---|---|
| `pc_one_buffer` | 2 producers, 2 consumers, one ring of 2 slots, limit 4, 2 products | exclusion, token accounting, ids, rounds, FIFO refinement, termination with everything consumed |
| `pc_uneven_limit` | limit 3 with 2 consumers | **violated:** termination; the last round never ends |
| `transport` | 4 segments (the last one short), window of 2, stray datagrams, failures | file is a prefix, slots, filters, completeness; the download ends |
| `fs_files` | 2 files, 2 descriptors, 3 blocks of 2 bytes, 3 writes or truncations | reading back, descriptors, refinement of `FileStore` |
| `fs_restart` | 2 files, 1 descriptor, 2 mounts, 4 writes or truncations | ownership of blocks in memory and on disk, sizes, crash |
| `fs_delete_leaks` | as `fs_files` | **violated:** `fs_delete` frees the blocks |
| `fs_reload` | bytes of 4 values | **violated:** what is loaded is what was saved |
| `routing` | 2 routers with 2 networks in common, one behind the first; limit 4, 2 failures, repairs or losses | distances, silent routes, no false alarm, convergence |
| `routing_failure` | the same, 1 failure | **violated:** a failed interface makes the routes through it infinite |
| `http` | a client with 1 or 2 requests (7 scripts), a silent client, buffer of 4, timeout of 1 | answers as `HttpService` promises, all of them; one second in all; everyone is served |
| `game` | 3 boxes, either page, 3 games, time up to 7, 3 bound handlers or stray intervals | timers, counts, results |
| `traceroute` | 3 turns, timeout of 2, destination at the second hop or beyond the reach, 1 answer to another program or answered twice | average, end at the destination, the trace ends |

Why the bounds are enough for the questions asked:

- The rings are filled, emptied and wrapped around, two rounds are run, and there are as many
  threads of a kind as it takes to contend for a token, an id and the end of a round. The
  limit is a multiple of the consumers of a buffer, except in `pc_uneven_limit`.
- Every slot of the window is used twice (4 segments, 2 slots), so that an answer may come to a
  slot that serves another segment. The network itself has no bound: requests and replies are sets.
- Three blocks are the fewest for a file of two portions with another file's block in between,
  and for a disk that is full in mid-call. `Amounts` {0, 1, 3} give writes within a block, up to
  its end and across it. In `fs_restart` the second mount works on a disk that the first left
  with files, also after a crash. `MaxSize`, `MaxMounts` and `MaxUpdates` bound the search,
  `Amounts` the arguments; the other constants are sizes of the program, made small.
- `Radix` is 16 in the runs that ask about something else, so that no number is read back wrongly,
  and 4 in `fs_reload`, where block 3 has a byte with the sign bit as block 4096+128 has in the program.
- As in the repository's test programs, a process mounts once (`MemoryIsFresh`).
- Two routers joined twice are the least that can count up between them, have a second way and
  prefer one; the limit lets them count for several turns. N0 is beyond the limit over N2 and
  N2 itself at the limit by the detour. Two changes are a failure and its repair, a router that
  stops and comes back, or two losses. `MaxSilent` is 2 where the program has 3: as routers of
  one period may be a whole turn apart, 1 would give false alarms.
- `EagerSpec` leaves out interleavings: what is in a socket is received at once (unless it is
  lost), and no router steps while another is in `send_vector`, which does not wait. Receiving
  changes only the vector of the router, and all its values are visited. `routing_failure` and the
  proofs are about `Spec`, with all interleavings.

- A request of two lines has 8 characters, so that a buffer of 4 is filled several times for each and a piece
  may hold the end of one request and the beginning of the next. The scripts have a second
  request that lacks, repeats or spoils what the first one gave, headers in either order, two values of
  one field, a line that is too long, and every outcome of `send_reply`. With the silent client in front or
  behind, the queue is used in both orders.
- `EagerSpec` of `MCHttpServer` leaves out interleavings: while the server works on its buffer, which
  no client sees, nothing else happens; and a client sends nothing before it is accepted, as the server
  does not look at its socket before, and what it would have sent comes between `accept` and the first
  `recv`. The proofs are about `Spec`.
- Three boxes are visited in any order and again; a penalty of 3 is more than a tick; three games give results
  to sort. `MaxTime`, `MaxHandlers`, `MaxIntervals` and `MaxGames` bound the search.
- Three turns are one before the hop where the destination may answer, that one, and one after it, so that late
  answers of a turn come in the next and the trace may go on behind the destination. With a timeout of 2 and one
  tick more outside of `select`, the three answers may come at three different times. The destination also
  answers another program, with the number of the second turn. `MaxBusy`, `MaxExtra` and `MaxSocket` bound the
  search: a socket of one packet loses what comes before it is read.
- The rounds of `ProducerConsumer` go over all buffers, while the runs have one. The theorems are about any
  number of buffers; that several buffers terminate, although their rounds couple them, is not checked.

Deadlock is checked in all passing runs but `routing`, where both routers may be stopped for good,
and `http`, where the server waits for clients that do not come or has exited; a finished `ProducerConsumer`, `Transport` or `Traceroute` stutters, and the file system and the game can always go on.

### What the violated runs show

- `pc_uneven_limit`: with a limit that the consumers of a buffer do not divide, consumers that got
  a product of the last round wait for a round that cannot end.
- `fs_delete_leaks`: the loop that should free the blocks runs from a block number to a length, that
  is, not at all. Deleted files use up the disk for good. `BlocksOwned` holds nevertheless: blocks
  are lost, never shared.
- `fs_reload`: a portion that starts at block 4096+128 has another start after a restart. The
  program `test1` writes files that reach such blocks in new portions and `test2` can open the same disk.
- `routing_failure`: `interface_unreachable_update` compares `via_ip` with the address of the failed
  interface, and no route leads through that. The routes meant are dropped only by silence.

`Settled`, what the vectors converge to, has two limits that the code sets. A router with a failed
interface makes that network infinite in every turn, though there may be a detour: it
loses and finds the detour again and again (`Broken`). And a router's own broadcasts keep alive a route to an
attached network that leads through another router (`vector.c:302`); if that router dies, the
route stays for ever. With A's distance for N2 3 and all others 1, TLC finds `Converges` violated in
this way; the run gives all interfaces of a network one distance, where the direct way is shortest.

Five more disagreements have no run of their own. `umount_fs` leaves the file table in memory and `load_meta`
writes over its first rows only, so that a process that mounts again after a deletion has some file
twice; the model does not mount twice. `p4.pdf` asks that a connection be closed after a request
with `Connection: close`; the server never does, and its client waits for the timer. And the sheet
of the game (`tint-lista04.pdf`) says that time does not count over the central box; on the jQuery
page it does after a restart in mid-game, since the handlers are then bound twice and each way out of
the box starts two intervals. `OneClock` excludes just that case: without `page = "Lista4" \/ ~restarted` TLC
finds it violated. In traceroute, the comment at `pick_msg.c:102` says that the address of a new router is added;
the third answer leaves the loop at line 96 before that, so that a router or the destination that answers
third is neither listed nor noticed, and the trace may go on behind the destination: `StopsAtDestination`
excludes just that answer. And `check_message` compares 16 bits with a whole process id (`pick_msg.c:155`): in a
process with a number of 65536 or more every hop is printed as `*`.

## Fairness

Every behaviour of `ProducerConsumer` is finite (counters only grow up to the limit), so all
that is assumed is that some thread that can run does run: `WF_vars(Next)`. No fairness between
threads or semaphores is needed.

`Transport` assumes that the client runs on and its clock advances (weak fairness of `Client`
and of each `Expire`), and that a request repeated forever is answered in the end and the answer
read (strong fairness of `Serve` and `Receive`, as the network may lose a request any number of
times but not always). Without the last no retransmission helps. `FileSystem` is a library
without loops that wait: safety only.

`Routing` assumes of every router that runs that it goes on (`WF_vars(RouterStep(r))`); `select` with a
timeout makes that true. Nothing need be repaired or restarted, and losses come to an end by
`MaxChanges`, which is the premise of convergence.

`HttpServer` assumes that the server runs on and that time passes while it waits (`WF_vars(Server)`,
`WF_vars(Tick)`). Clients need do nothing: `EveryoneServed` holds because the timer ends the wait for a silent
one, scripts are finite, and clients read what they are sent. It excuses a server that has ended: `Recv` exits when a
client resets its connection (`sockwrap.c:41`), and nobody is served after that. `BoxGame` depends on its user: safety only.

`Traceroute` assumes that the program runs on and that time passes while it waits (`WF_vars(Program)`,
`WF_vars(Tick)`). Routers need not answer. `MaxExtra` makes the foreign packets finitely many, which
`Ends` needs: `pick_messages` looks at its timeout only when no packet waits.

## Proofs

Assumptions: the named `ASSUME`s of the modules, which say that sizes are positive numbers,
thread sets are finite and disjoint, every buffer has the same number of consumers, strays do not
look like answers, a router has one interface on a network, with a positive distance, a client's requests
consist of lines that are not empty and hold no line ends (`ScriptAssumption`: an empty line is what ends a request),
each host has something at every path that is asked for, if only nothing (`SiteAssumption`), and the boxes are a
finite set of elements beside the central box and the restart button.

`TransportProofs`. `FileIsPrefix` is not inductive: it says nothing of what is about to be
written. `IInv` adds that exactly the segments below `first_segment` have been written (`Upto`),
that each received slot of the window holds the segment whose number is congruent to the slot
(`SlotsHoldWindow`), and that requests and replies are for segments below the upper end of the
window (`RequestsBelow`, `RepliesBelow`). The last part is what makes the missing upper check of
`get_messages` harmless. `ModInjective` says that two segments of one window do not share a
slot; `SegmentsCover` and `RequestIsSegment` deal with the short last segment. There is one lemma
per kind of step. From `IInv` follow `FileAlwaysPrefix`, `DoneComplete`, `SlotsAgree`,
`NoneAboveWindow` and, as an action property, `ReceivedKept`.

`ProducerConsumerProofs`. `TypeCorrect` goes through all actions. `Exclusion` adds to
`BufferExclusive` that the semaphore is 0 or 1 and 0 while somebody is inside (`AccessInv`).
`IdsUnique` adds that the holder of `id_sem` has the number that is next, and that as many
consumers have a number as were given out, which bounds ids by the size of `_Consumers_sems`
(`IdInv`). `TokensAccounted` counts threads: `CountOne` says how the cardinality of a set changes
when one thread moves in or out, `Balance` that a step whose changes of tokens, threads and
products add up to 0 keeps both sums; each action then only has to give its three changes.
`TokenFindsProduct` follows: the early return of `consumer` is never taken.

That consumers stay in step says nothing of the semaphores that keep them there.
`RoundInv` adds who counts (`CountMutex`), that a consumer's semaphore has a token only while it is on its way
out of the round (`SemsInv`), how far `reset_consumer_sems` has come and that nobody it has not come to has left
(`ResetInv`), that `_Consumers_left` is the number of those who have not arrived (`LeftInv`), and that there is
a round `r` in which a consumer has taken `r` products or, if it is `Ahead`, one more. `ConsumersInStep` follows
(`RoundsInStep`). For the refinement, `RingInv` says that `produce_pos` is `consume_pos` plus what is stored;
then the queue of the abstract specification is the part of the ring between the two, `Put` appends to it,
`Take` removes its head, and every other action leaves it alone (`Implements`).

`RoutingProofs`. `NeverTooShort` compares distances with every function `f` from routers to distances that
exceeds nowhere the cost of a direct way or of a step to another router (`LowerBounds`); the
shortest distances are the greatest of these, and need not be computed. `LowInv` adds that no
report on its way says less than `f` of its sender; `DistanceBound` is the one step where costs are
added. `SilentDropped` is inductive with the types: `HeardRouteDropped` shows that a route
that changes either is direct or goes through the router just heard, whose count starts again.

`NoFalseAlarms` needs at least two turns of patience (`MaxSilent >= 2`; the code has 3). With one turn it is false, and TLC
shows why on the instance of `routing`: a router counts a turn, comes to its timeout and counts the next one before a
neighbour has sent its vector for the first time since. `QuietInv` makes an account of that. `Bound` is how many
turns an element may have been silent: the turn its router is counting (`Counted`), and one more if its router has
had its timeout of the period (`HadTurn`) and the router of the route has not yet sent on that
interface (`SentOn`). If a report is still in the socket (`Waits`), it is one more than the turn that is counted. No element has then
been silent for more than two turns (`QuietSilent`), so it is advertised, so the next broadcast puts a report in
the socket of everybody whose route leads there (`QuietSendVector`), which closes the circle. A report that is taken starts the
count again or leaves the route alone (`UpdatedCounts`), a timeout finds the socket empty (`QuietTimeout`), and at the end of the
period `HadTurn` and `SentOn` fall together (`QuietEndTurn`). The only thing used of the time is that of `Timeout`:
no router has a second timeout before the others have had one.

`HttpServerProofs`. `SecondIsASecond` rests on `TimerHeld`: what select has left and what the server has
waited make up the second; each action that resets the one resets the other. `TypeCorrect`, with the
bounds of the two character arrays, needs in addition that clients keep to scripts made of text.

`AllAnswered` and `KeepsPromise` speak of the end of a connection and of each reply; neither says where the server is
in what its client sends. `DueInv` does. What a client has sent is the beginning of its text, of which the socket holds
the end and the buffer what comes right before (`InSocket`, `InBuffer`), so `Taken` characters have been read. While
the server reads, that is the beginning of no further request (`AtNoRequest`), or some place in a line of the current
one (`AtPlace`: `line` is that much of the line, `newlines` counts the line ends just before, `req` says what the lines
before say, and these were short enough), or its end (`AtEnd`); while it replies, `req` is what the whole request
says (`AtReply`). The replies so far are the answers to the first requests (`Answered`), and a client that the server
is done with is due no other: it has no more requests, or the last answer was an error, or a line is too long,
or it has ended its side within a request (`Settled`). `ReadCharPlaced` is the heart of it: from every
place, the next character of the text leads to the next place. `EveryoneAnswered` and `PromiseKept` follow, for any
clients, requests, site and buffer: `DueExactly` and `DueAtLeast` say which replies `Due` consists of.

A text is put together by `FlattenSeq`, a recursive function. `UpToInduction`, as below for the file system, gives
`FlattenIs` and `UptoHolds`: the text is what each part adds to those before it, and each part is found at its
place. `CharAtPlace` is what the rest uses of that. The proofs led to two changes of the model: `Answer` and `Code` were
written with `CASE`, whose arms overlapped, so that for some requests their values were left open; and the assumption
that requests are text did not exclude empty lines.

`BoxGameProofs`. `TimersHeld` speaks of a clock that runs; it is not inductive, since a clock may be started
when none runs. `ClockHeld` adds what holds also then: the handlers are bound once at most and no
interval has been lost. The number of boxes needs `ScoresMatchBoxes` to stay within its type, so all parts are
proved together. For `ResultsKept`, sorting after each game has to be sorting once (`SortedAppend`). No induction is
needed: a list and what sorting makes of it have the same orders, since a bijection
after a bijection is one (`OrdersOfOrder`), and what has the same orders is sorted alike (`SortedByOrders`). That every
list has an order that rises (`SortedExists`) is a matter of counting: the place of a time is the number of
times that do not come after it, which is different for each of them.

`TracerouteProofs`. That the average is right says nothing of the answers that are still to come. The inductive
invariant `Inv` adds what a time stamp is at any moment: when a probe was sent, as long as no answer has
been timed against it, and then the time of that answer less the time of that sending (`StampsAgree`); that counted
answers are to probes of this turn (`CountsOwn`); that `dest_reached` is set when the destination
is among the first two counted, and only if it is counted (`ReachedAgrees`); and what is known of the counters in each part of the loop
(`Stages`). With three answers the stamps add up to three times of answers less the three times of
sending, and so do the true times, since three different probes are all three of the turn.

`FileSystemProofs` has two inductive invariants. `TablesInv` adds to `TypeOK` what the locals of a call in
progress may be (`CallInv`), the types of the metadata on the disk (`SavedInv`), that names differ and
descriptors refer to the file of their name, in memory and after a restart (`NamesInv`), and that `file_count`
is the number of rows in use (`CountInv`). `TypesKept` and `DescriptorsStayValid` follow for every run, also
one that reads its metadata back wrongly.

`BlocksInv` says where the blocks are. A list of portions is `Tidy` if its portions are on the disk, are not
empty and do not overlap; `Kept` says that the files of a table are tidy, marked and apart. `MemoryInv` and `DiskInv` claim
that of the two tables, and that every file has as many blocks as its size needs; a file that is being written has
one for its position as well, and one that is being truncated fits at every turn (`BlocksHeld`, `CutInv`);
`PositionInv` says that a write in progress is in the block of its position, counted from the beginning of the
file. `GrownIs` and `ShortenedIs` are what one more and one less block do to a tidy list, `WalkFinds` where the
walk of `fs_read` and `fs_write` ends. `BlocksStayOwned`, `SavedTableStaysSound` and `SizesStayCovered` follow.

These have the premise `[]LoadsWhatWasSaved`. It is no property of the program: `fs_reload` refutes it, and after
a portion came back with another start blocks *are* shared. So the theorems say that this is the
only way in which a file comes to share a block or to have one that is free. Two theorems say when the premise holds, for all sizes, those the program is
shipped with (4096 data blocks from number 4096 on, 256 values of a byte) among them. `LoadsExactlyReadable`, which has no
premise, says that a restart loads what was saved if and only if both bytes of every number in the saved rows
are signed bytes (`Readable`): numbers of portions, starts and lengths. `FewBlocksLoad` says which runs are safe: those in which
`umount_fs` never finds a block in use beyond the first `Radix \div 2 - 1` of the disk, each with a `Readable`
number (`FewBlocksSaved`). On the shipped disk these are the first 127 blocks, 4096 to 4222, and their
numbers are `Readable` (`ShippedSizes`); a file in one portion of 128 blocks is already spoilt. Why it is
enough: the saved files are tidy and marked (`DiskInv`), so starts are numbers of such blocks, and there are no more portions, and
none is longer, than there are such blocks (`PortionsFit`, `FewReadable`). `FewBlocksSaved` is about the saved
table only: whatever is written between two calls of `umount_fs`, and lost in a crash, does not matter.

Contents need the order of the blocks. `FileBlocks` folds over the portions, `Walk`, `Rows` and the walk inside
`ReadBytes` are recursive functions. There is no induction theorem to cite, but least elements are enough: natural numbers have
them (`LeastExists`), so a set that has 0 and is closed under +1 up to n has all numbers up to n (`UpToInduction`), and
a function given by its first value and its steps exists (`RecursionExists`), which is what CHOOSE needs. With that,
`FileBlocksAre` gives the k-th block of a file by the position it is at, `PlacesAre` says that going on block
by block comes to the same one, and `ReadIs` puts bytes together. `ReadsReturnContent` is `ReadsBack` for all sizes.
`CrashKeeps` is an action property: the block that is written is one of the file's own, which a saved file that has
kept its blocks, and is not this one, does not have, since memory and disk agree about it (`Kept`).

`FileSystemRefinement` proves `KeepsFiles` under the same premises (`StoreKeepsFiles`, `FewBlocksKeepFiles`): every
step of the library is a step of `FileStore` or none. `StoreIs`, `HandlesAre` and `DurableIs` unfold the refinement
mapping once, and there is one lemma per action. `Begins` says that a list of portions is the beginning of another;
the blocks of the shorter one are then the first blocks of the longer one (`BeginsBlocks`), so that neither the
block which a write allocates in advance nor the blocks which a truncation frees one by one change the
bytes of the file. `KeepsPiece` is one turn of a write: the byte of each offset of the piece is in its place
(`PieceWritten`), all other places of the file are left alone (`PieceLeaves`), and so is every other file, whose
blocks are apart. `FileStore` has a writer change what the disk would give back after a crash, since the data
of a file are written before its metadata; `DurableSizes` says that this changes no file's existence or length.

Only model-checked: liveness (`Termination`, `Completion`, `Converges`, `EveryoneServed`, `Ends`), which is out of the prover's
reach under fairness. Every other property of a passing run is stated by a
theorem, with a premise where said above (`LoadsWhatWasSaved` or `FewBlocksSaved`, `MaxSilent >= 2`).

## Not modelled

The reasons per component are in `PROJECT.json`. Most of the repository's JavaScript is third-party code that is
checked in with the exercises (jQuery, Bootstrap, Modernizr, validation plug-ins and their editor
annotations under `Design Patterns/Lista3/Lista3/packages` and in `wwwroot` directories): it is not this
repository's logic and is not modelled; what the box game uses of jQuery (`mouseenter`, `off`) is modelled from
that use. The rest of the repository's
own JavaScript is under `Javascript Course` (language exercises such as iterators and closures, small Express
applications whose handlers are one step each over cookies, sessions and forms, straight-line database
scripts) and `WWW Course` (form checks, a table with dialogs, a map page): sequential code
whose callbacks share little. The map page (`Lista11/script.js`) is the one that keeps a state over events,
the marker the user has chosen, which its delete button at lines 51-59 takes off the map and the list and
does not forget.

## Plan

1. Done: `ProducerConsumer`, `Transport`, their abstract specifications and runs, their proofs;
   `FileSystem` with `FileStore`, checked; `Routing` and its proofs.
2. Done: `HttpServer` with `HttpService`, `BoxGame`, and their proofs.
3. Done: `Traceroute` and its proofs.
4. Done: the rounds of `ProducerConsumer` and its refinement; `FileSystem` for every size, with the premise that its
   metadata is read back right, when that is so, and its refinement of `FileStore`.
5. Done: `NoFalseAlarm`, `ResultsKept`.
6. Done: `AllAnswered` and the refinement of `HttpServer`.
7. Left: liveness stays with TLC, and the hazards that no property covers are listed with their reasons in
   `PROJECT.json`.
