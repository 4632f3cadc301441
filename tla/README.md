# TLA+ specifications of erl_tools

erl_tools is a library of Erlang servers: an incremental build engine, a
convention for remote calls to processes that hold a map, a broadcast and a
dataflow layer, hubs for boards on serial ports, recorders, acceptors and
browser sessions, with C port programs and a JavaScript page at the edges.  This
directory models the parts of it whose correctness depends on the order of
messages, checks them with TLC on small instances, and proves with TLAPS what
matters most for instances of any size.  The C programs are modelled together
with the servers that talk to them, down to the bytes in the pipe.

Paths below are relative to the repository, so `src/redo.erl:848` is line 848
of the build engine.  `PROJECT.json` lists components, runs, the lines each
definition models, hazards, findings and theorems.

## 1. The system

### How the parts fit together

Every component is a process that receives messages and folds a handler over
its state (`serv:start({handler,Init,Handle})`).  A handler runs one message to
its end, so **one message is one atomic step**; everything that can go wrong
happens between messages.  The C programs are loops of their own, two of them
with several threads or sources of events, at the other end of a pipe.  Parts
interact in five ways:

| way | code | what makes it hard |
| --- | --- | --- |
| remote call | `obj:call`, `obj:reply`, `obj:send`, `obj:wait_reply` | the callee dies, the caller times out, a late reply carries no call number |
| cast | `Pid ! Msg` | arrives after any other message, or at a process that has ended |
| links and monitors | `spawn_link`, `'EXIT'`, `'DOWN'` | the notice of a death overtakes nothing and is overtaken by everything sent before |
| ports and sockets | `{Port,{data,_}}`, `{tcp,_,_}` | bytes arrive in pieces, exit status and data in an order of their own |
| pipes | `include/port.h`, `{packet,4}` | reads and writes are cut anywhere; a packet too few or too many shifts every answer after it |

### Inventory

| component | state | operations | hard behaviour | what makes it correct |
| --- | --- | --- | --- | --- |
| **redo** build engine | map of `{phase,P}`, `{deps,P}`, `{rdeps,P}`, `{stamp,P}`, `{val,P}`, `{need,Pid}`; worker processes | pull (`with_eval`), `push`, `eval`, `worker_needs`, `collect_worker_deps`, `worker_done`, `set_stamp`, `save_state`, `merge_state`, vars | workers of one network run at once and ask each other; needs are discovered while running; files change meanwhile; rules fail; the evaluator crashes | a pull answers, and answers with products built from one moment; each product is evaluated once; recorded dependencies are those used |
| **obj** remote call | caller: monitor and mailbox; object: a map | dump, find, set, update, remove, replace, merge, shutdown | death, timeout, restart, late replies | a call acts at most once and returns its own answer |
| **task_queue** | queue in the hub's map, one task process | task, task_next, task_done | tasks that die, callers that give up | one task at a time, own answers, nobody forgotten |
| **gdbstub_hub**, **rsp** | hub: map of devices; device: port, rest of the input, slots `{wait,N}`, `rsp_call_waiting`, encoder and decoder | add_tty, call, rsp_call, send_packet, set_meta, port data | partial packets, slots used again, time limits against answers still coming, a board unplugged | an answer reaches its own call, packets survive any cutting, nobody is forgotten |
| **serv** | broadcast: subscribers and filters; registry; batches; retained data | subscribe, broadcast, up, down, supervisor_init | two starts of one name, subscribers dying | every live subscriber gets each message once |
| **throttle** | idle, busy, again | trigger, DOWN | triggers while a worker runs | no trigger lost, one worker at a time |
| **serv_tcp, reverse_tunnel** | acceptor and connection processes; buffer until connected | register_connect, spawn_acceptor, set_connected, close | acceptor exits before or after it is registered | one acceptor at all times; bytes in order |
| **recorder, player** | chunk files, position in them, a playback process | write, newfile, next, prev, seek, start, stop | pruning, empty chunks, late EXIT of a stopped playback | the newest data is kept; next and prev are inverse |
| **epid, ecat** | dispatch table of a router, its ports and transfers, monitors of other routers | connect, disconnect, transfer, subscribe, data, down | programs end and nodes are lost while messages about them are on their way | maps and programs agree, data comes once and in order, connections to what is gone are torn down |
| **axo, ftdi, v4l, gpio_poll** servers | `{waiting,Tag}` slots; a port | requests, acknowledgements, pictures | answers without a reference, a program that ends instead of answering | an answer is of the request that was made; what the device shows is true |
| **port.h, bert.c** | buffers of a read and a write | packets, Erlang terms | short reads and writes, sizes | what is read is what was written |
| **sqlite3.c** | statement, slices of the message, message loop | decode, bind, step, answer, error by `longjmp` | an error in the middle of an answer | one empty packet behind every answer |
| **ftdi_connect.c** | command, poll, transfer in pieces | bitstream, SPI, reset, poll for pins | lengths of the chip's commands, lines left as found | bytes reach the FPGA once, in order, in frames |
| **axo_connect.c** | two threads, a buffer for the message from the board | to_axo, from_axo | packets that fill a transfer exactly | messages whole in both directions |
| **gpio_poll.c, v4l.c** | lines in stdout's buffer; frame, last frame, driver's buffers | poll, read, flush; request, dequeue, queue | edges and frames that come at any moment | the last line is true; frames are not mixed |
| **tag_u32, port_hub, ftdi_hub, axo_hub** | in-flight calls, ports | call, reply, port up and down | late or missing answers | replies go to their callers |
| **ws, stack_ws** | page state, continuations | call_wait, event, encoded action | page goes away while a call waits | actions are only those the server gave out |
| **kvstore, sqlite3** | tables | get, put, transaction | partial failure of a batch | reads see the last write |
| **fold, pfold, source, sink, leb128, diff, dsl** | none | pure functions | boundaries | equal to their reference definitions |
| **Rust, JavaScript, build scripts** | -- | a reader of log files, page widgets | -- | not modelled |

`PROJECT.json` lists every source file with its status, and under `hazards`
each of the hard behaviours at the line where it bites.

## 2. Modules

| module | models | role |
| --- | --- | --- |
| `Redo` | `src/redo.erl` | evaluator, workers, transactions, files, crash and resume |
| `EvalOnce` | -- | abstract promise of an evaluator; `Redo` implements it |
| `MCRedo` | -- | five small networks for TLC |
| `RedoProofs` | -- | theorems about `Redo`; its refinement of `EvalOnce` |
| `ObjCall` | `src/obj.erl`, `serv:supervisor_init` | callers and an object that can die and be restarted |
| `AtomicObject` | -- | abstract promise of a call; `ObjCall` implements it |
| `MCObjCall` | -- | two callers, nine requests |
| `ObjCallProofs` | -- | theorems about `ObjCall`; its refinement of `AtomicObject` |
| `TaskQueue` | `src/task_queue.erl`, the delegating part of `src/gdbstub_hub.erl` | hub, tasks and clients |
| `ServerProofs` | -- | theorems about `TaskQueue`, `Throttle` and `Broadcast` |
| `Recorder` | `src/recorder.erl` | chunks, pruning, delayed writes, crashes |
| `Player` | `src/player.erl`, with `Recorder` | a reader and a playback on the chunks |
| `PlayerProofs` | -- | theorems about `Recorder` and `Player` |
| `Tunnel` | `src/serv_tcp.erl`, `src/reverse_tunnel.erl` | registry, acceptors, and both ends of each connection |
| `TunnelProofs` | -- | theorems about `Tunnel` |
| `Throttle` | `src/throttle.erl` | triggers and workers, in full |
| `Broadcast` | `serv:bc_handle/2` of `src/serv.erl` | subscribers, filters, monitors, exits |
| `Epid` | `src/epid.erl` | the dispatch table, as functions |
| `Ecat` | `src/ecat.erl`, with `Epid` | routers, their programs and transfers |
| `MCServers` | -- | composes `Tunnel`, `Throttle`, `Broadcast` and `Ecat` for TLC |
| `Device` | boards in `src/gdbstub_hub.erl`, pieces of replies in `src/rsp.erl` | the process of a board, its waiter, its callers |
| `MCBoards` | -- | composes `TaskQueue` and `Device` for TLC |
| `Port` | `include/port.h`, `include/system.h` | a pipe, byte by byte, and what reads and writes it |
| `PortProofs` | -- | theorems about `Port` |
| `Bert` | `c_src/bert.c`, `include/bert.h` | reader and writer of terms, as functions |
| `Sqlite` | `src/sqlite3.erl`, `c_src/sqlite3.c`, with `Bert` | server, program and the pipes between them |
| `MCSqlite` | -- | five transactions |
| `Ftdi` | `src/ftdi.erl`, `c_src/ftdi_connect.c` | server, program and chip |
| `FtdiProofs` | -- | theorems about `Ftdi`; lemmas about flattening, folding and induction |
| `Axo` | `src/axo.erl`, `c_src/axo_connect.c` | server, both threads of the program, board |
| `GpioPoll` | `c_src/gpio_poll.c`, `src/gpio_poll.erl` | program and pins |
| `V4l` | `src/v4l.erl`, `c_src/v4l.c` | server, program and driver |
| `ProgramProofs` | -- | theorems about `GpioPoll`, `V4l` and `Axo` |
| `MCPorts` | -- | composes `Port`, `Ftdi`, `Axo`, `GpioPoll` and `V4l` for TLC |

The three modules that compose let one part run per behaviour, chosen by the
initial state: the parts have no state in common, so interleaving them would add
states and no behaviour.  What does interact -- a server, its program, its pipe,
its clients and its device -- is in one module and interleaves freely.

Definitions named in a comment *faulty* are variants with a plausible bug; no
specification uses them.  With one of them in place of the definition it is
named after, a property of a run fails, which shows that the property says
something about that definition.

### Redo

Variables are the entries of the evaluator's map by their names in the code
(`phase`, `deps`, `rdeps`, `stamp`, `val`; `waiters` is the list inside
`{waiting,_}`; `tracked` and `needed` are the `{need,Pid}` entries), the state
of each worker and of the transaction process (`pc`, `todo`, `acc`, `update`),
and the world outside: `content` and `mtime` of the files, `out`, the file
versions a product was really built from, and `behind`, the products a change was
hidden from, with what was built from them since.

`content` is what is in a file, `mtime` what its directory entry says, in whole
seconds, and `stamp` the mtime that `file_changed/3` recorded.  `Poll` sees only
the mtime.  An edit may bring any contents, old ones included, with any mtime:
two edits within one second leave the same, and a file that is moved back brings
its own.  A file that is missing counts as changed and keeps its old stamp, so it
may come back unseen with other contents.  `behind` is kept by the four ways in
which the code hides a change: an mtime (or a push that calls the file unchanged),
a stamp moved for others (`LeftOut`), a resumed state, and a dependency that is
`behind` itself.  No guard reads it; `SingleMoment` is about the products outside it.

| action | code |
| --- | --- |
| `BeginPull`, `BeginPush`, `Reply` | `handle_outer/2` with `start_pull`, `start_push`, `transitive_closure`, and the answer to the client |
| `Eval` = `EvalKnown`, `EvalJoin`, `EvalSpawn`, `EvalUnknown` | the four ways `{eval,P}` is handled |
| `CheckOld`, `OldChecked` | the worker's check of the dependencies of the last run, and its early exit |
| `Poll` | a rule made by `update_file/1` |
| `NeedFirst`, `NeedSecond`, `NeedFailed`, `Build`, `BuildFails` | a rule that calls `need/2` twice -- the second time for what it has read -- and builds, raises, or returns error |
| `WorkerDone` | `{worker_done,P,Update}` with the update of the reverse dependencies |
| `Save`, `CrashAndResume` | `save_state/2`; death of the evaluator and `merge_state/2` |
| `Edit` | a file is written, touched, removed or put back (outside) |

`tools:pmap` makes one process per call, so the calls of one `need/2` arrive in
any order: `todo[c]` is a set from which `Eval` takes any element.  A rule may
answer *nothing changed* only if what it built is what it recorded
(`put_val_changed/3`).  Not modelled: vars made at run time, logs and scripts,
absolute paths, and rules other than file, using and value rules; a rule is
assumed to return.

### ObjCall

`turn` in a message says whose call it belongs to.  The code's replies do not
carry it and no guard reads it; it is there so that properties can say which
call was answered.  A call with a timeout ends its process (`exit`), so the
client's next call comes from a new process (`born`), to which a late reply is
not addressed.  `AtomicObject` has one state, the map, and every call takes
effect in one step or never; the mapping (`Status`, `Value`, `Loose`) counts a
call as done once its reply is in the mailbox, and as loose, free to take effect
or not, while its request is in the inbox and nobody waits for it any more.

### TaskQueue

The hub's mailbox is a sequence, so `task`, `task_next`, `task_done` and `EXIT`
interleave as they arrive.  The task process sends `task_done` and then ends,
which the linked hub sees as `EXIT`.  `Kill` is an exit signal that the task's
`try ... catch` does not see.

### Tunnel

A connection has three processes: the acceptor that becomes its *tunnel* end,
the listener that end starts, and the *local* end that the listener starts.
`st`, `box`, `other`, `buf`, `open` are the state of both ends, indexed by side,
because both run `fw_handle/2`; `lst` is the listener, `rbox` and `pids` the
registry.  The model follows the links: the tunnel end is linked to the registry
(it was spawned by it) and to its listener, the local end to the listener and,
from `link(Registry)` on, to the registry.  A process that ends normally breaks
nothing, one that fails takes its linked processes with it (`LinkBreaks`), and
only the registry traps exits.  Two remarks on the code:

* The local end is linked to the registry but never sends `register_connect`.
  When it fails -- a send to a user who hung up, or `obj:set` to a tunnel end that
  is over -- the registry takes that for the failure of an acceptor and shuts the
  server down with all connections (`src/serv_tcp.erl:107`).
* `accept` of the tunnel end is not modelled as failing by timeout (the loop of
  `src/serv_tcp.erl:66` changes nothing).  Ports are abstracted to *one is
  free* and *none is free*.

### Throttle and Broadcast

`Throttle` is the three states of `throttle.erl`, one action per clause;
triggers are numbered, so that `NothingLost` can say that each is given to one
worker, in order.  A message for which there is no clause ends the process
(`crashed`), which `OneWorker` excludes.

`Broadcast` has an action for each clause of `bc_handle/2`.  A subscription is
a pair of process and filter; `monitors` counts, because a second subscription
adds one and nothing takes one back, so a DOWN message may come for a
subscription made later.  The broadcaster traps exits: `exit(Pid, down)`, with
which `serv:down/1` is to end it, comes to it as a message from whoever called,
and takes the caller out of the subscribers instead.

### Epid and Ecat

`Epid` states what the functions of `epid.erl` make of a table, the turning
around of lists included.  `Ecat` has one action per clause of `ecat.erl`'s
`handle/2`.  An address names a router by its pid or by its name, `inbox` has a
queue for each sender, and a lost node ends its router and leaves DOWN messages
at those that monitor it.  A router may fail, as the code does: `remove_port`
for what is gone (`src/ecat.erl:109`), `down/2` with a filtered address
(`src/epid.erl:282`).  The properties then speak of the routers that are left.
The process that asks for a transfer monitors only the router of the
destination.

### Device

| action | code |
| --- | --- |
| `TakeCall`, `FreeSlot` | `{call,Packet}` with its continuation, `wait/3` |
| `TakeRspCall`, `Receive` | `{rsp_call,_}` while the application does not run: the process itself waits, in `rsp:recv_port` |
| `RspCall`, `WaiterSends`, `WaiterTakes`, `TakeRspReply` | the same while it runs: a process of its own, `rsp:recv_data`, and its answer |
| `TakeSendPacket`, `SendPacket` | `{send_packet,_}`, `{send,_}` |
| `TakeData` | `decode_and_handle_packet`, `handle_packet`, `default_handle_packet` |
| `TakeSetMeta`, `MetaSets` | the process that asks for meta information, and what it sets |
| `TakeExit`, `Timeout`, `Die` | the program behind the port ends; a time limit; the process ends with those it is linked to |
| `BoardAnswers`, `BoardLoses`, `Deliver`, `Unplug` | external: board, serial line, `gdbstub_connect` |

SLIP is modelled byte by byte, and the bytes by which two of the calls are known
are those that it escapes.  Data comes in pieces of four bytes or all there is.
A piece never ends behind the lone `+` of an RSP reply: `rsp.erl` takes it for
the whole reply, and its comment at line 108 says that it "relies on correct
TCP packet borders".

### Port and Bert

`Port` is one pipe: `assert_write` writes what the kernel takes, `assert_read`
loops, and the three packet readers differ in whether they read the body in a
loop.  `PacketsExact` says of `assert_read_packet4` that it returns what was
sent, and of the other two, which no program here calls, what holds until a
read of theirs is short.  In `Sqlite`, `Ftdi` and `Axo` a packet is an element
of a queue, which is what `Port` justifies.  `Bert` reads as a fold: `Decode`
returns the constructor calls in order; `TaggedBytes` and the operators around
it are what the writer puts out.

### Sqlite

Requests wait at the server, which begins a transaction, sends queries, reads
packets to the empty one, runs checks, and commits or rolls back; the program
decodes the query into slices (`MAX_NB_SLICES`, of which one more ends the
program), prepares, binds, steps row by row, and answers or jumps out with an
error.  `out` is bytes, so that `port_sync` and the program can disagree about
where an answer ends.  The SQL library is external: a table of one column with
unique values.  Besides statements that are wrong, any step may fail on its own
(`StepFails`), an insert, a select before or behind any of its rows, and the commit;
it leaves the transaction open, as `SQLITE_BUSY` does, or gives it up, as
`SQLITE_FULL` and `SQLITE_IOERR` may.  A rollback and a deferred `begin` take no lock
and are taken not to fail on their own.  The abstract promise is `AsIfAlone`: the
results are those of the transactions run one after the other by `Alone`, which
knows nothing of messages.

**A client can be answered with the rows of a transaction that did not commit.**
`run_transaction/3` drops the answer to its `end transaction`
(`src/sqlite3.erl:172`): if the commit fails, the client gets its rows, the
transaction stays open or is gone, and the `rollback transaction` of the next
request undoes what is left.  `AsIfAlone` allows that by name: the log says of each
transaction whether the library `lost` its effects.  What it shows is that such a
transaction leaves nothing in the table, that all others have their effects, and
that no other answer is wrong.  Likewise `AnswersTakenWhole` lets a close come
while a transaction is open only if its commit failed (`LastLost`).

### Ftdi, Axo, GpioPoll and V4l

Each has the server of the Erlang side, the program, and the device as an
external part: when it takes and gives transfers, edges and frames is free.  What
it says is not quite: the board of `Axo` answers requests in their order and says
nothing unasked, while the real one also sends acknowledgements and texts
of its own (`src/axo.erl:130`), which the server logs when nobody waits for
their tag.

* `Ftdi`: the chip takes a stream of command bytes with lengths in them, so a
  length that is one off makes data a command; `ChipInStep` and `BytesAsSent`
  say that this does not happen.  A frame is what the FPGA sees between two
  edges of its select line.
* `Axo`: two threads, and a board that puts together transfers until a short
  one.  `start` is what the uninitialised `total` of the reader thread holds; if
  it is within a transfer of 2^32, the sum in the check wraps and the transfer goes
  outside the buffer (`axo_connect.c:29`), which the model takes to end the program.
  `mixed` are the tags for which two requests were under way at once.
* `GpioPoll`: edges may come between the read of an event and that of a level.
* `V4l`: the driver may fill a buffer as soon as it is queued; frame, motion and
  the two packets of a picture are steps of their own.

### Recorder and Player

`Recorder` keeps every file there ever was (`file`) and the directory (`dir`), which
maps chunk numbers to files: a deleted chunk that the player has open stays
readable.  Files are opened with `delayed_write`, so a file has messages (`data`),
some of them on disk, and a number of index entries on disk.  `Pruned` is the
recursion of `handle(newfile,_)` in closed form: the largest set of newest chunks
that fits.  `RecorderAssumption` requires that a full chunk and its index fit into
the limit.  A single packet may still be larger than a chunk.  If it is larger than
the limit, pruning empties the directory and numbering starts again at 0: a player
that has an old chunk open then takes a new chunk for its predecessor, and looks
references up in the ranges of chunks whose numbers others have now.  TLC shows both
with packets of 1 and 4 words and a limit of 4.  What is proved of references and
of the order of answers is therefore proved under `PacketsFit`, which the constants
of the run satisfy.

`Player` composes with it.  `at` is what the code's map has under `chunk`, `data`,
`index`, and the position of the data file; `Closed` is a file handle that was closed.
`Lookup` is the binary tree of `tree/1` as the ranges it splits.  A reference
whose index entry is on disk before its data (`late`) is answered with a message of
another chunk; `RefRight` and `InTurn` leave that case out by name.  The times at which
the playback sends are not modelled.

Two steps are longer than in the code.  `NewChunk` deletes old chunks, index and
data, and makes the new files at once, so nothing is shown about a crash
between these (`src/recorder.erl:43`), after which a chunk may be left without its
index.  `StartPlayer` lists the directory, reads the spans and opens the first chunk
at once; in the code the recorder may delete that chunk in between
(`src/player.erl:34` and 57), and the player then starts without a file.

## 3. Runs

| run | network or instance | shows | bounds |
| --- | --- | --- | --- |
| `redo_build` | file x; c reads what a copies from x, but when x has version 2 it is a that needs c | a transaction answers one moment of the file but for products a change was hidden from; reverse dependencies never form a cycle; with crashes and resumes anywhere | 2 edits, mtimes out of 2 seconds, pulls of {a} and {c}, pushes of x |
| `redo_net` | file x; b needs a and, if x says so, the product u without a rule | callers are served, verdicts are found once (refinement of `EvalOnce`), pushes reach what depends, every transaction ends | 2 edits, 2 seconds, 1 failed build, pulls of {b} and {a,b,u}, pushes of x |
| `redo_deps` | files f, x; a copies f, c reads x and a, but when x has version 2 it is a that needs c; no edit during a transaction | **violated**: dependencies of a rule that re-ran are not recorded | 2 edits |
| `redo_turn` | x decides whether a needs b or b needs a | **violated**: a pull can hang although no rule needs in a circle | 2 edits |
| `obj_call` | a patient and a hasty caller, nine requests, two keys | calls are atomic and end, nothing is left in mailboxes | 2 calls each, 2 starts of the object |
| `boards` | the task queue with three clients; the process of a board with its request for meta information and three callers | one task at a time, own answers, nobody forgotten without a kill; answers of a board come to their own calls, slots are of one call each, whoever waits has something on its way | 2 tasks each, 1 kill; 1 lost request, pieces of 4 bytes or all, RSP replies in one packet or two |
| `servers` | one tunnel connection; a throttle; a broadcaster with one subscriber; two routers with one program each | data complete and in order, registry and acceptor, ends end together; triggers lost or doubled never; subscribers get what they are due; router maps agree with programs, lost nodes are torn down, data comes once and in order | 2 data in each direction; 5 triggers; 4 requests; 2 requests and a lost node, 2 and one datum, or 1 and two data |
| `tunnel_half` | the tunnel alone | **violated**: when a client hangs up with data on its way, the other end stays open | 1 datum in each direction |
| `player` | chunks of two messages, room for one old chunk | what is kept is the newest, answers fit together across chunks, references are right, playback starts and stops, a waiting reader goes on | 3 messages, 3 files, 3 calls |
| `sqlite` | two clients, the transactions of `MCSqlite` | results are those of the transactions one after the other, with all effects or, if the library lost them, none; answers are taken to their end, every call ends | room for 3 slices, 1 kill, 2 failures of the library |
| `port_programs` | the pipe; `ftdi_connect`, `axo_connect`, `gpio_poll`, `v4l` with their servers and devices | packets exact; bytes to the FPGA once, in order, configurations and acknowledgements true; messages of the sound board whole and answers to their callers; the last line of a pin true; frames not mixed; what is asked happens | 3 packets of 0, 2, 3 bytes, pipe of 5; 3 requests, pieces of 2; 1 operation per client, pieces of 2; 2 pins, 4 edges; 2 buffers, 6 pictures |
| `ftdi_select` | as `port_programs` | **violated**: the transfer after a bitstream is no frame of its own | the same |

Seven more configurations check what a document says and the code does not do;
they are run by hand and TLC finds a counterexample in each:

| configuration | module | property | counterexample |
| --- | --- | --- | --- |
| `TaskKilled.cfg` | `TaskQueue` | `EveryTaskAnswered` | a killed task stops the queue for ever |
| `PlayerOpen.cfg` | `Player` | `AlwaysOpen` | the player is left without an open file |
| `RedoResume.cfg` | `MCRedo` | `EverySingleMoment` | a product newer than the state that was resumed is taken for up to date |
| `RecorderChunks.cfg` | `Recorder` | `NewestKept` | with a limit of chunks the newest are deleted |
| `AxoWrite.cfg` | `MCPorts` | `WritesContiguous` | a packet of another client comes between a header and its payload |
| `RoutersSurvive.cfg` | `MCServers` | `RoutersSurvive` | disconnecting what has ended ends the router |
| `BoardResponsive.cfg` | `MCBoards` | `DeviceResponsive` | a call before the encoder is known makes the process loop |

Why the bounds are enough.  Two edits give a file three versions: absent,
first and changed, and let one change fall inside a transaction and one between
two.  Two seconds let edits fall into one second or into different ones, and let a
file come back with the mtime that was recorded or with another.  One failed build lets an error be seen by every kind of caller and be
followed by a build that succeeds.  Two calls of a client suffice for a late
message of the first to meet the second; two starts of an object for a call to
span a restart.  Three clients are needed for a queue that has a running head,
a waiter and a newcomer.
Connections meet only in the registry, and what the failure of one does to
another is the shutdown of the server, which `AcceptFails` can bring about at
any moment; one connection is therefore enough for `Tunnel`.  Two data let
one be buffered and one come after the ends are connected, and show their order.
Three messages fill a chunk and begin another; with three files there is one
that a crash leaves empty or with an index that points behind its data, or one
that is deleted; three calls make a step across a border and back.

In `port_programs` a transfer of the chip or over USB is 2 bytes instead of 4096
or 64: a packet is then shorter than one, exactly one, or two and a part, and
those are the cases the code tells apart; so are a pipe shorter than a packet
with its header, and three starting values of `total`, good, harmful and fatal.
Four edges on two pins let both change within the read of each; six pictures go
around two buffers three times.  Three slices stand for ten: a query with two
bindings fits and one with three does not, and a text, a blob and a repeated
value tell types, a failing query and a failing check apart.  Two failures of the
library let a query fail and the commit behind it, or the commits of both clients.
In `servers`, five triggers fill all three states and leave two that come
together; of a router's requests, data and losses those combinations are run
that meet in it: a request, data and its end, a second request, a lost node.
In `boards`, the answer of a call is awaited while a slot is freed and given
again, which needs three calls; one RSP request beside that for meta information
makes requests overlap; pieces of four bytes cut escapes, packets and the packet
of a reply in the middle.

Deadlock is checked in `redo_build` and `redo_net`.  It is off in the others:
clients make a bounded number of calls, connections and programs end, and then
all processes rest.  It is off in `redo_deps` because the hang that `redo_turn` is
about would end the search there first.

Fairness.  `FairSpec` of `Redo` is weak fairness of everything processes do
once a transaction is under way: the Erlang scheduler runs every runnable
process, and rules are assumed to return.  Nothing is assumed of clients,
editors, failures or crashes.  In `ObjCall` the object and the callers that
have something to receive run; restarts, kills and timeouts need not happen.
In `TaskQueue` the hub handles its mailbox and tasks end.  In `Tunnel` processes
handle their mailboxes, exit signals arrive, and an accept on a closed socket
fails; clients and users need do nothing.  In `Player` the player handles its
mailbox; the recorder, readers and the playback need do nothing.
In `Throttle` the process handles its mailbox and workers end, as
`start_worker` is to start something that does.  In `Sqlite`, `Ftdi`, `Axo`,
`GpioPoll` and `V4l` server and program take their steps, pipes deliver, and the
kernel moves at least one byte of a read or write (`Port`); nothing is assumed of
clients, kills, unplugging and edges, and of a device only that it takes what is
transferred to it.  `Broadcast`, `Ecat` and `Device` are composed without
fairness: their properties are invariants, and `NotForgotten` of `Device` and
`TransferNotForgotten` of `Ecat` say in place of a liveness property that what
leads to the answer is on its way, or that a loss is to blame.

### What the violated runs say

* `redo_deps`: the worker asks for its old dependencies and then calls
  `collect_worker_deps` (`src/redo.erl:851`), which removes its `{need,Pid}`
  entry; what the rule needs afterwards is dropped and the product is recorded
  without dependencies.  The next pull runs the rule again unconditionally
  (which repairs the record), and a push in between does not reach it.
* `redo_turn`: the worker asks for *all* old dependencies before running the
  rule (`src/redo.erl:848`).  If the direction of a dependency turned around,
  two workers wait for each other.
* Found without a run of its own: there is one stamp per file, moved by whichever
  pull polls it (`src/redo.erl:636`), so a pull of one product can leave another
  one stale; the FIXME at `src/redo.erl:110` knows of the problem.  And a stamp is an
  mtime in whole seconds (`src/redo.erl:1268`), so an edit may leave it as it was.
  The runs have both, and `SingleMoment` excuses by name (`behind`) the products
  they happen to; without the excuse (`EverySingleMoment`) TLC finds either.
* `tunnel_half`: `ok = gen_tcp:send` (`src/reverse_tunnel.erl:138`) fails when
  the client has hung up; the tunnel end crashes before it reaches the `tcp_closed`
  in its mailbox, and nobody tells the local end.
* `ftdi_select`: `prog_sram_write` (`c_src/ftdi_connect.c:131`) ends without the
  `set_gpio(1, 1)` of `prog_sram`; the FPGA stays selected, and the next transfer
  comes as the end of the configuration frame.  The comments at
  `src/ftdi_hub.erl:69` and `src/ftdi.erl:92` tell of a first transfer that fails.

By hand:

* `RedoResume.cfg`: b is made from a and a from x.  All is built with x missing and
  the state saved; x appears and both are built again; the evaluator dies, x is
  removed, and a new evaluator merges the file (`src/redo.erl:383`).  The rule of a
  builds what the file says it last built, so it answers that nothing changed, and
  b, which was made from x, is taken for up to date.  `SingleMoment` leaves out
  such products (`behind`).  TLC may stop at a shorter story, of a stamp that hides
  an edit.
* `TaskKilled.cfg`: the hub traps exits and ignores them
  (`src/gdbstub_hub.erl:118`), so a task that is killed never leaves the head of
  the queue.
* `RecorderChunks.cfg`: `lists:nthtail` (`src/recorder.erl:79`) of chunk numbers
  in ascending order are the newest ones.  With `nb_chunks` every chunk is deleted
  as soon as it is full and the oldest stay for ever.
* `PlayerOpen.cfg`: `{open,N}` closes the data file before it tries to open the
  next and answers with the old state when that fails (`src/player.erl:57`).  A
  `next` at the end of the log then calls itself for ever and the player handles
  nothing else; a `prev` before the first message ends it; a reference into a
  deleted chunk makes the next call skip to another chunk.
* `AxoWrite.cfg`: header and payload of a write are two messages to the server
  (`src/axo.erl:103`), and those of another client may come between.
* `RoutersSurvive.cfg`: `remove_port` asks the map for what is gone
  (`src/ecat.erl:109`), for instance on an unsubscribe after the program ended.
* `BoardResponsive.cfg`: without an encoder `{send_packet,_}` calls itself for ever
  (`src/gdbstub_hub.erl:323`).

Met while modelling, and part of the models; the properties name the case:

* `wait_ack` (`src/ftdi.erl:50`) takes an `exit_status` for an acknowledgement:
  `OkMeansDone` allows one that is not true.
* `recv_byte` (`c_src/ftdi_connect.c:60`) assigns the comparison, so it takes
  *nothing was read* for a byte.
* `port_sync` (`src/sqlite3.erl:84`) takes no `exit_status`: `EveryCallEnds`
  excepts a server that is in it when the program ends.
* `run_transaction/3` (`src/sqlite3.erl:172`) drops the answer to `end transaction`:
  `AsIfAlone` excuses transactions that were answered and lost.
* `total` in `c_src/axo_connect.c:26` is not initialised, and there is one slot
  per tag (`src/axo.erl:210`): `OwnReply` excepts the tags for which two requests
  were under way.
* `subscribe` (`src/epid.erl:230`) compares addresses, and a program can have
  two: `OnceInOrder` excepts routers that had both in one list.  `down/2`
  (`src/epid.erl:282`) has no clause for filtered addresses.

## 4. Proofs

The theorems hold for every value of the constants that satisfies the named
assumption of the module -- any number of products, clients, connections,
triggers, pins and buffers, networks of any shape, packets of any bytes, any bounds:

| assumption | says |
| --- | --- |
| `RedoAssumption` | files and derived products are different and finitely many; rules are functions of what they read |
| `ObjAssumption` | requests are requests, and there is one |
| `QueueAssumption`, `ThrottleAssumption`, `TunnelAssumption`, `PlayerAssumption` | the bounds are numbers |
| `BroadcastAssumption` | the bound is a number, and a filter is a set of messages |
| `PortAssumption` | packets are bytes, no longer than an `int`, or than a byte for the one reader that takes one |
| `FtdiAssumption` | requests have a command, a reply and bytes; a transfer has at least one byte, and no more than two bytes of length can say; what is sent to the chip as it is (command 0) are commands of one byte, since no caller in the repository sends others |
| `CameraAssumption` | there is a buffer, and the bound is a number |
| `AxoAssumption` | a transfer, an answer and a request have at least one byte; tags are not header, payload or garbage; the rest are numbers |
| `RecorderAssumption` | a packet has a size, and a chunk with its index fits into a limit in bytes |

`GpioPoll` needs none.  Two of them are not enough for what `PlayerProofs` proves,
and its theorems name the rest: `Usage = "nb_bytes"` for `ChunksKept` (with
`nb_chunks` it is false, as `RecorderChunks.cfg` shows) and `PacketsFit`, that every
packet with its index entry fits the limit, for `RefRight` and `InTurn` (see above).

Each proof has the same shape: an inductive invariant, one lemma per action that
the action keeps it, and a temporal step that puts them together.  Where a module
computes with a recursive function, what is needed of it is proved without an
induction theorem: the sets or numbers at which it fails have a least one
(`LeastNumber` and `LeastSet`, which follow from the finiteness of an interval and of
a set), and there it does not fail.  This is how `Upward` of `Redo`, the sums of
`Recorder` and the tree of `Player` are dealt with, and `FlattenSeq` and `FoldLeft` in
`Ftdi`.

`RedoProofs`

* `TypeCorrect`: one step per action.
* `WaitersAreServed` and `QuietAfterAnswer` come from one inductive invariant,
  `WaitInv` = `WaitersServed` and `Rooted`.  `QuietWhenIdle` says that no worker
  is left when the transaction has its answers, so the next one never erases
  the phase of a running worker.  That is not inductive, since a ring of
  workers waiting for each other would be left behind; `Rooted` excludes it:
  of every set of workers, one is awaited by somebody outside the set.  It is
  kept because a worker starts with a caller that is not itself a new worker,
  and ends only when it has told all of its waiters.  `Rooted` quantifies over
  sets of workers and says nothing of who waits for whom in the end: two
  workers may wait for each other (`redo_turn`), but then somebody outside
  waits for one of them, and the transaction does not answer either.
* `ReverseDependencies`: `rdeps` is inside the inverse of `deps`, and equal to
  it if nothing was resumed.  Inductive as it stands, with types.
* `EvaluatesAtMostOnce`: every step of `Redo` is, through the mapping, a step of
  `EvalOnce` or none.  It needs `WaitInv`: a transaction that begins must find
  no caller of the one before.
* `ClosuresEnd`: no cycle of dependencies is ever recorded, so the walk of
  `transitive_closure/2` ends.  A rank of the products would be the obvious
  argument, but there is none to keep, as a dependency can turn around between
  two runs.  `Acyclic` says the same with sets -- for every product there is a
  set that holds what it depends on, is closed, and is without it -- and
  `NeedsInv` adds why it stays so: what a worker records was settled before it was,
  and nothing settled depends on it.  It is stated of the saved dependencies as
  well, which a resume brings back.
* `PushesReachAll`: what the walk collects is closed, so for every product above
  a changed file there is one at the top of it in what push asks for.
* `PullsAreMoments`: what a transaction answers is one moment of the files
  (`SingleMoment`), with no assumption but that of the module: any network, pulls of
  some products and pushes, turning and failing rules, edits that leave any mtime,
  saved states merged at any moment.  What is left out are the products in `behind`,
  and the theorem is worth what that set is worth: it grows only where the
  code hides a change (`LooksTheSame`, `LeftOut`, a push, a resume, and what depends
  on such a product), and a build from inputs outside it takes a product out again.
  The argument has two invariants.  `AskInv`: what a process has asked for it still
  waits for, or was told.  `MadeInv` is about products outside `behind`: each file
  version that one was made from is of a recorded dependency or in the record of one
  (`From`, `Recorded`, `Resting`), or else the product is still to be looked at in this
  transaction and will find a dependency that changed; and it has the contents of
  every file that was said not to have changed (`Polled`).  So from the moment in which
  a worker has its verdict (`Finishing`) the product is built from the files as
  long as they stay (`Sound`), also after the rule failed, which forgets the record.
* `NothingExcused` says that `behind` is no loophole: if every pull asks for every
  product, nothing is pushed and no saved state is merged (`WholePulls`), and every
  edit removes a file or brings contents and an mtime that were not seen before
  (`FineEdit`), all that was asked for is of one moment, nothing left out
  (`EverySingleMoment`).  Each hypothesis closes one of the ways in which a change
  is hidden.

`ServerProofs`

* Of `TaskQueue`: `TasksTypeCorrect`, then `QueueKeptMoving`: at most one token (a `task_next` or
  `task_done` in the mailbox, or a task process) exists, and it is for the head
  of the queue.  Lemmas describe what appending to and taking from a mailbox do
  to the set of tokens.
* `TasksAreSerial` is a part of it; `AnswersAreOwn` follows because the report
  that is taken is for the head.
* Of `Throttle`: `TypeCorrect`; `WorkersAreSerial`, which is inductive with types: exactly in
  the states busy and again there is a worker, running or with its DOWN message
  in the mailbox.
* `TriggersAreKept`: `NothingLost` says that what was given to workers, what is
  kept in the state, and what waits in the mailbox are together all triggers in
  order.  The strengthening `ArgsOfState` says that only the state again keeps
  triggers.  The lemmas say what appending and taking do to the positions of
  DOWN messages among the triggers.
* Of `Broadcast`: `BroadcastTypeCorrect` and `BroadcastsReach`.  What is due to a
  process is defined by the messages that were handled; what it gets comes from
  the table.  `FirstKept` relates the two: a process that runs has an entry just when
  a subscription is in force, and the filter in it is that of the first one.
  `Monitored`, that a process that runs and has an entry has a monitor, is what
  makes the dead leave.

`ProgramProofs`

* `TypeCorrect` and `LastLineIsTrue` of `GpioPoll` come from one inductive invariant, `IInv` =
  `TypeOK`, `RoundsClean` and `LinesTrue`.  `LastLineTrue` speaks only of the
  moments at which the program waits.  `LinesTrue` says where the level of a pin
  without an event is found at all others: in the line in the buffer or, when
  there is none, in the one that was flushed -- but for the pin that is being
  read, whose event is taken and whose level is not; `RoundsClean` says that
  nothing is left in the buffer when the program waits.
* `CameraTypeCorrect` and `V4lFramesAlways` of `V4l`.  `FramesTrue` speaks of what
  was passed on; `Packets` says the same of what is on its way to the server and
  counts both by the stage of the program, so that the packet written next is the
  one that is due.  For that the frame must be the last picture that the driver
  handed out and `last_y` the one before (`FrameInWork`), which needs that the
  driver does not write to the buffer that is read: `BuffersApart`, no buffer is in
  two places.  `PicturesAscend` is the order of the camera in the full buffers and
  behind them.  `OneAtATime` counts pictures on their way by the numbers of the packets;
  with `Packets` it is `RateLimited`.
* `AxoTypeCorrect` and `AxoMessagesAlways` of `Axo`, for any clients, tags, sizes of
  packets, transfers, answers and buffer, and anything in `total` at first.  On the
  way to the board `Sent` says that the packets written are those the board got, the
  one that is cut (what the board has of it, and what is left) and those that
  wait.  On the way back everything has a number, that of the packet it
  answers; the numbers are in no variable, so `Answering` says that they
  exist: the answers in the mailbox ascend and are before those in the
  transfers (`InOrder`), a message is some garbage and one whole answer
  (`Messages`), transfers are the pieces of answers one after the other
  (`Pieces`), and the buffer holds what was read of the first (`Collected`).
  `Outstanding` is why a slot is right: for a tag that is not mixed at most one
  request behind the last answer that came has this tag, it is of the client in
  the slot, and that client has not gone on (`Slots`).

`ObjCallProofs`

* `TypeCorrect` and `CallsCleanUp` come from `Inv`.  `NothingLeft` speaks of
  mailboxes between calls; `MailShape` says what a mailbox is during one (the
  reply, the end of the process, or both in this order), and `InboxShape` that a
  request whose caller still waits is the only one of that call, so that no
  second reply can follow.
* `CallsTakeEffectOnce`: the refinement of `AtomicObject`, one lemma per action.
  Handling a request is the step in which a call takes effect; receiving,
  dying and timing out only change what the mapping calls its status.

`TunnelProofs`

* `TypeCorrect`, for any number of connections.
* `ForwardedAlways`: `Chain` follows the data of one direction through everything
  between two sockets -- written, in the mailbox of the end that writes, in the
  buffer of the other (newest first), in its mailbox -- as consecutive runs of
  numbers with cuts p and q between them.  When an end is over its part of
  the chain is lost, but then nothing may follow: `close` is behind all
  data, and an end that was told to close has written everything.
* `RegistryAlways`: `TrackedOf` says that a connection is registered, or will be,
  exactly once, and that its exit is behind that in the mailbox; `AcceptorOf`
  that there is one acceptor, one message that starts one, or a failure under way.

`PortProofs`

* `TypeCorrect` and `PacketsExactAlways` come from `PortInv`: there is a stream of
  bytes, with a place for each packet (`Layout`), of which the writer has put
  a prefix into the pipe (`Writes`) and the reader taken one (`Reads`); `Wants`
  says that a reader in the middle of something always waits for at least one
  byte.  Stream and places are in no variable: the invariant says that they exist,
  and a packet that is sent makes them longer.

`PlayerProofs`

* `SumFacts`: a sum over a finite set exists, and what adding an element does.
* `PlayerReads`: every behaviour of recorder and player is one of the recorder.
* `RecorderSound`: `RecorderInv` is about all files there ever were, not only those
  in the directory -- messages go up from file to file, chunks are in the order
  of their files with none missing before the newest, only the last packet of
  a file makes it longer than a chunk, and without the newest they fit.  Every
  step changes the newest file in place (`InPlace`) or prunes and begins
  another (`Renewed`), and the invariant is kept by each.
* `ChunksKeptAlways` follows, with a limit in bytes.
* `ChildrenKnownAlways`: while the playback process runs the player knows it, and
  the one message of its end comes after that (`ChildInv`).
* `RefRightAlways` and `AnswersInTurn`: under `PacketsFit` the newest chunk is never
  deleted, so the number of a chunk is the number of its file, for ever
  (`Numbers`), and what is on disk stays as it is (`FilesGrow`).  Lookup returns a
  span that the number is in, or none, since each range has a half that it is in
  (`TreeLeads`).  `ReaderInv` then says where the player is: `Stands`, that the last
  answer is the message just before or behind the position until a request
  is taken, and somewhere before or behind it as long as that searches through
  chunks; `RefNext`, that a reference being answered has the position of its
  message.

`FtdiProofs`

* Induction over numbers and sequences from least elements (`Induction`,
  `SequenceInduction`), and by it what `FlattenSeq`, `FlatMap` and `FoldLeft` do with an
  element more and with two sequences put together.
* Of the chip: what each command of `ftdi_connect.c` makes of it, byte by byte.
  `SpiTaken` is the one with a length in it: however many bytes follow the header,
  the chip waits for all of them and for no more.
* Of the program: `Leads(s, c, d)`, that a script `s` brings the chip from `c` to `d` and
  sends nothing else than bytes; `SpiPieces` is one whatever the size of a piece.
  `ScriptDone` says of each of the four commands that afterwards chip and FPGA
  have what is due (`WellDone`).
* `FtdiTypeCorrect` and `FtdiTransfersCorrect` come from `FtdiInv`.  `FtdiTransfers` speaks of
  the moments between two commands; `FtdiData` says at all others what chip
  and FPGA will have *when what is still to be sent has been sent* (`Taken(chip,
  Sent(todo))`), which a step of the program does not change.  `FtdiFlow` is that one
  request is under way: what was executed and what was acknowledged are
  beginnings of what was asked.

Model-checked only:

* Liveness (`EveryPullAnswered`, `EveryCallEnds`, `AnsweredUnlessKilled`,
  `ServersGoOn`, `ProgramsGoOn`, `GoesOn`) is out of the prover's reach.
* `AsIfAlone`, `AnswersTakenWhole` and the types of `Sqlite`: they compare with what
  `Decode` and `Alone` compute, folds over bytes and over queries.
* `DeviceCalls` (`Device`), which rests on `Unescape` and `slip_decode`, and
  `ConnectionsTrue` (`Ecat` with `Epid`).  `FtdiProofs` shows that properties of folded
  data are within reach, but each fold needs lemmas of its own.
* `PortsTypeOK` is the types of five modules; each of them is a theorem.

## 5. Plan

In order; every module with a type invariant, hazards first, mutants beside.

1. **Done**: `Redo` and `ObjCall` with abstract specifications, and proofs that they
   implement them; `TaskQueue`, `Throttle`, `Broadcast`, `GpioPoll`, `V4l`, `Axo`, `Tunnel`,
   `Port`, `Recorder`, `Player` and `Ftdi` with proofs; `Epid`, `Ecat`, `Device`, and
   `Sqlite` with `Bert`, model-checked.
2. Proofs: own answers of `Device`; transactions of `Sqlite`, with the lemmas of `FtdiProofs` about folds.
3. The rest of `gdbstub_hub.erl`: add_tty and DOWN in the hub, lines of
   `TAG_INFO`, `tag_u32` requests; check sums and escapes of `rsp.erl`.
4. `Recorder`: bisection by time and the index scan of `src/rs/src/etflog.rs` among
   the algorithms.
5. `Session` (`ws.erl`, `stack_ws.erl`, `js_src/ws.js`); hubs of devices
   (`port_hub.erl`, `ftdi_hub.erl`, `axo_hub.erl`) and `run.erl`.
6. `Algorithms`: `leb128`, `tag_u32`, `diff`, `depgraph`, `pfold`, `sink`, `dsl`
   as operators against reference definitions over bounded inputs, in modules
   that only TLC uses where they recurse.
7. `Redo` with vars and a run of pushes after a resume; merge of stamps.

## 6. Not modelled

The Rust reader of log files and the page widgets; instrument drivers, terminal
output and formatting; parsers of command output; code loading and reflection.
Of the modelled C programs: functions that nobody calls (`prog_sram` and
`raw_spi`, which read files), opening and setting up devices, pixels and JPEG.
`PROJECT.json` gives the reason for each component.
