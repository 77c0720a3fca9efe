# A verification of ant-http in TLA+

ant-http (antd) is a small HTTP server in C for Linux: one thread accepts
connections, one schedules tasks, a pool of workers executes them, and plugins
(shared objects) produce the responses. This directory holds TLA+ modules of the
program, configurations for TLC, and proofs for TLAPS. Paths are relative to the
repository (`src/` here). `PROJECT.json` maps every definition to the lines it
models and lists the hazards, each at its line with the properties for it.

## 1. The system

| component | source | state | operations |
|---|---|---|---|
| task scheduler | `lib/scheduler.c` | `task_queue` (search tree by task id), `workers_queue` (FIFO), `pending_task`, `id_allocator`, `status`, two semaphores, three locks; a task has a handle, a chain of callbacks, events, data and the time of the last access | create, add, execute, collect events, poll, deploy, kill, stop, destroy; a statistic thread |
| search tree | `lib/bst.c` | nodes with a key and data | insert, find, delete, for_each, free_cb |
| acceptor | `httpd.c` | the listening sockets, `g_server_config.connection` | the select loop with the limit `maxcon`, `antd_monitor`, `stop_serve`, the hooks of the scheduler |
| request pipeline, reverse proxy | `server.c` | the request's dictionary, the client, the proxy's socket | `accept_request`, `resolve_request`, `serve_file`, `proxify`, `proxy_monitor`, `execute_plugin`, `finish_request` |
| decoding | `decode.c` | the request's dictionaries | headers, rewrite rules, cookies, query string, multipart and raw bodies |
| socket I/O | `lib/handle.c` | the socket, the time of the last I/O, the compression stream | `antd_send`, `antd_recv`, `antd_recv_upto`, `__b`, `__f`, `__t`, `antd_send_header`, `antd_close`, `destroy_request` |
| plugin manager | `plugin_manager.c`, `lib/plugin.c` | the table of plugin files, the contexts of each | load, look up, drop, unload |
| WebSocket | `lib/ws.c` | a frame header with what is left of its payload | read and send headers and payloads, ping, pong, close, handshake |
| dictionary, list, utilities | `lib/dictionary.c`, `lib/list.c`, `lib/utils.c` | hash chains | maps, lists, strings, system calls |
| configuration | `config.c` | `g_server_config` | read once at the start |
| third party | `lib/ini.c`, `lib/base64.c`, `lib/sha1.c` | | |

The main thread accepts a connection, counts it and adds a task
(`accept_request`, with the callback `finish_request`). The scheduler thread
polls the sockets of all queued tasks, takes the ready ones out of the tree and
enqueues them for the workers (or executes them itself when `n_workers` is 0).
A worker calls the handle. If it returns NULL, the next callback of the task
becomes its handle and the same task is added again; if it returns a task, that
task inherits the callbacks and is added. So a request walks through
`accept_request`, `decode_request_header`, `decode_request`, `resolve_request`,
`serve_file` or a plugin, and ends in `finish_request`, each step a trip through
the queue. Tasks that were not touched for `scheduler_timeout` are killed by the
scheduler, which then destroys the request itself.

The threads share the tree and the allocator under `scheduler_lock`, the FIFO
under `worker_lock`, `pending_task` under `pending_lock`, the plugin table under
`server_mux`; `status`, `pending_task` (reads), `connection` (decrements), the
status of a plugin context and the workers' `current_task` are used without a
lock. Requests share nothing else but the descriptor numbers of the process.

What is hard: two sleep/wake-up protocols; one task object that passes through
three threads; ageing at any moment of a request; a counter changed with and
without its lock; handlers that are resumed with local state lost; descriptors
closed by one function and remembered by another; transfers that stop in the
middle; contexts shared by requests; frames read in pieces.

## 2. The modules

| module | models | state |
|---|---|---|
| `Scheduler` | the scheduler, the workers, and main as the scheduler sees it | queue, semaphores, task cells, where each thread is |
| `RequestService` | abstract: what the scheduler promises to a request | open requests and who runs a handler on each |
| `Httpd` | accept loop, limit, connection counter | the counter, the values read for it, the loop, the open connections |
| `Bst` | the search tree with its nodes | the tree, the allocated cells |
| `Pipeline` | all handlers of a request, the proxy, the kill | each request's task and data; the descriptor table |
| `SocketIO` | all reads and writes on one client | both streams, the call in progress, the compressor |
| `PluginManager` | the plugin table and its contexts | table, entries, contexts; the context each request has |
| `Dictionary` | `lib/dictionary.c` as operators | (used by `PluginManager`) |
| `WsFrame` | WebSocket frames between two endpoints | channels, the reader's header, the file being sent, messages sent and put together |
| `SchedulerProofs` | theorems: types and lost wake-ups of `Scheduler` | |
| `SchedulerOwnership` | theorems: who owns a task and a request; `Scheduler` implements `RequestService` | |
| `HttpdProofs`, `BstProofs`, `PipelineProofs`, `SocketProofs`, `PluginProofs`, `WsFrameProofs` | theorems about the module of that name | |
| `MC*` | instances for TLC | |

How they meet: `Scheduler` states its refinement of `RequestService`
(`ServesRequests`). `Pipeline` takes from `Scheduler` that a request's handlers
run one at a time (`ServesRequests`), with the callbacks after them
(`OneFinisher`), and that a queued task is executed or killed
(`EveryRequestEnds`); `Httpd` takes the latter too, as its fairness. `Scheduler`
takes from `Bst` that the tree is a function from ids to tasks, visited in the
order of the ids (`ViewsAgree`, `UpdatesOneEntry`). `PluginManager` is an
instance of `Dictionary`. `WsFrame` assumes the byte stream that `SocketIO`
shows for transfers that are not given up.

### Scheduler

One action is one critical section or one semaphore operation, with the local
steps up to the next; `pc` says where a thread is. `antd_scheduler_add_task` is
four actions (`AddGetId`, `AddInsert`, `AddCount`, `AddPost`) because other
threads run between its id, its insertion, its count and its post; the id of a
task with data was already chosen by `antd_create_task`, which is why `Accept`
and `ExecTask` choose it. `antd_execute_task` is the call (`ExecFinish`,
`ExecNull`, `ExecTask`, `ExecDetach`) and what follows the return
(`ReturnCallback`, `ReturnDone`, `ReturnTask`). The scheduler's round is
`SchedCheck`, `SchedCollect`, `SchedPoll`, then for each collected task
`SchedDeploy`, `SchedUncount`, and `SchedKill` or `SchedRoute` (with
`SchedPostWorkers`), and at last `SchedIdle` and `SchedWake`. A worker's is
`WorkerCheck`, `WorkerDequeue` or `WorkerNone`, `WorkerWake`.

Abstractions: a request is named by its socket number, which is also the id its
tasks ask for. Handlers other than `finish_request` are one handle `"work"` that
may return NULL, return a task with any of `EventSets`, with or without a handle
and a callback, or destroy its request (`Detach`). A timeout may fire whenever it
is looked at; poll may report any task as ready or failed. Time is `Expire`: a
task that the scheduler may look at becomes too old. A killed task that has no
request reads through a NULL pointer in the code; the model does not let it
expire. `free` and `malloc` are the set `live`.

### RequestService

A request is accepted, called by one thread at a time, closed by the handler or
while none runs, and its socket number is used again only then.

### Httpd

`connection++` and `connection--` are a read and a write each, unless the
variable `setup` says that the machine has one processor (the compiler makes one
instruction of it). `setup` also says which ports are listened on and whether
plugins may destroy requests or `SSL_new` may fail; it is chosen at the start and
kept, so that one run looks at several servers. `LoopSleep` is the 10 ms sleep
over the limit; `Select` reports any set of ports; `MonitorAccept` or
`MonitorNone` serves the next. The threads that end requests do `FinishDestroy`
(the close) and then `FinishCount` and `FinishWrite`. `off` is a history variable:
`Write` adds to it what a write overwrites because another one came between it
and its read; so do the requests that a plugin destroys, and the connections
that are counted off without having been counted, after `SSL_new` failed.

### Bst

A tree is NULL or a record with the cell, the key, the data and two subtrees.
The operators follow the recursive functions, with the cells that are freed, as
recursive functions over `Tree`: the trees of one level more than there are keys.
No tree of the program has more, since every level of a path has another key.

### Pipeline

One call of a handler is one action, named after the function: another handler
of the same request cannot run in between, and other requests touch only the
descriptor table. The action chooses what the handler finds (a socket error, no
data, some header lines, a missing file) and returns the task as the code does:
the next handle, the callbacks it pushes, the descriptors it binds events to.
`Task` is the splice that `antd_execute_task` makes of it. `Kill` may take any
queued task and does what `antd_scheduler_destroy_data` does, closing the number
in `PROXY_HANDLE` before `finish_request`. `Fd` is small, and the kernel gives
the lowest free number, so that numbers are used again at once; `desc.stray`
records who first closed a number that belonged to another.

`DecodeRequestHeader` reads some of the lines and ends in one of the returns of
the function; lines read by a call that ended without data are stored, but the
local copies of host and cookie are lost. `ApplyRules` is `apply_rules` with
`rule_check`; a rule is the set of hosts and paths its key matches and what it
makes of the path and the query. `Plugin` is external. `Backend` is the proxied
server.

`proxy_monitor` is the one handler that is more than one action, since the
backend may send, end or hang up while its loop runs: `ProxyMonitor` is the call,
`ProxyTurn` one turn of the loop with its three ways out, in the order of the
code (the client's side, `ReadsEnd` and the relayed chunk, `HungUp`), or the
return with the events bound again. A relay has the chunks that the backend
sent, that were read, and that the client took; `closed` says why it was ended.
POLLRDHUP is looked at but not asked for, so an orderly end is seen only by a
read that finds nothing left, and POLLHUP only when both directions are gone.

### SocketIO

A byte is its position in its stream. `op` is the caller: `antd_recv`,
`antd_recv_upto`, `read_buf` (`"line"`), the loop of `post_data_decode`
(`"post"`), the loop of `resolve_request` that discards a body, `__b`, `__f`,
`__t`, `antd_send_header`, `antd_send` and `antd_close`. One system call is one
action: it moves any part of what it is offered (`ReadSome`, `SendSome`), would
block, sees the end, or fails; `Tick` is `MAX_IO_WAIT_TIME` running out. With
SSL a write that would block must be repeated with the same data; `OldInstead` is
the case in which the library has other data at the same address. `Deflate` gives
any part of what it holds, and all of it in `antd_close`. The loop that discards
a body asks for `DiscardWant`: two buffers, or the whole length if that is less,
each time. `NewStream` is the start of compression by `antd_send_header`, which
does not look whether a zstream exists: a second response on the client replaces
it. `second` and `dropped` are history variables: there was such a second
header, and the bytes that the replaced stream still held. The peer acts only
where a call can see it, which loses no behaviour and keeps the state space
small.

### PluginManager and Dictionary

`antd_plugin_load` runs under `server_mux` and is one action (`Load`,
`LoadFails`), built of operators from heap to heap named after the functions.
Entries and contexts are numbered as they are allocated and numbers are not used
again, so a context that is freed twice, or held after it was freed, is seen.
`simple_hash` is any function of `Hashes`: which strings collide.

### WsFrame

The header of a frame is a sequence of bytes, with the mask bit, the three
encodings of the length and the key; the payload is a run of so many bytes of a
message, with the offset in the frame that decides which key byte each meets.
The caller of `ws_read_data` takes all of a frame or pieces of a given size, and
`antd_recv` may give less than that (`Shorts`), or nothing (`ReadNoData`), when
the time is up; `plen` then counts what came, and `slip` remembers that a piece
of a masked frame ended inside the key.
`ws_send_file` is `OpenFile` and a `SendFragment` for each turn of its loop; its
end does nothing else meanwhile, while the other end reads and answers.
`ReadHeader` includes the answers the library gives by itself: a close for a
close, and for a ping a pong (`PongSent`: of its full length, also if only a part
of the ping has come) or, when nothing of it has come, none (`PongMissed`: the
caller gets the header all the same).
The header itself is read whole or not at all: `ws_read_header` takes a part of a
field for the field, which the model leaves out (`ReadNoHeader` is the failure).

## 3. The runs

| run (configuration) | instance | shows |
|---|---|---|
| two_connections | 2 workers, 2 sockets, 2 connections at a time | `TypeOK`, `WorkersNotStranded`, `SchedNotStranded` (no lost wake-up), `PendingExact`, `EachTaskInOnePlace`, `ServesRequests` (the refinement) |
| no_workers | `n_workers = 0`, 2 sockets, plugins destroy requests, fair | `NoDisplacement`, `EveryRequestEnds` |
| liveness | 2 workers, 1 connection, handlers return tasks with all events, fair | `CallsAreSafe`, `OneFinisher`, `EveryRequestEnds`, `StopCompletes` |
| throttle | 2 ports on one processor, 1 port on several; TLS failures, plugins, lost updates | `CounterExact`, `LimitHolds`, `AcceptsAgainIfCounted` |
| search_tree | all trees over 5 keys | `ViewsAgree`, `NoLeakNoDangling`, `UpdatesOneEntry` |
| pipeline | 2 requests, 3 descriptor numbers, three lists of rules | `AnsweredOnce`, `DescriptorsReturned`, `WaitsOnOwn`, `StraysOnlyByLateKill`, `RequestAsSent`, `RelayComplete`, `OnceDecodedItEnds` |
| socket_io | chunks of 2 bytes, reads of 3 and 5, responses of 1 and 3 up to 7 bytes, one after another | `ReadInOrder`, `StreamIntact`, `HoleNeedsTimeout`, `CloseFlushes`, `StopsWithCause`, `CallReturns` |
| plugins | 2 requests, 3 names, 2 libraries, every collision | `DroppedOnce`, `ContextsOwned`, `RightContext`, `HeldUnlessPanicked`, `LoadedOnceIfFound` |
| ws_frames | 2 messages in either direction and their answers, lengths at the limits, a short read in each frame | `InSync`, `MaskByRole`, `MessagesWhole`, `PingAnswered` |

Each property has a mutant in `PROJECT.json`: a plausible bug in a mapped
definition that breaks it on the same instance.

Runs that end in a violation, each a disagreement of the code with its
documentation or with itself:

| run | property | what happens |
|---|---|---|
| detached_collision | `NoDisplacement` | allocated ids grow into the socket numbers; an insertion replaces a queued task, whose connection is never served or closed |
| ws_pieces | `MessagesWhole` | the later pieces of a masked frame are unmasked from the first key byte again |
| plugin_reload | `LoadedOnce` | a library whose configured file has another name is looked for in another bucket than it is chained in, and loaded again at every request |

What the properties had to leave out, because the code does it:

* decrements of `connection` without the lock lose updates, and a request that a
  plugin destroys is not counted off: the server may stop accepting for ever
  (`CounterExact` says by how much the counter is off, in every setup, and
  `Counted` when it is not; it is also the hypothesis of
  `AcceptsAgainIfCounted`);
* `maxcon + 1` connections are let in on one port (`>`), and one more for each
  further port (`LimitHolds`);
* a `<break>` rule that does not match still ends the rules at the next match,
  unlike `antd-config.ini:51` describes it; a host or cookie line read by a call
  that ended without data is forgotten (`RequestAsSent`);
* a request may get two status lines: an upgrade that no plugin takes up, and an
  error of `decode_post_request` followed by the plugin (`AnsweredOnce`);
* a kill between the close of the backend's socket and `finish_request` closes
  the number a second time (`StraysOnlyByLateKill`);
* after a time-out the callers of `antd_send` go on, and the response has a hole
  (`HoleNeedsTimeout`); a cut line looks like a line (`StopsWithCause`);
* a context that a handler declares panicked is freed by the next load under the
  requests that hold it (`HeldUnlessPanicked`);
* what is more than one chunk in the backend's socket at `POLLHUP` is dropped,
  and so is what is left when the client ends first (`RelayComplete`: only
  then, never at an orderly end);
* a second header on a compressed client replaces the zstream: what deflate held
  is never sent; and where none is started for it, its header passes compressed
  bytes of the first response (`StreamIntact`, `CloseFlushes`);
* a body that is discarded may be read past its end by less than a block, since a
  chunk is clipped to its whole length, not to what is left (`ReadInOrder`);
* a masked frame of which a read came short inside the key is garbled from
  there on, and the pong of a ping that was cut has bytes that nobody sent
  (`MessagesWhole`); a ping of which nothing came in time is not answered
  (`PingAnswered`).

Seen in the source and in no property: a task without events is executed,
although `scheduler.h:39-41` says it is rejected; `bst_free_cb` destroys only the
task of the root; `__f` does not close its file when a send fails.

### Bounds

`Scheduler`: `MaxAccepts` and `MaxHops` bound the connections of a behaviour and
the tasks their handlers create; `Task` is large enough that allocation never
stops a run. Two workers are the fewest that compete for a task; two sockets show
two tasks in the tree. The socket numbers are above the ids that the instances
allocate except in detached_collision, which needs six connections to get there.
`StopBegin` is always possible at the end, so that no run ignores deadlocks.

`Httpd`: four connections and five accepts exceed a limit of 1 with two ports and
come back under it. `Bst`: five keys give every shape of a deletion with two
children whose successor is not the child itself.

`Pipeline`: two requests are the fewest of which one can be given a number the
other still remembers; three numbers hold one socket pair and a stranger's. Two
chunks tell "one after a hang-up" from "all", and leave a turn of the loop
between them; two parts tell the first from the next. The rules are a name-based proxy, a `<break>` that matches, and a `<break>`
that does not, followed by rules. Requests are finite in number, so the run ends
and ignores deadlocks; that no request is stuck is `OnceDecodedItEnds`.

`SocketIO`: a chunk of two bytes is the least that can be cut. Reads of 3 and 5
bytes are one and two chunks and a rest, and for a discarded body (blocks of 4)
less and more than a block. Responses of 1 and 3 bytes, with a header of one line
and its end, fit twice into `MaxBytes`, so that a second header follows
compressed data. `PluginManager`: two names share a library, and the third
collides with them in every way; `MaxEntries` and `MaxContexts` allow a library to
be loaded again and a context to be created again after a panic; a server that
was stopped does nothing, so the run ignores deadlocks. `WsFrame`: 125, 126 and
65536 are where the encodings change, and 16777217 uses the fourth length byte;
a file is empty, fills the buffer, or exceeds it by one. A read comes short by
leaving a part of a key (1 byte) or whole keys (4), once in a frame. Two messages
follow each other or cross, and when both are sent and read nothing is left to
do.

### Fairness

`Scheduler`: weak fairness of each thread (the operating system runs it, a
handler returns) and of `Expire` (time passes). Nothing makes a client connect or
the server stop. `Httpd`: the steps main takes of its own and the ends of
requests; `Select` and `MonitorAccept` wait for clients and have none.
`Pipeline`: for each request, `Handler` or `Kill`, which is `EveryRequestEnds`;
the backend owes nothing. A request whose header never comes is queued again
until it is killed, so `OnceDecodedItEnds` starts at the decoded header.
`SocketIO`: the thread inside a call runs and time passes; the peer may do
nothing for ever. `WsFrame`: both callers go on reading, and a
file that is being sent is sent to its end.

## 4. What is proved

Each theorem holds for every value of the constants that the module's `ASSUME`
allows, and rests on nothing else. `PROJECT.json` lists 40, of which 33 state a
property that a run checks; the others are the invariants behind them.

### Scheduler

`SchedulerProofs`, for all finite sets of workers and any sets of tasks and
sockets, from `ThreadAssumption` and `DataAssumption`:

* `TypeCorrect`: `TypeOK` always holds. It is not inductive alone: the type of
  the queue after an insertion depends on the inserting thread having a task.
  The invariant is `TypeInv == TypeOK /\ PointersOK`, where `PointersOK` says
  which label has which pointer.
* `SchedulerWakesUp`: `SchedNotStranded` is inductive relative to `TypeInv`. Every
  action either leaves the queue, the semaphore and the threads between insertion
  and post alone (`Stays`), or is a step of `antd_scheduler_add_task`, where the
  thread at `count` or `post` is the witness and hands over to the semaphore, or
  is one of the scheduler's, which sleeps only after it saw an empty queue.
* `WorkersWakeUp`: `WorkersNotStranded` is inductive relative to `TypeInv`. The
  argument counts: a hand-over adds one task and one post to come; a worker that
  takes a task stays active; a worker goes to sleep only on an empty queue; a
  wake-up trades one post for one active worker.

`SchedulerOwnership` is about the tasks, when no plugin destroys its request
itself: every theorem has the hypothesis `~Detach`. It cannot be dropped. A
request that a plugin destroys leaves a task that nobody finishes, whose id is
allocated, and allocated ids grow into the socket numbers: detached_collision
is the counterexample. With `~Detach` every task has the id of its socket, and
nobody takes an id from the allocator.

The invariant is `OwnInv == TypeInv /\ Owned` (`TasksAreOwned`). `Places` says
that the tree, the FIFO, the list of the scheduler and the threads' hands are
disjoint and hold all tasks; `Finishers` that every open request has one task
that carries it (a handler with `finish_request` at the end of the chain, or
`finish_request` itself, or killed); `HandsOf` what a thread holds at each label.
The properties need each other: that an insertion displaces nobody needs that no
other task has the request's id, that is, one carrier per request; that there is
one carrier needs that `execute_callback` joins a chain that ends in
`finish_request` with one that has none of it, which needs that the task in the
thread's hands is in nobody else's. From it follow `TasksInOnePlace`,
`HandlersAreCalledSafely`, `OneTaskFinishes` and `NobodyIsDisplaced`
(`NoDisplacement` is a property of steps). `PendingIsExact` adds the count: an
insertion grows the tree by one because it displaces nobody.

`SchedulerServesRequests`, in the same module, is the refinement of
`RequestService`. An accept maps to an accept; a call of a handler, its return,
and the end of a request in `finish_request` or in the kill to the steps of that
name; every other action leaves `open` and `Runners` alone. That a handler is
entered only while no other runs on the request is `Finishers`.

### Httpd

`HttpdProofs`, for any finite sets of ports, connections and threads, any limit
and any set of setups, from `HttpdAssumption`. The invariant is
`Inv == TypeInv /\ CountInv /\ LimitInv`:

* `TypeCorrect`: `TypeInv` adds to `TypeOK` that the accepted connection is open
  and not yet the scheduler's until its task is added.
* `CounterCorrect`: `CounterExact`, on any number of processors. A write changes
  `off` by the difference of the counter between its read and itself, which keeps
  the equation; where connections are counted
  (`Counted`) nobody is between a read and a write, so `off` stays 0.
* `LimitIsKept`: `LimitHolds` needs `LimitInv`: the counter and what main may
  still add before it looks again (`Reserved`: the ports that select reported,
  and the connection in its hands) fit into the limit, and so does every old
  value that will be written back. With one port an old value minus one is at
  most `maxcon`, which leaves room for what is reserved; that is where one port
  is needed.

### Bst

`BstProofs`, for any finite set of keys, any data and cells, from
`BstAssumption`. The invariant is `TreeInv` (`TreeIsSound`): the tree is one of
`Tree`, it is a search tree whose cells differ (`Good`), and its cells are the
allocated ones.

* The operators are recursive functions, so each proof is an induction over
  trees. `TreeInduction` and `TreeRecursion` state induction and recursion with
  a set and a function, and are proved from well-foundedness. `FindIs`,
  `InsertIs`, `DeleteIs`, ... unfold an operator by one level.
* `Inserts`, `Deletes`, `FindFinds` and `Visits` say what the operations do to
  keys, entries, cells and the order. A deletion with two children needs that the
  successor is the least node of the right subtree (`FindMinLeast`) and the only
  one with its key (`UniqueNodes`).
* `GoodLevel`: a search tree has no more levels than keys, so an insertion
  (`InsertLevel`: one level more at most) stays within `Tree`: the levels in the
  model bound nothing.
* `LookupsAgree`, `NodesAreAllocated` (`CellsCount`: as many cells as keys) and
  `OneEntryChanges` follow.

### Pipeline

`PipelineProofs`, for any requests, descriptors, paths and rules. The invariant
`PipeInv` (`RequestsAreSound`) says of every request, for the handler it waits
for, which callbacks and answers it may have (`Sound`), who owns each open
descriptor (`Owners`), and which descriptors a waiting request has (`Open`).

* `OneAnswer`: the answers so far are a function of where the request is in the
  chain, and an error clears the chain. It needed that a body is read only by a
  handler that runs after the header was decoded.
* `NoDescriptorIsLost`, `EventsAreOwn`: every handler that drops a descriptor
  from its task closes it, and the number that the kernel gives is free.
* `OnlyLateKillsStray`: a handler closes its own; only a kill after the
  backend's close finds a stale `PROXY_HANDLE`.
* `NothingSentIsLost`: a turn relays what it reads or ends the relay as
  `"error"`, so before that what was read was relayed; the read that finds the
  end (`ReadsEnd`) comes only after all that was sent has been read, and after
  it the backend sends no more. What a hang-up leaves is excepted by name.
* `RoutedAsConfigured`: for lists of rules of any length. `RulesAgree` compares
  `apply_rules` with the configured reading one rule after the other: as long as
  no `<break>` rule fails to match, both have the same path and query and both
  have stopped or neither. The invariant `RouteInv` says of the header that all
  that was read in earlier calls is lost, so that what the last call read is
  what `lost` does not have. The rules are applied by a recursive function; that
  it exists, and the comparison, are inductions, for which the library's theorem
  takes an operator the provers cannot instantiate. `UpTo` states induction with
  a set instead and is proved from well-foundedness (`WFMin`).

### SocketIO

`SocketProofs`, for chunks and streams of any length, with or without TLS and
compression. The invariant `SockInv` (`TransfersAreSound`) has the types and
positions of the call in progress, `ReadInv` and `WriteInv`, and
`HoleNeedsTimeout`. `ReadInv`: what the caller got, what the call holds and what
the peer sent follow each other. `WriteInv`: wire, unsent rest of the chunk and
compressor are one increasing run (but for a second header, which may pass what
the compressor holds), complete unless a transfer gave up and but for the
`dropped` bytes, and the parts of a response that are still to come follow it.

* `BytesAreReadInOrder`, `StreamStaysIntact`, `CloseLeavesNothing` follow.
* `HolesComeOfTimeouts`: after an error that is not a time-out nothing is sent
  any more, so unless a second header was sent a hole comes of a time-out; that is
  why `Causes`, which relates `lost` to the state of the peer,
  is part of the invariant.
* `StopsHaveACause` is about steps: a call ends short only with a cause at hand.

### PluginManager and Dictionary

`PluginProofs`, for any names and libraries, any sizes of the two tables and any
hash function into the naturals, that is, for every collision. The lemmas about
the dictionary come first: `dlookup` finds exactly the keys that are there,
`dput` changes one key and keeps every key in one chain once, `dvalue` gives what
is held. The invariant `PlugInv` (`PluginsAreSound`) relates the three levels:
what is not freed is held by the dictionary of its entry under its name; what a
dictionary holds is not freed; an entry is in a bucket where a name of its file
puts it, and alone for its file if that is always the file's own bucket.

* `NothingIsDroppedTwice`, `NoContextIsLost`: a context leaves the dictionary in
  the step that frees it. A context whose creation is under way is the exception
  the lemmas carry along (`HeapBut`); it ends held or dropped.
* `ContextsAreRight`, `OnlyPanickedAreFreed`, `LoadedOnceIfInItsBucket`.

### WsFrame

`WsFrameProofs`, for any buffer of `ws_send_file`, any lengths an `int` holds and
any number of messages in flight. The lemmas about the encoding come first: the
length bytes hold the length in each of the three encodings, and the header that
`ws_read_header` decodes is the one that `ws_send_frame` sent (`DecodeRight`).

The invariant `WsInv` (`FramesInvariant`) describes a channel frame by frame:
each first byte starts a whole header, its payload follows, and behind it stands
a frame that may come next (`Goes`: the next fragment, or a later message) or
the end of the channel, where the sender is (`Stops`: how far it is in its
file). The reader is before such a frame, or inside one with `h.plen` bytes left
of it. A frame sent extends the channel (`EndExtended`), a header or a piece
read shortens it (`HeaderTaken`, `DropRight`), and neither end disturbs what the
other knows.

* `ReadersInSync`, `MaskedByRole` follow. The mask of an answer is right because
  it is the opposite of the mask of a frame that is masked by role.
* `MessagesArriveWhole` has the hypothesis `WholeKeyPieces`: the sizes that the
  caller gives `ws_read_data` are multiples of four. It cannot be dropped:
  ws_pieces is the counterexample, with a buffer of 1024 bytes. That the caller
  asks for whole keys is not enough where a read comes short inside one; the
  property excepts what follows (`slip`), and the invariant carries along that
  without a slip the rest of a frame begins with the first key byte. `GotInv` has
  what holds without the hypothesis: the lengths, the order and the senders.

### Only model-checked

Liveness, which is out of the prover's reach: `EveryRequestEnds`,
`StopCompletes`, `AcceptsAgainIfCounted`, `OnceDecodedItEnds`, `CallReturns`,
`PingAnswered`. Every invariant and every action property that a passing run
checks is a theorem, under the hypotheses named above.

## 5. What is not modelled

* The scheduler after the joins of `stop` (`antd_scheduler_destroy` against the
  detached scheduler thread), its statistic thread, and failures of its
  initialisation. `stop_serve` as a signal handler that interrupts a thread
  inside a critical section: in the model main stops between two of its steps.
* Memory other than tasks, contexts and tree nodes, and the descriptors of
  files.
* Texts: what headers, queries, cookies and multipart bodies contain, MIME types,
  URL coding, regular expressions; the contents of uploaded files. They are
  sequential and have no state of their own.
* The client's side of the WebSocket handshake, and lists.
* The configuration (read once), the third-party algorithms, build files.

`PROJECT.json` gives the status and the reason for each component.

## 6. Plan

Next: the end of the scheduler after the joins of `stop`, with its statistic thread
and `bst_free_cb`; then what a header, a query and a body contain.
