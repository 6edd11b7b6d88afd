# TLA+ verification of File Peeker

File Peeker is a file browser for local and remote hosts. The repository holds
v2 (the root crate: a persistent server per machine, and clients that attach to
it) and the shipping crate in `old/`. This directory models the core of both and
checks it with TLC and TLAPS. Every definition is translated from the Rust source;
`PROJECT.json` maps each one to its lines.

Line numbers below are of the files under the repository root; a file under `old/`
is named with it.

## Inventory

| Component | State it keeps | Operations | What is hard | What makes it correct |
| --- | --- | --- | --- | --- |
| Task runtime (`src/task/`) | a registry behind a lock (tasks, queues, admitted counts, resources, settled roots), one tree of cancellation tokens, one `Notify` shared by everyone who waits | submit, spawn, admit, run, cancel, wait for children, settle, evict, `idle()`, resource changes | every driver, body and caller interleaves between two critical sections; one `notify_waiters()` serves every condition; cancellation races everything | places never over-taken or leaked, first in first out, no lost wakeup, a child never outlives its parent, eviction takes only what is settled, every task settles |
| Task progress (`report_progress`, `flush_progress`) | a throttle per task: `last_sent`, `pending`, `flush_scheduled` | report, flush, settle | a timer set for one report fires after another was sent | the last report reaches observers before the end; no more than one event per interval |
| Server (`src/server/mod.rs`, `listener.rs`) | the lock file, two socket files, the shutdown and closing tokens | take the lock, claim and bind sockets, rebind, stop, crash | two servers starting, one stopping while another starts, `/tmp` cleaned underneath | one server per home; whoever is told one runs can reach it; a stop ends within its budget |
| Attach and watch (`src/server/attach.rs`, `client/tasks.rs`) | one broadcast receiver and one bounded channel per client | handshake, snapshot, forward, lag, close | events applied to a state that has moved on; lag; eviction before forwarding | the client's copy catches up with the registry, and never goes back |
| API (`src/server/api.rs`, `src/client/api.rs`) | open connections | status, demo, stop | a request read while the server stops | every request answered once; stop answered before it takes effect |
| Client (`src/client/mod.rs`) | none of its own | find, start, wait, attach, watch | two clients starting at once; a server that stops between two steps | both attach to one server |
| Remote machines (`src/client/{remote,ssh,machines}.rs`, install scripts) | `machines.toml`, the host's install | probe, install, bridge, load, save | two editors of one catalog; an install cut off | a catalog is old or new, never half; an install is whole |
| TUI (`src/tui/`) | per machine: connection state, tasks held, when each was seen settled; selection, menu | reconnect with backoff, apply updates, expire, keys, mouse | the UI acts on an older connection state than the connection is in; settled tasks that expire and come back | reconnecting only attaches; a settled task leaves the pane and stays away |
| Filesystem (`src/fs/`) | a partial file per write, streams | read, list, walk, write, entry | an await dropped while its system call runs on; a destination that appears meanwhile | a write is published whole or not at all, and leaves nothing behind |
| CLI, home, config, path strings, protocol | files under the home | one-shot commands, parsing | boundaries of encodings | round trips, limits |
| Shipping: browser (`old/src/browser/`, `old/src/tui/browser_context.rs`) | a tree of rows, expansions that stream into it, a selection, a filter prompt with descents | listings, expand, collapse, reroot, filter | entries that arrive for rows that have moved, closed or been restarted | rows stay a pre-order, the selection stays put, an abandoned prompt leaves nothing open |
| Shipping: TUI application (`old/src/tui/app/`) | connection rows, tabs, overlay, clipboard, one transfer, quit confirmation | keys; reports of tasks; shutdown | a report that arrives when the world has moved on | references stay valid, a late answer changes nothing, nothing outlives the program |
| Shipping: client and copying (`old/src/client/`, `old/src/server/ops/write.rs`) | a slot per connection with its server; two streams per copy | open, borrow, close, close all, copy | a close, a lost server or an abort at any await of a copy | a file is published whole, an answer is true, a close ends |
| Shipping: listing and walking (`old/src/fs/`, `old/src/server/ops/`, `old/src/client/rpc/`) | a stack of open directories, a batch, the wire | list, walk, cancel | the host changes between two system calls; errors in mid-stream | what ends well is whole, errors come after what was read, names survive |
| Shipping: GUI, drawing | layout | - | nothing concurrent | not modelled |

How they meet: the API and (in time) the client protocol submit to the task
runtime; the runtime broadcasts events; each attached client's forwarder turns
them into messages; the TUI's connection task relays those to the UI loop, which
applies them. The server's stop cancels every task, waits for `idle()`, closes
the watch streams and removes the sockets; the lock goes last.
In the shipping crate the App's keys start tasks on the Client (open, close,
resolve, copy), which report on one queue; a tab's listings report on its own
channel; a copy holds two connections together through two streams.

## What is modelled

| Module | Of the code | Composes or refines |
| --- | --- | --- |
| `TaskPool` | what `src/task/` promises | - |
| `TaskRuntime` | the registry and the drivers | implements `TaskPool` |
| `ProgressThrottle` | a task's progress events | - |
| `TaskWatch` | tasks as a client sees them: runtime stages, forwarder, stream, pane, the stop | abstracts `TaskRuntime` to stages |
| `ServerLock` | who serves a home | its one step of stopping is `TaskWatch`'s |
| `Connection` | one machine in the TUI | - |
| `Machines` | the catalog, and what `machine add` does on a host | - |
| `WriteFile` | concurrent writes of one name | - |
| `PathNames` | escape and typed paths | - |
| `Listing` | listing and walking, both crates, up to the printed line | EXTENDS `PathNames` |
| `BrowserTree`, `Browser` | the tree of rows; a tab with its listings and prompt | `Browser` EXTENDS `BrowserTree` |
| `App` | the shipping TUI around its tabs | - |
| `Transfer` | connections, servers, one copy | - |
| `*Proofs` | theorems of the module they are named for; `TuiProofs` of `Connection` and `Browser` | EXTEND it |
| `MC*` | instances for TLC | EXTEND it |

### `TaskRuntime` - the registry and the drivers

One action per critical section of the registry lock, and one for each
`notify_waiters()` that is called after the lock is released. The gap between
the two is where a wakeup could be lost, so it is never folded away. `pc[t]` is
where the driver of `t` stands in `drive()` (runtime.rs:386-440) and the
functions it calls:

| `pc` | code | actions |
| --- | --- | --- |
| Register, Check, Wait | `admit()` 456-497: `enable()`, the decision under the lock, the select | AdmitRegister; Admit, FailAdmission, WaitForAdmission; WakeToAdmit, CancelWait |
| AdmitNotify, LeaveQueue, LeaveNotify | 477-482, 398-400, 527-532 | Notify, LeaveQueue |
| Start, Select, Join | 406-418 | Start, SeeCancel, JoinBody |
| DropSlot, DropNotify | 419, 669-685 | DropSlot, Notify |
| FinishRegister, FinishCheck, FinishWait | `finish_children()` 502-525 | FinishRegister; ChildrenFinished, CancelChildren; WakeToFinish |
| Classify, Settle, SettleNotify, Done | 422-438, `settle()` 555-588 | Classify, Settle, Notify |

`waiters` is the set of callers whose `Notified` is registered and that no
notify has reached: `enable()` adds the caller, `notify_waiters()` empties the
set, dropping the future removes it. `token` is what `is_cancelled()` returns:
cancelling a task cancels the tokens made from its own, the whole subtree, and a
child's token starts as its parent's (runtime.rs:143-150).

Two choices of grain. The admission decision and `set_queued()` are two critical
sections of one driver over fields only that driver writes, and are one step.
`SeeCancel` does not require that the body is still running: the biased select
polls the body and then the token, and the body may return in between.

Data that is left out: descriptors, timestamps, item batches, output values, the
events themselves and progress. A body is whatever it spawns and returns; it may
return `Interrupted` when nobody cancelled it, as nothing prevents that.

`Together` bounds which tasks and `idle()` calls one behaviour may have; it is a
bound of the instances, and the proofs hold for any.

### `TaskPool` - what the runtime promises

The abstract specification: tasks wait in line, take a place in order, run, give
it back and end from the leaves. No lock, driver, notification or retention.
`TaskRuntime` implements it (`ImplementsPool`, an INSTANCE with a refinement
mapping from the registry).

### `ProgressThrottle` - a task's progress events

`report_progress()`, the flush timer and `settle()` (runtime.rs:253-308, 555-588)
against a clock. Each takes the registry lock once, so each is one action;
ReportNow and ReportLater are the two branches of a report. `timer` stands for
`flush_scheduled` and the spawned flush together. `Flush` fires at its time or
any time later. A report carries all there is to see, so it is its number.

A flush does not look at `last_sent`: one that was set for a report held back
early, and fires after a later report was sent directly, sends the next report
within the interval, which runtime.rs:33 calls the shortest gap. The model shows
it (ReportNow, ReportLater, ReportNow, ReportLater, Flush); no report is lost by
it, which is what the run checks.

### `TaskWatch` - from the server's tasks to a row

API connections that submit demos, the tasks with the settled roots the registry
retains, `forward_tasks()` with its broadcast receiver (server/attach.rs), the
stream, the pane's rows (tui/app.rs:348-402), and the stop of the server under all
of them (server/mod.rs:225-261). A task is a stage, None to Gone; it is Ended while
retained and Gone once evicted or with its process.

| State | code | actions |
| --- | --- | --- |
| `stage`, `roots`, `token` | the registry | StartTask, Report, BeginCancelling, EndTask (which evicts), SubmitDemo |
| `conn` | `connection()` of server/api.rs | ReadDemo, SubmitDemo, AskToStop, CloseConn |
| `stop`, `shut`, `late` | `serve()` after its signal | Signal, CancelAll, Idle, CloseStreams, Join, DeadlinePasses; Crash, Restart |
| `fwd`, `unread`, `lagged` | `forward_tasks()` | Subscribe, FirstSnapshot, ReadChange, Lag, SeeClosing |
| `wire`, `link` | the channels and the socket between | LoseLink, and every send |
| `rows`, `settledAt` | `Machine` of the TUI | Apply, Expire |

`Broadcast` is tokio's: a full receiver forgets its oldest and reports a lag. An
event is made of the registry as it is when the change is read, not as it was when
the change was sent. How far a task's progress is and the handshake are left out.

### `Connection` - one machine in the TUI

`run()` of tui/connection.rs, the UI loop that applies its events, and a server
that others start, stop and lose. `pc` is where `run()` stands: every `await` is a
point of its own, the sends of events included, since a full channel blocks them.

| `pc` | code | actions |
| --- | --- | --- |
| Announce, Attach | 115-121 | Announce; AttachSucceeds, AttachFails |
| AnnounceAttached, Watch | 122-142 | AnnounceAttached; Relay, WatchEnds |
| AnnounceLost, Sleep | 147-163 | AnnounceLost; WakeUp, TakeCommand |
| AnnounceStarting, Start | 164-168 | AnnounceStarting; StartServer |

`OnConnection` is the UI's `on_connection_at()`, `PressStart` its `s` key with the
`try_send()` that drops a command when the channel is full. The two event
channels in a row (16 and 64) and the task between them are one queue, which
reorders and loses nothing. `reach` is what a probe of the machine finds; for the
local machine it is always `ok`. `wish` is what the user last asked of the server:
it is no state of the program, and only `StaysStopped` reads it. Quitting aborts
the tasks and is left out.

### `WriteFile` - concurrent writes of one name

`write_file()` (fs/write.rs:46-189) and tokio's blocking pool. A write is two
processes: the future (`pc`) and the system call it has in the pool (`call`,
`answer`), because a future that is dropped does not take its call with it.
`files` says whose inode each partial name is, so a name that is unlinked and made
again is told from the file someone still writes to. `write_all()` hands a chunk
over and returns; only `flush()` waits for it, and reports its error.

A bad name, a relative path and a directory that is none are one refusal. Two
writes of one process never share a partial name (`NEXT_PARTIAL`); names an
earlier process with the same pid left are `Leftovers`.

### `ServerLock` - who serves a home

`acquire_lock()`, the sockets and their guard, the listeners' rebinding and the
end of `serve()` (server/mod.rs, server/listener.rs), a client that attaches or
starts (client/mod.rs) and `fpk server stop` (client/api.rs). Every look at the
file system is a step: acquire_lock() looks at the socket twice after it found the
lock taken (`Look`, `LookAgain`). Locals drop in reverse order of declaration, so
`DropApi`, `DropClient` and `Unlock` end every `serve()`, a failed one too.
A crash releases the lock and leaves the files; a cleaner of /tmp takes a file.

Of time: `LOCK_GRACE` passes only while a server holds the lock that is neither
about to bind nor about to exit, as the grace is much longer than those instants.
What a stopping server does between its signal and the removal of its sockets
(tasks, streams, the budget) is one step here.

`stop()` waits for an instant without a client socket. A server that is started
between two of its polls binds the same path, and `stop()` goes on to report a
timeout of the server that stopped (`StopTimesOut`).

### `Machines` - remote machines

An editor is one `fpk machine ...` or `fpk --machine ...`; what it starts on a host
is a process of its own (`script`), which goes on when the editor dies. `pc` follows
`add` (cli/machine.rs, client/remote.rs): Load, Probe, Agree, SendUpload, SendInstall,
Answered, Restart, Reprobe, StartServer, and Open, Write, Rename of the catalog.
`script` follows the two install scripts: Clear, Extract, CargoInstall or Fetch, Copy,
Move, Record. A build is a number; `recorded` is the hash file beside the binary;
`master` is the SSH connection commands share, so an install stays on one host
while it lasts. The catalog's file and its partial are inodes, so that two writers of
one partial, a truncated one and a renamed one are what they are. `overlapped` and
`marred` are no state of the program: they say when two editors held the catalog at
once, and which installs something else interfered with.

### `PathNames` and `Listing`

`PathNames` has the escape of host names, its refusals, joining, components, and what
a typed path names (`~`, `$`, `.`). `Listing` has the traversal (`stack`, `descent`,
`found`), the token, batches (`chunk`, `out`), the wire, the client's conversion
(`pending`), and the command that prints. An action of the server is what lies between
two awaits; the host changes between any two. One model has both editions: `served`
over gRPC with a token, `pulled` by a task that drops the stream.

`Scan` and `Only` stand for folds: TLC evaluates an argument or a LET inside ENABLED
as often as it is named. Whether a byte decodes as UTF-8 is taken to be its own affair.

### `BrowserTree` and `Browser` - a tab

`BrowserTree` has the operators from trees to trees: rows in pre-order with depth and
state, `places` (where an expansion's next rows go), restart and reroot, insertion and
collapse with the renumbering of the rest, the filter's window. `Browser` says who calls
them: `tasks` is the listings under way, `channel` what they have sent; an aborted
listing's groups still arrive, and `generation` or the request's absence makes them
stale. Keys: Refresh, EnterSelected, Leave, ActivateSelected, MoveSelection,
ScrollHalfPage; prompt: BeginFilter, ExtendFilter, ShortenFilter, CompleteFilter,
DescendFilter, ClearFilterEntry, SubmitFilter, Abandon. `found` and `relisted` are no state
of the program: the directories that were open when the prompt opened, and whether a row
that kept what came before an error has been listed again.

### `App` - the shipping TUI

`app` is what a key's handler reads and writes at once; `start`, `resolving`, `copies`,
`closing` and `timers` are the tasks it started, `events` their reports, and `phase` the
main loop and the steps of `shutdown()` (AbortTasks, CloseAll). One action per key in
the overlay that takes it, one per step of a task, and `Apply` for a report.
`RemoveContexts` is the closed form of the code's removal one by one. An event drained
in shutdown may still open a tab, which nobody draws.

### `Transfer` - connections and one copy

`Client::open()` (`opening`), the registry and its slots, `close()` (`closing`), each
connection's server, and `op_copy_file()` (`op`): source found, locked, resolved and
opened, destination found and locked, the Write sent, its answer. Between them
`read`/`left`/`rwire` (the Read), `source`/`wwire` (the request stream) and
`write`/`part`/`dest` (server/ops/write.rs over fs/write.rs). Dropping a future does
not take back the system call it is in (`DropWrite`), and the guard's drop only spawns
the removal of the partial file (`sweep`).

A connection in `Stuck` may have files that are slow for ever, as on a hung mount: there
the actions of `FileWrite` and `FileRead` need never happen. A cancel reaches a wait only
where the code has `cancellable()`: not the look at a name that must be free, the open,
the link or rename and the removal (`Uninterrupted`).

## Runs

| Run | Instance | What it shows |
| --- | --- | --- |
| `task_runtime` | two roots over one place, or one root with two children in any shape; none retained; symmetry | places, order, queue, wakeups and the tree are right with a cancel at any point; every step implements `TaskPool` |
| `task_liveness` | two roots over one place that need a resource, or one with a child or beside a call of `idle()`; one retained | everything submitted settles once resources rest, whoever holds the place or leaves the queue, and `idle()` returns |
| `progress` | four reports, interval 3, nine ticks | no report is lost, and the latest is out before the end |
| `connection` | three events, four commands, a 3-bit counter | what the UI draws catches up; a server that stays is attached; a start that waits is taken |
| `write_file` | three writers of two chunks, five names, two of them taken, two tries; symmetry | published whole or not at all, nothing overwritten, results true, nothing left on return |
| `server_lock` | three servers (one may crash, one fail to bind, two be stopped), a client, one cleaning | sockets that stay, refusals that are true, no socket left but by a crash, nobody waits for ever |
| `task_watch` | two tasks, one retained, a receiver of one, a wire of one, two attachments, two servers | rows only advance and follow; a stop ends, and tells how tasks ended |
| `browser` | six nodes, four of them directories, any of which may break anywhere, starting below the top; two expansions, two root listings, one event on the channel | rows stay a tree, arrivals leave the selection, an abandoned prompt restores, listings settle |
| `app` | two connections, one path request, one transfer, one report waiting, two quits | references hold, late answers change nothing, nothing left at exit, answers arrive |
| `transfer` | an embedded connection with stuck files and an SSH one, one chunk, one frame, one fault; two copies to another name and one onto itself | only whole files are published, answers are true, closes end and take copies along, but for an embedded server that is held up for good |
| `listing` | a root with a directory, a file and a link, two files below; two entries a chunk, a byte limit, one change | ends, errors, order and names are told truly; the command returns |
| `machines` | two editors, two hosts, one target that leads to the first of them at first, three builds, one trouble | the catalog is whole, a match is what was built, asking again heals |

The bounds, and why they are enough. Two roots over one place are the smallest instance in
which a root waits for a place that another gives back, is cancelled in the queue, or is
admitted as a notification is on its way; the theorems about admission hold for any number
of both. In `task_liveness` they are submitted in one order only, as they differ in
nothing else; a second root, a child and an `idle()` call are not in one behaviour:
`idle()` waits for roots only, whatever they have spawned, and a child takes no place.
Retention is 0 or 1 so that eviction happens with one task or two. Four reports over three
intervals allow a direct send, a held-back report, a second direct send with the timer
still set, and another held-back one. Five names are two tries for each of two writers, so
a writer runs out of tries. A 3-bit counter makes the shift of the delay overflow after
three failures. Three servers are one that ends, one that takes its place and one that is
told about it. Two tasks over one retained evict one before its end is forwarded; a
receiver of one lags on the second change. Two root listings make an earlier one's groups
stale. The top of the browser's file system has two directories, and the first of them
another: of two expansions that stream at once one is above, below or inside the other, a
group of one moves the other's row and place down, and closing a row between moves them
up. Any of the four may break before or after its entry, so a row that kept a child is
listed again. A browser that starts below the top can leave its directory and enter it
again; by one event on the channel a group is already late when its listing is aborted or
its root is left. One path request meets every key and every other report before its
answer. One chunk already lies in any of four places, and one frame of flow makes both
streams wait; a copy that fails on a conflict, one that replaces and one whose source is
its destination are the three ways into `op_copy_file()`. One change of the host, at any
point, meets every system call of the traversal. One trouble cuts off each step of an
install, and the same editor then goes through it again.

Symmetry is used only in runs without liveness. Caps are those of `Config::default()`.
Deadlock is checked except where the system really may stop or its bounds are used up:
`app` (it exits), `browser`, `task_watch` and `transfer`. In the others `AtRest`, or a
like step, is the one step of a system that has nothing left to do: a process that could
never move again shows as a deadlock.

Every property has a mutant in `PROJECT.json`: a change of one mapped definition, of the
kind a bug would be, under which the run finds the property violated.

### Fairness

- Tasks: `WF` of each driver, of each `idle()` call and of each notification that is due:
  tokio polls every task that is ready. Which of two roots is first in the queue, and that
  one leaves it or gives its place back at any step, is not left to fairness. `WF` that a
  running body returns, whatever it returns: the runtime has no backstop against a body that
  never does (docs/task-architecture.md says so), so without it nothing settles. No fairness
  for submission, cancellation or resources; `EverythingSettles` therefore assumes that the
  resources come to rest.
- Progress: time passes, and a timer that is due runs. Nothing makes a body report.
- Watch: a cancelled body ends (demos look at their token at each step), the stop and the
  forwarder go on, the deadline passes, the UI applies events and expires rows, a
  connection that is told of the shutdown closes. A task that nobody cancels may run on.
- Connection: the task goes on wherever it can, the UI loop takes events, and a
  command that keeps waiting is taken (`SF`): `select!` polls its branches in
  random order, so the sleep does not win for ever. Updates, users, servers and
  networks owe nothing.
- Servers: a process goes on, its listeners look at their files now and then, time
  passes for one that waits on the lock, and a client polls. Nothing starts,
  stops or crashes a server by fairness.
- Browser and App: every task is polled, the loop applies what was reported, `shutdown()`
  goes on. No key is ever owed.
- Transfer: both runtimes go on and timers fire. A call on a file is owed only outside
  `Stuck`, and there its cancel where the code looks at the token (old/src/fs/write.rs:98,
  189, 197, 244 and 47 do not). `ClosingSettles` therefore excepts an embedded server that
  such a call holds up for good (`AlwaysLetGo`), and the copy to it; a server behind SSH is
  another process, which the client's timeout ends. Nobody has to close or abort.
- Listing: the server and the client go on. The host owes nothing.
- Machines: editors and scripts go on, an orphan goes on or is ended, and one user asks
  again for as long as asking is possible (`SF`), which is the premise of healing.

## Proofs

26 theorems, in eight modules. TLAPS proves them for every value of the constants, from
the named `ASSUME`s of the modules alone (finitely many tasks, ids of different sorts
differ, a cap is a number or unbounded, bounds are numbers), which TLC evaluates in
the runs.

`TaskRuntimeProofs`, for any finite set of tasks, any kinds, caps and resources:

- `TypeCorrect`: `Spec => []TypeOK`. One step per action. The two that are not
  immediate are the resource a task is shown waiting on (a set of positions that
  is not empty has a first one, by well-founded induction on the naturals) and the
  suffix of settled roots that retention keeps.
- `WakeupsNotLost`: `Spec => []NoLostWakeup`. `NoLostWakeup` alone is not
  inductive: a submission sends no notification, so it must not make room for
  anyone who sleeps. It does not, because its seq is greater than any in the
  queue. The invariant is strengthened with `SeqBelowNext` (every seq in use is
  below `next_seq`) and `WaitersSubmitted` (only a submitted task's driver is
  registered). Then every step either wakes everyone (`Notify`,
  `ResourceNotify`), leaves its actor with a notification to send (`Admit` of a
  capped root, `LeaveQueue`, `DropSlot`, `Settle`, `ChangeResource`), or leaves
  every sleeper's condition as it was and puts to sleep at most a driver whose
  condition it has just found false (`SleepFrame`, `QuietStep`).
- `AdmissionIsRight`: `Spec => []AdmissionHolds`, with `DriversStand` (where a driver
  stands says what the registry shows of its task), `SeqsDiffer`, `CapRespected` (what
  is admitted is what holds a slot) and `QueueHoldsTheLine` (the queue of a class is the
  roots that wait, in order).
- `TreeIsKept`: `Spec => []TreeHolds`. The tree's three parts hold each other up, and
  need `Parents`, `ChildrenInTime` (only a body that was started has children, and none
  past its join) and `Kept` (eviction takes only what is settled).
- `RuntimeImplementsPool`: `Spec => ImplementsPool`, the refinement: the initial state
  maps to `TaskPool`'s, each step of a driver or a caller to a step of it or a stutter.
  The order of `seq` is `TaskPool`'s order of waiting, so a root that the registry admits
  is one before which none waits.

The same module proves of `ProgressThrottle`, for any interval, number of reports and
length of the clock: `LatestReachesBeforeEnd` and `HeldBackIsFlushed`, from one invariant
that says what pending means (a report is out, or pending with a timer set).

`TuiProofs`:

- `DrawsWhatHolds` (`CatchesUp` of the connection), for any sizes of the two queues and any
  width of the counter. It is inductive together with the types: the last event of the
  queue, or else what is drawn, is what `run()` announced last.
- `SelectionStays` (`ArrivalsLeaveSelection` of the browser), for any file system, groups of
  any size in any order, listings that break anywhere, and whatever keys come between. A step
  of `apply()` keeps the selected row because what lands above it moves the selection by as
  much, which needs that every placement lies within the rows, below its own directory, and
  that the row it names still is loading for it (`Placed`): so the clamp at the end of a
  listing changes nothing, and an expansion is settled where it is. `Sound` says so of the
  tree, with the types that the handlers need, and is kept by every key and every event.
  That a collapse keeps it rests on what `Collapse` drops: no placement that is left names a
  row of the subtree. The keys of the prompt need that there is a k-th row on the screen
  (`RankHasRow`), and that the chain of `CloseDescents` exists and is sound at each link.

`WriteFileProofs`, for any writers, sizes, names and tries: `WriteTypeCorrect`;
`PublishedWhole` and `ResultsAreTrue`, from an invariant that says where the chunks
handed over are (in the inode, or in the call in the pool) at each place of
`write_file()`; `ExistingIsKept`, as a link is asked for by no other conflict;
`ReturnsLeaveNothing`, from `PartialsOwned`: a name that is neither a leftover nor
unlinked is the one its writer guards, or has in an open that is still in the pool.

`ServerLockProofs`, for any servers and clients:

- `LockTypeCorrect`, which includes that exactly the server past `acquire_lock()`
  holds the lock;
- `ServingStaysReachable`, from `BoundByHolder`: only the holder of the lock makes or
  removes a file, so what it bound is there until a cleaner comes;
- `AlreadyRunningHolds`, from `SocketsMeanHeld`: until a cleaner comes a client
  socket is of a crashed server or of one that holds the lock, and `stop()`
  returns only once its server has removed its own.
- `CleanStopsLeaveNothing`, from `FilesOfTheLiving`, which says at which places of its stop
  or failed bind a server still has which of its sockets: a socket file is of a server that
  runs, or of one in `MayCrash`. As `MayCrash` is any set, no server that does not crash
  leaves a socket. It says nothing of `server.lock`, which nothing ever removes.

`TaskWatchProofs`, for any number of tasks, connections, servers and attachments and any
sizes:

- `RowsOnlyAdvance`: `Spec => NeverBackwards`. The property compares a row with its next
  value; the invariant behind it, `InOrder`, chains a row, the events on their way in
  their order, and the registry: each says of a task at least what the one before says.
  It needs that stages only rise (`StageRises`), which needs `DemosFit` (a connection
  that is about to submit finds a number free) and `RootsSubmitted` (what is evicted was
  submitted). It need not tell one stream from another: an event is made of the registry as
  it is, and goes behind those on their way.
- `StopTellsTheEnd`: `Spec => StopTellsHowItEnded`. Three parts more. `StreamClosed`:
  nothing follows the end of a stream on the wire. `CancelledAreOver`: in a stop within
  its budget what was cancelled is over once the streams close. `EndIsTrue`: the end comes
  right after a snapshot in which no cancelled task is live; and, as the next server may
  start and cancel tasks of its own before the pane has read the end, nothing of what
  that server runs is in a row or an event yet, which `InOrder` gives.

`TransferProofs`, for any number of chunks, frames, connections and faults:

- `WholeIsPublished`: `Spec => PublishesTheWhole`. The invariant `Pipe` counts chunks: the
  partial file, the Write's frames, the Read's items and what is unread are together the
  source while nothing failed (`NothingSkipped`), so a commit stands behind all of them
  (`CommitIsLast`).
- `AnswersAreClean`: `Spec => []AnsweredIsClean`, with `World` (a server that is gone, and
  a connection closed, stays so) and `Answered` (an answer means that the Write is over,
  and, if nothing disturbed it, what it says).

`AppProofs`, for any number of connections, dialogs, transfers, reports and quits:
`ReferencesStayValid`, `LateAnswersAreIdle` and `ExitLeavesNothing`. The invariant has
four parts. While it runs, `Right(app)`: tabs, selection, overlay, the dialog's request
(whose tab was never there) and the transfer refer to what is; and `EventsRight`: a
report on its way stays true of what it is about, whatever keys come before it is
applied. `CopiesOwned`: a copy that runs is the App's, or one that a close joins.
`Ended`: what each step of the shutdown has taken down stays down. One lemma per key, per
step of a task and per step of the loop.

`MachinesProofs`, for any number of editors, hosts, targets, commands and builds and any
amount of trouble: `CatalogIsHeld` (`CatalogHolds`). `Sound` holds while no two editors
have met: at most one is past its `load()` (`Alone`), and where it stands says what it
holds (`Fits`): the catalog as it is while an `add` goes on, its own change of it once it
saves, an empty partial file that nobody else has open before it writes, and the whole
change in it before the rename. That an added machine has a binary needs a second
invariant, of the hosts (`HostsReal`): whatever was cut off, what a script moves into
place is never nothing, so a binary is only ever replaced by a binary (`BinariesStay`).

Only model-checked:

- liveness, and everything under fairness: `EverythingSettles`, `EveryReportReaches`,
  `LoopGoesOn`, `NobodyWaitsForEver`, `PaneFollows`, `StopEnds`, `ListingsSettle`,
  `AnswersArrive`, `ClosingSettles`, `CommandReturns`, `HealsByRepeating`: the prover has
  no rule for it here;
- `Listing` and `PathNames`: their properties are about what functions defined by
  recursion over sequences return, which takes induction over data;
- `RowsAreATree` and `AbandonRestores` of the browser. That no row is there twice takes
  that the groups of a listing, on the channel and still to come, are distinct from the
  children that are there, and that `Entries` is a tree; neither is attempted. A directory
  whose listing breaks half-way keeps what came of it, and is listed again below that when
  the prompt steps into it (tree.rs:207), so a row can be there twice: `relisted` is set
  then, until the root is listed anew. `RowsAreATree` still says that every row lies in its
  directory and every placement in its subtree; `AbandonRestores` is about the prompts
  before that. Without its premise it fails, but only with three expansions: the run passes
  with `MaxRequests = 3` and `Letters = {"b"}` too (2 million states, without liveness),
  and there TLC shows how;
- `MatchIsBuilt` of the machines, which is about two editors. With three it would not hold
  of the model as it is: `marred` is told of two installs that meet, and not of the hash
  that a third recorded before, which is beside what they made until one of them records
  its own;
- `App`'s `TypeOK` past the shutdown, where the remaining reports are applied by a fold.

## Divergences met, with no run of their own

Definitions of the modules that state what a document says and the code does not keep.
None is in a cfg; naming one as a property of the run shows its counterexample.

- `CancelledQueuedNeverRuns` (MCTaskRuntime; docs/task-architecture.md:209): a task that
  is cancelled while queued may still be admitted, as its select takes either branch.
- `StaysStopped` (Connection; tui/connection.rs:105): a start that was asked for on an
  older state waits in the channel, and restarts a server that was stopped on purpose.
  `wish`, what the user last asked for, is only there for it.
- `NothingLeftOnDrop` (WriteFile; fs/write.rs:38): a write dropped while its open is in
  the pool leaves the partial file that the open then makes.
- `RetriesForGrace` (ServerLock; server/mod.rs:271): a server that starts as another
  removes its socket may be refused without the grace.
- `StopTimesOut` (an action of ServerLock; client/api.rs:128): `stop()` polls for the
  absence of the socket, and a server that starts between two polls makes a stop that was
  done a timeout.
- `NoneCutOff` (TaskWatch; server/mod.rs:239-241): a demo read before the shutdown and
  submitted after `cancel_all()` is cut off with the process.
- `ExpandedFromCollapsed` (Browser, to be named as an INVARIANT; old/src/browser/tree.rs:205):
  the prompt's `/` also expands a row whose listing failed, which keeps the children it has,
  so one can be there twice.
- `CloseJoinsTransfers` (App; docs/connection-lifecycle.md): with two closes at once the
  first takes the transfer, and the second does not wait for it.

Of the machines, by reading and by the premises that their properties need:

- two editors of the catalog share one partial file: a change is lost, a failed `add`'s
  change saved, or an empty or torn catalog published (client/machines.rs:63-64);
- a hash can be recorded that is not the binary's: a crash between `mv` and `printf` when
  the tree then returns to an earlier state, two installs at once, an edit between the
  hash and the `tar`, or a name that leads to another host with no shared connection
  (install-dev.sh:3-4);
- a restart that was declined, or a crash before it, leaves a server of an old protocol
  beside the new binary; `add` then neither attaches to it nor restarts it. It is the
  premise `LeftRunning` of `HealsByRepeating`;
- the machine ID in home.rs and in the shell of a host differ on inner white space, which
  the shell deletes and Rust refuses, and on a carriage return, which Rust trims and the
  shell refuses (home.rs:381-385).

Of the walk: a directory that is replaced by a link after its `lstat` is opened through
it, where fs_service says links are never followed; a time of `None` comes back as the
epoch. Of v2's predecessor: a `$` in a listed name is expanded again, which v2 removed.
Of the copy: an embedded server is lost when an open is dropped while it connects
(`opening` is then "lost", and `UnheldServersStop` is not about it); a read lock held during
a slow resolve delays the close of that connection; and on an embedded destination that
hangs in a call which does not look at the token, the cancel of a close does not take
effect: unless the copy is aborted, it need not end, and its server never stops. With
`AlwaysLetGo` taken out of `CloseEndsCopy` or `UnheldServersStop` the run shows it.

## Not modelled

`PROJECT.json` lists every component with its status and what of it is left out.
Drawing (`tui/view.rs`, `old/src/tui/app/view.rs`), the GUI, argument parsing, generated
protobuf code, logging and settings have no interleaving to check. The handshake's
versions, SSH's authentication and texts, the bridge's bytes, and viewport, labels and mouse of
both TUIs are left out of the modules they would belong to.

## Plan

1. Where the other modules' invariants are worth strengthening: `App`'s `TypeOK`, and that
   a server which nobody holds is about to stop (`Transfer`).
2. `RowsAreATree` for any file system: that insertion and collapse keep the pre-order, and
   that placements follow.
3. The bridge of a remote connection and the handshake, composed with `Connection`; the
   start of a server by the shipping crate, composed with `Transfer`'s `Start`.
