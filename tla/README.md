# A TLA+ verification project for ptraf

ptraf is a terminal monitor of network traffic per process. eBPF probes in the
kernel report every call of `sock_sendmsg` and `sock_recvmsg`; one task per CPU
reads the reports and adds them to a store of time segments; a UI task draws
the store about twice a second and obeys the keyboard.

All paths below are relative to the repository (`src/`).

## 1. Inventory

| Component | Source | State | Operations |
|---|---|---|---|
| Socket probes | `ptraf-ebpf/src/ptraf-ebpf.rs`, `ptraf-common/src/types.rs` | `CACHE` (thread id → socket), `EVENTS` (perf buffers) | `msg` (entry of both functions), `sendmsg_ret`, `recvmsg_ret`, tracepoint `sock_set_state` |
| Probe loader, event readers | `ptraf/src/probe.rs` | attached programs, a buffer per task | `load`, `events`, `EventIter` |
| Clock | `ptraf/src/clock.rs` | start instant | `now`, `trunc`, `saturating_elapsed_since`, `wall_time` |
| Store | `ptraf/src/store.rs` | `RwLock<VecDeque<TimeSegment>>`, window, capacity | `batch_update`, `oldest_timestamp`, `segments_view`, internal `write_segment` |
| Segment | `ptraf/src/store.rs` | `index: DashMap<Interest, Metrics>`, `socks: DashSet<Socket>` | `batch_update`, `stat_by_interest`, `for_each_socket` |
| User interface | `ptraf/src/ui.rs` | `paused`, `dirty`, `filter`, `custom_filter`, the current view | `run_app`, `handle_event`, `render` |
| Filter editor | `ptraf/src/ui/filter_editor.rs` | committed filter, draft, text area, `editing` | `set_editing`, `commit`, `abort`, `update`, `handle_event` |
| Socket table | `ptraf/src/ui/socktable.rs` | rows, selection, rate range | `collect`, `up`, `down`, `selected` |
| Sparkline | `ptraf/src/ui/traffic_sparkline.rs` | points already collected | `collect`, `render` |
| Filter language | `ptraf-filter/src/*.rs` | none | `parse`, `filter` |
| Details, promises | `ptraf/src/ui/*_details.rs`, `ptraf/src/promise.rs` | a promise of a value | `spawn`, `value` |
| Lifecycle | `ptraf/src/main.rs` | tasks | `main` |
| Build tasks, bindings, formatting | `xtask/`, `bindings.rs`, `format.rs`, `styles.rs` | none | not modelled |

How they interact.

* Kernel threads run the probes concurrently on all CPUs; the entry and the
  return probe of a call communicate through `CACHE` only.
* Each CPU's reader task awaits its perf buffer, then calls main's callback,
  which reads the clock and calls `Store::batch_update`. The tasks share the
  store with each other and with the UI task: no message passing, one lock.
* A batch is written while holding the *read* side of the store's lock. The
  write side is taken only to add segments. Inside a segment, two concurrent
  hash tables are updated one entry at a time.
* The UI task takes the read lock three times per frame: `oldest_timestamp`
  (which also adds missing segments), the sparkline, the table.
* `main` waits for a signal, a reader's end or the UI's end, whichever comes
  first; then the runtime drops every task where it awaits.
* A key goes to the filter editor, then to the view, then to the `Ui`; each
  passes on what it answers with `None`.

What is hard: the lock is dropped and taken again in the middle of
`write_segment`; time stamps are taken before the lock; a segment changes while
it is walked; probes are attached one by one to a running system and may fail;
a map element is read after it was freed; rings overflow; tasks are dropped
wherever they await; numbers change their byte order; a thread's id stands for
its process's; two copies of the custom
filter. `PROJECT.json` lists these hazards at their lines, with the properties that cover them.

What makes each component correct:

* Store — the deque is bounded, aligned and contiguous; nobody who got a guard
  sees a stale or a missing segment; a batch is never torn; old windows are
  frozen; no thread stays inside; the series rolls without traffic.
* Segment — no traffic out of the table's reach, the totals of the five
  interests agree, a row shows what was true during the walk.
* Probes — each call on an internet socket reported once, with its own socket;
  no entry left in `CACHE`.
* Ui — the copies of the filter agree, typing is modal, every change is drawn.
* Sparkline and table — each completed window collected exactly once, with its
  final traffic; the two widgets of a view agree; a rate is divided by the length
  of the completed windows it counts.
* Filter language — the parser accepts exactly the language, a filter means what
  it says from left to right, and its answer is true of the kernel's socket.
* Pipeline — every event is stored, counted as lost, or made when nobody
  listened; a ring is drained whatever the load.
* Lifecycle — a program told to end does, and leaves the terminal as it was; a
  name that is found is shown in the view that waits for it.

## 2. Plan

First, in this order: `Timestamp`, `TimeSeries`, `Store`, `Segment`,
`SockProbe`, `Ui`, `StoreProofs`, `Dashboard`, `UiProofs`.

Then `Pipeline`, `Promise`, `Lifecycle`, `FilterLang`, `Wire`, `FilterLine`, and
failures in `SockProbe`. All components that carry behaviour are modelled.

Then the proofs, by what they say about the system: `SockProbeProofs`,
`SegmentProofs`, `LifecycleProofs`, `DashboardProofs`, `FilterProofs`, and
`NumberProofs`, which they rest on.

The plan is carried out. Every safety property that a passing run checks is a
theorem, some of them under a condition that the theorem states (section 6);
only liveness is left to TLC.

## 3. Modules

| Module | What it is |
|---|---|
| `Timestamp` | arithmetic of `clock.rs` |
| `TimeSeries` | abstract specification: what the store promises, without locks or threads |
| `Store` | the store with its lock, its CPU tasks and the UI task; implements `TimeSeries` |
| `MCStore` | instances of `Store` for TLC |
| `NumberProofs` | lemmas about times, induction and sums |
| `StoreProofs`, `SegmentProofs`, `DashboardProofs`, `SockProbeProofs`, `LifecycleProofs`, `UiProofs` | theorems about the module of that name |
| `FilterProofs` | theorems about `FilterLine` |
| `Segment`, `MCSegment` | one segment, its concurrent updates, the table's walk |
| `SockProbe`, `MCSockProbe` | probes, `CACHE`, attachment |
| `Pipeline` | perf rings, lost events, reader tasks |
| `Promise` | a value that a blocking lookup sends, and the view that waits for it |
| `Lifecycle`, `MCLifecycle` | `main` and `run_ui` from start to exit; composes `Pipeline` and `Promise` |
| `FilterLang` | grammar and interpreter of custom filters |
| `Wire` | from the kernel's socket to the `Socket` of the store, byte by byte |
| `FilterLine`, `MCFilterLine` | a line typed and asked about sockets; composes `FilterLang` and `Wire` |
| `Ui` | event loop, views, filter editor, selection |
| `Dashboard`, `MCDashboard` | the sparkline's and the table's collections over `TimeSeries`, frame after frame |

Some definitions are marked "Mutant of ...": a plausible bug in the definition
that follows. No specification uses them; `PROJECT.json` names, for every
checked property, a mutant that violates it.

### Store

A thread's `pc` names its place in the code (the header of the module draws the
path). `readers` and `writer` are the owners of the two kinds of guard;
`segments` is the deque, each segment a time and the set of the messages
accounted for in it (the contents of a segment are module `Segment`'s matter).
A message is reduced to its CPU, its batch, its number within the batch and
the stamp of the batch. `Tick` moves the clock at any time, so a stamp may be
arbitrarily old when it is used. Taking the read lock, looking at `back()` and
releasing the lock on a miss is one step: the deque cannot change in between,
and nothing else is read.

`std::sync::RwLock` is external. `CanRead` and `CanWrite` state exclusion;
`WriterPreference` says whether a queued writer keeps new readers out. The
standard library does not promise it, so the safety runs do without it and the
proofs hold for both values; the futex lock that std uses on Linux has it, and
the liveness run needs it. Poisoning is not modelled: it takes a panic under
the lock, and `GuardCurrent` shows that the one `unwrap` there cannot fail.

### Segment

`socks.insert` and the five index updates of a message are six steps.
`UpdateIndex` is atomic: DashMap's `entry` locks the shard of the key, and the
reader's `get` takes the same lock, so the two relaxed counters of a `Traffic`
cannot be seen apart. `socks` maps a local address to the socket that came
first, because sockets are compared by local address. Counters are not given a
width: 2^64 bytes in one window of 250 ms is out of reach. The walk of the
DashSet visits what was there when it began and possibly what came later.
`MatchInterest` keeps the arm for `Interest::LocalSocket` (`store.rs:146`, which
compares the remote address); no filter asks for it.

### SockProbe

A thread is outside, inside a call, or in its return probe between
`CACHE.remove` and the use of the reference that `CACHE.get` returned. The BPF
map is external: a preallocated hash map whose removed elements go to the free
list of the CPU at once; an insertion takes an element of its CPU's list, else
of another CPU's, else fails. `ProbeProgram::load` attaches the four probes in
order; a return probe fires for calls that begin after it was attached. Every
`?` of the probes is a failure that may happen: before anything is changed
(`EnterFails`), or after `CACHE.remove` (`ReportFails`). The histories `calls`
(with whether the system was settled when the call began) and `failed` are what
the properties compare events with. A socket's family does not change. Nested
calls (an internet socket's call from within another's) are left out.

`load` attaches the entry probes first, so a call in flight may leave an entry
in `CACHE`. `InetTrue` shows that this never falsifies a report of an internet
socket whose entry probe succeeded; the thread's next call on a socket of
another family, which `try_msg` does not cache, is reported with the stale
entry, which is why `CacheBalanced` and the second half of `Reported` speak of
threads whose calls began later. Attaching the return probes first would avoid
it. The comments at `ptraf-ebpf.rs:52-62` name each other's function; the
program names, which `load` uses, are right.

### Pipeline, Promise, Lifecycle

A ring is a sequence of records; its size is in records instead of bytes. One
`read_events` takes records until the last buffer is filled (`Taken`). `Output` stands for the
calls of `EVENTS.output` by the return probes and by `sock_set_state`; the
kernel's count of what did not fit is `missed` until it enters the ring.

`Lifecycle` moves `main` through its code and `run_ui` through its code; the
tokio runtime (external) may drop a task at an `await` and nowhere else, waits
for running blocking calls, and forgets queued ones. Each `?` of `run_ui`, a
failure or a panic of `draw` (`traffic_sparkline.rs:137` panics on a width of 0)
is a step that may happen, and sets `fault` where the terminal itself failed or
the task is gone: no code could restore it then. SIGTERM and SIGKILL, and
SIGINT before `select!`, end the process at once and are left out. Ctrl-C typed
at the terminal is a key in raw mode; `CtrlC` is the signal, sent by another
process. `view` is the lookup of the open view of a remote address; the other
views have none. An aborted reader is dropped when it has to wait; while its ring
has records, `read_events` is ready at once, so it may be dropped or go on
reading, and the model allows both.

### FilterLang, Wire, FilterLine

`FilterLang` is the grammar, rule by rule, over tokens; how an operand is
spelled is left out. A rule is a function of the position where it is tried; a
rule that calls `logic()` gets it as an argument, and `Logic(s)` is the function
that is its own argument (`LogicRule`). An `Expr` is written as the sequence of
its nodes, children first, so `Eval` walks it with a stack of values: `Apply` is
one arm of the interpreter's `match`. `and` and `or` are strict here, where the
code short-circuits: operands have no effects. `Chain` returns an expression in
two parts, its first atom and the rest, because the operators to the right apply
to everything before them.

The reference has no parser: `WellFormed` says which words
may follow each other and where blanks may stand, and `Reading` evaluates a line
with a stack, left to right. It makes visible what the grammar does with the
corners: "and" and "or" have the same precedence; `not not x` is not a filter; a
blank before a leading `(` or `not`, or after a closing `)`, is refused, unless
the parenthesis closes a negated group.

`Wire` keeps bytes: `Base` stands for 256 and nothing depends on its value. It
follows the addresses and ports through `sock_common`, `notify`, `SockMsgEvent`
and the conversions of `types.rs`. The pid goes through `pid_tgid`, of which the
helper of aya that `notify` calls takes the lower half. `AnswerTrue` compares a
filter's answer with the kernel's socket for every kind of operand but the local
port and the process, which are findings 3 and 5. A datagram socket of ICMP counts as udp, and a v4-mapped address as
IPv6: that is what the code's types say, and the reference says so, too.

### Ui

One action per key that has a use, with the guard that the order of handlers
implies. A line of text is a model value that parses, does not parse, or is
empty. What a collection finds is any table that the view's filter allows; the
sort of rows and the drawing are left out. `due` is "the tick has elapsed".
`screen` is a history variable: what the last frame showed.

### Dashboard

The widgets use the store through `oldest_timestamp` and `segments_view` only,
so the module extends `TimeSeries` instead of composing with `Store`: the
refinement proved below says that every behaviour of the store is one of
`TimeSeries`. Nothing is added to the deque while a view holds its read guard,
so a collection is one step; between the steps of a frame segments are opened
and evicted at will. What the newest segment gains *during* a walk is module
`Segment`'s matter: the sparkline throws that segment away, and the table may
only miss it.

`points`, `rows` and `range` are the fields of the two widgets. A data point
also remembers the filter that counted it (history), because points collected
before the custom filter changed stay as they are. Each socket has a local
address and a process of its own (what happens otherwise is finding 1), every
message counts for one unit of traffic, and the filter editor is closed. The
view of a remote address uses the same widgets as the view of a process and is
left out here.

Three things the model makes explicit, which no text of the repository speaks
about. With a custom filter the sparkline of a process counts every socket the
filter accepts, of other processes too (`traffic_sparkline.rs:75`);
`TableCoversPoints` says that the two widgets differ by no more than the traffic
of these `Strangers`. The window at time 0 is never a point (`start` defaults to
0), so `SparklineComplete` excludes it. And a rate has a lower bound only
(`is_rate_eligible`, `socktable.rs:127`): `range` ends with the last completed
window, but the traffic of the window that the frame is in, and of windows opened
during the frame, is counted, too, without being divided by. `RateCovers` states
exactly this.

## 4. Runs

| Run | Shows | Bounds |
|---|---|---|
| `store_race` | `TypeOK`, `GuardCurrent`, `BatchWhole`, `Contiguous`, `StampOrder`, `FrameCurrent`, `OlderFrozen`, `GuardStable`, refinement of `TimeSeries` | 2 CPUs and the UI, window 1, capacity 2, clock to 2, a batch of ≤ 2 messages per CPU |
| `store_live` | `OpsComplete`, `Rolls` | 2 CPUs and the UI, window 2, capacity 1, clock to 2, writer preference |
| `segment` | `SocksCover`, `KindsAgree`, `RowsBracketed`, `TableCoversAll`, `ProcessTable` | 2 CPUs, 3 messages out of 4 kinds (a failed call, two peers of one address), an address per process |
| `segment_shared` | **violates** `ProcessTable` | two processes on one address, a state change with a stranger's pid |
| `dashboard` | `PointsContiguous`, `PointsFinal`, `SparklineComplete`, `TableCoversPoints`, `RateCovers` | 2 sockets of 2 processes, a custom filter, window 2, capacity 3, collection window 4, rate window 1, clock to 8, 2 messages |
| `probe` | `TypeOK`, `CacheBalanced`, `Reported`, `InetTrue` | 2 threads with 2 and 1 calls, 2 CPUs with 4 slots each, probes attached meanwhile, any failures |
| `probe_reuse` | **violates** `EventTrue` | one CPU's free list is empty |
| `filter` | `ParseExact`, `ReadsLeftToRight`, `AnswerTrue` | all lines of ≤ 7 tokens; of ≤ 3 tokens, asked about 312 sockets; bytes of 3 values |
| `event_fields` | **violates** `EventAsDocumented`, in two of its parts | those of the sockets that a main thread does not use, lines of ≤ 2 tokens |
| `lifecycle` | `TypeOK`, `Accounted`, `QuitRestores`, `Exits`, `Drained`, `NameShown` | 1 CPU, a ring of 2 records, a buffer of 1, 4 events, 2 lookups in a pool of 1, any failures |
| `terminal` | **violates** `TerminalRestored` | the same, without lookups |
| `ui` | `TypeOK`, `FilterSync`, `DraftSync`, `EditingIsModal`, `OpensWhatIsSelected`, `Redrawn` | 2 processes, 1 address, 2 valid filters, 1 invalid, tables of ≤ 2 rows |

Why the bounds are enough. The race in `write_segment` needs two threads that
miss the same window and a third one that rolls the series between the two
locks: two CPUs and the UI, with two rolls. Eviction in the middle of the loop
needs a clock that outruns the capacity: capacity 2 and three windows.
Truncation needs a window of at least two units (`store_live`, `dashboard`). The
proofs lift all of it to every value of the constants. A lost update in a segment needs two writers of
one interest; a walk that misses something needs a socket inserted during the
walk. Points age out
when more windows go by between two frames than the deque holds: capacity 3
and five windows. A rate window of one unit, half a window, is
extended by the truncation and leaves out the oldest segment. A slot is reused
with two threads on two CPUs; a stale entry needs two calls of one thread with
the attachments between them. A line of seven tokens holds a negated group with
a mixed chain behind or inside it, and every way to place a blank. A ring of two
records overflows, tells of it with the next event and overflows again within
four events; a buffer of one leaves records behind in every read. Two lookups in
a pool of one wait for each other. The Ui has no counters:
its run is exhaustive but for the number of rows, rows matter only as selected,
before the selected, or gone.

Symmetry (of CPUs) is used in the safety runs only; no temporal property but
the action properties and the refinement is checked with it, and these do not
distinguish CPUs.

`CHECK_DEADLOCK FALSE` in the probe runs: threads that have made their bounded
number of calls stop.

### Fairness

`store_live` assumes weak fairness of each thread inside the store (the
scheduler runs threads, a released lock is granted) and of the frame loop
(`run_app` draws for ever). Nothing is assumed of the clock or of traffic. With
a finite number of batches, and with writers preferred, weak fairness of
`SlowLock` is enough; without writer preference the UI's reads could starve a
writer, which is why the property is stated for the Linux lock.

`ui` assumes that the loop goes on and that time passes. Nothing is assumed of
keys: `Redrawn` holds whether they stop or never stop, until the user quits.

`lifecycle` assumes that the scheduler runs tasks between their awaits, that the
timeout of the UI's `select!` elapses, that a ring with records wakes its reader
(aya waits on the ring's descriptor), and that a lookup ends (the resolver has a
timeout). Nothing is assumed of keys, signals or faults. The number of events is
bounded, and `Exits` rests on it: `main` waits for aborted readers, and one whose
ring never ran empty need not be dropped. `NameShown` exempts the view whose own
lookup panicked, which waits for ever (`promise.rs:92`); the lookups behind it are
served. Readers are
fair one by one, because each is a task of its own; `main`'s parts and the
dropping of tasks are fair together, because each of them is finite.

## 5. Findings

1. `segment_shared` (documentation and code differ). Sockets are identified by
   local address (`store.rs:166`), so a segment keeps one pid per local address.
   When two processes use one address, or a state change (`sock_set_state`) is
   stamped with the pid of a task it interrupted, the table of the first shows
   the traffic of both and the table of the second shows none of it, although
   the README calls ptraf a "per-process network traffic monitor". `segment`
   shows that distinct addresses and true pids suffice.
2. `probe_reuse`. `try_msg_ret` reads the value of an element after removing it
   (`ptraf-ebpf.rs:201-202`). Another CPU may have reused the element. Reading
   before removing would avoid it. `probe` shows that it takes a CPU whose own
   free list is empty.
3. `event_fields`, of the local port. `notify` takes the local port from `skc_num`, a number in host
   order, and user space decodes it as network order (`types.rs:14`,
   `types.rs:38`): local ports are shown, keyed and filtered with their bytes
   swapped. The remote port is right.
4. `terminal`. A signal, a reader's error, or `events` failing after the UI was
   spawned, ends `main` without the part of `run_ui` that follows "restore
   terminal" (`ui.rs:113`): the shell stays in raw mode on the alternate screen.
   `QuitRestores` shows that a user who quits gets the terminal back, even if a
   signal arrives at the same time.
5. `event_fields`, of the pid (documentation and code differ). `notify` stores `ctx.pid()`
   (`ptraf-ebpf.rs:184`), the id of the calling thread, in a field that
   `types.rs:20` calls "Process ID.": a process with several threads shows as
   several, and its table and `pid[n]` miss what its other threads do. The upper
   half of the same number, `ctx.tgid()`, is the process. In every state of the
   run that has a socket, `PidIsProcess` and `LocalPortNetworkEndian` are false each
   on its own, and `RemotePortNetworkEndian` is true.

## 6. Proofs

`NumberProofs` is the ground of the other proofs. It proves what `trunc` does
for every time and window: the result is a multiple of the window, at most the
time and less than a window behind it, `trunc` is idempotent and monotone, and
adding a window to a multiple gives the next one. The step from `%` to multiples
is the lemma `Division`; everything else cites the lemmas.

The library's induction theorems take an operator as a parameter, which the
provers cannot instantiate; `NatInd` takes a *set* of numbers instead and is
derived from the well-foundedness of `<` (`Least`). With it, a sum over a finite
set (`SumFunctionOnSet`, whose recursion takes the elements in an unspecified
order) is shown not to depend on the order: `SumRemove`, `SumAdd`, `SumChange`,
`SumSubset`, `SumImage`, `SumSizes`.

`StoreProofs` proves, for every set of CPUs, window, capacity, bounds and both
lock policies (`StoreAssumption`, which is what `main.rs` guarantees with its
`max(10)` and `max(1)`):

| Theorem | Property |
|---|---|
| `StoreInvariant` | `Inv` |
| `StoreTypes` | `TypeOK` |
| `StoreShape` | `Contiguous`, `NoFuture` |
| `RaceHarmless` | `GuardCurrent` |
| `StampsOrdered` | `StampOrder` |
| `BatchesWhole` | `BatchWhole` |
| `FramesCurrent` | `FrameCurrent` |
| `StoreOlderFrozen` | `OlderFrozen` |
| `StoreGuardStable` | `GuardStable` |
| `StoreImplementsSeries` | `ImplementsSeries` |

The inductive invariant `Inv` adds three things to the properties. `LockInv`
ties guards to places in the code; it is what makes the deque constant while
anyone holds a guard, hence `GuardCurrent` stable between `Reread` and the end
of the batch. `BatchInv` locates the messages of a batch in progress in the
newest segment, with numbers above those still to come; without it,
`BatchWhole` is not preserved by `ApplyMessage`. `Ordered` says that times
increase along the deque: rather than derived from `Contiguous` by induction on
indices, it is kept as an invariant of its own, and is preserved because a new
segment is later than the last one. The
runs check its parts that are properties; the other parts are lemmas of the
proof.

The deque changes in two ways only. Lemmas `GrowShape` and `ApplyShape` describe
`MakeRoom` followed by `Append`, and the update of the last segment, index by
index; the proofs of the conjuncts cite them, with one step per action.

`UiProofs` proves, for every set of processes, addresses and lines and any
number of rows (`UiAssumption`: no line both parses and does not):

| Theorem | Property |
|---|---|
| `UiInvariant` | `UiInv` |
| `UiTypes` | `TypeOK` |
| `UiFilterSync` | `FilterSync` |
| `UiDraftSync` | `DraftSync` |
| `UiEditingIsModal` | `EditingIsModal` |
| `UiOpensWhatIsSelected` | `OpensWhatIsSelected` |

`UiInv` adds two facts. `ContentTyped`: the line kept with a committed filter
is one that can be typed; the next edit starts from it. `RowsInView`: the rows
of the table were collected with the filter of the current view, which holds
because a change of view empties the table, paused or not; `OpensWhatIsSelected`
follows from it. A lemma of its own, `NewViewInv`, treats the four ways into a
new view.

`SegmentProofs`, for any CPUs, messages and number of updates in flight:

| Theorem | Property |
|---|---|
| `SegmentSocksCover` | `SocksCover` |
| `SegmentKindsAgree` | `KindsAgree` |
| `SegmentRowsBracketed` | `RowsBracketed` |
| `SegmentTableCoversAll` | `TableCoversAll` |
| `SegmentProcessTable` | `ProcessTable`, if no local address is shared by two processes (`Apart`) |
| `SegmentTypeOK` | `TypeOK` |

Four inductive invariants, each resting on the ones before. `WriterInv`: every
key of the index, and of every update in flight, has its socket in `socks`.
`KindSteps`: the totals of two successive kinds of interest differ by the bytes
of the messages that are between the two updates; `KindsAgree` is the sum over
the kinds. `WalkInv`: a socket that the walk has passed was read between the
start and now, and counters only grow; `TableCoversAll` compares the sum over
the rows with the sum over the index at the start, socket by socket. `PidsAgree`:
the traffic of a process is that of its sockets and what is in flight, which is
where `Apart` is needed. The run `segment_shared` is the boundary: without
`Apart`, the property is false.

`SockProbeProofs`, for any threads, CPUs, slots, calls, order of attachment and
failures (`ProbeAssumption`: the free lists begin with distinct slots):

| Theorem | Property |
|---|---|
| `ProbeTypeOK` | `TypeOK` |
| `ProbeCacheBalanced` | `CacheBalanced` |
| `ProbeInetTrue` | `InetTrue`, while no CPU runs out of slots (`SlotsLeft`) |
| `ProbeReported` | `Reported`, under the same condition |
| `ProbeEventTrue` | `EventTrue`, under the same condition and with all probes attached from the start |

`ProbeInv` says that no slot is at two places, that a thread whose return probe
is armed has an entry in `CACHE` exactly when its entry probe succeeded, and that
calls of a settled system are armed. The other three need to know what the
return probe reads after `CACHE.remove`: the freed slot is the first on its CPU's
list, and stays there, because no other probe runs on that CPU in between and,
under `SlotsLeft`, no other CPU takes from this list. `probe_reuse` is the
boundary of this condition.

`LifecycleProofs`, for any CPUs, ring and buffer sizes, load and lookups:

| Theorem | Property |
|---|---|
| `LifecycleAccounted` | `Accounted` |
| `LifecycleQuitRestores` | `QuitRestores` |
| `LifecycleTypeOK` | `TypeOK` |

`PipeInv` follows each CPU's records: what was delivered, what a reader has in
its hands and what is in the ring are, in this order, events that were made, and
their number with the losses told, in the ring and still untold is the number
made. `EventsConcat` and `LossesConcat` say that the events and losses of two
runs of records add up, `TakenFacts` what one read takes. `UiInv` ties the places
of `run_ui` to the state of the terminal and to those of `main`; `PromiseInv`
bounds the lookups.

`DashboardProofs`, for any windows, capacity, traffic, custom filters and pace of
frames (`DashboardAssumption`: finitely many sockets, a custom filter is a set of
them):

| Theorem | Property |
|---|---|
| `DashboardPointsContiguous` | `PointsContiguous` |
| `DashboardPointsFinal` | `PointsFinal` |
| `DashboardSparklineComplete` | `SparklineComplete` |
| `DashboardRateCovers` | `RateCovers` |
| `DashboardTableCoversPoints` | `TableCoversPoints` |

`DashboardInv` has three parts. `SeriesInv`: the segments are contiguous, ordered,
not in the future, and share no message. `FrameInv`: once a frame has its time,
there is a segment, the time is not in the future, and its segment is in the store
or was evicted (`Placed`). `PointsInv`: the points are
contiguous and older than the newest segment; a point that is not older than the
store has its segment there (`PointsInStore`), no segment up to the last point is
left out (`PointsCover`), and a point shows its segment (`PointsShow`). The first
two are what `PointsContiguous` lacks to be inductive: they place the last point
next to the first segment that the next collection adds. `OpenedStep` shows that
eviction keeps them, `CollectShape` that a collection drops the first points and
adds the last segments but one, index by index. `RateCovers` counts: segments are
one window apart (`WindowsApart`) and `Placed` keeps the end of the range from
falling between two of them, so the length of the range is the number of segments
in it; `TrafficSplit` parts the traffic at its end.

`FilterProofs`, for lines of any length and bytes of any number of values
(`BaseAssumption`; `SocksAssumption`: octets are bytes, ports are 16 bits wide and ids 32;
`LeavesAssumption`: an operand is a leaf of `Expr`):

| Theorem | Property |
|---|---|
| `FilterParseExact` | `ParseExact` |
| `FilterReadsLeftToRight` | `ReadsLeftToRight` |
| `FilterAnswerTrue` | `AnswerTrue`, if no operand looks at the local port, nor at the process of a thread that is not its main one |

The invariant of the state machine is only that the line is made of tokens
(`LineTyped`); the work is in what the parser does with any such line.

*The table.* `Logic(s)` is a recursive function, so nothing can be said of it
before a function that satisfies its equation is known to exist: a rule looks at
later positions only (`LogicLater`), hence the table can be filled from the end of
the line (`TableExists`, by `DownInd`). `Depth`, `Eval` and `Reading` get the same
treatment. `OperandIs`, `GroupIs`, `NegationIs`, `AtomIs`, `ChainIs` and `LogicIs`
then say what each rule matches, and every later proof is an induction from the
end of the line with one case per rule.

*Meaning.* `Pushes` says that a sequence of nodes adds one value to any stack,
`Maps` that it replaces the value on top by a function of it. The first atom of
an expression pushes and the rest maps (`LogicMeans`); on the other side, the
frames of `Reading` before and after the same tokens differ by the same value and
the same function. A group starts with a new frame, a negation with a frame whose
`neg` is set, a chain with a frame that holds what came before. `ParseMeans` is
the case of the whole line.

*The language.* A `Chunk` is a run of tokens whose words are in an allowed order;
chunks can be joined where the two words that meet may follow each other. A
`Level` run returns to its depth and does not go below it. A `Phrase` has both,
a first word that may start an expression and a last one that may end it, and
blanks at its ends only where a rule takes them. Everything that matches is a
phrase (`AllPhrases`), hence what is accepted is `WellFormed` (`ParseSound`).
Conversely (`ParseComplete`), in a well-formed line an expression is found
wherever one may start, and it goes on up to a closing parenthesis or the end
(`AllFound`): this is where ordered choice could have gone wrong, and does not,
because the next word decides which rule can match. The closing parenthesis of a group exists
because the depth returns to 0. A closing parenthesis after the whole would take
the depth below 0. Blanks that are left after it follow a group that is not
negated (`BlanksLeft`), which a well-formed line excludes (`NotBoth`).

*The answer.* `AddressV4`, `AddressV6` and `RemotePort` show that decoding undoes
encoding, to any base; `CtxPidIs` that the lower half of `pid_tgid` is the thread; `LeafTrue`
goes through the kinds of operands. Local ports, and processes asked about
threads that are not the main one, are left out of the theorem by its hypotheses:
for them the statement is false, as the run `event_fields` shows.

Only model-checked: liveness (`OpsComplete`, `Rolls`, `Redrawn`, `Exits`,
`Drained`, `NameShown`), which the prover cannot do.

## 7. Not modelled

* `bindings.rs`: 43,564 lines that bindgen generated from the kernel's types, nine
  tenths of the repository's code. The program uses three of its structs; the
  one whose layout matters, `sock_common`, is modelled in `Wire`.
* Build tasks (`xtask`): they run cargo, bindgen and sudo.
* Formatting, styles, columns, the layout of frames, logging: no state.
* `process_details.rs`: reads `/proc` and shows what it finds.
* The interpolation of the sparkline: floating point.
* The sort of the table's rows, and the wall-clock column.

The status of every component is in `PROJECT.json`.
