------------------------------- MODULE Store -------------------------------
(***************************************************************************)
(* ptraf/src/store.rs: the time-segmented Store that every per-CPU reader  *)
(* task of the probe updates and the UI task reads, all at once.           *)
(*                                                                         *)
(* The deque of segments sits behind a std RwLock.  A batch is written     *)
(* while holding only the READ side of the lock (a Segment is internally   *)
(* synchronised, see module Segment); the write side is taken only to add  *)
(* segments.  A step of a thread is what it does between two points where  *)
(* another thread can notice:                                              *)
(*                                                                         *)
(*   idle -> fast -> (slow -> waiting -> grow -> reread) -> held -> ...    *)
(*                                                                         *)
(*   fast    write_segment: about to take the read lock (fast path)        *)
(*   slow    the newest segment was not ours: about to call write()        *)
(*   waiting queued for the write lock                                     *)
(*   grow    holds the write lock, in the loop that creates segments       *)
(*   reread  dropped the write lock, waits for the read lock again         *)
(*   held    owns a WriteTimeSegment, i.e. a read guard on the deque       *)
(*   render  (UI) has its time stamp, draws the widgets                    *)
(*   viewing (UI) owns a TimeSegmentsView, i.e. a read guard               *)
(*                                                                         *)
(* Taking the read lock, reading back().ts and releasing the lock on a     *)
(* miss is one step: the deque cannot change in between.                   *)
(***************************************************************************)
EXTENDS Timestamp, Sequences

CONSTANTS
  Cpus,             \* the reader tasks, one per online CPU
  Ui,               \* the task that runs run_ui
  NoThread,         \* "nobody holds the write lock"
  Window,           \* Store::window
  Capacity,         \* Store::capacity
  WriterPreference, \* does a queued writer keep new readers out?  std leaves
                    \* the policy to the platform; on Linux it does.
  MaxTime,          \* bound: the clock stops here
  MaxBatches,       \* bound: batches delivered per CPU
  MaxBatch          \* bound: messages per batch

\* main.rs: interval_ms.max(10) and segment_count.max(1).
ASSUME StoreAssumption ==
  /\ Window \in Nat \ {0}
  /\ Capacity \in Nat \ {0}
  /\ MaxTime \in Nat
  /\ MaxBatches \in Nat
  /\ MaxBatch \in Nat
  /\ WriterPreference \in BOOLEAN
  /\ Ui \notin Cpus
  /\ NoThread \notin Cpus \cup {Ui}

VARIABLES
  clock,     \* ClockNano::now()
  segments,  \* Store::segments, the deque itself, oldest first
  readers,   \* threads that own a read guard
  writer,    \* the thread that owns the write guard, or NoThread
  pc,        \* where each thread is
  ts,        \* the time stamp each thread read from the clock
  todo,      \* messages of the batch (views of the frame) still to be done
  batch,     \* number of the batch each CPU works on, or worked on last
  frameTs    \* UiContext::ts, what oldest_timestamp returned to the UI

vars == <<clock, segments, readers, writer, pc, ts, todo, batch, frameTs>>

Threads == Cpus \cup {Ui}

PcStates == {"idle", "fast", "slow", "waiting", "grow", "reread", "held",
             "render", "viewing"}

\* A SockMsgEvent, reduced to its identity and to the stamp of its batch.
Message == [cpu : Cpus, batch : 1 .. MaxBatches, n : 1 .. MaxBatch, ts : 0 .. MaxTime]

\* The messages accounted for in a Segment stand for its index and sockets.
TimeSegment == [ts : Nat, log : SUBSET Message]

\* VecDeque::back().
Back == segments[Len(segments)]

Init ==
  /\ clock = 0
  /\ segments = <<>>
  /\ readers = {}
  /\ writer = NoThread
  /\ pc = [t \in Threads |-> "idle"]
  /\ ts = [t \in Threads |-> 0]
  /\ todo = [t \in Threads |-> 0]
  /\ batch = [c \in Cpus |-> 0]
  /\ frameTs = 0

-----------------------------------------------------------------------------
(* std::sync::RwLock                                                       *)

CanRead ==
  /\ writer = NoThread
  /\ WriterPreference => \A t \in Threads : pc[t] # "waiting"

CanWrite == writer = NoThread /\ readers = {}

Goto(t, to) == pc' = [pc EXCEPT ![t] = to]

-----------------------------------------------------------------------------
(* The callers                                                             *)

\* The clock is monotonic.
Tick ==
  /\ clock < MaxTime
  /\ clock' = clock + 1
  /\ UNCHANGED <<segments, readers, writer, pc, ts, todo, batch, frameTs>>

\* main's event callback: read the clock, then call batch_update with it.
\* The batch may be empty (read_events also returns when events were lost).
StartUpdate(c) ==
  /\ pc[c] = "idle"
  /\ batch[c] < MaxBatches
  /\ batch' = [batch EXCEPT ![c] = @ + 1]
  /\ ts' = [ts EXCEPT ![c] = clock]
  /\ \E k \in 0 .. MaxBatch : todo' = [todo EXCEPT ![c] = k]
  /\ Goto(c, "fast")
  /\ UNCHANGED <<clock, segments, readers, writer, frameTs>>

\* Mutant of StartRender: the frame does not create the missing segments.
StartRenderReadOnly ==
  /\ pc[Ui] = "idle"
  /\ ts' = [ts EXCEPT ![Ui] = clock]
  /\ \E k \in 1 .. 2 : todo' = [todo EXCEPT ![Ui] = k]
  /\ Goto(Ui, "render")
  /\ UNCHANGED <<clock, segments, readers, writer, batch, frameTs>>

\* Ui::render: read the clock, then call oldest_timestamp with it.  A frame
\* opens one view for the sparkline and, unless paused, one for the table.
StartRender ==
  /\ pc[Ui] = "idle"
  /\ ts' = [ts EXCEPT ![Ui] = clock]
  /\ \E k \in 1 .. 2 : todo' = [todo EXCEPT ![Ui] = k]
  /\ Goto(Ui, "fast")
  /\ UNCHANGED <<clock, segments, readers, writer, batch, frameTs>>

-----------------------------------------------------------------------------
(* Store::write_segment                                                    *)

\* Mutant of IsCurrent: any newest segment will do.
IsCurrentAny(t) == segments # <<>>

\* Does the newest segment cover the caller's window?
IsCurrent(t) == segments # <<>> /\ Back.ts = Trunc(ts[t], Window)

\* Mutant of FastHit: the guard is dropped, the segment still used.
FastHitNoGuard(t) ==
  /\ pc[t] = "fast"
  /\ CanRead
  /\ IsCurrent(t)
  /\ Goto(t, "held")
  /\ UNCHANGED <<clock, segments, readers, writer, ts, todo, batch, frameTs>>

\* Fast path: return the read guard.
FastHit(t) ==
  /\ pc[t] = "fast"
  /\ CanRead
  /\ IsCurrent(t)
  /\ readers' = readers \cup {t}
  /\ Goto(t, "held")
  /\ UNCHANGED <<clock, segments, writer, ts, todo, batch, frameTs>>

\* The read guard is dropped at the end of the block.
FastMiss(t) ==
  /\ pc[t] = "fast"
  /\ CanRead
  /\ ~IsCurrent(t)
  /\ Goto(t, "slow")
  /\ UNCHANGED <<clock, segments, readers, writer, ts, todo, batch, frameTs>>

\* segments.write() queues the thread ...
AwaitLock(t) ==
  /\ pc[t] = "slow"
  /\ Goto(t, "waiting")
  /\ UNCHANGED <<clock, segments, readers, writer, ts, todo, batch, frameTs>>

\* Mutant of SlowLock: the deque is grown under a shared guard.
SlowLockShared(t) ==
  /\ pc[t] = "waiting"
  /\ CanRead
  /\ writer' = t
  /\ Goto(t, "grow")
  /\ UNCHANGED <<clock, segments, readers, ts, todo, batch, frameTs>>

\* ... and returns once every read guard is gone.
SlowLock(t) ==
  /\ pc[t] = "waiting"
  /\ CanWrite
  /\ writer' = t
  /\ Goto(t, "grow")
  /\ UNCHANGED <<clock, segments, readers, ts, todo, batch, frameTs>>

\* Mutant of IsCaughtUp: no comparison of times.
IsCaughtUpAny(t) == segments # <<>>

\* The loop's exit test: the newest segment is ours or a later one.
IsCaughtUp(t) == segments # <<>> /\ Back.ts >= Trunc(ts[t], Window)

\* Mutant of NextSegmentTs: jump to the caller's window, leaving a gap.
NextSegmentTsJump(t) == Trunc(ts[t], Window)

\* The time of the segment that one iteration of the loop creates.
NextSegmentTs(t) ==
  IF segments # <<>> THEN Back.ts + Window ELSE Trunc(ts[t], Window)

\* Mutant of MakeRoom: evict one segment too late.
MakeRoomLate == IF Len(segments) > Capacity THEN Tail(segments) ELSE segments

\* pop_front when the deque is at its capacity.
MakeRoom == IF Len(segments) >= Capacity THEN Tail(segments) ELSE segments

\* One iteration: evict if full, then push_back an empty segment.
GrowOne(t) ==
  /\ pc[t] = "grow"
  /\ ~IsCaughtUp(t)
  /\ segments' = Append(MakeRoom, [ts |-> NextSegmentTs(t), log |-> {}])
  /\ UNCHANGED <<clock, readers, writer, pc, ts, todo, batch, frameTs>>

\* drop(write_guard): from here until Reread another thread may add segments.
GrowDone(t) ==
  /\ pc[t] = "grow"
  /\ IsCaughtUp(t)
  /\ writer' = NoThread
  /\ Goto(t, "reread")
  /\ UNCHANGED <<clock, segments, readers, ts, todo, batch, frameTs>>

Reread(t) ==
  /\ pc[t] = "reread"
  /\ CanRead
  /\ readers' = readers \cup {t}
  /\ Goto(t, "held")
  /\ UNCHANGED <<clock, segments, writer, ts, todo, batch, frameTs>>

-----------------------------------------------------------------------------
(* Store::batch_update, oldest_timestamp and segments_view                 *)

\* The message that c applies next.
NextMessage(c) == [cpu |-> c, batch |-> batch[c], n |-> todo[c], ts |-> ts[c]]

\* Mutant of ApplyMessage: the message goes to the oldest segment.
ApplyMessageToFront(c) ==
  /\ pc[c] = "held"
  /\ todo[c] > 0
  /\ segments' = [segments EXCEPT ![1].log = @ \cup {NextMessage(c)}]
  /\ todo' = [todo EXCEPT ![c] = @ - 1]
  /\ UNCHANGED <<clock, readers, writer, pc, ts, batch, frameTs>>

\* Segment::batch_update handles one message of the batch.  WriteTimeSegment
\* derefs to back() every time.
ApplyMessage(c) ==
  /\ pc[c] = "held"
  /\ todo[c] > 0
  /\ segments' = [segments EXCEPT ![Len(segments)] =
                     [ts |-> Back.ts, log |-> Back.log \cup {NextMessage(c)}]]
  /\ todo' = [todo EXCEPT ![c] = @ - 1]
  /\ UNCHANGED <<clock, readers, writer, pc, ts, batch, frameTs>>

\* Mutant of SkipMessage: the end of the batch is not noticed.
SkipMessageUnbounded(c) ==
  /\ pc[c] = "held"
  /\ todo' = [todo EXCEPT ![c] = @ - 1]
  /\ UNCHANGED <<clock, segments, readers, writer, pc, ts, batch, frameTs>>

\* packet_size() is an error: the message is left out.
SkipMessage(c) ==
  /\ pc[c] = "held"
  /\ todo[c] > 0
  /\ todo' = [todo EXCEPT ![c] = @ - 1]
  /\ UNCHANGED <<clock, segments, readers, writer, pc, ts, batch, frameTs>>

\* Mutant of EndUpdate: the guard is leaked.
EndUpdateLeaksGuard(c) ==
  /\ pc[c] = "held"
  /\ todo[c] = 0
  /\ ts' = [ts EXCEPT ![c] = 0]
  /\ Goto(c, "idle")
  /\ UNCHANGED <<clock, segments, readers, writer, todo, batch, frameTs>>

\* batch_update returns and drops the guard; its locals are gone.
EndUpdate(c) ==
  /\ pc[c] = "held"
  /\ todo[c] = 0
  /\ readers' = readers \ {c}
  /\ ts' = [ts EXCEPT ![c] = 0]
  /\ Goto(c, "idle")
  /\ UNCHANGED <<clock, segments, writer, todo, batch, frameTs>>

\* Mutant of OldestTimestamp: what the name says, the oldest segment.
OldestTimestampFront ==
  /\ pc[Ui] = "held"
  /\ frameTs' = segments[1].ts
  /\ readers' = readers \ {Ui}
  /\ Goto(Ui, "render")
  /\ UNCHANGED <<clock, segments, writer, ts, todo, batch>>

\* oldest_timestamp returns back().ts and drops the guard.
OldestTimestamp ==
  /\ pc[Ui] = "held"
  /\ frameTs' = Back.ts
  /\ readers' = readers \ {Ui}
  /\ Goto(Ui, "render")
  /\ UNCHANGED <<clock, segments, writer, ts, todo, batch>>

\* segments_view: the sparkline, then the table, take a view each.
OpenView ==
  /\ pc[Ui] = "render"
  /\ todo[Ui] > 0
  /\ CanRead
  /\ readers' = readers \cup {Ui}
  /\ Goto(Ui, "viewing")
  /\ UNCHANGED <<clock, segments, writer, ts, todo, batch, frameTs>>

CloseView ==
  /\ pc[Ui] = "viewing"
  /\ readers' = readers \ {Ui}
  /\ todo' = [todo EXCEPT ![Ui] = @ - 1]
  /\ Goto(Ui, "render")
  /\ UNCHANGED <<clock, segments, writer, ts, batch, frameTs>>

\* Ui::render returns; the UiContext of the frame is gone.
EndRender ==
  /\ pc[Ui] = "render"
  /\ todo[Ui] = 0
  /\ ts' = [ts EXCEPT ![Ui] = 0]
  /\ frameTs' = 0
  /\ Goto(Ui, "idle")
  /\ UNCHANGED <<clock, segments, readers, writer, todo, batch>>

-----------------------------------------------------------------------------

WriteSegment(t) ==
  \/ FastHit(t) \/ FastMiss(t) \/ AwaitLock(t) \/ SlowLock(t)
  \/ GrowOne(t) \/ GrowDone(t) \/ Reread(t)

BatchUpdate(c) == ApplyMessage(c) \/ SkipMessage(c) \/ EndUpdate(c)

RenderFrame == OldestTimestamp \/ OpenView \/ CloseView \/ EndRender

Next ==
  \/ Tick
  \/ StartRender
  \/ RenderFrame
  \/ \E t \in Threads : WriteSegment(t)
  \/ \E c \in Cpus : StartUpdate(c) \/ BatchUpdate(c)

Spec == Init /\ [][Next]_vars

\* A thread that is inside the store runs on, and the UI redraws for ever.
\* Nothing is assumed of the clock or of the arrival of traffic.
Fairness ==
  /\ \A t \in Threads : WF_vars(WriteSegment(t))
  /\ \A c \in Cpus : WF_vars(BatchUpdate(c))
  /\ WF_vars(RenderFrame)
  /\ WF_vars(StartRender)

FairSpec == Spec /\ Fairness

-----------------------------------------------------------------------------
(* Properties                                                              *)

\* Every variable stays in its type; segment times are whole clock units.
TypeOK ==
  /\ clock \in 0 .. MaxTime
  /\ segments \in Seq(TimeSegment)
  /\ readers \subseteq Threads
  /\ writer \in Threads \cup {NoThread}
  /\ pc \in [Threads -> PcStates]
  /\ ts \in [Threads -> 0 .. MaxTime]
  /\ todo \in [Threads -> Nat]
  /\ \A c \in Cpus : todo[c] <= MaxBatch
  /\ batch \in [Cpus -> 0 .. MaxBatches]
  /\ frameTs \in Nat

\* The guards each thread owns are the ones its place in the code implies,
\* and the write guard excludes every other guard: no early return of
\* write_segment leaks a guard or goes on without one.
LockInv ==
  /\ readers = {t \in Threads : pc[t] \in {"held", "viewing"}}
  /\ \A t \in Threads : pc[t] = "grow" <=> writer = t
  /\ writer # NoThread => readers = {}

\* The deque holds at most `capacity` segments, aligned on the window and
\* contiguous: whoever creates segments, none is skipped, doubled or put out
\* of order, although the thread that grows the deque decided to do so from
\* what it saw before it had the write lock.
Contiguous ==
  /\ Len(segments) <= Capacity
  /\ \A i \in 1 .. Len(segments) :
       /\ Trunc(segments[i].ts, Window) = segments[i].ts
       /\ i > 1 => segments[i].ts = segments[i - 1].ts + Window

\* A stale caller never makes the deque run ahead of the clock.
NoFuture == \A i \in 1 .. Len(segments) : segments[i].ts <= clock

\* "the race condition ... it's harmless" (write_segment): although the write
\* guard is dropped before the read guard is taken again, whoever ends up with
\* a guard sees a newest segment (back().unwrap() cannot panic) that is not
\* older than the window it asked for.
GuardCurrent ==
  \A t \in Threads :
    pc[t] \in {"reread", "held"} =>
      segments # <<>> /\ Trunc(ts[t], Window) <= Back.ts

\* Traffic is never credited to a window that had ended when its batch was
\* stamped, nor to a window that has not begun.
StampOrder ==
  \A i \in 1 .. Len(segments) : \A m \in segments[i].log :
    Trunc(m.ts, Window) <= segments[i].ts /\ m.ts <= clock

\* A batch is never torn: all the messages of one batch_update are in one
\* segment, however many segments other threads want to add meanwhile.
BatchWhole ==
  \A i, j \in 1 .. Len(segments) :
    \A x \in segments[i].log, y \in segments[j].log :
      x.cpu = y.cpu /\ x.batch = y.batch => i = j

\* What frames rely on: the newest window the UI was told of is not older
\* than the frame itself and is in the past.
FrameCurrent ==
  pc[Ui] \in {"render", "viewing"} =>
    /\ Trunc(ts[Ui], Window) <= frameTs
    /\ frameTs <= clock

\* Where the messages of a CPU's present batch are: in the newest segment
\* only, and only while the CPU owns a guard; those of earlier numbers (n
\* counts down) only.
BatchInv ==
  \A i \in 1 .. Len(segments) : \A m \in segments[i].log :
    /\ m.batch <= batch[m.cpu]
    /\ m.batch = batch[m.cpu] /\ pc[m.cpu] # "idle" =>
         pc[m.cpu] = "held" /\ i = Len(segments) /\ todo[m.cpu] < m.n

\* Nobody's stamp lies in the future; a busy CPU works on a batch, and an
\* open view is one of those the frame still has to take.
StampInv ==
  /\ \A t \in Threads : ts[t] <= clock
  /\ \A c \in Cpus : pc[c] # "idle" => batch[c] > 0
  /\ pc[Ui] = "viewing" => todo[Ui] > 0

\* Times increase along the deque.  It follows from Contiguous by induction;
\* stated apart, it is inductive with the rest.
Ordered ==
  \A i, j \in 1 .. Len(segments) : i < j => segments[i].ts < segments[j].ts

\* The inductive invariant behind all of the above.
Inv ==
  /\ TypeOK
  /\ LockInv
  /\ StampInv
  /\ Contiguous
  /\ Ordered
  /\ NoFuture
  /\ GuardCurrent
  /\ StampOrder
  /\ BatchInv
  /\ BatchWhole
  /\ FrameCurrent

\* Once a newer segment exists, the older ones are frozen until they are
\* evicted: the sparkline reads each of them only once.
OlderFrozen ==
  [][\A i \in 1 .. Len(segments) - 1, j \in 1 .. Len(segments') :
       segments'[j].ts = segments[i].ts => segments'[j] = segments[i]]_vars

\* "prevents new time segments from being added while the reader is active"
\* (segments_view): a thread that keeps its guard sees the same segments, and
\* sees them only gain messages.
GuardStable ==
  [][readers \cap readers' # {} =>
       /\ Len(segments') = Len(segments)
       /\ \A i \in 1 .. Len(segments) :
            /\ segments'[i].ts = segments[i].ts
            /\ segments[i].log \subseteq segments'[i].log]_vars

\* The Store implements the lock-free, thread-free TimeSeries: the clock and
\* the deque are TimeSeries' own; locks, threads and stamps are hidden.
Series == INSTANCE TimeSeries WITH
  clock <- clock, segments <- segments, Message <- Message,
  Window <- Window, Capacity <- Capacity, MaxTime <- MaxTime
ImplementsSeries == Series!SeriesSpec

\* No thread that entered the store stays there: no lock cycle, and a writer
\* is not starved by the UI's endless reads.
OpsComplete == \A t \in Threads : pc[t] # "idle" ~> pc[t] = "idle"

\* Time always makes the series roll, even when no traffic arrives: the
\* frame loop calls write_segment too.
Rolls ==
  \A k \in 0 .. MaxTime :
    clock >= k ~> segments # <<>> /\ Back.ts >= Trunc(k, Window)

=============================================================================
