---------------------------- MODULE StoreProofs ----------------------------
(***************************************************************************)
(* Proofs about Store, for any number of CPUs, any window, any capacity    *)
(* and either policy of the lock.                                          *)
(***************************************************************************)
EXTENDS Store, NumberProofs

\* What one iteration of the slow path does to the deque: the segments move
\* down by d (0, or 1 when the oldest one is evicted) and a new one follows.
LEMMA GrowShape ==
  ASSUME StoreAssumption, TypeOK, Len(segments) <= Capacity,
         NEW t \in Threads, GrowOne(t)
  PROVE  \E d \in {0, 1} :
           /\ d <= Len(segments)
           /\ Len(segments') = Len(segments) - d + 1
           /\ Len(segments') <= Capacity
           /\ segments' \in Seq(TimeSegment)
           /\ segments'[Len(segments')] = [ts |-> NextSegmentTs(t), log |-> {}]
           /\ \A i \in 1 .. Len(segments') - 1 : segments'[i] = segments[i + d]
<1> DEFINE new == [ts |-> NextSegmentTs(t), log |-> {}]
<1>1. segments \in Seq(TimeSegment) /\ Capacity \in Nat \ {0} /\ Len(segments) \in Nat
  BY DEF TypeOK, StoreAssumption
<1>2. new \in TimeSegment
  <2>1. NextSegmentTs(t) \in Nat
    <3>1. ts[t] \in Nat /\ Window \in Nat \ {0}
      BY DEF TypeOK, StoreAssumption
    <3>2. Trunc(ts[t], Window) \in Nat
      BY <3>1, TruncBounds
    <3>3. segments # <<>> => Back \in TimeSegment
      BY <1>1 DEF Back
    <3>4. segments # <<>> => Back.ts \in Nat
      BY <3>3 DEF TimeSegment
    <3> QED
      BY <3>2, <3>4 DEF NextSegmentTs, StoreAssumption
  <2> QED
    BY <2>1 DEF TimeSegment
<1> HIDE DEF new
<1>3. segments' = Append(MakeRoom, new)
  BY DEF GrowOne, new
<1>4. CASE Len(segments) >= Capacity
  <2>1. MakeRoom = Tail(segments) /\ segments # <<>>
    BY <1>1, <1>4 DEF MakeRoom
  <2>2. /\ Tail(segments) \in Seq(TimeSegment)
        /\ Len(Tail(segments)) = Len(segments) - 1
        /\ \A i \in 1 .. Len(segments) - 1 : Tail(segments)[i] = segments[i + 1]
    BY <1>1, <2>1
  <2>3. /\ segments' \in Seq(TimeSegment)
        /\ Len(segments') = Len(segments)
        /\ segments'[Len(segments)] = new
        /\ \A i \in 1 .. Len(segments) - 1 : segments'[i] = segments[i + 1]
    BY <1>1, <1>2, <1>3, <2>1, <2>2
  <2> QED
    BY <1>1, <1>4, <2>1, <2>3 DEF new
<1>5. CASE ~(Len(segments) >= Capacity)
  <2>1. MakeRoom = segments
    BY <1>5 DEF MakeRoom
  <2>2. /\ segments' \in Seq(TimeSegment)
        /\ Len(segments') = Len(segments) + 1
        /\ segments'[Len(segments) + 1] = new
        /\ \A i \in 1 .. Len(segments) : segments'[i] = segments[i + 0]
    BY <1>1, <1>2, <1>3, <2>1
  <2> QED
    BY <1>1, <1>5, <2>2 DEF new
<1> QED
  BY <1>4, <1>5

\* What a message does to the deque: only the newest segment changes.
LEMMA ApplyShape ==
  ASSUME StoreAssumption, Inv, NEW c \in Cpus, ApplyMessage(c)
  PROVE  /\ segments # <<>>
         /\ Len(segments) \in Nat \ {0}
         /\ NextMessage(c) \in Message
         /\ segments' \in Seq(TimeSegment)
         /\ Len(segments') = Len(segments)
         /\ \A i \in 1 .. Len(segments) :
              /\ segments'[i].ts = segments[i].ts
              /\ i < Len(segments) => segments'[i] = segments[i]
         /\ segments'[Len(segments)].log = Back.log \cup {NextMessage(c)}
<1>1. /\ segments # <<>> /\ segments \in Seq(TimeSegment)
      /\ Len(segments) \in Nat \ {0}
  BY DEF Inv, TypeOK, GuardCurrent, ApplyMessage, Threads
<1>2. NextMessage(c) \in Message
  <2>1. pc[c] = "held" /\ todo[c] > 0
    BY DEF ApplyMessage
  <2>2. batch[c] \in 1 .. MaxBatches
    <3>1. batch[c] \in 0 .. MaxBatches /\ MaxBatches \in Nat
      BY DEF Inv, TypeOK, StoreAssumption
    <3>2. batch[c] > 0
      BY <2>1 DEF Inv, StampInv
    <3> QED
      BY <3>1, <3>2
  <2>3. todo[c] \in 1 .. MaxBatch
    BY <2>1 DEF Inv, TypeOK, Threads, StoreAssumption
  <2>4. ts[c] \in 0 .. MaxTime
    BY DEF Inv, TypeOK, Threads
  <2> QED
    BY <2>2, <2>3, <2>4 DEF NextMessage, Message
<1>3. Back \in TimeSegment
  BY <1>1 DEF Back
<1> DEFINE new == [ts |-> Back.ts, log |-> Back.log \cup {NextMessage(c)}]
<1>4. segments' = [segments EXCEPT ![Len(segments)] = new]
  BY DEF ApplyMessage
<1>5. new \in TimeSegment
  BY <1>2, <1>3 DEF TimeSegment
<1>6. /\ segments' \in Seq(TimeSegment)
      /\ Len(segments') = Len(segments)
      /\ segments'[Len(segments)] = new
      /\ \A i \in 1 .. Len(segments) : i < Len(segments) => segments'[i] = segments[i]
  <2> HIDE DEF new
  <2> QED
    BY <1>1, <1>4, <1>5
<1> QED
  BY <1>1, <1>2, <1>3, <1>6 DEF Back, TimeSegment

\* The fields of the segments and of the messages they hold.
LEMMA Fields ==
  ASSUME StoreAssumption, TypeOK
  PROVE  /\ Len(segments) \in Nat
         /\ \A i \in 1 .. Len(segments) :
              /\ segments[i] \in TimeSegment
              /\ segments[i].ts \in Nat
              /\ segments[i].log \subseteq Message
         /\ \A m \in Message :
              m.cpu \in Cpus /\ m.batch \in Nat /\ m.n \in Nat /\ m.ts \in Nat
         /\ segments # <<>> =>
              Len(segments) \in 1 .. Len(segments) /\ Back.ts \in Nat
         /\ \A t \in Threads : ts[t] \in Nat /\ Trunc(ts[t], Window) \in Nat
<1>1. Len(segments) \in Nat /\ segments \in Seq(TimeSegment)
  BY DEF TypeOK
<1>2. \A i \in 1 .. Len(segments) : segments[i] \in TimeSegment
  BY <1>1
<1>3. \A i \in 1 .. Len(segments) :
        segments[i].ts \in Nat /\ segments[i].log \subseteq Message
  BY <1>2 DEF TimeSegment
<1>4. \A m \in Message :
        m.cpu \in Cpus /\ m.batch \in Nat /\ m.n \in Nat /\ m.ts \in Nat
  BY DEF Message, StoreAssumption
<1>5. segments # <<>> => Len(segments) \in 1 .. Len(segments)
  BY <1>1
<1>6. segments # <<>> => Back.ts \in Nat
  BY <1>3, <1>5 DEF Back
<1>7. \A t \in Threads : ts[t] \in Nat /\ Trunc(ts[t], Window) \in Nat
  <2>1. \A t \in Threads : ts[t] \in Nat
    BY DEF TypeOK, StoreAssumption
  <2>2. Window \in Nat \ {0}
    BY DEF StoreAssumption
  <2> QED
    BY <2>1, <2>2, TruncBounds
<1> QED
  BY <1>1, <1>2, <1>3, <1>4, <1>5, <1>6, <1>7

\* The segment that the slow path adds is aligned, is not in the future and
\* follows the newest one.
LEMMA NewSegment ==
  ASSUME StoreAssumption, Inv, NEW t \in Threads, GrowOne(t)
  PROVE  /\ Trunc(NextSegmentTs(t), Window) = NextSegmentTs(t)
         /\ NextSegmentTs(t) \in Nat
         /\ NextSegmentTs(t) <= clock
         /\ segments # <<>> => NextSegmentTs(t) = Back.ts + Window
<1>0. TypeOK /\ ~IsCaughtUp(t)
  BY DEF Inv, GrowOne
<1>1. /\ Window \in Nat \ {0} /\ clock \in Nat /\ ts[t] \in Nat /\ ts[t] <= clock
      /\ Trunc(ts[t], Window) \in Nat /\ Trunc(ts[t], Window) <= clock
  <2>1. Window \in Nat \ {0} /\ clock \in Nat /\ ts[t] <= clock
    BY DEF StoreAssumption, Inv, TypeOK, StampInv
  <2>2. ts[t] \in Nat /\ Trunc(ts[t], Window) \in Nat
    BY <1>0, Fields
  <2>3. Trunc(ts[t], Window) <= ts[t]
    BY <2>1, <2>2, TruncBounds
  <2> QED
    BY <2>1, <2>2, <2>3
<1>2. CASE segments = <<>>
  <2>1. NextSegmentTs(t) = Trunc(ts[t], Window)
    BY <1>2 DEF NextSegmentTs
  <2>2. Trunc(Trunc(ts[t], Window), Window) = Trunc(ts[t], Window)
    BY <1>1, TruncIdempotent
  <2> QED
    BY <1>1, <1>2, <2>1, <2>2
<1>3. CASE segments # <<>>
  <2>1. /\ NextSegmentTs(t) = Back.ts + Window /\ Back.ts \in Nat
        /\ Back.ts < Trunc(ts[t], Window)
    BY <1>0, <1>0, <1>1, <1>3, Fields DEF NextSegmentTs, IsCaughtUp
  <2>2. Trunc(Back.ts, Window) = Back.ts
    BY <1>0, <1>3, Fields DEF Inv, Contiguous, Back
  <2>3. Trunc(Trunc(ts[t], Window), Window) = Trunc(ts[t], Window)
    BY <1>1, TruncIdempotent
  <2>4. /\ Trunc(Back.ts + Window, Window) = Back.ts + Window
        /\ Back.ts + Window <= Trunc(ts[t], Window)
    BY <1>1, <2>1, <2>2, <2>3, TruncNext
  <2> QED
    BY <1>1, <2>1, <2>4
<1> QED
  BY <1>2, <1>3

\* A step that leaves the deque alone keeps what is said of the deque only.
LEMMA DequeKept ==
  ASSUME StoreAssumption, Inv, segments' = segments,
         clock' \in Nat, clock <= clock'
  PROVE  Contiguous' /\ Ordered' /\ NoFuture' /\ StampOrder' /\ BatchWhole'
<1>1. clock \in Nat /\ TypeOK
  BY DEF Inv, TypeOK
<1>2. Contiguous' /\ Ordered' /\ BatchWhole'
  <2>1. Contiguous'
    BY DEF Inv, Contiguous
  <2>2. Ordered'
    BY DEF Inv, Ordered
  <2>3. BatchWhole'
    BY DEF Inv, BatchWhole
  <2> QED
    BY <2>1, <2>2, <2>3
<1>3. NoFuture'
  BY <1>1, Fields DEF Inv, NoFuture
<1>4. StampOrder'
  BY <1>1, Fields DEF Inv, StampOrder
<1> QED
  BY <1>2, <1>3, <1>4

\* The step applies no message, starts no batch and takes no guard from a CPU
\* but at the end of its batch.
BatchesKept ==
  /\ segments' = segments
  /\ batch' = batch
  /\ \A b \in Cpus :
       /\ todo'[b] = todo[b]
       /\ pc'[b] # pc[b] => pc[b] \notin {"idle", "held"} \/ pc'[b] = "idle"

\* Such a step keeps what is said of the batches in progress.
LEMMA BatchKept ==
  ASSUME StoreAssumption, Inv, BatchesKept
  PROVE  BatchInv'
<1> USE DEF BatchesKept
<1>1. SUFFICES ASSUME NEW i \in 1 .. Len(segments), NEW m \in segments[i].log
               PROVE  /\ m.batch <= batch[m.cpu]
                      /\ m.batch = batch[m.cpu] /\ pc'[m.cpu] # "idle" =>
                           pc'[m.cpu] = "held" /\ i = Len(segments)
                             /\ todo'[m.cpu] < m.n
  BY DEF BatchInv
<1>2. m.cpu \in Cpus
  BY Fields DEF Inv
<1>3. /\ m.batch <= batch[m.cpu]
      /\ m.batch = batch[m.cpu] /\ pc[m.cpu] # "idle" =>
           pc[m.cpu] = "held" /\ i = Len(segments) /\ todo[m.cpu] < m.n
  BY DEF Inv, BatchInv
<1> QED
  BY <1>2, <1>3

\* Every action preserves the invariant.
LEMMA InvStep ==
  ASSUME StoreAssumption, Inv, [Next]_vars
  PROVE  Inv'
<1> USE DEF Threads
<1>0. TypeOK
  BY DEF Inv
<1>1. CASE Tick
  <2>0. segments' = segments /\ clock' \in Nat /\ clock <= clock'
    BY <1>1 DEF Inv, TypeOK, Tick
  <2>1. TypeOK'
    BY <1>0, <1>1 DEF TypeOK, PcStates, StoreAssumption, Tick, Goto
  <2>2. LockInv'
    BY <1>1 DEF Inv, TypeOK, LockInv, StoreAssumption, Tick, Goto
  <2>3. StampInv'
    BY <1>1 DEF Inv, TypeOK, StampInv, StoreAssumption, Tick, Goto
  <2>4. GuardCurrent'
    BY <1>1 DEF Inv, TypeOK, GuardCurrent, Tick, Goto, Back
  <2>5. BatchInv'
    <3>1. BatchesKept
      BY <1>0, <1>1 DEF BatchesKept, TypeOK, StoreAssumption, Tick, Goto
    <3> QED
      BY <3>1, BatchKept
  <2>6. FrameCurrent'
    BY <1>1 DEF Inv, TypeOK, FrameCurrent, StoreAssumption, Tick, Goto
  <2> QED
    BY <2>0, <2>1, <2>2, <2>3, <2>4, <2>5, <2>6, DequeKept DEF Inv
<1>2. CASE StartRender
  <2>0. segments' = segments /\ clock' \in Nat /\ clock <= clock'
    BY <1>2 DEF Inv, TypeOK, StartRender
  <2>1. TypeOK'
    BY <1>0, <1>2 DEF TypeOK, PcStates, StoreAssumption, StartRender, Goto
  <2>2. LockInv'
    BY <1>2 DEF Inv, TypeOK, LockInv, StoreAssumption, StartRender, Goto
  <2>3. StampInv'
    BY <1>2 DEF Inv, TypeOK, StampInv, StoreAssumption, StartRender, Goto
  <2>4. GuardCurrent'
    BY <1>2 DEF Inv, TypeOK, GuardCurrent, StartRender, Goto, Back
  <2>5. BatchInv'
    <3>1. BatchesKept
      BY <1>0, <1>2 DEF BatchesKept, TypeOK, StoreAssumption, StartRender, Goto
    <3> QED
      BY <3>1, BatchKept
  <2>6. FrameCurrent'
    BY <1>2 DEF Inv, TypeOK, FrameCurrent, StoreAssumption, StartRender, Goto
  <2> QED
    BY <2>0, <2>1, <2>2, <2>3, <2>4, <2>5, <2>6, DequeKept DEF Inv
<1>3. CASE OldestTimestamp
  <2>0. segments' = segments /\ clock' \in Nat /\ clock <= clock'
    BY <1>3 DEF Inv, TypeOK, OldestTimestamp
  <2>1. TypeOK'
    <3>1. segments # <<>>
      BY <1>3 DEF Inv, GuardCurrent, OldestTimestamp
    <3>2. frameTs' \in Nat
      BY <1>0, <1>3, <3>1, Fields DEF OldestTimestamp
    <3> QED
      BY <1>3, <3>2 DEF Inv, TypeOK, PcStates, OldestTimestamp, Goto
  <2>2. LockInv'
    BY <1>3 DEF Inv, TypeOK, LockInv, StoreAssumption, OldestTimestamp, Goto
  <2>3. StampInv'
    BY <1>3 DEF Inv, TypeOK, StampInv, StoreAssumption, OldestTimestamp, Goto
  <2>4. GuardCurrent'
    BY <1>3 DEF Inv, TypeOK, GuardCurrent, OldestTimestamp, Goto, Back
  <2>5. BatchInv'
    <3>1. BatchesKept
      BY <1>0, <1>3 DEF BatchesKept, TypeOK, StoreAssumption, OldestTimestamp, Goto
    <3> QED
      BY <3>1, BatchKept
  <2>6. FrameCurrent'
    <3>1. segments # <<>> /\ Trunc(ts[Ui], Window) <= Back.ts
      BY <1>3 DEF Inv, GuardCurrent, OldestTimestamp
    <3>2. Back.ts <= clock
      BY <1>0, <3>1, Fields DEF Inv, NoFuture, Back
    <3> QED
      BY <1>3, <3>1, <3>2 DEF FrameCurrent, OldestTimestamp
<2> QED
    BY <2>0, <2>1, <2>2, <2>3, <2>4, <2>5, <2>6, DequeKept DEF Inv
<1>4. CASE OpenView
  <2>0. segments' = segments /\ clock' \in Nat /\ clock <= clock'
    BY <1>4 DEF Inv, TypeOK, OpenView
  <2>1. TypeOK'
    BY <1>0, <1>4 DEF TypeOK, PcStates, StoreAssumption, OpenView, Goto
  <2>2. LockInv'
    BY <1>4 DEF Inv, TypeOK, LockInv, StoreAssumption, OpenView, Goto, CanRead
  <2>3. StampInv'
    BY <1>4 DEF Inv, TypeOK, StampInv, StoreAssumption, OpenView, Goto
  <2>4. GuardCurrent'
    BY <1>4 DEF Inv, TypeOK, GuardCurrent, OpenView, Goto, Back
  <2>5. BatchInv'
    <3>1. BatchesKept
      BY <1>0, <1>4 DEF BatchesKept, TypeOK, StoreAssumption, OpenView, Goto
    <3> QED
      BY <3>1, BatchKept
  <2>6. FrameCurrent'
    BY <1>4 DEF Inv, TypeOK, FrameCurrent, StoreAssumption, OpenView, Goto
  <2> QED
    BY <2>0, <2>1, <2>2, <2>3, <2>4, <2>5, <2>6, DequeKept DEF Inv
<1>5. CASE CloseView
  <2>0. segments' = segments /\ clock' \in Nat /\ clock <= clock'
    BY <1>5 DEF Inv, TypeOK, CloseView
  <2>1. TypeOK'
    <3>1. todo[Ui] - 1 \in Nat
      BY <1>5 DEF Inv, TypeOK, StampInv, CloseView
    <3> QED
      BY <1>5, <3>1 DEF Inv, TypeOK, PcStates, StoreAssumption, CloseView, Goto
  <2>2. LockInv'
    BY <1>5 DEF Inv, TypeOK, LockInv, StoreAssumption, CloseView, Goto
  <2>3. StampInv'
    BY <1>5 DEF Inv, TypeOK, StampInv, StoreAssumption, CloseView, Goto
  <2>4. GuardCurrent'
    BY <1>5 DEF Inv, TypeOK, GuardCurrent, CloseView, Goto, Back
  <2>5. BatchInv'
    <3>1. BatchesKept
      BY <1>0, <1>5 DEF BatchesKept, TypeOK, StoreAssumption, CloseView, Goto
    <3> QED
      BY <3>1, BatchKept
  <2>6. FrameCurrent'
    BY <1>5 DEF Inv, TypeOK, FrameCurrent, StoreAssumption, CloseView, Goto
  <2> QED
    BY <2>0, <2>1, <2>2, <2>3, <2>4, <2>5, <2>6, DequeKept DEF Inv
<1>6. CASE EndRender
  <2>0. segments' = segments /\ clock' \in Nat /\ clock <= clock'
    BY <1>6 DEF Inv, TypeOK, EndRender
  <2>1. TypeOK'
    BY <1>0, <1>6 DEF TypeOK, PcStates, StoreAssumption, EndRender, Goto
  <2>2. LockInv'
    BY <1>6 DEF Inv, TypeOK, LockInv, StoreAssumption, EndRender, Goto
  <2>3. StampInv'
    BY <1>6 DEF Inv, TypeOK, StampInv, StoreAssumption, EndRender, Goto
  <2>4. GuardCurrent'
    BY <1>6 DEF Inv, TypeOK, GuardCurrent, EndRender, Goto, Back
  <2>5. BatchInv'
    <3>1. BatchesKept
      BY <1>0, <1>6 DEF BatchesKept, TypeOK, StoreAssumption, EndRender, Goto
    <3> QED
      BY <3>1, BatchKept
  <2>6. FrameCurrent'
    BY <1>6 DEF Inv, TypeOK, FrameCurrent, StoreAssumption, EndRender, Goto
  <2> QED
    BY <2>0, <2>1, <2>2, <2>3, <2>4, <2>5, <2>6, DequeKept DEF Inv
<1>7. ASSUME NEW t \in Threads, FastHit(t) PROVE Inv'
  <2>0. segments' = segments /\ clock' \in Nat /\ clock <= clock'
    BY <1>7 DEF Inv, TypeOK, FastHit
  <2>1. TypeOK'
    BY <1>0, <1>7 DEF TypeOK, PcStates, StoreAssumption, FastHit, Goto, IsCurrent
  <2>2. LockInv'
    BY <1>7 DEF Inv, TypeOK, LockInv, StoreAssumption, FastHit, Goto, CanRead
  <2>3. StampInv'
    BY <1>7 DEF Inv, TypeOK, StampInv, StoreAssumption, FastHit, Goto, IsCurrent
  <2>4. GuardCurrent'
    <3>1. segments # <<>> /\ Trunc(ts[t], Window) <= Back.ts
      BY <1>0, <1>7, Fields DEF FastHit, IsCurrent
    <3> QED
      BY <1>7, <3>1 DEF Inv, TypeOK, GuardCurrent, FastHit, Goto, Back
  <2>5. BatchInv'
    <3>1. BatchesKept
      BY <1>0, <1>7 DEF BatchesKept, TypeOK, StoreAssumption, FastHit, Goto
    <3> QED
      BY <3>1, BatchKept
  <2>6. FrameCurrent'
    BY <1>7 DEF Inv, TypeOK, FrameCurrent, StoreAssumption, FastHit, Goto, IsCurrent
  <2> QED
    BY <2>0, <2>1, <2>2, <2>3, <2>4, <2>5, <2>6, DequeKept DEF Inv
<1>8. ASSUME NEW t \in Threads, FastMiss(t) PROVE Inv'
  <2>0. segments' = segments /\ clock' \in Nat /\ clock <= clock'
    BY <1>8 DEF Inv, TypeOK, FastMiss
  <2>1. TypeOK'
    BY <1>0, <1>8 DEF TypeOK, PcStates, StoreAssumption, FastMiss, Goto, IsCurrent
  <2>2. LockInv'
    BY <1>8 DEF Inv, TypeOK, LockInv, StoreAssumption, FastMiss, Goto, IsCurrent
  <2>3. StampInv'
    BY <1>8 DEF Inv, TypeOK, StampInv, StoreAssumption, FastMiss, Goto, IsCurrent
  <2>4. GuardCurrent'
    BY <1>8 DEF Inv, TypeOK, GuardCurrent, FastMiss, Goto, IsCurrent, Back
  <2>5. BatchInv'
    <3>1. BatchesKept
      BY <1>0, <1>8 DEF BatchesKept, TypeOK, StoreAssumption, FastMiss, Goto
    <3> QED
      BY <3>1, BatchKept
  <2>6. FrameCurrent'
    BY <1>8 DEF Inv, TypeOK, FrameCurrent, StoreAssumption, FastMiss, Goto, IsCurrent
  <2> QED
    BY <2>0, <2>1, <2>2, <2>3, <2>4, <2>5, <2>6, DequeKept DEF Inv
<1>9. ASSUME NEW t \in Threads, AwaitLock(t) PROVE Inv'
  <2>0. segments' = segments /\ clock' \in Nat /\ clock <= clock'
    BY <1>9 DEF Inv, TypeOK, AwaitLock
  <2>1. TypeOK'
    BY <1>0, <1>9 DEF TypeOK, PcStates, StoreAssumption, AwaitLock, Goto
  <2>2. LockInv'
    BY <1>9 DEF Inv, TypeOK, LockInv, StoreAssumption, AwaitLock, Goto
  <2>3. StampInv'
    BY <1>9 DEF Inv, TypeOK, StampInv, StoreAssumption, AwaitLock, Goto
  <2>4. GuardCurrent'
    BY <1>9 DEF Inv, TypeOK, GuardCurrent, AwaitLock, Goto, Back
  <2>5. BatchInv'
    <3>1. BatchesKept
      BY <1>0, <1>9 DEF BatchesKept, TypeOK, StoreAssumption, AwaitLock, Goto
    <3> QED
      BY <3>1, BatchKept
  <2>6. FrameCurrent'
    BY <1>9 DEF Inv, TypeOK, FrameCurrent, StoreAssumption, AwaitLock, Goto
  <2> QED
    BY <2>0, <2>1, <2>2, <2>3, <2>4, <2>5, <2>6, DequeKept DEF Inv
<1>10. ASSUME NEW t \in Threads, SlowLock(t) PROVE Inv'
  <2>0. segments' = segments /\ clock' \in Nat /\ clock <= clock'
    BY <1>10 DEF Inv, TypeOK, SlowLock
  <2>1. TypeOK'
    BY <1>0, <1>10 DEF TypeOK, PcStates, StoreAssumption, SlowLock, Goto, CanWrite
  <2>2. LockInv'
    BY <1>10 DEF Inv, TypeOK, LockInv, StoreAssumption, SlowLock, Goto, CanWrite
  <2>3. StampInv'
    BY <1>10 DEF Inv, TypeOK, StampInv, StoreAssumption, SlowLock, Goto, CanWrite
  <2>4. GuardCurrent'
    BY <1>10 DEF Inv, TypeOK, GuardCurrent, SlowLock, Goto, CanWrite, Back
  <2>5. BatchInv'
    <3>1. BatchesKept
      BY <1>0, <1>10 DEF BatchesKept, TypeOK, StoreAssumption, SlowLock, Goto
    <3> QED
      BY <3>1, BatchKept
  <2>6. FrameCurrent'
    BY <1>10 DEF Inv, TypeOK, FrameCurrent, StoreAssumption, SlowLock, Goto, CanWrite
  <2> QED
    BY <2>0, <2>1, <2>2, <2>3, <2>4, <2>5, <2>6, DequeKept DEF Inv
<1>11. ASSUME NEW t \in Threads, GrowDone(t) PROVE Inv'
  <2>0. segments' = segments /\ clock' \in Nat /\ clock <= clock'
    BY <1>11 DEF Inv, TypeOK, GrowDone
  <2>1. TypeOK'
    BY <1>0, <1>11 DEF TypeOK, PcStates, StoreAssumption, GrowDone, Goto, IsCaughtUp
  <2>2. LockInv'
    BY <1>11 DEF Inv, TypeOK, LockInv, StoreAssumption, GrowDone, Goto, IsCaughtUp
  <2>3. StampInv'
    BY <1>11 DEF Inv, TypeOK, StampInv, StoreAssumption, GrowDone, Goto, IsCaughtUp
  <2>4. GuardCurrent'
    BY <1>11 DEF Inv, TypeOK, GuardCurrent, GrowDone, Goto, IsCaughtUp, Back
  <2>5. BatchInv'
    <3>1. BatchesKept
      BY <1>0, <1>11 DEF BatchesKept, TypeOK, StoreAssumption, GrowDone, Goto
    <3> QED
      BY <3>1, BatchKept
  <2>6. FrameCurrent'
    BY <1>11 DEF Inv, TypeOK, FrameCurrent, StoreAssumption, GrowDone, Goto, IsCaughtUp
  <2> QED
    BY <2>0, <2>1, <2>2, <2>3, <2>4, <2>5, <2>6, DequeKept DEF Inv
<1>12. ASSUME NEW t \in Threads, Reread(t) PROVE Inv'
  <2>0. segments' = segments /\ clock' \in Nat /\ clock <= clock'
    BY <1>12 DEF Inv, TypeOK, Reread
  <2>1. TypeOK'
    BY <1>0, <1>12 DEF TypeOK, PcStates, StoreAssumption, Reread, Goto
  <2>2. LockInv'
    BY <1>12 DEF Inv, TypeOK, LockInv, StoreAssumption, Reread, Goto, CanRead
  <2>3. StampInv'
    BY <1>12 DEF Inv, TypeOK, StampInv, StoreAssumption, Reread, Goto
  <2>4. GuardCurrent'
    BY <1>12 DEF Inv, TypeOK, GuardCurrent, Reread, Goto, Back
  <2>5. BatchInv'
    <3>1. BatchesKept
      BY <1>0, <1>12 DEF BatchesKept, TypeOK, StoreAssumption, Reread, Goto
    <3> QED
      BY <3>1, BatchKept
  <2>6. FrameCurrent'
    BY <1>12 DEF Inv, TypeOK, FrameCurrent, StoreAssumption, Reread, Goto
  <2> QED
    BY <2>0, <2>1, <2>2, <2>3, <2>4, <2>5, <2>6, DequeKept DEF Inv
<1>13. ASSUME NEW c \in Cpus, StartUpdate(c) PROVE Inv'
  <2>0. segments' = segments /\ clock' \in Nat /\ clock <= clock'
    BY <1>13 DEF Inv, TypeOK, StartUpdate
  <2>1. TypeOK'
    <3>1. PICK k \in 0 .. MaxBatch : todo' = [todo EXCEPT ![c] = k]
      BY <1>13 DEF StartUpdate
    <3>2. MaxBatch \in Nat /\ MaxBatches \in Nat /\ c \in Threads
      BY DEF StoreAssumption, Threads
    <3>3. todo' \in [Threads -> Nat] /\ \A x \in Cpus : todo'[x] <= MaxBatch
      BY <1>0, <3>1, <3>2 DEF TypeOK
    <3>4. batch' \in [Cpus -> 0 .. MaxBatches]
      <4>1. /\ batch \in [Cpus -> 0 .. MaxBatches] /\ batch[c] < MaxBatches
            /\ batch' = [batch EXCEPT ![c] = batch[c] + 1]
        BY <1>0, <1>13 DEF TypeOK, StartUpdate
      <4>2. batch[c] + 1 \in 0 .. MaxBatches
        BY <3>2, <4>1
      <4> QED
        BY <4>1, <4>2
    <3>5. pc' \in [Threads -> PcStates] /\ ts' \in [Threads -> 0 .. MaxTime]
      BY <1>0, <1>13, <3>2 DEF TypeOK, StartUpdate, Goto, PcStates
    <3> QED
      BY <1>0, <1>13, <3>3, <3>4, <3>5 DEF TypeOK, StartUpdate
  <2>2. LockInv'
    BY <1>13 DEF Inv, TypeOK, LockInv, StoreAssumption, StartUpdate, Goto
  <2>3. StampInv'
    <3>1. StampInv
      BY DEF Inv
    <3>2. \A t \in Threads : ts'[t] <= clock'
      BY <1>0, <1>13, <3>1 DEF TypeOK, StampInv, StartUpdate
    <3>3. \A x \in Cpus : pc'[x] # "idle" => batch'[x] > 0
      BY <1>0, <1>13, <3>1 DEF TypeOK, StampInv, StartUpdate, Goto, Threads
    <3>4. pc'[Ui] = pc[Ui] /\ todo'[Ui] = todo[Ui]
      BY <1>0, <1>13 DEF TypeOK, StartUpdate, Goto, Threads, StoreAssumption
    <3> QED
      BY <3>1, <3>2, <3>3, <3>4 DEF StampInv
  <2>4. GuardCurrent'
    BY <1>13 DEF Inv, TypeOK, GuardCurrent, StartUpdate, Goto, Back
  <2>5. BatchInv'
    <3>1. SUFFICES ASSUME NEW i \in 1 .. Len(segments), NEW m \in segments[i].log
                   PROVE  /\ m.batch <= batch'[m.cpu]
                          /\ m.batch = batch'[m.cpu] /\ pc'[m.cpu] # "idle" =>
                               pc'[m.cpu] = "held" /\ i = Len(segments)
                                 /\ todo'[m.cpu] < m.n
      BY <2>0 DEF BatchInv
    <3>2. m.cpu \in Cpus /\ m.batch \in Nat
      BY <1>0, Fields
    <3>3. m.batch <= batch[m.cpu] /\ batch[m.cpu] \in Nat
      <4>1. m.batch <= batch[m.cpu]
        BY DEF Inv, BatchInv
      <4>2. batch[m.cpu] \in Nat
        BY <1>0, <3>2 DEF TypeOK
      <4> QED
        BY <4>1, <4>2
    <3>4. CASE m.cpu = c
      <4>1. batch'[c] = batch[c] + 1
        BY <1>0, <1>13 DEF TypeOK, StartUpdate
      <4> QED
        BY <3>2, <3>3, <3>4, <4>1
    <3>5. CASE m.cpu # c
      <4>1. /\ batch'[m.cpu] = batch[m.cpu] /\ pc'[m.cpu] = pc[m.cpu]
            /\ todo'[m.cpu] = todo[m.cpu]
        BY <1>0, <1>13, <3>2, <3>5 DEF TypeOK, StartUpdate, Goto
      <4> QED
        BY <4>1 DEF Inv, BatchInv
    <3> QED
      BY <3>4, <3>5
  <2>6. FrameCurrent'
    BY <1>13 DEF Inv, TypeOK, FrameCurrent, StoreAssumption, StartUpdate, Goto
  <2> QED
    BY <2>0, <2>1, <2>2, <2>3, <2>4, <2>5, <2>6, DequeKept DEF Inv
<1>14. ASSUME NEW c \in Cpus, SkipMessage(c) PROVE Inv'
  <2>0. segments' = segments /\ clock' \in Nat /\ clock <= clock'
    BY <1>14 DEF Inv, TypeOK, SkipMessage
  <2>1. TypeOK'
    <3>1. MaxBatch \in Nat /\ c \in Threads /\ todo[c] \in Nat /\ todo[c] > 0
          /\ todo[c] - 1 \in Nat /\ todo[c] - 1 <= MaxBatch
      BY <1>0, <1>14 DEF TypeOK, SkipMessage, StoreAssumption, Threads
    <3>2. todo' \in [Threads -> Nat] /\ \A x \in Cpus : todo'[x] <= MaxBatch
      BY <1>0, <1>14, <3>1 DEF TypeOK, SkipMessage
    <3> QED
      BY <1>0, <1>14, <3>2 DEF TypeOK, SkipMessage
  <2>2. LockInv'
    BY <1>14 DEF Inv, TypeOK, LockInv, StoreAssumption, SkipMessage, Goto
  <2>3. StampInv'
    BY <1>14 DEF Inv, TypeOK, StampInv, StoreAssumption, SkipMessage, Goto
  <2>4. GuardCurrent'
    BY <1>14 DEF Inv, TypeOK, GuardCurrent, SkipMessage, Goto, Back
  <2>5. BatchInv'
    <3>1. SUFFICES ASSUME NEW i \in 1 .. Len(segments), NEW m \in segments[i].log
                   PROVE  /\ m.batch <= batch[m.cpu]
                          /\ m.batch = batch[m.cpu] /\ pc[m.cpu] # "idle" =>
                               pc[m.cpu] = "held" /\ i = Len(segments)
                                 /\ todo'[m.cpu] < m.n
      BY <1>14, <2>0 DEF BatchInv, SkipMessage
    <3>2. m.cpu \in Cpus /\ m.n \in Nat
      BY <1>0, Fields
    <3>3. todo[m.cpu] \in Nat /\ todo'[m.cpu] \in Nat /\ todo'[m.cpu] <= todo[m.cpu]
      <4>1. \A b \in Cpus : todo[b] \in Nat
        BY <1>0 DEF TypeOK
      <4>2. /\ todo[c] > 0 /\ todo'[c] = todo[c] - 1
            /\ \A b \in Cpus : b # c => todo'[b] = todo[b]
        BY <1>0, <1>14 DEF TypeOK, SkipMessage
      <4> QED
        BY <3>2, <4>1, <4>2
    <3> QED
      BY <3>2, <3>3 DEF Inv, BatchInv
  <2>6. FrameCurrent'
    BY <1>14 DEF Inv, TypeOK, FrameCurrent, StoreAssumption, SkipMessage, Goto
  <2> QED
    BY <2>0, <2>1, <2>2, <2>3, <2>4, <2>5, <2>6, DequeKept DEF Inv
<1>15. ASSUME NEW c \in Cpus, EndUpdate(c) PROVE Inv'
  <2>0. segments' = segments /\ clock' \in Nat /\ clock <= clock'
    BY <1>15 DEF Inv, TypeOK, EndUpdate
  <2>1. TypeOK'
    BY <1>0, <1>15 DEF TypeOK, PcStates, StoreAssumption, EndUpdate, Goto
  <2>2. LockInv'
    BY <1>15 DEF Inv, TypeOK, LockInv, StoreAssumption, EndUpdate, Goto
  <2>3. StampInv'
    BY <1>15 DEF Inv, TypeOK, StampInv, StoreAssumption, EndUpdate, Goto
  <2>4. GuardCurrent'
    BY <1>15 DEF Inv, TypeOK, GuardCurrent, EndUpdate, Goto, Back
  <2>5. BatchInv'
    <3>1. BatchesKept
      BY <1>0, <1>15 DEF BatchesKept, TypeOK, StoreAssumption, EndUpdate, Goto
    <3> QED
      BY <3>1, BatchKept
  <2>6. FrameCurrent'
    BY <1>15 DEF Inv, TypeOK, FrameCurrent, StoreAssumption, EndUpdate, Goto
  <2> QED
    BY <2>0, <2>1, <2>2, <2>3, <2>4, <2>5, <2>6, DequeKept DEF Inv
<1>16. ASSUME NEW t \in Threads, GrowOne(t) PROVE Inv'
  <2>1. /\ pc[t] = "grow" /\ ~IsCaughtUp(t)
        /\ UNCHANGED <<clock, readers, writer, pc, ts, todo, batch, frameTs>>
    BY <1>16 DEF GrowOne
  <2>2. Len(segments) \in Nat /\ Len(segments) <= Capacity
    BY <1>0, Fields DEF Inv, Contiguous
  <2>3. PICK d \in {0, 1} :
          /\ d <= Len(segments)
          /\ Len(segments') = Len(segments) - d + 1
          /\ Len(segments') <= Capacity
          /\ segments' \in Seq(TimeSegment)
          /\ segments'[Len(segments')] = [ts |-> NextSegmentTs(t), log |-> {}]
          /\ \A i \in 1 .. Len(segments') - 1 : segments'[i] = segments[i + d]
    BY <1>0, <1>16, <2>2, GrowShape
  <2> DEFINE n == Len(segments')
  <2>4. n \in Nat \ {0} /\ segments' # <<>>
    BY <2>2, <2>3
  <2>5. segments'[n].ts = NextSegmentTs(t) /\ segments'[n].log = {}
    BY <2>3
  <2>6. \A i \in 1 .. n - 1 : i + d \in 1 .. Len(segments)
    BY <2>2, <2>3, <2>4
  <2>7. \A u \in Threads : pc[u] \notin {"held", "viewing"}
    BY <2>1 DEF Inv, LockInv, StoreAssumption
  <2>8. /\ Trunc(NextSegmentTs(t), Window) = NextSegmentTs(t)
        /\ NextSegmentTs(t) \in Nat
        /\ NextSegmentTs(t) <= clock
        /\ segments # <<>> => NextSegmentTs(t) = Back.ts + Window
    BY <1>16, NewSegment
  <2>9. TypeOK' /\ StampInv' /\ LockInv' /\ FrameCurrent'
    <3>1. TypeOK'
      BY <1>0, <2>1, <2>3 DEF TypeOK
    <3>2. StampInv' /\ LockInv' /\ FrameCurrent'
      BY <2>1 DEF Inv, StampInv, LockInv, FrameCurrent
    <3> QED
      BY <3>1, <3>2
  <2>10. Contiguous'
    <3>1. \A i \in 1 .. n : Trunc(segments'[i].ts, Window) = segments'[i].ts
      <4>1. \A i \in 1 .. n - 1 : Trunc(segments'[i].ts, Window) = segments'[i].ts
        BY <2>3, <2>6 DEF Inv, Contiguous
      <4> QED
        BY <2>4, <2>5, <2>8, <4>1
    <3>3. \A k \in 1 .. Len(segments) :
            k > 1 => segments[k].ts = segments[k - 1].ts + Window
      BY DEF Inv, Contiguous
    <3>2. ASSUME NEW i \in 1 .. n, i > 1
          PROVE  segments'[i].ts = segments'[i - 1].ts + Window
      <4>1. i - 1 \in 1 .. n - 1 /\ segments'[i - 1] = segments[i - 1 + d]
        BY <2>3, <2>4, <3>2
      <4>2. CASE i < n
        <5>1. /\ i + d \in 1 .. Len(segments) /\ i + d > 1
              /\ i + d - 1 = i - 1 + d /\ segments'[i] = segments[i + d]
          BY <2>2, <2>3, <2>4, <2>6, <3>2, <4>2
        <5>2. segments[i + d].ts = segments[i + d - 1].ts + Window
          BY <3>3, <5>1
        <5> QED
          BY <4>1, <5>1, <5>2
      <4>3. CASE i = n
        <5>1. i - 1 + d = Len(segments) /\ segments # <<>>
          BY <2>2, <2>3, <2>4, <3>2, <4>3
        <5> QED
          BY <2>5, <2>8, <4>1, <4>3, <5>1 DEF Back
      <4> QED
        BY <2>4, <3>2, <4>2, <4>3
    <3> QED
      BY <2>3, <3>1, <3>2 DEF Contiguous
  <2>16. Ordered'
    <3>1. SUFFICES ASSUME NEW i \in 1 .. n, NEW j \in 1 .. n, i < j
                   PROVE  segments'[i].ts < segments'[j].ts
      BY DEF Ordered
    <3>2. i \in 1 .. n - 1 /\ i + d \in 1 .. Len(segments)
          /\ segments'[i] = segments[i + d]
      BY <2>3, <2>4, <2>6, <3>1
    <3>3. CASE j < n
      <4>1. j + d \in 1 .. Len(segments) /\ segments'[j] = segments[j + d]
            /\ i + d < j + d
        BY <2>3, <2>4, <2>6, <3>1, <3>3
      <4> QED
        BY <3>2, <4>1 DEF Inv, Ordered
    <3>4. CASE j = n
      <4>1. segments # <<>> /\ Len(segments) \in 1 .. Len(segments)
        BY <2>2, <3>2
      <4>2. segments[i + d].ts \in Nat /\ Back.ts \in Nat /\ Window \in Nat \ {0}
        BY <1>0, <3>2, <4>1, Fields DEF StoreAssumption
      <4>3. segments[i + d].ts <= Back.ts
        <5>1. CASE i + d = Len(segments)
          BY <4>2, <5>1 DEF Back
        <5>2. CASE i + d # Len(segments)
          <6>1. i + d < Len(segments)
            BY <2>2, <3>2, <5>2
          <6>2. segments[i + d].ts < segments[Len(segments)].ts
            BY <3>2, <4>1, <6>1 DEF Inv, Ordered
          <6> QED
            BY <4>2, <6>2 DEF Back
        <5> QED
          BY <5>1, <5>2
      <4> QED
        BY <2>5, <2>8, <3>2, <3>4, <4>1, <4>2, <4>3
    <3> QED
      BY <2>4, <3>1, <3>3, <3>4
  <2>11. NoFuture'
    <3>1. \A i \in 1 .. n - 1 : segments'[i].ts <= clock
      BY <2>3, <2>6 DEF Inv, NoFuture
    <3> QED
      BY <2>1, <2>4, <2>5, <2>8, <3>1 DEF NoFuture
  <2>12. GuardCurrent'
    <3>1. \A u \in Threads : pc[u] = "reread" => Trunc(ts[u], Window) <= NextSegmentTs(t)
      <4>1. SUFFICES ASSUME NEW u \in Threads, pc[u] = "reread"
                     PROVE  Trunc(ts[u], Window) <= NextSegmentTs(t)
        OBVIOUS
      <4>2. segments # <<>> /\ Trunc(ts[u], Window) <= Back.ts
        BY <4>1 DEF Inv, GuardCurrent
      <4>3. Back.ts \in Nat /\ Trunc(ts[u], Window) \in Nat /\ Window \in Nat
        BY <1>0, <4>2, Fields DEF StoreAssumption
      <4> QED
        BY <2>8, <4>2, <4>3
    <3> QED
      BY <2>1, <2>4, <2>5, <2>7, <3>1 DEF GuardCurrent, Back
  <2>13. StampOrder'
    <3>1. SUFFICES ASSUME NEW i \in 1 .. n, NEW m \in segments'[i].log
                   PROVE  Trunc(m.ts, Window) <= segments'[i].ts /\ m.ts <= clock
      BY <2>1 DEF StampOrder
    <3>2. i \in 1 .. n - 1
      BY <2>4, <2>5, <3>1
    <3>3. i + d \in 1 .. Len(segments) /\ segments'[i] = segments[i + d]
      BY <2>3, <2>6, <3>2
    <3> QED
      BY <3>3 DEF Inv, StampOrder
  <2>14. BatchInv'
    <3>1. SUFFICES ASSUME NEW i \in 1 .. n, NEW m \in segments'[i].log
                   PROVE  /\ m.batch <= batch[m.cpu]
                          /\ ~(m.batch = batch[m.cpu] /\ pc[m.cpu] # "idle")
      BY <2>1 DEF BatchInv
    <3>2. i \in 1 .. n - 1
      BY <2>4, <2>5, <3>1
    <3>3. m \in segments[i + d].log /\ i + d \in 1 .. Len(segments)
      BY <2>3, <2>6, <3>2
    <3>4. m.cpu \in Threads
      BY <1>0, <3>3, Fields
    <3> QED
      BY <2>7, <3>3, <3>4 DEF Inv, BatchInv
  <2>15. BatchWhole'
    <3>1. SUFFICES ASSUME NEW i \in 1 .. n, NEW j \in 1 .. n,
                          NEW x \in segments'[i].log, NEW y \in segments'[j].log,
                          x.cpu = y.cpu, x.batch = y.batch
                   PROVE  i = j
      BY DEF BatchWhole
    <3>2. i \in 1 .. n - 1 /\ j \in 1 .. n - 1
      BY <2>4, <2>5, <3>1
    <3>3. /\ x \in segments[i + d].log /\ i + d \in 1 .. Len(segments)
          /\ y \in segments[j + d].log /\ j + d \in 1 .. Len(segments)
      BY <2>3, <2>6, <3>2
    <3>4. i + d = j + d
      BY <3>1, <3>3 DEF Inv, BatchWhole
    <3> QED
      BY <2>3, <3>4
  <2> QED
    BY <2>9, <2>10, <2>11, <2>12, <2>13, <2>14, <2>15, <2>16 DEF Inv
<1>17. ASSUME NEW c \in Cpus, ApplyMessage(c) PROVE Inv'
  <2>1. /\ pc[c] = "held" /\ todo[c] > 0
        /\ todo' = [todo EXCEPT ![c] = @ - 1]
        /\ UNCHANGED <<clock, readers, writer, pc, ts, batch, frameTs>>
    BY <1>17 DEF ApplyMessage
  <2> DEFINE n == Len(segments)
             m == NextMessage(c)
  <2>2. /\ segments # <<>> /\ n \in Nat \ {0} /\ m \in Message
        /\ segments' \in Seq(TimeSegment)
        /\ Len(segments') = n
        /\ \A i \in 1 .. n : /\ segments'[i].ts = segments[i].ts
                             /\ i < n => segments'[i] = segments[i]
        /\ segments'[n].log = segments[n].log \cup {m}
    BY <1>17, ApplyShape DEF Back
  <2>3. segments' # <<>>
    BY <2>2
  <2>4. \A i \in 1 .. n : \A x \in segments'[i].log :
          x \in segments[i].log \/ (i = n /\ x = m)
    BY <2>2
  <2>5. /\ m.cpu = c /\ m.batch = batch[c] /\ m.n = todo[c] /\ m.ts = ts[c]
        /\ batch[c] \in Nat /\ todo[c] \in Nat /\ todo'[c] = todo[c] - 1
    BY <1>0, <2>1 DEF NextMessage, TypeOK
  <2> HIDE DEF m, n
  <2>6. TypeOK'
    <3>1. /\ todo' \in [Threads -> Nat]
          /\ \A b \in Cpus : todo'[b] <= MaxBatch
      BY <1>0, <2>1, <2>5 DEF TypeOK, StoreAssumption
    <3> QED
      BY <1>0, <2>1, <2>2, <3>1 DEF TypeOK
  <2>7. LockInv' /\ FrameCurrent'
    BY <2>1 DEF Inv, LockInv, FrameCurrent
  <2>8. StampInv'
    BY <1>0, <2>1 DEF Inv, StampInv, TypeOK, StoreAssumption
  <2>9. Contiguous' /\ Ordered' /\ NoFuture'
    <3>1. Contiguous'
      BY <2>2 DEF Inv, Contiguous, n
    <3>2. NoFuture'
      BY <2>1, <2>2 DEF Inv, NoFuture, n
    <3>3. Ordered'
      BY <2>2 DEF Inv, Ordered, n
    <3> QED
      BY <3>1, <3>2, <3>3
  <2>10. GuardCurrent'
    <3>1. Back' = segments'[n] /\ segments'[n].ts = Back.ts
      BY <2>2 DEF Back, n
    <3> QED
      BY <2>1, <2>3, <3>1 DEF Inv, GuardCurrent
  <2>11. StampOrder'
    <3>1. Trunc(m.ts, Window) <= segments[n].ts /\ m.ts <= clock
      BY <2>1, <2>5 DEF Inv, GuardCurrent, StampInv, Back, n
    <3> QED
      BY <2>1, <2>2, <2>4, <3>1 DEF Inv, StampOrder, n
  \* c's batch is in the newest segment only, and has larger numbers.
  <2>12. \A i \in 1 .. n : \A x \in segments[i].log :
           x.cpu = c /\ x.batch = batch[c] => i = n /\ todo[c] < x.n
    BY <2>1 DEF Inv, BatchInv, n
  <2>13. BatchInv'
    <3>1. SUFFICES ASSUME NEW i \in 1 .. n, NEW x \in segments'[i].log
                   PROVE  /\ x.batch <= batch[x.cpu]
                          /\ x.batch = batch[x.cpu] /\ pc[x.cpu] # "idle" =>
                               pc[x.cpu] = "held" /\ i = n /\ todo'[x.cpu] < x.n
      BY <2>1, <2>2 DEF BatchInv
    <3>2. CASE i = n /\ x = m
      BY <2>1, <2>5, <3>2
    <3>3. CASE x \in segments[i].log
      <4>1. x.cpu \in Cpus /\ x.n \in Nat
        BY <1>0, <3>3, Fields DEF n
      <4>2. /\ todo[x.cpu] \in Nat /\ todo'[x.cpu] \in Int
            /\ todo'[x.cpu] <= todo[x.cpu]
        <5>1. \A b \in Cpus : todo[b] \in Nat
          BY <1>0 DEF TypeOK
        <5>2. \A b \in Cpus : b # c => todo'[b] = todo[b]
          BY <1>0, <2>1 DEF TypeOK
        <5> QED
          BY <2>5, <4>1, <5>1, <5>2
      <4>3. /\ x.batch <= batch[x.cpu]
            /\ x.batch = batch[x.cpu] /\ pc[x.cpu] # "idle" =>
                 pc[x.cpu] = "held" /\ i = n /\ todo[x.cpu] < x.n
        BY <3>3 DEF Inv, BatchInv, n
      <4> QED
        BY <4>1, <4>2, <4>3
    <3> QED
      BY <2>4, <3>2, <3>3
  <2>14. BatchWhole'
    <3>1. SUFFICES ASSUME NEW i \in 1 .. n, NEW j \in 1 .. n,
                          NEW x \in segments'[i].log, NEW y \in segments'[j].log,
                          x.cpu = y.cpu, x.batch = y.batch
                   PROVE  i = j
      BY <2>2 DEF BatchWhole
    <3>2. CASE x \in segments[i].log /\ y \in segments[j].log
      BY <3>1, <3>2 DEF Inv, BatchWhole, n
    <3>3. CASE i = n /\ x = m
      BY <2>4, <2>5, <2>12, <3>1, <3>3
    <3>4. CASE j = n /\ y = m
      BY <2>4, <2>5, <2>12, <3>1, <3>4
    <3> QED
      BY <2>4, <3>2, <3>3, <3>4
  <2> QED
    BY <2>6, <2>7, <2>8, <2>9, <2>10, <2>11, <2>13, <2>14 DEF Inv
<1>18. CASE UNCHANGED vars
  BY <1>18 DEF vars, Inv, TypeOK, LockInv, StampInv, Contiguous, Ordered, NoFuture,
     GuardCurrent, StampOrder, BatchInv, BatchWhole, FrameCurrent, Back
<1> QED
  BY <1>1, <1>2, <1>3, <1>4, <1>5, <1>6, <1>7, <1>8, <1>9, <1>10, <1>11, <1>12,
     <1>13, <1>14, <1>15, <1>16, <1>17, <1>18
  DEF Next, WriteSegment, BatchUpdate, RenderFrame

\* The empty store satisfies the invariant.
LEMMA InvInit ==
  ASSUME StoreAssumption, Init
  PROVE  Inv
<1> USE DEF Init, Threads
<1>1. TypeOK
  BY DEF TypeOK, PcStates, StoreAssumption
<1>2. Len(segments) = 0
  OBVIOUS
<1>3. LockInv /\ StampInv
  BY DEF LockInv, StampInv, StoreAssumption
<1>4. Contiguous /\ Ordered /\ NoFuture /\ StampOrder /\ BatchInv /\ BatchWhole
  BY <1>2 DEF Contiguous, Ordered, NoFuture, StampOrder, BatchInv, BatchWhole,
              StoreAssumption
<1>5. GuardCurrent /\ FrameCurrent
  BY DEF GuardCurrent, FrameCurrent
<1> QED
  BY <1>1, <1>3, <1>4, <1>5 DEF Inv

\* The invariant holds of every reachable state of the Store.
THEOREM StoreInvariant == Spec => []Inv
<1>1. Init => Inv
  BY StoreAssumption, InvInit
<1>2. Inv /\ [Next]_vars => Inv'
  BY StoreAssumption, InvStep
<1> QED
  BY <1>1, <1>2, PTL DEF Spec

\* Every variable stays in its type, for any constants.
THEOREM StoreTypes == Spec => []TypeOK
<1>1. Inv => TypeOK
  BY DEF Inv
<1> QED
  BY <1>1, StoreInvariant, PTL

\* The deque is bounded, aligned, without a gap and never ahead of the clock.
THEOREM StoreShape == Spec => [](Contiguous /\ NoFuture)
<1>1. Inv => Contiguous /\ NoFuture
  BY DEF Inv
<1> QED
  BY <1>1, StoreInvariant, PTL

\* The race that write_segment ignores on purpose is harmless: whoever owns a
\* guard has a newest segment, not older than the window it asked for.
THEOREM RaceHarmless == Spec => []GuardCurrent
<1>1. Inv => GuardCurrent
  BY DEF Inv
<1> QED
  BY <1>1, StoreInvariant, PTL

\* Traffic is never credited to a window that had ended when it was stamped.
THEOREM StampsOrdered == Spec => []StampOrder
<1>1. Inv => StampOrder
  BY DEF Inv
<1> QED
  BY <1>1, StoreInvariant, PTL

\* No batch is torn between two segments.
THEOREM BatchesWhole == Spec => []BatchWhole
<1>1. Inv => BatchWhole
  BY DEF Inv
<1> QED
  BY <1>1, StoreInvariant, PTL

\* The time a frame shows is neither stale when it is read nor in the future.
THEOREM FramesCurrent == Spec => []FrameCurrent
<1>1. Inv => FrameCurrent
  BY DEF Inv
<1> QED
  BY <1>1, StoreInvariant, PTL

-----------------------------------------------------------------------------

\* Only three actions touch the clock or the deque.
LEMMA DequeActions ==
  ASSUME [Next]_vars
  PROVE  \/ Tick
         \/ \E t \in Threads : GrowOne(t)
         \/ \E c \in Cpus : ApplyMessage(c)
         \/ UNCHANGED <<clock, segments>>
<1>1. CASE UNCHANGED vars
  BY <1>1 DEF vars
<1>2. CASE StartRender \/ RenderFrame
  BY <1>2 DEF StartRender, RenderFrame, OldestTimestamp, OpenView, CloseView, EndRender
<1>3. ASSUME NEW t \in Threads, WriteSegment(t)
      PROVE  GrowOne(t) \/ UNCHANGED <<clock, segments>>
  BY <1>3 DEF WriteSegment, FastHit, FastMiss, AwaitLock, SlowLock, GrowDone, Reread
<1>4. ASSUME NEW c \in Cpus, StartUpdate(c) \/ BatchUpdate(c)
      PROVE  ApplyMessage(c) \/ UNCHANGED <<clock, segments>>
  BY <1>4 DEF StartUpdate, BatchUpdate, SkipMessage, EndUpdate
<1> QED
  BY <1>1, <1>2, <1>3, <1>4 DEF Next

\* Older segments are frozen until they are evicted.
THEOREM StoreOlderFrozen == Spec => OlderFrozen
<1> DEFINE Frozen ==
      \A i \in 1 .. Len(segments) - 1, j \in 1 .. Len(segments') :
        segments'[j].ts = segments[i].ts => segments'[j] = segments[i]
<1>1. ASSUME Inv, [Next]_vars PROVE Frozen
  <2>0. StoreAssumption /\ TypeOK /\ Ordered
    BY <1>1, StoreAssumption DEF Inv
  <2>1. Len(segments) \in Nat
    BY <2>0, Fields
  <2>2. \A i, j \in 1 .. Len(segments) : segments[i].ts = segments[j].ts => i = j
    <3>1. \A i \in 1 .. Len(segments) : segments[i].ts \in Nat
      BY <2>0, Fields
    <3> QED
      BY <2>0, <2>1, <3>1 DEF Ordered
  <2>3. CASE segments' = segments
    BY <2>1, <2>2, <2>3
  <2>4. ASSUME NEW t \in Threads, GrowOne(t) PROVE Frozen
    <3>1. SUFFICES ASSUME NEW i \in 1 .. Len(segments) - 1,
                          NEW j \in 1 .. Len(segments'),
                          segments'[j].ts = segments[i].ts
                   PROVE  segments'[j] = segments[i]
      OBVIOUS
    <3>2. Len(segments) <= Capacity
      BY <1>1 DEF Inv, Contiguous
    <3>3. PICK d \in {0, 1} :
            /\ d <= Len(segments)
            /\ Len(segments') = Len(segments) - d + 1
            /\ segments'[Len(segments')] = [ts |-> NextSegmentTs(t), log |-> {}]
            /\ \A k \in 1 .. Len(segments') - 1 : segments'[k] = segments[k + d]
      BY <2>0, <2>4, <3>2, GrowShape
    <3>4. CASE j < Len(segments')
      <4>0. d \in {0, 1} /\ Len(segments') \in Nat /\ j \in Nat /\ j >= 1 /\ i \in Nat
        BY <2>1, <3>3
      <4>J. j \in 1 .. Len(segments') - 1
        BY <3>4, <4>0
      <4>S. segments'[j] = segments[j + d]
        BY <3>3, <4>J
      <4>B. j + d \in 1 .. Len(segments)
        BY <2>1, <3>3, <3>4, <4>0
      <4>I. i \in 1 .. Len(segments)
        BY <2>1
      <4>1. j + d \in 1 .. Len(segments) /\ segments'[j] = segments[j + d]
            /\ i \in 1 .. Len(segments)
        BY <4>S, <4>B, <4>I
      <4>2. j + d = i
        BY <2>2, <3>1, <4>1
      <4> QED
        BY <4>1, <4>2
    <3>5. CASE j = Len(segments')
      <4>1. /\ segments # <<>> /\ i \in 1 .. Len(segments) /\ i < Len(segments)
            /\ Len(segments) \in 1 .. Len(segments)
        BY <2>1, <3>1
      <4>2. segments[i].ts < Back.ts
        BY <2>0, <4>1 DEF Ordered, Back
      <4>3. segments'[j].ts = Back.ts + Window
        BY <1>1, <2>0, <2>4, <3>3, <3>5, <4>1, NewSegment
      <4>4. segments[i].ts \in Nat /\ Back.ts \in Nat /\ Window \in Nat
        BY <2>0, <4>1, Fields DEF StoreAssumption
      <4> QED
        BY <3>1, <4>2, <4>3, <4>4
    <3>6. Len(segments') \in Nat
      BY <2>1, <3>3
    <3> QED
      BY <3>4, <3>5, <3>6
  <2>5. ASSUME NEW c \in Cpus, ApplyMessage(c) PROVE Frozen
    <3>1. /\ Len(segments') = Len(segments)
          /\ \A i \in 1 .. Len(segments) :
               /\ segments'[i].ts = segments[i].ts
               /\ i < Len(segments) => segments'[i] = segments[i]
      BY <1>1, <2>0, <2>5, ApplyShape
    <3> QED
      BY <2>1, <2>2, <3>1
  <2>6. CASE Tick
    BY <2>3, <2>6 DEF Tick
  <2> QED
    BY <1>1, <2>3, <2>4, <2>5, <2>6, DequeActions
<1>2. Inv /\ [Next]_vars => [Frozen]_vars
  BY <1>1
<1> QED
  BY <1>2, StoreInvariant, PTL DEF Spec, OlderFrozen

\* A thread that keeps its guard keeps its view of the deque.
THEOREM StoreGuardStable == Spec => GuardStable
<1> DEFINE Stable ==
      readers \cap readers' # {} =>
        /\ Len(segments') = Len(segments)
        /\ \A i \in 1 .. Len(segments) :
             /\ segments'[i].ts = segments[i].ts
             /\ segments[i].log \subseteq segments'[i].log
<1>1. ASSUME Inv, [Next]_vars PROVE Stable
  <2>1. CASE segments' = segments
    BY <2>1
  <2>2. ASSUME NEW t \in Threads, GrowOne(t) PROVE Stable
    <3>1. readers = {}
      BY <1>1, <2>2, StoreAssumption DEF Inv, LockInv, GrowOne, StoreAssumption, Threads
    <3> QED
      BY <3>1
  <2>3. ASSUME NEW c \in Cpus, ApplyMessage(c) PROVE Stable
    <3>1. /\ Len(segments) \in Nat
          /\ Len(segments') = Len(segments)
          /\ \A i \in 1 .. Len(segments) :
               /\ segments'[i].ts = segments[i].ts
               /\ i < Len(segments) => segments'[i] = segments[i]
          /\ segments[Len(segments)].log \subseteq segments'[Len(segments)].log
      BY <1>1, <2>3, StoreAssumption, ApplyShape DEF Back
    <3> QED
      BY <3>1
  <2>4. CASE Tick
    BY <2>1, <2>4 DEF Tick
  <2> QED
    BY <1>1, <2>1, <2>2, <2>3, <2>4, DequeActions
<1>2. Inv /\ [Next]_vars => [Stable]_vars
  BY <1>1
<1> QED
  BY <1>2, StoreInvariant, PTL DEF Spec, GuardStable

-----------------------------------------------------------------------------

\* The Store implements TimeSeries: growing the deque opens one segment,
\* applying a message records it, and all the locking is invisible.
THEOREM StoreImplementsSeries == Spec => ImplementsSeries
<1>1. Init => Series!SeriesInit
  BY DEF Init, Series!SeriesInit
<1>2. Inv /\ [Next]_vars => [Series!SeriesNext]_(Series!seriesVars)
  <2> SUFFICES ASSUME Inv, [Next]_vars
               PROVE  [Series!SeriesNext]_(Series!seriesVars)
    OBVIOUS
  <2>0. StoreAssumption /\ TypeOK
    BY StoreAssumption DEF Inv
  <2>1. CASE Tick
    BY <2>1 DEF Tick, Series!SeriesNext, Series!Advance
  <2>2. ASSUME NEW t \in Threads, GrowOne(t)
        PROVE  Series!OpenFirst \/ Series!OpenNext
    <3>1. /\ NextSegmentTs(t) <= clock
          /\ segments # <<>> => NextSegmentTs(t) = Back.ts + Window
      BY <2>0, <2>2, NewSegment
    <3>2. Series!Open(NextSegmentTs(t))
      BY <2>2, <3>1 DEF Series!Open, GrowOne, MakeRoom
    <3>3. CASE segments = <<>>
      <4>1. ts[t] \in 0 .. clock
        <5>1. ts[t] \in Nat /\ ts[t] <= clock /\ clock \in Nat
          BY <2>0, Fields DEF Inv, StampInv, TypeOK
        <5> QED
          BY <5>1
      <4>2. NextSegmentTs(t) = Trunc(ts[t], Window)
        BY <3>3 DEF NextSegmentTs
      <4> QED
        BY <3>2, <3>3, <4>1, <4>2 DEF Series!OpenFirst, Series!Trunc, Trunc
    <3>4. CASE segments # <<>>
      BY <3>1, <3>2, <3>4 DEF Series!OpenNext, Series!Newest, Back
    <3> QED
      BY <3>3, <3>4
  <2>3. ASSUME NEW c \in Cpus, ApplyMessage(c)
        PROVE  \E m \in Message : Series!Record(m)
    <3> DEFINE m == NextMessage(c)
    <3>1. m \in Message /\ segments # <<>> /\ Len(segments) \in Nat \ {0}
      BY <2>0, <2>3, ApplyShape
    <3>2. /\ pc[c] = "held" /\ m.cpu = c /\ m.batch = batch[c] /\ m.n = todo[c]
          /\ m.ts = ts[c] /\ todo[c] \in Nat
      BY <2>0, <2>3 DEF ApplyMessage, NextMessage, TypeOK, Threads
    <3>3. m.ts <= clock /\ Trunc(m.ts, Window) <= Back.ts
      BY <3>2 DEF Inv, StampInv, GuardCurrent, Threads
    <3>4. /\ UNCHANGED clock
          /\ segments' = [segments EXCEPT ![Len(segments)] =
                            [ts |-> Back.ts, log |-> Back.log \cup {m}]]
      BY <2>3 DEF ApplyMessage
    <3> HIDE DEF m
    <3>5. \A i \in 1 .. Len(segments) : \A x \in segments[i].log :
            Series!SameBatch(x, m) => i = Len(segments) /\ todo[c] < x.n
      BY <3>2 DEF Inv, BatchInv, Series!SameBatch
    <3>6. \A i \in 1 .. Len(segments) : m \notin segments[i].log
      BY <3>2, <3>5 DEF Series!SameBatch
    <3>7. \A i \in 1 .. Len(segments) - 1 :
            \A x \in segments[i].log : ~Series!SameBatch(x, m)
      BY <3>1, <3>5
    <3> QED
      BY <3>1, <3>3, <3>4, <3>6, <3>7 DEF Series!Record, Series!Newest, Back,
         Series!Trunc, Trunc
  <2>4. CASE UNCHANGED <<clock, segments>>
    BY <2>4 DEF Series!seriesVars
  <2> QED
    BY <2>1, <2>2, <2>3, <2>4, DequeActions DEF Series!SeriesNext
<1> QED
  BY <1>1, <1>2, StoreInvariant, PTL DEF Spec, ImplementsSeries, Series!SeriesSpec

=============================================================================
