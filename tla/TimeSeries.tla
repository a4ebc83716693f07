----------------------------- MODULE TimeSeries -----------------------------
(***************************************************************************)
(* What ptraf's Store promises its callers, with no lock and no thread.    *)
(*                                                                         *)
(* A bounded series of time segments, one per window and without a gap.    *)
(* Only the newest segment accepts messages; all the messages of a batch   *)
(* go to one segment, which is never older than the window in which the    *)
(* batch was stamped and never lies in the future.                         *)
(***************************************************************************)
EXTENDS Timestamp, Sequences

CONSTANTS
  Message,   \* messages; each names its cpu, its batch and the batch's ts
  Window,    \* duration of a segment
  Capacity,  \* largest number of segments kept
  MaxTime    \* bound: the clock stops here

VARIABLES
  clock,     \* ClockNano::now()
  segments   \* VecDeque<TimeSegment>, oldest first

seriesVars == <<clock, segments>>

SameBatch(x, y) == x.cpu = y.cpu /\ x.batch = y.batch

Newest == segments[Len(segments)]

SeriesInit ==
  /\ clock = 0
  /\ segments = <<>>

\* Time passes.
Advance ==
  /\ clock < MaxTime
  /\ clock' = clock + 1
  /\ UNCHANGED segments

\* An empty segment opens at time ts; a full series drops its oldest one.
Open(ts) ==
  /\ ts <= clock
  /\ segments' =
       Append(IF Len(segments) >= Capacity THEN Tail(segments) ELSE segments,
              [ts |-> ts, log |-> {}])
  /\ UNCHANGED clock

\* The series starts at the window of any past instant.
OpenFirst ==
  /\ segments = <<>>
  /\ \E t \in 0 .. clock : Open(Trunc(t, Window))

\* It grows by exactly one window at a time.
OpenNext ==
  /\ segments # <<>>
  /\ Open(Newest.ts + Window)

\* The newest segment receives m.
Record(m) ==
  /\ segments # <<>>
  /\ m.ts <= clock
  /\ Trunc(m.ts, Window) <= Newest.ts
  /\ \A i \in 1 .. Len(segments) : m \notin segments[i].log
  /\ \A i \in 1 .. Len(segments) - 1 :
       \A x \in segments[i].log : ~SameBatch(x, m)
  /\ segments' = [segments EXCEPT ![Len(segments)] =
                     [ts |-> Newest.ts, log |-> Newest.log \cup {m}]]
  /\ UNCHANGED clock

SeriesNext ==
  \/ Advance
  \/ OpenFirst
  \/ OpenNext
  \/ \E m \in Message : Record(m)

SeriesSpec == SeriesInit /\ [][SeriesNext]_seriesVars

=============================================================================
