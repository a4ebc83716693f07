----------------------------- MODULE Dashboard -----------------------------
(***************************************************************************)
(* ptraf/src/ui/traffic_sparkline.rs and the collection of the table in    *)
(* ptraf/src/ui/socktable.rs: what the widgets of a view keep and show,    *)
(* frame after frame, while the series of segments rolls under them.       *)
(*                                                                         *)
(* The store is the abstract TimeSeries (Store implements it): other       *)
(* threads may open segments between any two steps of a frame, but not     *)
(* while a widget holds its TimeSegmentsView, so each collection is one    *)
(* step.  (The newest segment does change under a walk, see Segment; the   *)
(* sparkline throws that segment away, and the table may miss what comes   *)
(* late.)                                                                  *)
(*                                                                         *)
(* A frame:  idle -> stamped -> sparkline -> table -> idle.  Keys are      *)
(* handled between frames, by the same task.                               *)
(*                                                                         *)
(* Each socket has a local address and a process of its own here, every    *)
(* message counts for one unit of traffic, and the filter editor is        *)
(* closed.                                                                 *)
(***************************************************************************)
EXTENDS TimeSeries, FiniteSetsExt, Functions

CONSTANTS
  Sockets,
  Owner,            \* Owner[s]: the process of socket s
  NoFilter,         \* Filter::None
  Customs,          \* custom filters, each as the set of Sockets it accepts
  NoCustom,
  CollectionWindow, \* SocketTableConfig::collection_window
  RateWindow,       \* SocketTableConfig::rate_window
  MaxRecorded       \* bound: messages recorded

ASSUME DashboardAssumption ==
  /\ Window \in Nat \ {0}
  /\ Capacity \in Nat \ {0}
  /\ CollectionWindow \in Nat
  /\ RateWindow \in Nat
  /\ MaxRecorded \in Nat
  /\ IsFiniteSet(Sockets)
  /\ Customs \subseteq SUBSET Sockets
  /\ NoCustom \notin Customs

VARIABLES
  recorded, \* number of messages recorded
  pc,       \* where the UI task is in its frame
  stamp,    \* the time that Ui::render read
  frameTs,  \* UiContext::ts
  filter,   \* Filter of the view: NoFilter or a process
  custom,   \* Ui::custom_filter
  points,   \* TrafficSparkline::dataset, oldest first
  rows,     \* SocketTable::dataset, by socket
  range     \* SocketTable::rate_collection_range

viewVars == <<filter, custom, points, rows, range>>
frameVars == <<pc, stamp, frameTs>>
vars == <<clock, segments, recorded, pc, stamp, frameTs, filter, custom, points, rows,
          range>>

NoRows == [s \in {} |-> 0]
\* rate_collection_range: None, drawn like an empty range.
NoRange == [start |-> 0, end |-> 0]

Init ==
  /\ SeriesInit
  /\ recorded = 0
  /\ pc = "idle" /\ stamp = 0 /\ frameTs = 0
  /\ filter = NoFilter /\ custom = NoCustom
  /\ points = <<>> /\ rows = NoRows /\ range = NoRange

-----------------------------------------------------------------------------
(* The rest of the program                                                 *)

\* Time passes, or some thread opens a segment.
Roll ==
  /\ Advance \/ OpenFirst \/ OpenNext
  /\ UNCHANGED recorded
  /\ UNCHANGED frameVars
  /\ UNCHANGED viewVars

\* A CPU records its next message; here each batch is a single message.
Receive(m) ==
  /\ m.batch = recorded + 1
  /\ Record(m)
  /\ recorded' = recorded + 1
  /\ UNCHANGED frameVars
  /\ UNCHANGED viewVars

-----------------------------------------------------------------------------
(* Keys                                                                    *)

\* The filter editor commits a filter, or none.  The points stay.
SetCustomFilter(accepted) ==
  /\ pc = "idle"
  /\ custom' = accepted
  /\ UNCHANGED <<clock, segments, recorded, filter, points, rows, range>>
  /\ UNCHANGED frameVars

\* update_view: another view starts with widgets that have collected nothing.
\* From the main view to a process, and back.
NewView(f) ==
  /\ pc = "idle"
  /\ f # filter
  /\ filter = NoFilter \/ f = NoFilter
  /\ filter' = f
  /\ points' = <<>> /\ rows' = NoRows /\ range' = NoRange
  /\ UNCHANGED <<clock, segments, recorded, custom>>
  /\ UNCHANGED frameVars

-----------------------------------------------------------------------------
(* A frame                                                                 *)

\* Ui::render reads the clock ...
StartFrame ==
  /\ pc = "idle"
  /\ stamp' = clock
  /\ pc' = "stamped"
  /\ UNCHANGED <<clock, segments, recorded, frameTs>>
  /\ UNCHANGED viewVars

\* ... and asks for the newest segment, which is as new as its stamp.  The
\* segment's time shadows the stamp.
OldestTimestamp ==
  /\ pc = "stamped"
  /\ segments # <<>>
  /\ Trunc(stamp, Window) <= Newest.ts
  /\ frameTs' = Newest.ts
  /\ stamp' = 0
  /\ pc' = "sparkline"
  /\ UNCHANGED <<clock, segments, recorded>>
  /\ UNCHANGED viewVars

\* Segment::stat_by_interest, summed over sockets.
Traffic(log, socks) == Cardinality({m \in log : m.sock \in socks})

\* Socket::match_interest of the view's filter.
MatchInterest(s) == filter = NoFilter \/ Owner[s] = filter

\* A DataPoint.  With a custom filter the sparkline counts every socket that
\* the filter accepts, whatever the filter of the view; without one it reads
\* the total of the view's interest.  (by: history, the filter in force.)
DataPoint(segment) ==
  [ts  |-> segment.ts,
   val |-> Traffic(segment.log,
                   IF custom = NoCustom THEN {s \in Sockets : MatchInterest(s)}
                   ELSE custom),
   by  |-> custom]

\* The starting point for data already collected.
Start == IF points = <<>> THEN 0 ELSE points[Len(points)].ts

\* Mutant of Uncollected: the last point is collected again.
UncollectedAgain ==
  {i \in 1 .. Len(segments) : \A j \in i .. Len(segments) : segments[j].ts >= Start}

\* From the newest segment back, while they are later than Start.
Uncollected ==
  {i \in 1 .. Len(segments) : \A j \in i .. Len(segments) : segments[j].ts > Start}

\* Mutant of Outdated: points are never discarded.
OutdatedNever == {}

\* Points at the front that are older than the oldest segment.
Outdated ==
  {i \in 1 .. Len(points) : \A j \in 1 .. i : points[j].ts < segments[1].ts}

\* Mutant of NewPoints: the newest segment, still incomplete, is kept.
NewPointsIncomplete ==
  LET n == Cardinality(Uncollected)
  IN  [k \in 1 .. n |-> DataPoint(segments[Len(segments) - n + k])]

\* The reverse buffer, without its newest element, in chronological order.
NewPoints ==
  LET n == Cardinality(Uncollected)
  IN  [k \in 1 .. n - 1 |-> DataPoint(segments[Len(segments) - n + k])]

\* TrafficSparkline::collect.
CollectSparkline ==
  /\ pc = "sparkline"
  /\ points' = SubSeq(points, Cardinality(Outdated) + 1, Len(points)) \o NewPoints
  /\ pc' = "table"
  /\ UNCHANGED <<clock, segments, recorded, stamp, frameTs, filter, custom, rows, range>>

\* From the newest segment back, while they are in the collection window.
Collected ==
  {i \in 1 .. Len(segments) : \A j \in i .. Len(segments) :
     SaturatingElapsedSince(segments[j].ts, frameTs) <= CollectionWindow}

\* The start of the rate window.  (The code truncates the frame's time first;
\* it is the time of a segment, a multiple of the window already.)
RateUntil ==
  Trunc(Max({SaturatingElapsedSince(RateWindow, frameTs), Window}), Window)

RateEligible == {i \in Collected : RateUntil <= segments[i].ts}

LogOf(indices) == UNION {segments[i].log : i \in indices}

\* The table asks both filters.
Accepted(s) == MatchInterest(s) /\ (custom = NoCustom \/ s \in custom)

\* Mutant of Entries: the segments are not merged.
EntriesUnmerged ==
  LET Seen(s) == {i \in Collected : Traffic(segments[i].log, {s}) > 0}
  IN  [s \in {s \in Sockets : Seen(s) # {} /\ Accepted(s)} |->
         [stat |-> Traffic(segments[Max(Seen(s))].log, {s}),
          rate |-> Traffic(LogOf(RateEligible), {s}),
          last |-> segments[Max(Seen(s))].ts]]

\* Mutant of Entries: segments out of the rate window are merged, too.
EntriesRateOfAll ==
  LET Seen(s) == {i \in Collected : Traffic(segments[i].log, {s}) > 0}
  IN  [s \in {s \in Sockets : Seen(s) # {} /\ Accepted(s)} |->
         [stat |-> Traffic(LogOf(Collected), {s}),
          rate |-> Traffic(LogOf(Collected), {s}),
          last |-> segments[Max(Seen(s))].ts]]

\* The collector's socket_cache: the first segment that has a socket is the
\* newest one, and the others are merged into it.
Entries ==
  LET Seen(s) == {i \in Collected : Traffic(segments[i].log, {s}) > 0}
  IN  [s \in {s \in Sockets : Seen(s) # {} /\ Accepted(s)} |->
         [stat |-> Traffic(LogOf(Collected), {s}),
          rate |-> Traffic(LogOf(RateEligible), {s}),
          last |-> segments[Max(Seen(s))].ts]]

EndFrame ==
  /\ pc' = "idle"
  /\ frameTs' = 0
  /\ UNCHANGED <<clock, segments, recorded, stamp, filter, custom, points>>

\* SocketTable::collect; then the frame ends.
CollectTable ==
  /\ pc = "table"
  /\ rows' = Entries
  /\ range' = [start |-> IF RateEligible = {} THEN frameTs
                         ELSE segments[Min(RateEligible)].ts,
               end   |-> frameTs]
  /\ EndFrame

\* A paused table shows what it has.
PausedTable ==
  /\ pc = "table"
  /\ UNCHANGED <<rows, range>>
  /\ EndFrame

-----------------------------------------------------------------------------

Views == {NoFilter} \cup {Owner[s] : s \in Sockets}

Next ==
  \/ Roll
  \/ \E m \in Message : Receive(m)
  \/ \E a \in Customs \cup {NoCustom} : SetCustomFilter(a)
  \/ \E f \in Views : NewView(f)
  \/ StartFrame \/ OldestTimestamp \/ CollectSparkline \/ CollectTable \/ PausedTable

Spec == Init /\ [][Next]_vars

-----------------------------------------------------------------------------
(* Properties                                                              *)

\* The variables keep their types.
TypeOK ==
  /\ recorded \in 0 .. MaxRecorded
  /\ pc \in {"idle", "stamped", "sparkline", "table"}
  /\ stamp \in 0 .. MaxTime /\ frameTs \in 0 .. MaxTime
  /\ filter \in Views /\ custom \in Customs \cup {NoCustom}
  /\ \A i \in 1 .. Len(points) : points[i].ts \in Nat /\ points[i].val \in Nat
  /\ DOMAIN rows \subseteq Sockets
  /\ range \in [start : 0 .. MaxTime, end : 0 .. MaxTime]

\* The sparkline is a contiguous run of completed windows, none twice, none
\* missing in the middle, however many windows go by between two frames and
\* however many are evicted.
PointsContiguous ==
  \A i \in 1 .. Len(points) :
    /\ points[i].ts < Newest.ts
    /\ i > 1 => points[i].ts = points[i - 1].ts + Window

\* A segment is read once, when it is complete: the point of a segment that
\* is still in the store shows all of its traffic, as counted by the filter
\* under which it was collected (points collected before the custom filter
\* changed stay as they are).
PointsFinal ==
  \A i \in 1 .. Len(points), j \in 1 .. Len(segments) :
    points[i].ts = segments[j].ts /\ points[i].by = custom =>
      points[i] = DataPoint(segments[j])

\* After a frame the sparkline has a point for every completed window of the
\* store, except the very first one, at time 0, which it never shows.
SparklineComplete ==
  [][CollectSparkline =>
       {points'[i].ts : i \in 1 .. Len(points')} =
         {segments[j].ts : j \in 1 .. Len(segments) - 1} \ {0}]_vars

\* What a rate counts and what it is divided by.  The length of the range is
\* that of the completed windows that are counted, each of them once: it exceeds
\* the rate window by less than one window.  But the count has no upper end
\* (is_rate_eligible is a lower bound only): the window that the frame is in,
\* which is not over, and windows opened during the frame are counted without
\* being divided by.  Nothing else is counted.
RateCovers ==
  [][CollectTable =>
       LET length == range'.end - range'.start
           inside == {j \in 1 .. Len(segments) :
                        range'.start <= segments[j].ts /\ segments[j].ts < range'.end}
           beyond == {j \in 1 .. Len(segments) : range'.end <= segments[j].ts}
       IN  length > 0 =>
             /\ length = Window * Cardinality(inside)
             /\ length < RateWindow + Window
             /\ beyond # {}
             /\ \A s \in DOMAIN rows' :
                  rows'[s].rate = Traffic(LogOf(inside), {s}) + Traffic(LogOf(beyond), {s})]_vars

\* Sockets that the sparkline of a view counts and its table leaves out.
Strangers == IF custom = NoCustom THEN {} ELSE {s \in custom : ~MatchInterest(s)}

\* The two widgets of a view agree: the table accounts for every point of the
\* sparkline that is in the collection window and whose segment was not evicted
\* between the two collections, except, when a custom filter meets the filter of
\* a view, for what the sparkline counts of other processes.
TableCoversPoints ==
  [][CollectTable =>
       LET current == {i \in 1 .. Len(points) :
                         /\ points[i].by = custom
                         /\ \E j \in Collected : segments[j].ts = points[i].ts}
       IN  SumFunction([i \in current |-> points[i].val])
             <= SumFunction([s \in DOMAIN rows' |-> rows'[s].stat])
                  + Traffic(LogOf(Collected), Strangers)]_vars

=============================================================================
