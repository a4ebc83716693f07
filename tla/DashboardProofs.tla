-------------------------- MODULE DashboardProofs --------------------------
(***************************************************************************)
(* Theorems about module Dashboard, for any windows, any capacity, any     *)
(* traffic and any filters.                                                *)
(***************************************************************************)
EXTENDS Dashboard, NumberProofs

-----------------------------------------------------------------------------
(* The series of segments                                                  *)

SegmentSet == [ts : Nat, log : {l \in SUBSET Message : IsFiniteSet(l)}]

\* One segment per window, without a gap, none in the future, and no message in
\* two of them.
SeriesInv ==
  /\ clock \in Nat /\ segments \in Seq(SegmentSet)
  /\ \A i \in 2 .. Len(segments) : segments[i].ts = segments[i - 1].ts + Window
  /\ \A i, j \in 1 .. Len(segments) : i < j => segments[i].ts < segments[j].ts
  /\ \A i \in 1 .. Len(segments) : segments[i].ts <= clock
  /\ \A i, j \in 1 .. Len(segments) : i < j => segments[i].log \cap segments[j].log = {}

\* What a step does to the segments: only the newest one changes ...
Kept ==
  /\ Len(segments') = Len(segments)
  /\ \A i \in 1 .. Len(segments) :
       segments'[i].ts = segments[i].ts /\ (i < Len(segments) => segments'[i] = segments[i])

\* ... or a newer one is added, and d old ones are dropped.
Opened(d) ==
  /\ d \in {0, 1} /\ d <= Len(segments) /\ Len(segments') = Len(segments) - d + 1
  /\ \A i \in 1 .. Len(segments) - d : segments'[i] = segments[i + d]
  /\ \A i \in 1 .. Len(segments) : segments[i].ts < segments'[Len(segments')].ts

LEMMA SeriesFacts ==
  ASSUME SeriesInv
  PROVE  /\ Len(segments) \in Nat
         /\ \A i \in 1 .. Len(segments) :
              /\ segments[i] \in SegmentSet /\ segments[i].ts \in Nat
              /\ segments[i].log \subseteq Message /\ IsFiniteSet(segments[i].log)
         /\ segments # <<>> => Len(segments) \in 1 .. Len(segments)
<1>1. segments \in Seq(SegmentSet)
  BY DEF SeriesInv
<1>2. Len(segments) \in Nat /\ \A i \in 1 .. Len(segments) : segments[i] \in SegmentSet
  BY <1>1
<1>3. segments # <<>> => Len(segments) \in 1 .. Len(segments)
  BY <1>1
<1>4. \A x \in SegmentSet : x.ts \in Nat /\ x.log \subseteq Message /\ IsFiniteSet(x.log)
  BY DEF SegmentSet
<1> QED
  BY <1>2, <1>3, <1>4

LEMMA OpenShape ==
  ASSUME SeriesInv, NEW t \in Nat, Open(t)
  PROVE  /\ segments' \in Seq(SegmentSet) /\ t <= clock /\ clock' = clock
         /\ \E d \in {0, 1} :
              /\ d <= Len(segments) /\ Len(segments') = Len(segments) - d + 1
              /\ \A i \in 1 .. Len(segments) - d : segments'[i] = segments[i + d]
              /\ segments'[Len(segments')] = [ts |-> t, log |-> {}]
<1> DEFINE new == [ts |-> t, log |-> {}]
<1>1. segments \in Seq(SegmentSet) /\ Capacity \in Nat \ {0} /\ Len(segments) \in Nat
  BY DashboardAssumption DEF SeriesInv
<1>2. new \in SegmentSet
  BY FS_EmptySet DEF SegmentSet
<1>3. /\ t <= clock /\ clock' = clock
      /\ segments' = Append(IF Len(segments) >= Capacity THEN Tail(segments) ELSE segments, new)
  BY DEF Open
<1> HIDE DEF new
<1>4. CASE Len(segments) >= Capacity
  <2>1. segments' = Append(Tail(segments), new) /\ segments # <<>>
    BY <1>1, <1>3, <1>4
  <2>2. /\ Tail(segments) \in Seq(SegmentSet)
        /\ Len(Tail(segments)) = Len(segments) - 1
        /\ \A i \in 1 .. Len(segments) - 1 : Tail(segments)[i] = segments[i + 1]
    BY <1>1, <2>1
  <2>3. /\ segments' \in Seq(SegmentSet)
        /\ Len(segments') = Len(segments)
        /\ segments'[Len(segments)] = new
        /\ \A i \in 1 .. Len(segments) - 1 : segments'[i] = segments[i + 1]
    BY <1>1, <1>2, <2>1, <2>2
  <2>4. /\ 1 <= Len(segments) /\ Len(segments') = Len(segments) - 1 + 1
        /\ segments'[Len(segments')] = new
    BY <1>1, <1>4, <2>3
  <2> QED
    BY <1>3, <2>3, <2>4 DEF new
<1>5. CASE ~(Len(segments) >= Capacity)
  <2>1. segments' = Append(segments, new)
    BY <1>3, <1>5
  <2>2. /\ segments' \in Seq(SegmentSet)
        /\ Len(segments') = Len(segments) + 1
        /\ segments'[Len(segments) + 1] = new
        /\ \A i \in 1 .. Len(segments) : segments'[i] = segments[i + 0]
    BY <1>1, <1>2, <2>1
  <2> QED
    BY <1>1, <1>3, <2>2 DEF new
<1> QED
  BY <1>4, <1>5

\* A segment opens one window after the newest one.
LEMMA OpenStep ==
  ASSUME SeriesInv, NEW t \in Nat, Open(t), segments # <<>> => t = Newest.ts + Window
  PROVE  SeriesInv' /\ \E d \in {0, 1} : Opened(d)
<1> DEFINE N == Len(segments)
<1>0. /\ N \in Nat /\ clock \in Nat /\ Window \in Nat \ {0}
      /\ \A i \in 1 .. N : segments[i].ts \in Nat /\ segments[i].ts <= clock
      /\ \A i \in 2 .. N : segments[i].ts = segments[i - 1].ts + Window
      /\ \A i, j \in 1 .. N : i < j => segments[i].ts < segments[j].ts
      /\ segments # <<>> <=> N # 0
  BY SeriesFacts, DashboardAssumption DEF SeriesInv
<1>1. segments' \in Seq(SegmentSet) /\ t <= clock /\ clock' = clock
  BY OpenShape
<1>2. PICK d \in {0, 1} :
         /\ d <= N /\ Len(segments') = N - d + 1
         /\ \A i \in 1 .. N - d : segments'[i] = segments[i + d]
         /\ segments'[Len(segments')] = [ts |-> t, log |-> {}]
  BY OpenShape
<1>3. segments'[Len(segments')].ts = t
  BY <1>2
<1>4. \A i \in 1 .. N : segments[i].ts < t
  <2> SUFFICES ASSUME NEW i \in 1 .. N PROVE segments[i].ts < t
    OBVIOUS
  <2>1. t = segments[N].ts + Window /\ N \in 1 .. N
    BY <1>0 DEF Newest
  <2>2. i = N \/ i < N
    BY <1>0
  <2>3. segments[i].ts <= segments[N].ts
    BY <1>0, <2>1, <2>2
  <2> QED
    BY <1>0, <2>1, <2>3
<1>5. Opened(d)
  BY <1>2, <1>3, <1>4 DEF Opened
<1> DEFINE M == Len(segments')
<1>6. M = N - d + 1 /\ M \in Nat /\ M >= 1
  BY <1>0, <1>2
<1>7. /\ \A i \in 1 .. M - 1 : i + d \in 1 .. N /\ segments'[i] = segments[i + d]
      /\ segments'[M].ts = t
  BY <1>0, <1>2, <1>3, <1>6
<1> HIDE DEF M
<1>8. \A i \in 2 .. M : segments'[i].ts = segments'[i - 1].ts + Window
  <2> SUFFICES ASSUME NEW i \in 2 .. M PROVE segments'[i].ts = segments'[i - 1].ts + Window
    OBVIOUS
  <2>1. i - 1 \in 1 .. M - 1 /\ segments'[i - 1] = segments[(i - 1) + d] /\ (i - 1) + d \in 1 .. N
    BY <1>6, <1>7
  <2>2. CASE i = M
    <3>1. (i - 1) + d = N
      BY <1>0, <1>6, <2>2
    <3>2. t = segments[N].ts + Window
      BY <1>0, <2>1, <3>1 DEF Newest
    <3> QED
      BY <1>7, <2>1, <2>2, <3>1, <3>2
  <2>3. CASE i # M
    <3>1. i \in 1 .. M - 1 /\ (i + d) - 1 = (i - 1) + d /\ i + d \in 2 .. N
      BY <1>0, <1>6, <2>1, <2>3
    <3> QED
      BY <1>0, <1>7, <2>1, <3>1
  <2> QED
    BY <2>2, <2>3
<1>9. \A i, j \in 1 .. M : i < j => segments'[i].ts < segments'[j].ts
  <2> SUFFICES ASSUME NEW i \in 1 .. M, NEW j \in 1 .. M, i < j
               PROVE  segments'[i].ts < segments'[j].ts
    OBVIOUS
  <2>1. i \in 1 .. M - 1 /\ segments'[i] = segments[i + d] /\ i + d \in 1 .. N
    BY <1>6, <1>7
  <2>2. CASE j = M
    BY <1>4, <1>7, <2>1, <2>2
  <2>3. CASE j # M
    <3>0. j \in 1 .. M - 1
      BY <1>6, <2>3
    <3>1. segments'[j] = segments[j + d] /\ j + d \in 1 .. N
      BY <1>7, <3>0
    <3>2. i + d < j + d
      BY <1>6, <1>2
    <3> QED
      BY <1>0, <2>1, <3>1, <3>2
  <2> QED
    BY <2>2, <2>3
<1>10. \A i \in 1 .. M : segments'[i].ts <= clock
  <2> SUFFICES ASSUME NEW i \in 1 .. M PROVE segments'[i].ts <= clock
    OBVIOUS
  <2>1. CASE i = M
    BY <1>1, <1>7, <2>1
  <2>2. CASE i # M
    <3>1. i \in 1 .. M - 1
      BY <1>6, <2>2
    <3> QED
      BY <1>0, <1>7, <3>1
  <2> QED
    BY <2>1, <2>2
<1>11. \A i, j \in 1 .. M : i < j => segments'[i].log \cap segments'[j].log = {}
  <2> SUFFICES ASSUME NEW i \in 1 .. M, NEW j \in 1 .. M, i < j
               PROVE  segments'[i].log \cap segments'[j].log = {}
    OBVIOUS
  <2>1. i \in 1 .. M - 1 /\ segments'[i] = segments[i + d] /\ i + d \in 1 .. N
    BY <1>6, <1>7
  <2>2. CASE j = M
    <3>1. segments'[j].log = {}
      BY <1>2, <2>2 DEF M
    <3> QED
      BY <3>1
  <2>3. CASE j # M
    <3>0. j \in 1 .. M - 1
      BY <1>6, <2>3
    <3>1. segments'[j] = segments[j + d] /\ j + d \in 1 .. N
      BY <1>7, <3>0
    <3>2. i + d < j + d
      BY <1>6, <1>2
    <3> QED
      BY <2>1, <3>1, <3>2 DEF SeriesInv
  <2> QED
    BY <2>2, <2>3
<1>12. SeriesInv'
  BY <1>0, <1>1, <1>8, <1>9, <1>10, <1>11 DEF SeriesInv, M
<1> QED
  BY <1>5, <1>12

LEMMA RecordStep ==
  ASSUME SeriesInv, NEW m \in Message, Record(m)
  PROVE  SeriesInv' /\ Kept
<1> DEFINE N == Len(segments)
           new == [ts |-> segments[N].ts, log |-> segments[N].log \cup {m}]
<1>1. /\ segments \in Seq(SegmentSet) /\ N \in Nat /\ segments # <<>> /\ clock' = clock
      /\ segments' = [segments EXCEPT ![N] = new]
  BY SeriesFacts DEF Record, SeriesInv, Newest
<1>2. N \in 1 .. N /\ new \in SegmentSet /\ new.ts = segments[N].ts
  <2>1. /\ N \in 1 .. N /\ segments[N].ts \in Nat
        /\ segments[N].log \subseteq Message /\ IsFiniteSet(segments[N].log)
    BY <1>1, SeriesFacts
  <2>2. IsFiniteSet(segments[N].log \cup {m})
    BY <2>1, FS_AddElement
  <2> QED
    BY <2>1, <2>2 DEF SegmentSet
<1> HIDE DEF new
<1>3. /\ segments' \in Seq(SegmentSet) /\ Len(segments') = N /\ segments'[N] = new
      /\ \A i \in 1 .. N : i # N => segments'[i] = segments[i]
  BY <1>1, <1>2
<1>4. \A i \in 1 .. N : segments'[i].ts = segments[i].ts
  BY <1>2, <1>3
<1>5. Kept
  <2>1. ASSUME NEW i \in 1 .. N, i < N PROVE segments'[i] = segments[i]
    <3>1. i # N
      BY <2>1, <1>1
    <3> QED
      BY <1>3, <3>1
  <2> QED
    BY <1>3, <1>4, <2>1 DEF Kept
<1>6. \A i \in 2 .. N : segments'[i].ts = segments'[i - 1].ts + Window
  <2> SUFFICES ASSUME NEW i \in 2 .. N PROVE segments'[i].ts = segments'[i - 1].ts + Window
    OBVIOUS
  <2>1. i \in 1 .. N /\ i - 1 \in 1 .. N
    BY <1>1
  <2> QED
    BY <1>4, <2>1 DEF SeriesInv
<1>7. \A i, j \in 1 .. N : i < j => segments'[i].log \cap segments'[j].log = {}
  <2> SUFFICES ASSUME NEW i \in 1 .. N, NEW j \in 1 .. N, i < j
               PROVE  segments'[i].log \cap segments'[j].log = {}
    OBVIOUS
  <2>1. segments'[i] = segments[i] /\ m \notin segments[i].log
    <3>1. i # N
      BY <1>1
    <3> QED
      BY <1>3, <3>1 DEF Record
  <2>2. segments'[j].log \subseteq segments[j].log \cup {m}
    <3>1. CASE j = N
      BY <1>3, <3>1 DEF new
    <3>2. CASE j # N
      BY <1>3, <3>2
    <3> QED
      BY <3>1, <3>2
  <2>3. segments[i].log \cap segments[j].log = {}
    BY DEF SeriesInv
  <2> QED
    BY <2>1, <2>2, <2>3
<1>8. SeriesInv'
  <2>1. \A i, j \in 1 .. N : i < j => segments'[i].ts < segments'[j].ts
    BY <1>4 DEF SeriesInv
  <2>2. \A i \in 1 .. N : segments'[i].ts <= clock
    BY <1>4 DEF SeriesInv
  <2>3. clock \in Nat
    BY DEF SeriesInv
  <2> QED
    BY <1>1, <1>3, <1>6, <1>7, <2>1, <2>2, <2>3 DEF SeriesInv
<1> QED
  BY <1>5, <1>8

-----------------------------------------------------------------------------
(* Runs of indices                                                         *)

\* A set of indices that begins at the front of a series is an interval.
LEMMA Front ==
  ASSUME NEW n \in Nat, NEW S \in SUBSET (1 .. n), \A i \in S : \A j \in 1 .. i : j \in S
  PROVE  \E o \in 0 .. n : S = 1 .. o /\ Cardinality(S) = o
<1> DEFINE T == {k \in 1 .. n + 1 : k \notin S}
<1>1. T \subseteq Nat /\ T # {}
  <2>1. n + 1 \in T
    OBVIOUS
  <2> QED
    BY <2>1
<1>2. PICK t \in T : \A k \in T : t <= k
  BY <1>1, Least
<1>3. t \in 1 .. n + 1 /\ t \notin S /\ t - 1 \in 0 .. n
  OBVIOUS
<1>4. ASSUME NEW i \in S PROVE i \in 1 .. t - 1
  <2>1. i \in 1 .. n /\ ~(t \in 1 .. i)
    BY <1>3
  <2> QED
    BY <1>3, <2>1
<1>5. ASSUME NEW i \in 1 .. t - 1 PROVE i \in S
  <2>1. i \in 1 .. n + 1 /\ i < t
    BY <1>3
  <2>2. i \notin T
    BY <1>2, <1>3, <2>1
  <2> QED
    BY <2>1, <2>2
<1>6. S = 1 .. t - 1
  BY <1>4, <1>5
<1>7. Cardinality(1 .. t - 1) = t - 1
  <2>1. 1 \in Int /\ t - 1 \in Int
    BY <1>3
  <2>2. Cardinality(1 .. t - 1) = IF 1 > t - 1 THEN 0 ELSE (t - 1) - 1 + 1
    BY <2>1, FS_Interval
  <2> QED
    BY <1>3, <2>2
<1> QED
  BY <1>3, <1>6, <1>7

\* So is one that reaches to the end.
LEMMA Back ==
  ASSUME NEW n \in Nat, NEW S \in SUBSET (1 .. n), \A i \in S : \A j \in i .. n : j \in S
  PROVE  \E m \in 0 .. n : S = m + 1 .. n /\ Cardinality(S) = n - m
<1> DEFINE T == {k \in 1 .. n + 1 : k \in S \/ k = n + 1}
<1>1. T \subseteq Nat /\ T # {}
  <2>1. n + 1 \in T
    OBVIOUS
  <2> QED
    BY <2>1
<1>2. PICK t \in T : \A k \in T : t <= k
  BY <1>1, Least
<1>3. t \in 1 .. n + 1 /\ (t \in S \/ t = n + 1) /\ t - 1 \in 0 .. n
  OBVIOUS
<1>4. ASSUME NEW i \in S PROVE i \in t .. n
  <2>1. i \in 1 .. n /\ i \in T
    OBVIOUS
  <2> QED
    BY <1>2, <1>3, <2>1
<1>5. ASSUME NEW i \in t .. n PROVE i \in S
  <2>1. t # n + 1
    BY <1>3, <1>5
  <2> QED
    BY <1>3, <2>1
<1>6. S = (t - 1) + 1 .. n
  <2>1. (t - 1) + 1 = t
    BY <1>3
  <2>2. S = t .. n
    BY <1>4, <1>5
  <2> QED
    BY <2>1, <2>2
<1>7. Cardinality(t .. n) = n - (t - 1)
  <2>1. t \in Int /\ n \in Int
    BY <1>3
  <2>2. Cardinality(t .. n) = IF t > n THEN 0 ELSE n - t + 1
    BY <2>1, FS_Interval
  <2> QED
    BY <1>3, <2>2
<1>8. S = t .. n
  BY <1>4, <1>5
<1> QED
  BY <1>3, <1>6, <1>7, <1>8

-----------------------------------------------------------------------------
(* The points of the sparkline                                             *)

\* The sockets that a point counts when c is the custom filter.
CountedBy(c) == IF c = NoCustom THEN {s \in Sockets : MatchInterest(s)} ELSE c

\* The point of a segment, when c is the custom filter.
PointOf(segment, c) ==
  [ts |-> segment.ts, val |-> Traffic(segment.log, CountedBy(c)), by |-> c]

PointSet == [ts : Nat, val : Nat, by : Customs \cup {NoCustom}]

\* Where the points are in time.
PointsPlaced ==
  /\ points \in Seq(PointSet)
  /\ points # <<>> => segments # <<>>
  /\ \A i \in 1 .. Len(points) : 0 < points[i].ts /\ points[i].ts < Newest.ts
  /\ \A i \in 2 .. Len(points) : points[i].ts = points[i - 1].ts + Window
  /\ \A i, j \in 1 .. Len(points) : i < j => points[i].ts < points[j].ts

\* A point that is not older than the store is that of a segment of the store ...
PointsInStore ==
  \A i \in 1 .. Len(points) :
    points[i].ts >= segments[1].ts =>
      \E j \in 1 .. Len(segments) : segments[j].ts = points[i].ts

\* ... and no segment up to the last point is left out, except at time 0.
PointsCover ==
  \A j \in 1 .. Len(segments) :
    points # <<>> /\ 0 < segments[j].ts /\ segments[j].ts <= points[Len(points)].ts =>
      \E i \in 1 .. Len(points) : points[i].ts = segments[j].ts

\* The point of a segment of the store shows that segment.
PointsShow ==
  \A i \in 1 .. Len(points), j \in 1 .. Len(segments) :
    points[i].ts = segments[j].ts => points[i] = PointOf(segments[j], points[i].by)

PointsInv ==
  /\ custom \in Customs \cup {NoCustom}
  /\ PointsPlaced /\ PointsInStore /\ PointsCover /\ PointsShow

LEMMA PointFacts ==
  ASSUME PointsPlaced
  PROVE  /\ Len(points) \in Nat
         /\ \A i \in 1 .. Len(points) :
              points[i] \in PointSet /\ points[i].ts \in Nat /\ points[i].by \in Customs \cup {NoCustom}
         /\ points # <<>> => Len(points) \in 1 .. Len(points)
         /\ points = <<>> => Len(points) = 0
<1>1. points \in Seq(PointSet)
  BY DEF PointsPlaced
<1>2. Len(points) \in Nat /\ \A i \in 1 .. Len(points) : points[i] \in PointSet
  BY <1>1
<1>3. points # <<>> => Len(points) \in 1 .. Len(points)
  BY <1>1
<1>4. \A x \in PointSet : x.ts \in Nat /\ x.by \in Customs \cup {NoCustom}
  BY DEF PointSet
<1>5. points = <<>> => Len(points) = 0
  OBVIOUS
<1> QED
  BY <1>2, <1>3, <1>4, <1>5

\* The number of messages of some sockets in a segment.
LEMMA TrafficNat ==
  ASSUME NEW log, IsFiniteSet(log), NEW socks
  PROVE  Traffic(log, socks) \in Nat
<1> DEFINE M == {m \in log : m.sock \in socks}
<1>1. M \subseteq log
  OBVIOUS
<1>2. IsFiniteSet(M)
  BY <1>1, FS_Subset
<1>3. Cardinality(M) \in Nat
  BY <1>2, FS_CardinalityType
<1> QED
  BY <1>3 DEF Traffic

\* A step that changes nothing but the newest segment.
LEMMA KeptStep ==
  ASSUME SeriesInv, PointsInv, Kept, UNCHANGED <<points, filter, custom>>
  PROVE  PointsInv'
<1> DEFINE N == Len(segments)
<1>0. /\ N \in Nat /\ Len(segments') = N
      /\ \A i \in 1 .. N : segments'[i].ts = segments[i].ts
      /\ \A i \in 1 .. N : i < N => segments'[i] = segments[i]
      /\ segments' # <<>> <=> segments # <<>>
  BY SeriesFacts DEF Kept, SeriesInv
<1>1. /\ Len(points) \in Nat /\ points' = points /\ custom' = custom /\ filter' = filter
      /\ \A i \in 1 .. Len(points) : points[i].ts \in Nat /\ points[i].ts < Newest.ts
      /\ points # <<>> => segments # <<>>
  BY PointFacts DEF PointsInv, PointsPlaced
<1>2. ASSUME NEW i \in 1 .. Len(points) PROVE N \in 1 .. N /\ Newest'.ts = Newest.ts
  <2>1. points # <<>> /\ N \in 1 .. N
    BY <1>1, SeriesFacts
  <2>2. Newest' = segments'[N]
    BY <1>0 DEF Newest
  <2> QED
    BY <1>0, <2>1, <2>2 DEF Newest
<1>3. PointsPlaced'
  BY <1>0, <1>1, <1>2 DEF PointsInv, PointsPlaced
<1>4. PointsInStore'
  <2> SUFFICES ASSUME NEW i \in 1 .. Len(points), points[i].ts >= segments'[1].ts
               PROVE  \E j \in 1 .. N : segments'[j].ts = points[i].ts
    BY <1>0, <1>1 DEF PointsInStore
  <2>1. 1 \in 1 .. N /\ points[i].ts >= segments[1].ts
    BY <1>0, <1>2
  <2>2. PICK j \in 1 .. N : segments[j].ts = points[i].ts
    BY <2>1 DEF PointsInv, PointsInStore
  <2> QED
    BY <1>0, <2>2
<1>5. PointsCover'
  BY <1>0, <1>1 DEF PointsInv, PointsCover
<1>6. PointsShow'
  <2> SUFFICES ASSUME NEW i \in 1 .. Len(points), NEW j \in 1 .. N, points[i].ts = segments'[j].ts
               PROVE  (points[i] = PointOf(segments[j], points[i].by))'
    BY <1>0, <1>1 DEF PointsShow
  <2>1. j # N
    BY <1>0, <1>1, <1>2 DEF Newest
  <2>2. segments'[j] = segments[j]
    BY <1>0, <2>1
  <2>3. points[i] = PointOf(segments[j], points[i].by)
    BY <1>0, <2>2 DEF PointsInv, PointsShow
  <2> QED
    BY <1>1, <2>2, <2>3 DEF PointOf, CountedBy, MatchInterest
<1> QED
  BY <1>1, <1>3, <1>4, <1>5, <1>6 DEF PointsInv

\* A step that opens a segment, and may drop the oldest one.
LEMMA OpenedStep ==
  ASSUME SeriesInv, SeriesInv', PointsInv, NEW d \in {0, 1}, Opened(d),
         UNCHANGED <<points, filter, custom>>
  PROVE  PointsInv'
<1> DEFINE N == Len(segments)
           M == Len(segments')
<1>0. /\ N \in Nat /\ d <= N /\ M = N - d + 1 /\ M \in Nat /\ M >= 1
      /\ \A i \in 1 .. N : segments[i].ts \in Nat
      /\ \A i, j \in 1 .. N : i < j => segments[i].ts < segments[j].ts
      /\ \A i \in 1 .. N : segments[i].ts < segments'[M].ts
  <2>1. N \in Nat /\ \A i \in 1 .. N : segments[i].ts \in Nat
    BY SeriesFacts
  <2>2. \A i, j \in 1 .. N : i < j => segments[i].ts < segments[j].ts
    BY DEF SeriesInv
  <2>3. d <= N /\ M = N - d + 1 /\ \A i \in 1 .. N : segments[i].ts < segments'[M].ts
    BY DEF Opened
  <2>4. M \in Nat /\ M >= 1
    BY <2>1, <2>3
  <2> QED
    BY <2>1, <2>2, <2>3, <2>4
<1>9. segments'[M].ts \in Nat
  <2>1. segments' \in Seq(SegmentSet) /\ M \in 1 .. M
    BY <1>0 DEF SeriesInv
  <2>2. segments'[M] \in SegmentSet
    BY <2>1
  <2> QED
    BY <2>2 DEF SegmentSet
<1>1. /\ Len(points) \in Nat /\ points' = points /\ custom' = custom /\ filter' = filter
      /\ \A i \in 1 .. Len(points) : points[i].ts \in Nat /\ points[i].ts < Newest.ts
      /\ points # <<>> => segments # <<>>
  BY PointFacts DEF PointsInv, PointsPlaced
<1>2. ASSUME NEW i \in 1 .. M, i # M
      PROVE  i + d \in 1 .. N /\ segments'[i] = segments[i + d]
  <2>1. i \in 1 .. N - d
    BY <1>0, <1>2
  <2>2. i + d \in 1 .. N
    BY <1>0, <2>1
  <2> QED
    BY <2>1, <2>2 DEF Opened
<1>3. ASSUME NEW i \in 1 .. Len(points) PROVE N \in 1 .. N /\ points[i].ts < segments'[M].ts
  <2>1. points # <<>> /\ N \in 1 .. N
    BY <1>1, SeriesFacts
  <2>2. segments[N].ts < segments'[M].ts /\ points[i].ts < segments[N].ts
    BY <1>0, <1>1, <2>1 DEF Newest
  <2>3. points[i].ts \in Nat
    BY <1>1
  <2>4. segments[N].ts \in Nat /\ segments'[M].ts \in Nat
    BY <1>0, <1>9, <2>1
  <2> QED
    BY <2>1, <2>2, <2>3, <2>4
<1>4. PointsPlaced'
  <2>1. segments' # <<>>
    BY <1>0
  <2>2. Newest' = segments'[M]
    BY DEF Newest
  <2> QED
    BY <1>1, <1>3, <2>1, <2>2 DEF PointsInv, PointsPlaced
<1>5. PointsInStore'
  <2> SUFFICES ASSUME NEW i \in 1 .. Len(points), points[i].ts >= segments'[1].ts
               PROVE  \E j \in 1 .. M : segments'[j].ts = points[i].ts
    BY <1>1 DEF PointsInStore
  <2>0. N \in 1 .. N /\ points[i].ts < segments'[M].ts /\ 1 \in 1 .. M
    BY <1>0, <1>3
  <2>1. 1 # M
    BY <1>1, <1>9, <2>0
  <2>2. 1 + d \in 1 .. N /\ segments'[1] = segments[1 + d]
    BY <1>2, <2>0, <2>1
  <2>3. 1 \in 1 .. N /\ segments[1].ts <= segments[1 + d].ts
    BY <1>0, <2>0, <2>2
  <2>4. points[i].ts >= segments[1].ts
    <3>1. points[i].ts \in Nat /\ segments[1].ts \in Nat /\ segments[1 + d].ts \in Nat
      BY <1>0, <1>1, <2>2, <2>3
    <3>2. points[i].ts >= segments[1 + d].ts
      BY <2>2
    <3> QED
      BY <2>3, <3>1, <3>2
  <2>5. PICK k \in 1 .. N : segments[k].ts = points[i].ts
    BY <2>4 DEF PointsInv, PointsInStore
  <2>6. ~(k < 1 + d)
    BY <1>0, <1>1, <2>2, <2>5
  <2>7. k - d \in 1 .. M /\ k - d # M /\ (k - d) + d = k
    BY <1>0, <2>6
  <2>8. segments'[k - d] = segments[k]
    BY <1>2, <2>7
  <2> QED
    BY <2>5, <2>7, <2>8
<1>6. PointsCover'
  <2> SUFFICES ASSUME NEW j \in 1 .. M, points # <<>>, 0 < segments'[j].ts,
                      segments'[j].ts <= points[Len(points)].ts
               PROVE  \E i \in 1 .. Len(points) : points[i].ts = segments'[j].ts
    BY <1>1 DEF PointsCover
  <2>1. Len(points) \in 1 .. Len(points)
    BY PointFacts DEF PointsInv
  <2>2. j # M
    BY <1>1, <1>3, <1>9, <2>1
  <2>3. j + d \in 1 .. N /\ segments'[j] = segments[j + d]
    BY <1>2, <2>2
  <2> QED
    BY <2>3 DEF PointsInv, PointsCover
<1>7. PointsShow'
  <2> SUFFICES ASSUME NEW i \in 1 .. Len(points), NEW j \in 1 .. M, points[i].ts = segments'[j].ts
               PROVE  (points[i] = PointOf(segments[j], points[i].by))'
    BY <1>1 DEF PointsShow
  <2>1. j # M
    BY <1>1, <1>3, <1>9
  <2>2. j + d \in 1 .. N /\ segments'[j] = segments[j + d]
    BY <1>2, <2>1
  <2>3. points[i] = PointOf(segments[j + d], points[i].by)
    BY <2>2 DEF PointsInv, PointsShow
  <2> QED
    BY <1>1, <2>2, <2>3 DEF PointOf, CountedBy, MatchInterest
<1> QED
  BY <1>1, <1>4, <1>5, <1>6, <1>7 DEF PointsInv

-----------------------------------------------------------------------------
(* TrafficSparkline::collect                                               *)

\* What a collection keeps of the points, and which segments it adds: the first
\* o points go, and the segments after the m-th come, except the newest one.
Collects(o, m) ==
  /\ \A i \in 1 .. o : points[i].ts < segments[1].ts
  /\ \A i \in o + 1 .. Len(points) : points[i].ts >= segments[1].ts
  /\ \A k \in 1 .. m : segments[k].ts <= Start
  /\ \A k \in m + 1 .. Len(segments) - 1 : segments[k].ts > Start
  /\ Len(points') = (Len(points) - o) + (Len(segments) - 1 - m)
  /\ \A i \in 1 .. Len(points) - o : points'[i] = points[o + i]
  /\ \A k \in 1 .. Len(segments) - 1 - m :
       points'[(Len(points) - o) + k] = PointOf(segments[m + k], custom)

LEMMA SequenceOf ==
  ASSUME NEW S, NEW q \in Nat, NEW f \in [1 .. q -> S]
  PROVE  f \in Seq(S) /\ Len(f) = q
OBVIOUS

LEMMA StartFacts ==
  ASSUME PointsPlaced
  PROVE  /\ Start \in Nat
         /\ points = <<>> => Start = 0
         /\ points # <<>> => Start = points[Len(points)].ts
<1>1. CASE points = <<>>
  BY <1>1 DEF Start
<1>2. CASE points # <<>>
  BY <1>2, PointFacts DEF Start
<1> QED
  BY <1>1, <1>2

LEMMA OutdatedShape ==
  ASSUME SeriesInv, PointsPlaced, segments # <<>>
  PROVE  \E o \in 0 .. Len(points) :
           /\ Cardinality(Outdated) = o
           /\ \A i \in 1 .. o : points[i].ts < segments[1].ts
           /\ \A i \in o + 1 .. Len(points) : points[i].ts >= segments[1].ts
<1> DEFINE P == Len(points)
<1>0. /\ P \in Nat /\ segments[1].ts \in Nat
      /\ \A i \in 1 .. P : points[i].ts \in Nat
      /\ \A i, j \in 1 .. P : i < j => points[i].ts < points[j].ts
  BY PointFacts, SeriesFacts DEF PointsPlaced
<1>1. Outdated \in SUBSET (1 .. P) /\ \A i \in Outdated : \A j \in 1 .. i : j \in Outdated
  BY <1>0 DEF Outdated
<1>2. PICK o \in 0 .. P : Outdated = 1 .. o /\ Cardinality(Outdated) = o
  BY <1>0, <1>1, Front
<1>3. ASSUME NEW i \in 1 .. o PROVE points[i].ts < segments[1].ts
  <2>1. i \in Outdated /\ i \in 1 .. i
    BY <1>2
  <2> QED
    BY <2>1 DEF Outdated
<1>4. ASSUME NEW i \in o + 1 .. P PROVE points[i].ts >= segments[1].ts
  <2>1. o + 1 \in 1 .. P /\ o + 1 \notin Outdated
    BY <1>0, <1>2, <1>4
  <2>2. PICK j \in 1 .. o + 1 : ~(points[j].ts < segments[1].ts)
    BY <2>1 DEF Outdated
  <2>3. j \in 1 .. P /\ i \in 1 .. P /\ (j = i \/ j < i)
    BY <1>0, <1>2, <2>1
  <2>4. points[j].ts <= points[i].ts
    BY <1>0, <2>3
  <2> QED
    BY <1>0, <2>2, <2>3, <2>4
<1> QED
  BY <1>2, <1>3, <1>4

LEMMA UncollectedShape ==
  ASSUME SeriesInv, PointsPlaced, segments # <<>>
  PROVE  \E m \in 0 .. Len(segments) - 1 :
           /\ \A k \in 1 .. m : segments[k].ts <= Start
           /\ \A k \in m + 1 .. Len(segments) - 1 : segments[k].ts > Start
           /\ 1 .. Cardinality(Uncollected) - 1 = 1 .. Len(segments) - 1 - m
           /\ \A k \in 1 .. Len(segments) - 1 - m :
                Len(segments) - Cardinality(Uncollected) + k = m + k
<1> DEFINE N == Len(segments)
<1>0. /\ N \in Nat /\ N \in 1 .. N /\ Start \in Nat
      /\ \A i \in 1 .. N : segments[i].ts \in Nat
      /\ \A i, j \in 1 .. N : i < j => segments[i].ts < segments[j].ts
  BY StartFacts, SeriesFacts DEF SeriesInv
<1>1. Uncollected \in SUBSET (1 .. N) /\ \A i \in Uncollected : \A j \in i .. N : j \in Uncollected
  BY <1>0 DEF Uncollected
<1>2. PICK n \in 0 .. N : Uncollected = n + 1 .. N /\ Cardinality(Uncollected) = N - n
  BY <1>0, <1>1, Back
<1>3. ASSUME NEW k \in n + 1 .. N PROVE segments[k].ts > Start
  <2>1. k \in Uncollected /\ k \in k .. N
    BY <1>0, <1>2
  <2> QED
    BY <2>1 DEF Uncollected
<1>4. ASSUME NEW k \in 1 .. n PROVE segments[k].ts <= Start
  <2>1. n \in 1 .. N /\ n \notin Uncollected
    BY <1>0, <1>2, <1>4
  <2>2. PICK j \in n .. N : ~(segments[j].ts > Start)
    BY <2>1 DEF Uncollected
  <2>3. j \in 1 .. N /\ k \in 1 .. N /\ (k = j \/ k < j)
    BY <1>0, <1>2, <2>1
  <2>4. segments[k].ts <= segments[j].ts
    BY <1>0, <2>3
  <2> QED
    BY <1>0, <2>2, <2>3, <2>4
<1>5. CASE n = N
  <2> DEFINE m == N - 1
  <2>1. m \in 0 .. N - 1 /\ m + 1 = N /\ N - 1 - m = 0 /\ Cardinality(Uncollected) - 1 = 0 - 1
    BY <1>0, <1>2, <1>5
  <2>2. \A k \in 1 .. m : segments[k].ts <= Start
    BY <1>0, <1>4, <1>5
  <2>3. m + 1 .. N - 1 = {} /\ 1 .. 0 = {} /\ 1 .. 0 - 1 = {}
    BY <1>0, <2>1
  <2> QED
    BY <2>1, <2>2, <2>3
<1>6. CASE n # N
  <2>1. n \in 0 .. N - 1 /\ (N - n) - 1 = N - 1 - n /\ \A k \in Nat : N - (N - n) + k = n + k
    BY <1>0, <1>2, <1>6
  <2>2. \A k \in n + 1 .. N - 1 : segments[k].ts > Start
    BY <1>0, <1>2, <1>3
  <2>3. \A k \in 1 .. N - 1 - n : k \in Nat
    OBVIOUS
  <2> QED
    BY <1>2, <1>4, <2>1, <2>2, <2>3
<1> QED
  BY <1>5, <1>6

LEMMA CollectShape ==
  ASSUME SeriesInv, PointsInv, segments # <<>>, CollectSparkline
  PROVE  /\ points' \in Seq(PointSet)
         /\ \E o \in 0 .. Len(points), m \in 0 .. Len(segments) - 1 : Collects(o, m)
<1> DEFINE N == Len(segments)
           P == Len(points)
           n == Cardinality(Uncollected)
<1>0. /\ N \in Nat /\ N \in 1 .. N /\ P \in Nat /\ points \in Seq(PointSet)
      /\ custom \in Customs \cup {NoCustom}
      /\ PointsPlaced
  BY SeriesFacts, PointFacts DEF PointsInv, PointsPlaced
<1>1. PICK o \in 0 .. P :
           /\ Cardinality(Outdated) = o
           /\ \A i \in 1 .. o : points[i].ts < segments[1].ts
           /\ \A i \in o + 1 .. P : points[i].ts >= segments[1].ts
  BY <1>0, OutdatedShape
<1>2. PICK m \in 0 .. N - 1 :
           /\ \A k \in 1 .. m : segments[k].ts <= Start
           /\ \A k \in m + 1 .. N - 1 : segments[k].ts > Start
           /\ 1 .. n - 1 = 1 .. N - 1 - m
           /\ \A k \in 1 .. N - 1 - m : N - n + k = m + k
  BY <1>0, UncollectedShape
<1> DEFINE q == N - 1 - m
           new == [k \in 1 .. q |-> PointOf(segments[m + k], custom)]
<1>3. NewPoints = new
  <2>1. NewPoints = [k \in 1 .. n - 1 |-> DataPoint(segments[N - n + k])]
    BY DEF NewPoints
  <2>2. ASSUME NEW k \in 1 .. q
        PROVE  DataPoint(segments[N - n + k]) = PointOf(segments[m + k], custom)
    BY <1>2 DEF DataPoint, PointOf, CountedBy
  <2> QED
    BY <1>2, <2>1, <2>2
<1>4. q \in Nat /\ \A k \in 1 .. q : m + k \in 1 .. N
  BY <1>0, <1>2
<1>5. ASSUME NEW k \in 1 .. q PROVE PointOf(segments[m + k], custom) \in PointSet
  <2>1. segments[m + k].ts \in Nat /\ IsFiniteSet(segments[m + k].log)
    BY <1>4, SeriesFacts
  <2>2. Traffic(segments[m + k].log, CountedBy(custom)) \in Nat
    BY <2>1, TrafficNat
  <2> QED
    BY <1>0, <2>1, <2>2 DEF PointOf, PointSet
<1> HIDE DEF q
<1>6. new \in Seq(PointSet) /\ Len(new) = q /\ \A k \in 1 .. q : new[k] = PointOf(segments[m + k], custom)
  <2>1. new \in [1 .. q -> PointSet]
    BY <1>5
  <2>2. new \in Seq(PointSet) /\ Len(new) = q
    BY <1>4, <2>1, SequenceOf
  <2> QED
    BY <2>2
<1> HIDE DEF new
<1> DEFINE old == SubSeq(points, o + 1, P)
<1>7. /\ old \in Seq(PointSet) /\ Len(old) = P - o
      /\ \A i \in 1 .. P - o : old[i] = points[o + i]
  BY <1>0, <1>1
<1> HIDE DEF old
<1>8. points' = old \o new
  BY <1>1, <1>3 DEF CollectSparkline, old
<1>9. P - o \in Nat
  BY <1>0, <1>1
<1>10. /\ points' \in Seq(PointSet) /\ Len(points') = (P - o) + q
       /\ \A i \in 1 .. P - o : points'[i] = old[i]
       /\ \A k \in 1 .. q : points'[(P - o) + k] = new[k]
  <2>0. old \in Seq(PointSet) /\ new \in Seq(PointSet)
    BY <1>6, <1>7
  <2>1. /\ old \o new \in Seq(PointSet) /\ Len(old \o new) = Len(old) + Len(new)
        /\ \A i \in 1 .. Len(old) : (old \o new)[i] = old[i]
        /\ \A k \in 1 .. Len(new) : (old \o new)[Len(old) + k] = new[k]
    <3>1. old \o new \in Seq(PointSet) /\ Len(old \o new) = Len(old) + Len(new)
      BY <2>0
    <3>2. ASSUME NEW i \in 1 .. Len(old) PROVE (old \o new)[i] = old[i]
      BY <2>0
    <3>3. ASSUME NEW k \in 1 .. Len(new) PROVE (old \o new)[Len(old) + k] = new[k]
      BY <2>0
    <3> QED
      BY <3>1, <3>2, <3>3
  <2> QED
    BY <1>6, <1>7, <1>8, <2>1, Zenon
<1>11. Collects(o, m)
  BY <1>1, <1>2, <1>6, <1>7, <1>10 DEF Collects, q
<1> QED
  BY <1>10, <1>11

LEMMA CollectStep ==
  ASSUME SeriesInv, PointsInv, segments # <<>>, CollectSparkline
  PROVE  /\ PointsInv'
         /\ {points'[i].ts : i \in 1 .. Len(points')} =
              {segments[j].ts : j \in 1 .. Len(segments) - 1} \ {0}
<1> DEFINE N == Len(segments)
           P == Len(points)
           L == Len(points')
<1>0. PICK o \in 0 .. P, m \in 0 .. N - 1 : Collects(o, m)
  BY CollectShape
<1>1. /\ N \in Nat /\ N \in 1 .. N /\ P \in Nat /\ Start \in Nat /\ Window \in Nat \ {0}
      /\ custom \in Customs \cup {NoCustom}
      /\ segments' = segments /\ custom' = custom /\ filter' = filter
      /\ points' \in Seq(PointSet)
  BY SeriesFacts, PointFacts, StartFacts, CollectShape, DashboardAssumption
     DEF PointsInv, CollectSparkline
<1>2. /\ \A i \in 1 .. N : segments[i].ts \in Nat
      /\ \A i \in 2 .. N : segments[i].ts = segments[i - 1].ts + Window
      /\ \A i, j \in 1 .. N : i < j => segments[i].ts < segments[j].ts
  BY SeriesFacts DEF SeriesInv
<1>3. /\ \A i \in 1 .. P : points[i].ts \in Nat /\ 0 < points[i].ts /\ points[i].ts < segments[N].ts
      /\ \A i \in 2 .. P : points[i].ts = points[i - 1].ts + Window
      /\ \A i, j \in 1 .. P : i < j => points[i].ts < points[j].ts
  BY PointFacts DEF PointsInv, PointsPlaced, Newest
<1> DEFINE K == P - o
           q == N - 1 - m
<1>4. /\ K \in Nat /\ q \in Nat /\ o \in Nat /\ m \in Nat
      /\ \A i \in 1 .. K : o + i \in 1 .. P
      /\ \A k \in 1 .. q : m + k \in 1 .. N - 1
      /\ o + K = P /\ m + q = N - 1 /\ L = K + q
  BY <1>0, <1>1 DEF Collects
<1>5. ASSUME NEW i \in 1 .. K
      PROVE  /\ points'[i] = points[o + i] /\ points[o + i].ts >= segments[1].ts
             /\ points[o + i].ts <= Start
  <2>1. o + i \in o + 1 .. P /\ o + i \in 1 .. P /\ P \in 1 .. P /\ (o + i = P \/ o + i < P)
    <3>1. o + i \in 1 .. P
      BY <1>4
    <3> HIDE DEF P, K
    <3> QED
      BY <1>1, <1>4, <3>1
  <2>2. Start = points[P].ts
    <3>1. points # <<>>
      BY <2>1
    <3> QED
      BY <3>1, StartFacts DEF PointsInv
  <2>3. points[o + i].ts <= points[P].ts
    <3> DEFINE a == o + i
    <3>1. a \in 1 .. P /\ P \in 1 .. P /\ (a = P \/ a < P)
      BY <2>1
    <3> HIDE DEF a, P
    <3>2. points[P].ts \in Nat
      BY <1>3, <3>1
    <3>3. points[a].ts <= points[P].ts
      <4>1. CASE a = P
        BY <3>2, <4>1
      <4>2. CASE a < P
        BY <1>3, <3>1, <4>2
      <4> QED
        BY <3>1, <4>1, <4>2
    <3> QED
      BY <3>3 DEF a
  <2>4. points[o + i].ts >= segments[1].ts
    BY <1>0, <2>1 DEF Collects
  <2>5. points'[i] = points[o + i]
    BY <1>0 DEF Collects
  <2> QED
    BY <2>2, <2>3, <2>4, <2>5
<1>6. ASSUME NEW k \in 1 .. q
      PROVE  /\ points'[K + k] = PointOf(segments[m + k], custom)
             /\ points'[K + k].ts = segments[m + k].ts
             /\ segments[m + k].ts > Start
  <2>1. m + k \in m + 1 .. N - 1
    BY <1>1, <1>4
  <2>2. points'[K + k] = PointOf(segments[m + k], custom) /\ segments[m + k].ts > Start
    BY <1>0, <2>1 DEF Collects
  <2> QED
    BY <2>2 DEF PointOf
<1>7. ASSUME NEW i \in 1 .. L, ~(i \in 1 .. K) PROVE i - K \in 1 .. q /\ K + (i - K) = i
  BY <1>4, <1>7
<1>8. \A i \in 1 .. K : \E j \in 1 .. N - 1 : segments[j].ts = points[o + i].ts
  <2> SUFFICES ASSUME NEW i \in 1 .. K
               PROVE  \E j \in 1 .. N - 1 : segments[j].ts = points[o + i].ts
    OBVIOUS
  <2>1. o + i \in 1 .. P /\ points[o + i].ts >= segments[1].ts
    BY <1>4, <1>5
  <2>2. PICK j \in 1 .. N : segments[j].ts = points[o + i].ts
    BY <2>1 DEF PointsInv, PointsInStore
  <2>3. j # N
    BY <1>2, <1>3, <2>1, <2>2
  <2> QED
    BY <1>1, <2>2, <2>3
<1>9. ASSUME K # 0 PROVE m \in 1 .. N /\ K \in 1 .. K /\ segments[m].ts = Start /\ points'[K].ts = Start
  <2>1. K \in 1 .. K /\ P \in 1 .. P
    <3> HIDE DEF P, K
    <3> QED
      BY <1>1, <1>4, <1>9
  <2>2. points # <<>> /\ Start = points[P].ts
    BY <2>1, StartFacts DEF PointsInv
  <2>3. PICK j \in 1 .. N - 1 : segments[j].ts = Start
    BY <1>4, <1>8, <2>1, <2>2
  <2>4. j \in 1 .. N /\ ~(j \in m + 1 .. N - 1)
    BY <1>0, <1>1, <1>2, <2>3 DEF Collects
  <2>5. m \in 1 .. m /\ m \in 1 .. N /\ j <= m
    BY <1>1, <1>4, <2>4
  <2>6. segments[m].ts <= Start
    BY <1>0, <2>5 DEF Collects
  <2>7. j = m
    <3>1. ~(j < m)
      <4>1. segments[j].ts \in Nat /\ segments[m].ts \in Nat
        BY <1>2, <2>4, <2>5
      <4>2. j < m => segments[j].ts < segments[m].ts
        BY <1>2, <2>4, <2>5
      <4> QED
        BY <2>3, <2>6, <4>1, <4>2
    <3> QED
      BY <1>4, <2>4, <2>5, <3>1
  <2> QED
    BY <1>4, <1>5, <2>1, <2>2, <2>3, <2>5, <2>7
<1> HIDE DEF K, q, L, N, P
<1>10. \A i \in 1 .. L : \E j \in 1 .. N - 1 : segments[j].ts = points'[i].ts
  <2> SUFFICES ASSUME NEW i \in 1 .. L
               PROVE  \E j \in 1 .. N - 1 : segments[j].ts = points'[i].ts
    OBVIOUS
  <2>1. CASE i \in 1 .. K
    BY <1>5, <1>8, <2>1
  <2>2. CASE ~(i \in 1 .. K)
    <3>1. i - K \in 1 .. q /\ K + (i - K) = i
      BY <1>7, <2>2
    <3>2. points'[i].ts = segments[m + (i - K)].ts /\ m + (i - K) \in 1 .. N - 1
      BY <1>4, <1>6, <3>1
    <3> QED
      BY <3>2
  <2> QED
    BY <2>1, <2>2
<1>11. \A i \in 1 .. L : points'[i].ts \in Nat /\ 0 < points'[i].ts /\ points'[i].ts < segments[N].ts
  <2> SUFFICES ASSUME NEW i \in 1 .. L
               PROVE  points'[i].ts \in Nat /\ 0 < points'[i].ts /\ points'[i].ts < segments[N].ts
    OBVIOUS
  <2>1. PICK j \in 1 .. N - 1 : segments[j].ts = points'[i].ts
    BY <1>10
  <2>2. j \in 1 .. N /\ j < N
    BY <1>1
  <2>3. points'[i].ts \in Nat /\ points'[i].ts < segments[N].ts
    BY <1>1, <1>2, <2>1, <2>2
  <2>4. CASE i \in 1 .. K
    BY <1>3, <1>4, <1>5, <2>3, <2>4
  <2>5. CASE ~(i \in 1 .. K)
    <3>1. i - K \in 1 .. q /\ K + (i - K) = i
      BY <1>7, <2>5
    <3>2. points'[i].ts = segments[m + (i - K)].ts /\ segments[m + (i - K)].ts > Start
      BY <1>6, <3>1
    <3> QED
      BY <1>1, <2>3, <3>2
  <2> QED
    BY <2>3, <2>4, <2>5
<1>12. \A j \in 1 .. N - 1 : 0 < segments[j].ts => \E i \in 1 .. L : points'[i].ts = segments[j].ts
  <2> SUFFICES ASSUME NEW j \in 1 .. N - 1, 0 < segments[j].ts
               PROVE  \E i \in 1 .. L : points'[i].ts = segments[j].ts
    OBVIOUS
  <2>0. j \in 1 .. N /\ 1 \in 1 .. N /\ segments[j].ts \in Nat /\ segments[1].ts \in Nat
    BY <1>1, <1>2
  <2>1. CASE j <= m
    <3>1. j \in 1 .. m
      BY <1>4, <2>1
    <3>2. segments[j].ts <= Start
      BY <1>0, <3>1 DEF Collects
    <3>3. points # <<>> /\ segments[j].ts <= points[P].ts
      BY <1>1, <2>0, <3>2, StartFacts DEF PointsInv, P
    <3>4. PICK i \in 1 .. P : points[i].ts = segments[j].ts
      BY <2>0, <3>3 DEF PointsInv, PointsCover, P, N
    <3>5. segments[1].ts <= segments[j].ts
      <4>1. 1 = j \/ 1 < j
        BY <1>1
      <4> QED
        BY <1>2, <2>0, <4>1
    <3>6. ~(i \in 1 .. o)
      BY <1>0, <2>0, <3>4, <3>5 DEF Collects
    <3>7. i - o \in 1 .. K /\ o + (i - o) = i
      BY <1>1, <1>4, <3>6
    <3>8. points'[i - o] = points[i] /\ i - o \in 1 .. L
      BY <1>4, <1>5, <3>7
    <3> QED
      BY <3>4, <3>8
  <2>2. CASE ~(j <= m)
    <3>1. j - m \in 1 .. q /\ m + (j - m) = j
      BY <1>1, <1>4, <2>2
    <3>2. points'[K + (j - m)].ts = segments[j].ts
      BY <1>6, <3>1
    <3>3. K + (j - m) \in 1 .. L
      BY <1>4, <3>1
    <3> QED
      BY <3>2, <3>3
  <2> QED
    BY <2>1, <2>2
<1>13. \A i \in 2 .. L : points'[i].ts = points'[i - 1].ts + Window
  <2> SUFFICES ASSUME NEW i \in 2 .. L PROVE points'[i].ts = points'[i - 1].ts + Window
    OBVIOUS
  <2>0. i \in 1 .. L /\ i - 1 \in 1 .. L
    BY <1>4
  <2>1. CASE i \in 1 .. K
    <3>1. i - 1 \in 1 .. K /\ o + (i - 1) = (o + i) - 1 /\ o + i \in 2 .. P
      BY <1>1, <1>4, <2>1
    <3>2. points[o + i].ts = points[(o + i) - 1].ts + Window
      BY <1>3, <3>1
    <3>3. points'[i] = points[o + i] /\ points'[i - 1] = points[(o + i) - 1]
      BY <1>5, <2>1, <3>1
    <3> QED
      BY <3>2, <3>3
  <2>2. CASE ~(i \in 1 .. K)
    <3>1. i - K \in 1 .. q /\ K + (i - K) = i
      BY <1>7, <2>0, <2>2
    <3>2. points'[i].ts = segments[m + (i - K)].ts
      BY <1>6, <3>1
    <3>3. CASE i - 1 \in 1 .. K
      <4>1. i - K = 1 /\ i - 1 = K /\ K # 0
        BY <1>4, <2>2, <3>3
      <4>2. m \in 1 .. N /\ segments[m].ts = Start /\ points'[i - 1].ts = Start
        BY <1>9, <4>1
      <4>3. m + 1 \in 2 .. N /\ (m + 1) - 1 = m
        BY <1>1, <1>4, <3>1, <4>1, <4>2
      <4>4. segments[m + 1].ts = segments[m].ts + Window
        BY <1>2, <4>3
      <4> QED
        BY <3>2, <4>1, <4>2, <4>4
    <3>4. CASE ~(i - 1 \in 1 .. K)
      <4>1. (i - 1) - K \in 1 .. q /\ K + ((i - 1) - K) = i - 1
        BY <1>7, <2>0, <3>4
      <4>2. points'[i - 1].ts = segments[m + ((i - 1) - K)].ts
        BY <1>6, <4>1
      <4>3. m + ((i - 1) - K) = (m + (i - K)) - 1 /\ m + (i - K) \in 2 .. N
        BY <1>1, <1>4, <3>1, <4>1
      <4>4. segments[m + (i - K)].ts = segments[(m + (i - K)) - 1].ts + Window
        BY <1>2, <4>3
      <4> QED
        BY <3>2, <4>2, <4>3, <4>4
    <3> QED
      BY <3>3, <3>4
  <2> QED
    BY <2>1, <2>2
<1>14. \A i, j \in 1 .. L : i < j => points'[i].ts < points'[j].ts
  <2> SUFFICES ASSUME NEW i \in 1 .. L, NEW j \in 1 .. L, i < j
               PROVE  points'[i].ts < points'[j].ts
    OBVIOUS
  <2>1. CASE j \in 1 .. K
    <3>1. i \in 1 .. K /\ o + i \in 1 .. P /\ o + j \in 1 .. P /\ o + i < o + j
      BY <1>4, <2>1
    <3>2. points[o + i].ts < points[o + j].ts
      BY <1>3, <3>1
    <3> QED
      BY <1>5, <2>1, <3>1, <3>2
  <2>2. CASE ~(j \in 1 .. K)
    <3>1. j - K \in 1 .. q /\ K + (j - K) = j /\ m + (j - K) \in 1 .. N
      BY <1>1, <1>4, <1>7, <2>2
    <3>2. points'[j].ts = segments[m + (j - K)].ts /\ segments[m + (j - K)].ts > Start
      BY <1>6, <3>1
    <3>3. CASE i \in 1 .. K
      <4>1. points'[i].ts <= Start
        BY <1>5, <3>3
      <4> QED
        BY <1>1, <1>11, <3>2, <4>1
    <3>4. CASE ~(i \in 1 .. K)
      <4>1. i - K \in 1 .. q /\ K + (i - K) = i /\ m + (i - K) \in 1 .. N
        BY <1>1, <1>4, <1>7, <3>4
      <4>2. points'[i].ts = segments[m + (i - K)].ts
        BY <1>6, <4>1
      <4>3. m + (i - K) < m + (j - K)
        BY <1>4
      <4>4. segments[m + (i - K)].ts < segments[m + (j - K)].ts
        BY <1>2, <3>1, <4>1, <4>3
      <4> QED
        BY <3>2, <4>2, <4>4
    <3> QED
      BY <3>3, <3>4
  <2> QED
    BY <2>1, <2>2
<1>15. PointsPlaced'
  <2>1. Newest' = segments[N]
    BY <1>1 DEF Newest, N
  <2> QED
    BY <1>1, <1>11, <1>13, <1>14, <2>1 DEF PointsPlaced, L
<1>16. PointsInStore'
  <2> SUFFICES ASSUME NEW i \in 1 .. L PROVE \E j \in 1 .. N : segments[j].ts = points'[i].ts
    BY <1>1 DEF PointsInStore, L, N
  <2>1. PICK j \in 1 .. N - 1 : segments[j].ts = points'[i].ts
    BY <1>10
  <2>2. j \in 1 .. N
    BY <1>1
  <2> QED
    BY <2>1, <2>2
<1>17. PointsCover'
  <2> SUFFICES ASSUME NEW j \in 1 .. N, points' # <<>>, 0 < segments[j].ts,
                      segments[j].ts <= points'[L].ts
               PROVE  \E i \in 1 .. L : points'[i].ts = segments[j].ts
    BY <1>1 DEF PointsCover, L, N
  <2>1. L \in 1 .. L
    BY <1>1 DEF L
  <2>2. j # N
    BY <1>1, <1>2, <1>11, <2>1
  <2>3. j \in 1 .. N - 1
    BY <1>1, <2>2
  <2> QED
    BY <1>12, <2>3
<1>18. PointsShow'
  <2> SUFFICES ASSUME NEW i \in 1 .. L, NEW j \in 1 .. N, points'[i].ts = segments[j].ts
               PROVE  points'[i] = PointOf(segments[j], points'[i].by)
    BY <1>1 DEF PointsShow, PointOf, CountedBy, MatchInterest, L, N
  <2>1. CASE i \in 1 .. K
    <3>1. points'[i] = points[o + i] /\ o + i \in 1 .. P
      BY <1>4, <1>5, <2>1
    <3> QED
      BY <3>1 DEF PointsInv, PointsShow, P, N
  <2>2. CASE ~(i \in 1 .. K)
    <3>1. i - K \in 1 .. q /\ K + (i - K) = i /\ m + (i - K) \in 1 .. N
      BY <1>1, <1>4, <1>7, <2>2
    <3>2. /\ points'[i] = PointOf(segments[m + (i - K)], custom)
          /\ segments[m + (i - K)].ts = segments[j].ts
      BY <1>6, <3>1
    <3>3. m + (i - K) = j
      <4> DEFINE a == m + (i - K)
      <4>1. a \in 1 .. N /\ segments[a].ts = segments[j].ts
        BY <3>1, <3>2
      <4> HIDE DEF a
      <4>2. ~(a < j) /\ ~(j < a)
        BY <1>2, <4>1
      <4>3. a = j
        BY <1>1, <4>1, <4>2
      <4> QED
        BY <4>3 DEF a
    <3>4. points'[i].by = custom
      BY <3>2 DEF PointOf
    <3> QED
      BY <3>2, <3>3, <3>4
  <2> QED
    BY <2>1, <2>2
<1>19. {points'[i].ts : i \in 1 .. L} = {segments[j].ts : j \in 1 .. N - 1} \ {0}
  <2>1. ASSUME NEW i \in 1 .. L
        PROVE  points'[i].ts \in {segments[j].ts : j \in 1 .. N - 1} \ {0}
    BY <1>10, <1>11
  <2>2. ASSUME NEW j \in 1 .. N - 1, segments[j].ts # 0
        PROVE  segments[j].ts \in {points'[i].ts : i \in 1 .. L}
    <3>1. j \in 1 .. N
      BY <1>1
    <3>2. 0 < segments[j].ts
      BY <1>2, <2>2, <3>1
    <3> QED
      BY <1>12, <3>2
  <2> QED
    BY <2>1, <2>2
<1> QED
  BY <1>1, <1>15, <1>16, <1>17, <1>18, <1>19 DEF PointsInv, L, N

-----------------------------------------------------------------------------
(* The steps                                                               *)

\* Time t is that of a segment, or older than all of them.
Placed(t) ==
  \/ \E j \in 1 .. Len(segments) : segments[j].ts = t
  \/ \A j \in 1 .. Len(segments) : t < segments[j].ts

\* Once a frame has its timestamp, there is a segment, and the timestamp is not
\* in the future; its segment is in the store, or was evicted.
FrameInv ==
  pc \in {"sparkline", "table"} =>
    segments # <<>> /\ frameTs \in Nat /\ frameTs <= clock /\ Placed(frameTs)

\* Evictions leave a time placed.
LEMMA PlacedOpened ==
  ASSUME SeriesInv, SeriesInv', segments # <<>>, NEW d \in {0, 1}, Opened(d),
         NEW t \in Nat, Placed(t)
  PROVE  Placed(t)'
<1> DEFINE N == Len(segments)
           M == Len(segments')
<1>0. /\ N \in Nat /\ d \in Nat /\ d <= N /\ M = N - d + 1 /\ N \in 1 .. N
      /\ \A i \in 1 .. N - d : segments'[i] = segments[i + d]
      /\ \A i \in 1 .. N : segments[i].ts < segments'[M].ts
      /\ \A i \in 1 .. N : segments[i].ts \in Nat
      /\ \A i, j \in 1 .. N : i < j => segments[i].ts < segments[j].ts
  BY SeriesFacts DEF Opened, SeriesInv
<1>1. segments'[M].ts \in Nat
  <2>1. segments' \in Seq(SegmentSet) /\ M \in 1 .. M
    BY <1>0 DEF SeriesInv
  <2>2. segments'[M] \in SegmentSet
    BY <2>1
  <2> QED
    BY <2>2 DEF SegmentSet
<1> HIDE DEF M
<1>2. ASSUME NEW j \in 1 .. N, segments[j].ts = t, d < j PROVE Placed(t)'
  <2>1. j - d \in 1 .. N - d /\ j - d \in 1 .. M /\ (j - d) + d = j
    BY <1>0, <1>2
  <2>2. segments'[j - d].ts = t
    BY <1>0, <1>2, <2>1
  <2> QED
    BY <2>1, <2>2 DEF Placed, M
<1>3. ASSUME \A i \in d + 1 .. N : t < segments[i].ts,
             \E j \in 1 .. N : t <= segments[j].ts
      PROVE  Placed(t)'
  <2> SUFFICES ASSUME NEW i \in 1 .. M PROVE t < segments'[i].ts
    BY DEF Placed, M
  <2>1. CASE i = M
    BY <1>0, <1>1, <1>3, <2>1
  <2>2. CASE i # M
    <3>1. i \in 1 .. N - d /\ i + d \in d + 1 .. N /\ segments'[i] = segments[i + d]
      BY <1>0, <2>2
    <3> QED
      BY <1>3, <3>1
  <2> QED
    BY <2>1, <2>2
<1>4. CASE \A j \in 1 .. N : t < segments[j].ts
  <2>1. \A i \in d + 1 .. N : i \in 1 .. N
    BY <1>0
  <2>2. t <= segments[N].ts
    BY <1>0, <1>4
  <2> QED
    BY <1>0, <1>3, <1>4, <2>1, <2>2
<1>5. ASSUME NEW j \in 1 .. N, segments[j].ts = t, ~(d < j) PROVE Placed(t)'
  <2>1. \A i \in d + 1 .. N : i \in 1 .. N /\ j < i
    BY <1>0, <1>5
  <2>2. \A i \in d + 1 .. N : t < segments[i].ts
    BY <1>0, <1>5, <2>1
  <2>3. t <= segments[j].ts
    BY <1>0, <1>5
  <2> QED
    BY <1>3, <2>2, <2>3
<1> QED
  BY <1>2, <1>4, <1>5 DEF Placed

\* So does whatever leaves the times of the segments alone.
LEMMA PlacedKept ==
  ASSUME Kept \/ segments' = segments, NEW t, Placed(t)
  PROVE  Placed(t)'
<1>1. /\ Len(segments') = Len(segments)
      /\ \A i \in 1 .. Len(segments) : segments'[i].ts = segments[i].ts
  BY DEF Kept
<1> QED
  BY <1>1 DEF Placed

DashboardInv == SeriesInv /\ FrameInv /\ PointsInv

LEMMA InitInv == Init => DashboardInv
<1> SUFFICES ASSUME Init PROVE DashboardInv
  OBVIOUS
<1>0. /\ clock = 0 /\ segments = <<>> /\ points = <<>> /\ pc = "idle" /\ custom = NoCustom
      /\ Len(<<>>) = 0 /\ <<>> \in Seq(SegmentSet) /\ <<>> \in Seq(PointSet)
  BY DEF Init, SeriesInit
<1>1. SeriesInv
  BY <1>0 DEF SeriesInv
<1>2. FrameInv
  BY <1>0 DEF FrameInv
<1>3. PointsInv
  BY <1>0 DEF PointsInv, PointsPlaced, PointsInStore, PointsCover, PointsShow
<1> QED
  BY <1>1, <1>2, <1>3 DEF DashboardInv

LEMMA RollStep ==
  ASSUME DashboardInv, Roll
  PROVE  DashboardInv'
<1>0. UNCHANGED <<points, filter, custom>> /\ UNCHANGED <<pc, frameTs>>
  BY DEF Roll, viewVars, frameVars
<1>1. CASE Advance
  <2>1. segments' = segments /\ clock' = clock + 1 /\ clock \in Nat
    BY <1>1 DEF Advance, DashboardInv, SeriesInv
  <2>2. SeriesInv'
    <3>1. \A i \in 1 .. Len(segments) : segments[i].ts <= clock + 1
      BY <2>1, SeriesFacts DEF DashboardInv, SeriesInv
    <3> QED
      BY <2>1, <3>1 DEF DashboardInv, SeriesInv
  <2>3. Kept
    BY <2>1 DEF Kept
  <2>4. PointsInv'
    BY <1>0, <2>3, KeptStep DEF DashboardInv
  <2>5. FrameInv'
    BY <1>0, <2>1, PlacedKept DEF DashboardInv, FrameInv
  <2> QED
    BY <2>2, <2>4, <2>5 DEF DashboardInv
<1>2. CASE OpenFirst \/ OpenNext
  <2>1. PICK t \in Nat : Open(t) /\ (segments # <<>> => t = Newest.ts + Window)
    <3>1. CASE OpenFirst
      <4>1. PICK u \in 0 .. clock : Open(Trunc(u, Window))
        BY <3>1 DEF OpenFirst
      <4>2. u \in Nat /\ Window \in Nat \ {0}
        BY DashboardAssumption DEF DashboardInv, SeriesInv
      <4>3. Trunc(u, Window) \in Nat
        BY <4>2, TruncBounds
      <4> QED
        BY <3>1, <4>1, <4>3 DEF OpenFirst
    <3>2. CASE OpenNext
      <4>1. segments # <<>> /\ Open(Newest.ts + Window)
        BY <3>2 DEF OpenNext
      <4>2. Newest.ts \in Nat /\ Window \in Nat
        BY <4>1, SeriesFacts, DashboardAssumption DEF DashboardInv, Newest
      <4>3. Newest.ts + Window \in Nat
        BY <4>2
      <4> QED
        BY <4>1, <4>3
    <3> QED
      BY <1>2, <3>1, <3>2
  <2>2. SeriesInv' /\ \E d \in {0, 1} : Opened(d)
    BY <2>1, OpenStep DEF DashboardInv
  <2>3. PointsInv'
    BY <1>0, <2>2, OpenedStep DEF DashboardInv
  <2>4. FrameInv'
    <3>1. clock' = clock /\ segments' # <<>>
      <4>1. clock' = clock
        BY <2>1 DEF Open
      <4>2. PICK d \in {0, 1} : d <= Len(segments) /\ Len(segments') = Len(segments) - d + 1
        BY <2>2 DEF Opened
      <4>3. Len(segments) \in Nat
        BY SeriesFacts DEF DashboardInv
      <4> QED
        BY <4>1, <4>2, <4>3
    <3>2. ASSUME pc \in {"sparkline", "table"} PROVE Placed(frameTs)'
      <4>1. segments # <<>> /\ frameTs \in Nat /\ Placed(frameTs)
        BY <3>2 DEF DashboardInv, FrameInv
      <4>2. SeriesInv
        BY DEF DashboardInv
      <4> QED
        BY <1>0, <2>2, <4>1, <4>2, PlacedOpened DEF Placed
    <3> QED
      BY <1>0, <3>1, <3>2 DEF DashboardInv, FrameInv
  <2> QED
    BY <2>2, <2>3, <2>4 DEF DashboardInv
<1> QED
  BY <1>1, <1>2 DEF Roll

LEMMA ReceiveStep ==
  ASSUME DashboardInv, NEW m \in Message, Receive(m)
  PROVE  DashboardInv'
<1>0. UNCHANGED <<points, filter, custom>> /\ UNCHANGED <<pc, frameTs>> /\ Record(m)
  BY DEF Receive, viewVars, frameVars
<1>1. SeriesInv' /\ Kept
  BY <1>0, RecordStep DEF DashboardInv
<1>2. PointsInv'
  BY <1>0, <1>1, KeptStep DEF DashboardInv
<1>3. FrameInv'
  <2>1. clock' = clock /\ segments # <<>> /\ Len(segments') = Len(segments)
    BY <1>0, <1>1 DEF Record, Kept
  <2>2. segments' # <<>>
    BY <2>1, SeriesFacts DEF DashboardInv
  <2>3. Placed(frameTs) => Placed(frameTs)'
    BY <1>0, <1>1, PlacedKept DEF Placed
  <2> QED
    BY <1>0, <2>1, <2>2, <2>3 DEF DashboardInv, FrameInv
<1> QED
  BY <1>1, <1>2, <1>3 DEF DashboardInv

LEMMA NextInv == DashboardInv /\ [Next]_vars => DashboardInv'
<1> SUFFICES ASSUME DashboardInv, [Next]_vars PROVE DashboardInv'
  OBVIOUS
<1>0. SeriesInv /\ FrameInv /\ PointsInv
  BY DEF DashboardInv
<1>1. CASE Roll
  BY <1>1, RollStep
<1>2. ASSUME NEW m \in Message, Receive(m) PROVE DashboardInv'
  BY <1>2, ReceiveStep
<1>3. ASSUME UNCHANGED <<clock, segments>> PROVE SeriesInv'
  BY <1>0, <1>3 DEF SeriesInv
<1>4. ASSUME UNCHANGED <<segments, points, filter>>, custom' \in Customs \cup {NoCustom}
      PROVE  PointsInv'
  <2>1. PointsPlaced'
    BY <1>0, <1>4 DEF PointsInv, PointsPlaced, Newest
  <2>2. PointsInStore' /\ PointsCover'
    BY <1>0, <1>4 DEF PointsInv, PointsInStore, PointsCover
  <2>3. PointsShow'
    <3> SUFFICES ASSUME NEW i \in 1 .. Len(points), NEW j \in 1 .. Len(segments),
                        points[i].ts = segments[j].ts
                 PROVE  (points[i] = PointOf(segments[j], points[i].by))'
      BY <1>4 DEF PointsShow
    <3>1. points[i] = PointOf(segments[j], points[i].by)
      BY <1>0 DEF PointsInv, PointsShow
    <3> QED
      BY <1>4, <3>1 DEF PointOf, CountedBy, MatchInterest
  <2> QED
    BY <1>4, <2>1, <2>2, <2>3 DEF PointsInv
<1>5. ASSUME NEW a \in Customs \cup {NoCustom}, SetCustomFilter(a) PROVE DashboardInv'
  <2>1. /\ UNCHANGED <<clock, segments, points, filter, pc, frameTs>> /\ pc = "idle"
        /\ custom' \in Customs \cup {NoCustom}
    BY <1>5 DEF SetCustomFilter, frameVars
  <2> QED
    BY <1>0, <1>3, <1>4, <2>1 DEF DashboardInv, FrameInv
<1>6. ASSUME NEW f \in Views, NewView(f) PROVE DashboardInv'
  <2>1. UNCHANGED <<clock, segments, custom, pc, frameTs>> /\ points' = <<>> /\ pc = "idle"
    BY <1>6 DEF NewView, frameVars
  <2>2. PointsInv'
    <3>1. Len(<<>>) = 0 /\ <<>> \in Seq(PointSet)
      OBVIOUS
    <3> QED
      BY <1>0, <2>1, <3>1 DEF PointsInv, PointsPlaced, PointsInStore, PointsCover, PointsShow
  <2> QED
    BY <1>0, <1>3, <2>1, <2>2 DEF DashboardInv, FrameInv
<1>7. CASE StartFrame
  <2>1. UNCHANGED <<clock, segments, points, filter, custom>> /\ pc' = "stamped"
    BY <1>7 DEF StartFrame, viewVars
  <2> QED
    BY <1>0, <1>3, <1>4, <2>1 DEF DashboardInv, FrameInv, PointsInv
<1>8. CASE OldestTimestamp
  <2>1. /\ UNCHANGED <<clock, segments, points, filter, custom>>
        /\ segments # <<>> /\ frameTs' = Newest.ts
    BY <1>8 DEF OldestTimestamp, viewVars
  <2>2. Newest.ts \in Nat /\ Newest.ts <= clock
    BY <1>0, <2>1, SeriesFacts DEF SeriesInv, Newest
  <2>3. Placed(frameTs)'
    BY <1>0, <2>1, SeriesFacts DEF Placed, Newest
  <2> QED
    BY <1>0, <1>3, <1>4, <2>1, <2>2, <2>3 DEF DashboardInv, FrameInv, PointsInv
<1>9. CASE CollectSparkline
  <2>1. /\ UNCHANGED <<clock, segments, frameTs>> /\ segments # <<>>
        /\ frameTs \in Nat /\ frameTs <= clock /\ Placed(frameTs)
    BY <1>0, <1>9 DEF CollectSparkline, FrameInv
  <2>2. PointsInv'
    BY <1>0, <1>9, <2>1, CollectStep
  <2>3. Placed(frameTs)'
    BY <2>1 DEF Placed
  <2> QED
    BY <1>0, <1>3, <2>1, <2>2, <2>3 DEF DashboardInv, FrameInv
<1>10. CASE CollectTable \/ PausedTable
  <2>1. UNCHANGED <<clock, segments, points, filter, custom>> /\ pc' = "idle"
    BY <1>10 DEF CollectTable, PausedTable, EndFrame
  <2> QED
    BY <1>0, <1>3, <1>4, <2>1 DEF DashboardInv, FrameInv, PointsInv
<1>11. CASE UNCHANGED vars
  <2>1. UNCHANGED <<clock, segments, points, filter, custom, pc, frameTs>>
    BY <1>11 DEF vars
  <2>2. Placed(frameTs) => Placed(frameTs)'
    BY <2>1 DEF Placed
  <2> QED
    BY <1>0, <1>3, <1>4, <2>1, <2>2 DEF DashboardInv, FrameInv, PointsInv
<1> QED
  BY <1>1, <1>2, <1>5, <1>6, <1>7, <1>8, <1>9, <1>10, <1>11 DEF Next

LEMMA DashboardInvariant == Spec => []DashboardInv
<1> QED
  BY InitInv, NextInv, PTL DEF Spec

\* The sparkline is a contiguous run of completed windows, for any pace of
\* frames, any capacity and any evictions (TrafficSparkline::collect).
THEOREM DashboardPointsContiguous == Spec => []PointsContiguous
<1>1. DashboardInv => PointsContiguous
  <2> SUFFICES ASSUME PointsPlaced PROVE PointsContiguous
    BY DEF DashboardInv, PointsInv
  <2>1. \A i \in 1 .. Len(points) : i > 1 => i \in 2 .. Len(points)
    BY PointFacts
  <2> QED
    BY <2>1 DEF PointsPlaced, PointsContiguous
<1> QED
  BY <1>1, DashboardInvariant, PTL

\* A point shows all the traffic of its segment, as counted by the filter under
\* which it was collected: no segment is read before it is complete, and none
\* changes afterwards.
THEOREM DashboardPointsFinal == Spec => []PointsFinal
<1>1. DashboardInv => PointsFinal
  BY DEF DashboardInv, PointsInv, PointsShow, PointsFinal, PointOf, CountedBy, DataPoint
<1> QED
  BY <1>1, DashboardInvariant, PTL

\* After a collection the points are those of the completed windows that the
\* store has, all of them, except the window at time 0.
THEOREM DashboardSparklineComplete == Spec => SparklineComplete
<1>1. DashboardInv /\ [Next]_vars =>
        [CollectSparkline =>
           {points'[i].ts : i \in 1 .. Len(points')} =
             {segments[j].ts : j \in 1 .. Len(segments) - 1} \ {0}]_vars
  <2> SUFFICES ASSUME DashboardInv, CollectSparkline
               PROVE  {points'[i].ts : i \in 1 .. Len(points')} =
                        {segments[j].ts : j \in 1 .. Len(segments) - 1} \ {0}
    OBVIOUS
  <2>1. segments # <<>>
    BY DEF DashboardInv, FrameInv, CollectSparkline
  <2> QED
    BY <2>1, CollectStep DEF DashboardInv
<1> QED
  BY <1>1, DashboardInvariant, PTL DEF Spec, SparklineComplete

-----------------------------------------------------------------------------
(* SocketTable::collect                                                    *)

\* The least index of a set of indices.
LEMMA MinIndex ==
  ASSUME NEW S, S \subseteq Nat, S # {}
  PROVE  Min(S) \in S /\ \A i \in S : Min(S) <= i
<1>1. \E x \in S : \A y \in S : x <= y
  BY Least
<1> QED
  BY <1>1 DEF Min

\* Where the rate window begins: less than a window before the frame's time
\* minus the rate window.
LEMMA RateUntilBound ==
  ASSUME frameTs \in Nat
  PROVE  RateUntil \in Nat /\ frameTs - RateWindow < RateUntil + Window
<1> DEFINE e == SaturatingElapsedSince(RateWindow, frameTs)
           x == Max({e, Window})
<1>0. Window \in Nat \ {0} /\ RateWindow \in Nat
  BY DashboardAssumption
<1>1. e \in Nat /\ frameTs - RateWindow <= e
  BY <1>0 DEF SaturatingElapsedSince
<1> HIDE DEF e
<1>2. x \in {e, Window} /\ e <= x
  <2>1. \E a \in {e, Window} : \A b \in {e, Window} : a >= b
    BY <1>0, <1>1
  <2>2. x \in {e, Window} /\ \A b \in {e, Window} : x >= b
    BY <2>1 DEF Max
  <2> QED
    BY <1>0, <1>1, <2>2
<1>3. x \in Nat
  BY <1>0, <1>1, <1>2
<1> HIDE DEF x
<1>4. Trunc(x, Window) \in Nat /\ x < Trunc(x, Window) + Window
  BY <1>0, <1>3, TruncBounds
<1>5. RateUntil = Trunc(x, Window)
  BY DEF RateUntil, x, e
<1> QED
  BY <1>0, <1>1, <1>2, <1>3, <1>4, <1>5

\* The rate-eligible segments are those from the first one on.
LEMMA EligibleShape ==
  ASSUME SeriesInv, frameTs \in Nat, RateEligible # {}
  PROVE  /\ Min(RateEligible) \in 1 .. Len(segments)
         /\ RateUntil <= segments[Min(RateEligible)].ts
         /\ RateEligible =
              {j \in 1 .. Len(segments) : segments[j].ts >= segments[Min(RateEligible)].ts}
<1> DEFINE N == Len(segments)
           f == Min(RateEligible)
<1>0. /\ N \in Nat /\ RateUntil \in Nat
      /\ \A i \in 1 .. N : segments[i].ts \in Nat
      /\ \A i, j \in 1 .. N : i < j => segments[i].ts < segments[j].ts
  BY SeriesFacts, RateUntilBound DEF SeriesInv
<1>1. /\ RateEligible \subseteq Collected /\ Collected \subseteq 1 .. N /\ RateEligible \subseteq Nat
      /\ \A i \in Collected : \A j \in i .. N : j \in Collected
  BY <1>0 DEF RateEligible, Collected
<1>2. f \in RateEligible /\ \A i \in RateEligible : f <= i
  BY <1>1, MinIndex
<1> HIDE DEF f
<1>3. f \in 1 .. N /\ f \in Collected /\ RateUntil <= segments[f].ts
  BY <1>1, <1>2 DEF RateEligible
<1>4. ASSUME NEW i \in RateEligible PROVE i \in 1 .. N /\ segments[i].ts >= segments[f].ts
  <2>1. i \in 1 .. N /\ (f = i \/ f < i)
    BY <1>1, <1>2, <1>3
  <2> QED
    BY <1>0, <1>3, <2>1
<1>5. ASSUME NEW i \in 1 .. N, segments[i].ts >= segments[f].ts PROVE i \in RateEligible
  <2>1. ~(i < f)
    BY <1>0, <1>3, <1>5
  <2>2. i \in f .. N
    BY <1>0, <1>3, <2>1
  <2>3. i \in Collected
    BY <1>1, <1>3, <2>2
  <2>4. RateUntil <= segments[i].ts
    BY <1>0, <1>3, <1>5
  <2> QED
    BY <2>3, <2>4 DEF RateEligible
<1>6. RateEligible = {j \in 1 .. N : segments[j].ts >= segments[f].ts}
  BY <1>4, <1>5
<1> QED
  BY <1>3, <1>6 DEF f

\* Segments are one window apart.
LEMMA WindowsApart ==
  ASSUME SeriesInv, NEW i \in 1 .. Len(segments)
  PROVE  \A j \in i .. Len(segments) : segments[j].ts = segments[i].ts + Window * (j - i)
<1> DEFINE N == Len(segments)
           T == {n \in Nat : i + n <= N => segments[i + n].ts = segments[i].ts + Window * n}
<1>0. /\ N \in Nat /\ Window \in Nat /\ i \in Nat
      /\ \A k \in 1 .. N : segments[k].ts \in Nat
      /\ \A k \in 2 .. N : segments[k].ts = segments[k - 1].ts + Window
  BY SeriesFacts, DashboardAssumption DEF SeriesInv
<1>1. 0 \in T
  BY <1>0
<1>2. ASSUME NEW n \in Nat, n \in T PROVE n + 1 \in T
  <2>1. SUFFICES ASSUME i + (n + 1) <= N
                 PROVE  segments[i + (n + 1)].ts = segments[i].ts + Window * (n + 1)
    OBVIOUS
  <2>2. i + (n + 1) \in 2 .. N /\ (i + (n + 1)) - 1 = i + n /\ i + n <= N
    BY <1>0, <2>1
  <2>3. segments[i + (n + 1)].ts = segments[i + n].ts + Window
    BY <1>0, <2>2
  <2>4. segments[i + n].ts = segments[i].ts + Window * n
    BY <1>2, <2>2
  <2>5. Window * (n + 1) = Window * n + Window /\ Window * n \in Nat /\ segments[i].ts \in Nat
    BY <1>0
  <2>6. (segments[i].ts + Window * n) + Window = segments[i].ts + (Window * n + Window)
    <3> DEFINE a == segments[i].ts
               b == Window * n
    <3>1. a \in Nat /\ b \in Nat /\ Window \in Nat
      BY <1>0, <2>5
    <3> HIDE DEF a, b
    <3>2. (a + b) + Window = a + (b + Window)
      BY <3>1
    <3> QED
      BY <3>2 DEF a, b
  <2> QED
    BY <2>3, <2>4, <2>5, <2>6, Zenon
<1> HIDE DEF T
<1>3. \A n \in Nat : n \in T
  BY <1>1, <1>2, NatInd
<1> SUFFICES ASSUME NEW j \in i .. N PROVE segments[j].ts = segments[i].ts + Window * (j - i)
  OBVIOUS
<1>4. j - i \in Nat /\ i + (j - i) = j /\ i + (j - i) <= N
  BY <1>0
<1>5. segments[i + (j - i)].ts = segments[i].ts + Window * (j - i)
  BY <1>3, <1>4 DEF T
<1> QED
  BY <1>4, <1>5

\* The traffic of two separate runs of segments adds up.
LEMMA TrafficSplit ==
  ASSUME SeriesInv, NEW I \in SUBSET (1 .. Len(segments)), NEW J \in SUBSET (1 .. Len(segments)),
         I \cap J = {}
  PROVE  \A X : Traffic(LogOf(I \cup J), X) = Traffic(LogOf(I), X) + Traffic(LogOf(J), X)
<1> SUFFICES ASSUME NEW X
             PROVE  Traffic(LogOf(I \cup J), X) = Traffic(LogOf(I), X) + Traffic(LogOf(J), X)
  OBVIOUS
<1> DEFINE Of(S) == {m \in LogOf(S) : m.sock \in X}
<1>1. ASSUME NEW S, S \subseteq 1 .. Len(segments) PROVE IsFiniteSet(Of(S))
  <2> DEFINE F == [j \in S |-> segments[j].log]
  <2>1. IsFiniteSet(1 .. Len(segments)) /\ S \in SUBSET (1 .. Len(segments))
    BY <1>1, SeriesFacts, FS_Interval
  <2>2. IsFiniteSet(S) /\ \A j \in S : IsFiniteSet(F[j])
    BY <1>1, <2>1, FS_Subset, SeriesFacts
  <2>3. \A j, k \in S : j # k => F[j] \cap F[k] = {}
    <3> SUFFICES ASSUME NEW j \in S, NEW k \in S, j # k
                 PROVE  segments[j].log \cap segments[k].log = {}
      OBVIOUS
    <3>1. j \in 1 .. Len(segments) /\ k \in 1 .. Len(segments) /\ (j < k \/ k < j)
      BY <1>1, SeriesFacts
    <3> QED
      BY <3>1 DEF SeriesInv
  <2>4. LogOf(S) = UNION {F[j] : j \in S}
    BY DEF LogOf
  <2> HIDE DEF F
  <2>5. IsFiniteSet(UNION {F[j] : j \in S})
    BY <2>2, <2>3, SumSizes
  <2>6. Of(S) \in SUBSET LogOf(S)
    OBVIOUS
  <2> QED
    BY <2>4, <2>5, <2>6, FS_Subset
<1>2. Of(I \cup J) = Of(I) \cup Of(J)
  BY DEF LogOf
<1>3. Of(I) \cap Of(J) = {}
  <2> SUFFICES ASSUME NEW m, m \in Of(I), m \in Of(J) PROVE FALSE
    OBVIOUS
  <2>1. PICK i \in I : m \in segments[i].log
    BY DEF LogOf
  <2>2. PICK j \in J : m \in segments[j].log
    BY DEF LogOf
  <2>3. i \in 1 .. Len(segments) /\ j \in 1 .. Len(segments) /\ (i < j \/ j < i)
    BY SeriesFacts
  <2>4. segments[i].log \cap segments[j].log = {}
    BY <2>3 DEF SeriesInv
  <2> QED
    BY <2>1, <2>2, <2>4
<1>4. IsFiniteSet(Of(I)) /\ IsFiniteSet(Of(J))
  BY <1>1
<1> HIDE DEF Of
<1>5. Cardinality(Of(I) \cup Of(J)) = Cardinality(Of(I)) + Cardinality(Of(J))
  <2>1. Cardinality(Of(I) \cup Of(J))
          = Cardinality(Of(I)) + Cardinality(Of(J)) - Cardinality(Of(I) \cap Of(J))
    BY <1>4, FS_Union
  <2>2. Cardinality(Of(I) \cap Of(J)) = 0
    BY <1>3, FS_EmptySet
  <2>3. Cardinality(Of(I)) \in Nat /\ Cardinality(Of(J)) \in Nat
    BY <1>4, FS_CardinalityType
  <2> QED
    BY <2>1, <2>2, <2>3
<1> QED
  BY <1>2, <1>5 DEF Traffic, Of

\* The segments inside and beyond the range of a rate.
Inside(a, b) == {j \in 1 .. Len(segments) : a <= segments[j].ts /\ segments[j].ts < b}
Beyond(b) == {j \in 1 .. Len(segments) : b <= segments[j].ts}

\* The range of a rate is as long as the completed windows that the rate counts;
\* what it counts besides is in the window of the frame and in later ones
\* (SocketTable::collect).
THEOREM DashboardRateCovers == Spec => RateCovers
<1> DEFINE Covers(a, b) ==
      b - a > 0 =>
        /\ b - a = Window * Cardinality(Inside(a, b))
        /\ b - a < RateWindow + Window
        /\ Beyond(b) # {}
        /\ \A s \in DOMAIN rows' :
             rows'[s].rate = Traffic(LogOf(Inside(a, b)), {s}) + Traffic(LogOf(Beyond(b)), {s})
<1>1. ASSUME DashboardInv, CollectTable PROVE Covers(range'.start, range'.end)
  <2> SUFFICES ASSUME range'.end - range'.start > 0 PROVE Covers(range'.start, range'.end)
    OBVIOUS
  <2>0. /\ SeriesInv /\ frameTs \in Nat /\ frameTs <= clock /\ clock \in Nat /\ Placed(frameTs)
        /\ Window \in Nat /\ RateWindow \in Nat
    BY <1>1, DashboardAssumption DEF DashboardInv, FrameInv, CollectTable, SeriesInv
  <2>1. /\ range' = [start |-> IF RateEligible = {} THEN frameTs ELSE segments[Min(RateEligible)].ts,
                     end |-> frameTs]
        /\ rows' = Entries
    BY <1>1 DEF CollectTable
  <2>2. range'.end = frameTs
    BY <2>1
  <2>3. RateEligible # {}
    <3>1. SUFFICES ASSUME RateEligible = {} PROVE FALSE
      OBVIOUS
    <3>2. range'.start = frameTs
      BY <2>1, <3>1
    <3> QED
      BY <2>0, <2>2, <3>2
  <2> DEFINE N == Len(segments)
             f == Min(RateEligible)
             start == segments[f].ts
  <2>4. range'.start = start
    BY <2>1, <2>3
  <2>5. /\ f \in 1 .. N /\ RateUntil <= start
        /\ RateEligible = {j \in 1 .. N : segments[j].ts >= start}
    BY <2>0, <2>3, EligibleShape
  <2>6. start \in Nat /\ RateUntil \in Nat /\ frameTs - RateWindow < RateUntil + Window
    BY <2>0, <2>5, SeriesFacts, RateUntilBound
  <2>7. \A s \in DOMAIN rows' : rows'[s].rate = Traffic(LogOf(RateEligible), {s})
    BY <2>1 DEF Entries
  <2> HIDE DEF f
  <2>8. N \in Nat /\ \A i \in 1 .. N : segments[i].ts \in Nat
    BY <2>0, SeriesFacts
  <2>9. PICK e \in 1 .. N : segments[e].ts = frameTs
    BY <2>0, <2>2, <2>4, <2>5, <2>6 DEF Placed
  <2>10. \A i, j \in 1 .. N : i < j => segments[i].ts < segments[j].ts
    BY <2>0 DEF SeriesInv
  <2>11. start < frameTs
    BY <2>0, <2>2, <2>4, <2>6
  <2>12. f < e
    BY <2>5, <2>8, <2>9, <2>10, <2>11
  <2>13. frameTs - start = Window * (e - f)
    <3>1. e \in f .. N
      BY <2>5, <2>8, <2>9, <2>12
    <3>2. segments[e].ts = start + Window * (e - f)
      BY <2>0, <2>5, <3>1, WindowsApart
    <3>3. Window * (e - f) \in Int
      BY <2>0, <2>5, <2>8, <3>1
    <3> HIDE DEF start
    <3> QED
      BY <2>6, <2>9, <3>2, <3>3
  <2>14. Inside(start, frameTs) = f .. e - 1
    <3>1. ASSUME NEW j \in Inside(start, frameTs) PROVE j \in f .. e - 1
      <4>1. j \in 1 .. N /\ start <= segments[j].ts /\ segments[j].ts < segments[e].ts
        BY <2>9, <3>1 DEF Inside
      <4>2. ~(j < f) /\ ~(e < j) /\ j # e
        BY <2>5, <2>8, <2>10, <4>1
      <4> QED
        BY <2>5, <2>8, <4>1, <4>2
    <3>2. ASSUME NEW j \in f .. e - 1 PROVE j \in Inside(start, frameTs)
      <4>1. j \in 1 .. N /\ (j = f \/ f < j) /\ j < e
        BY <2>5, <2>8, <2>9, <3>2
      <4>2. start <= segments[j].ts /\ segments[j].ts < frameTs
        BY <2>5, <2>8, <2>9, <2>10, <4>1
      <4> QED
        BY <4>1, <4>2 DEF Inside
    <3> QED
      BY <3>1, <3>2
  <2>15. Cardinality(Inside(start, frameTs)) = e - f
    <3>1. f \in Int /\ e - 1 \in Int /\ ~(f > e - 1)
      BY <2>5, <2>8, <2>9, <2>12
    <3>2. Cardinality(f .. e - 1) = (e - 1) - f + 1
      BY <3>1, FS_Interval
    <3> QED
      BY <2>14, <3>1, <3>2
  <2> HIDE DEF start
  <2>16. frameTs - start < RateWindow + Window
    BY <2>0, <2>5, <2>6
  <2>17. e \in Beyond(frameTs)
    BY <2>0, <2>9 DEF Beyond
  <2>18. RateEligible = Inside(start, frameTs) \cup Beyond(frameTs)
    <3>1. ASSUME NEW j \in 1 .. N
          PROVE  segments[j].ts >= start <=> \/ start <= segments[j].ts /\ segments[j].ts < frameTs
                                             \/ frameTs <= segments[j].ts
      BY <2>0, <2>6, <2>8, <2>11
    <3> QED
      BY <2>5, <3>1 DEF Inside, Beyond
  <2>19. Inside(start, frameTs) \cap Beyond(frameTs) = {}
    <3>1. \A j \in 1 .. N : ~(segments[j].ts < frameTs /\ frameTs <= segments[j].ts)
      BY <2>0, <2>8
    <3> QED
      BY <3>1 DEF Inside, Beyond
  <2>20. Inside(start, frameTs) \subseteq 1 .. N /\ Beyond(frameTs) \subseteq 1 .. N
    BY DEF Inside, Beyond
  <2>21. ASSUME NEW s
         PROVE  Traffic(LogOf(RateEligible), {s})
                  = Traffic(LogOf(Inside(start, frameTs)), {s}) + Traffic(LogOf(Beyond(frameTs)), {s})
    <3>1. \A X : Traffic(LogOf(Inside(start, frameTs) \cup Beyond(frameTs)), X)
                  = Traffic(LogOf(Inside(start, frameTs)), X) + Traffic(LogOf(Beyond(frameTs)), X)
      <4> HIDE DEF start
      <4>1. /\ Inside(start, frameTs) \in SUBSET (1 .. Len(segments))
            /\ Beyond(frameTs) \in SUBSET (1 .. Len(segments))
        BY <2>20
      <4> QED
        BY <2>0, <2>19, <4>1, TrafficSplit
    <3> QED
      BY <2>18, <3>1
  <2>22. Covers(start, frameTs)
    BY <2>7, <2>13, <2>15, <2>16, <2>17, <2>21
  <2> QED
    BY <2>2, <2>4, <2>22
<1>2. DashboardInv /\ [Next]_vars => [CollectTable => Covers(range'.start, range'.end)]_vars
  BY <1>1
<1>3. RateCovers <=> [][CollectTable => Covers(range'.start, range'.end)]_vars
  BY DEF RateCovers, Inside, Beyond
<1> HIDE DEF Covers
<1> QED
  BY <1>2, <1>3, DashboardInvariant, PTL DEF Spec

-----------------------------------------------------------------------------
(* The two widgets of a view                                               *)

\* The points whose segments the table collects, under the same custom filter.
Current ==
  {i \in 1 .. Len(points) :
     points[i].by = custom /\ \E j \in Collected : segments[j].ts = points[i].ts}

LEMMA CollectedLog ==
  ASSUME SeriesInv
  PROVE  /\ IsFiniteSet(LogOf(Collected)) /\ Collected \subseteq 1 .. Len(segments)
         /\ \A j \in Collected : segments[j].log \subseteq LogOf(Collected)
         /\ \A j, k \in Collected : j # k => segments[j].log \cap segments[k].log = {}
<1> DEFINE F == [j \in Collected |-> segments[j].log]
<1>1. Collected \subseteq 1 .. Len(segments)
  BY DEF Collected
<1>2. IsFiniteSet(Collected) /\ \A j \in Collected : IsFiniteSet(F[j])
  <2>1. IsFiniteSet(1 .. Len(segments))
    BY SeriesFacts, FS_Interval
  <2>2. IsFiniteSet(Collected)
    BY <1>1, <2>1, FS_Subset
  <2> QED
    BY <1>1, <2>2, SeriesFacts
<1>3. \A j, k \in Collected : j # k => segments[j].log \cap segments[k].log = {}
  <2> SUFFICES ASSUME NEW j \in Collected, NEW k \in Collected, j # k
               PROVE  segments[j].log \cap segments[k].log = {}
    OBVIOUS
  <2>1. j \in 1 .. Len(segments) /\ k \in 1 .. Len(segments) /\ (j < k \/ k < j)
    BY <1>1, SeriesFacts
  <2> QED
    BY <2>1 DEF SeriesInv
<1>4. LogOf(Collected) = UNION {F[j] : j \in Collected}
  BY DEF LogOf
<1>5. \A j \in Collected : segments[j].log \subseteq LogOf(Collected)
  BY DEF LogOf
<1>6. \A j, k \in Collected : j # k => F[j] \cap F[k] = {}
  BY <1>3
<1> HIDE DEF F
<1>7. IsFiniteSet(UNION {F[j] : j \in Collected})
  BY <1>2, <1>6, SumSizes
<1> QED
  BY <1>1, <1>3, <1>4, <1>5, <1>7

LEMMA TableCovers ==
  ASSUME SeriesInv, PointsInv
  PROVE  Sum([i \in Current |-> points[i].val], Current)
           <= Sum([s \in DOMAIN Entries |-> Entries[s].stat], DOMAIN Entries)
                + Traffic(LogOf(Collected), Strangers)
<1> DEFINE X == CountedBy(custom)
           J(i) == CHOOSE j \in Collected : segments[j].ts = points[i].ts
           Of(i) == {m \in segments[J(i)].log : m.sock \in X}
           By(s) == {m \in LogOf(Collected) : m.sock \in {s}}
           D == DOMAIN Entries
           F == [i \in Current |-> Of(i)]
           G == [s \in D |-> By(s)]
<1>1. X \subseteq Sockets /\ \A s \in X : Accepted(s) \/ s \in Strangers
  <2>1. custom \in Customs \cup {NoCustom} /\ Customs \subseteq SUBSET Sockets
    BY DashboardAssumption DEF PointsInv
  <2>2. CASE custom = NoCustom
    BY <2>2 DEF CountedBy, Accepted
  <2>3. CASE custom # NoCustom
    BY <2>1, <2>3 DEF CountedBy, Accepted, Strangers
  <2> QED
    BY <2>2, <2>3
<1> HIDE DEF X
<1>2. ASSUME NEW i \in Current
      PROVE  /\ i \in 1 .. Len(points)
             /\ J(i) \in Collected /\ segments[J(i)].ts = points[i].ts
             /\ points[i].val = Cardinality(Of(i)) /\ IsFiniteSet(Of(i))
  <2>1. i \in 1 .. Len(points) /\ points[i].by = custom
    BY DEF Current
  <2>2. \E j \in Collected : segments[j].ts = points[i].ts
    BY DEF Current
  <2>3. J(i) \in Collected /\ segments[J(i)].ts = points[i].ts
    BY <2>2
  <2> DEFINE j == J(i)
  <2> HIDE DEF J
  <2>4. j \in 1 .. Len(segments) /\ IsFiniteSet(segments[j].log)
    BY <2>3, CollectedLog, SeriesFacts
  <2>5. points[i] = PointOf(segments[j], custom)
    BY <2>1, <2>3, <2>4 DEF PointsInv, PointsShow
  <2>6. points[i].val = Cardinality(Of(i))
    BY <2>5 DEF PointOf, Traffic, X
  <2>7. Of(i) \in SUBSET segments[j].log
    OBVIOUS
  <2>8. IsFiniteSet(Of(i))
    BY <2>4, <2>7, FS_Subset
  <2> QED
    BY <2>1, <2>3, <2>6, <2>8
<1> HIDE DEF J
<1>3. ASSUME NEW i \in Current, NEW k \in Current, i # k PROVE F[i] \cap F[k] = {}
  <2>1. points[i].ts # points[k].ts
    <3>0. i \in 1 .. Len(points) /\ k \in 1 .. Len(points)
      BY DEF Current
    <3>1. i \in 1 .. Len(points) /\ k \in 1 .. Len(points) /\ (i < k \/ k < i)
      BY <1>3, <3>0
    <3>2. points[i].ts < points[k].ts \/ points[k].ts < points[i].ts
      BY <3>1 DEF PointsInv, PointsPlaced
    <3> QED
      BY <3>1, <3>2, PointFacts DEF PointsInv
  <2>2. J(i) # J(k)
    BY <1>2, <2>1
  <2>3. segments[J(i)].log \cap segments[J(k)].log = {}
    BY <1>2, <2>2, CollectedLog
  <2> QED
    BY <2>3
<1>4. IsFiniteSet(Current)
  <2>1. IsFiniteSet(1 .. Len(points)) /\ Current \in SUBSET (1 .. Len(points))
    BY PointFacts, FS_Interval DEF PointsInv, Current
  <2> QED
    BY <2>1, FS_Subset
<1>5. \A i \in Current : IsFiniteSet(F[i])
  BY <1>2
<1> DEFINE A == UNION {F[i] : i \in Current}
           B == UNION {G[s] : s \in D}
           C == {m \in LogOf(Collected) : m.sock \in Strangers}
<1>6. Sum([i \in Current |-> Cardinality(F[i])], Current) = Cardinality(A)
  <2> HIDE DEF F
  <2> QED
    BY <1>3, <1>4, <1>5, SumSizes
<1>7. /\ D = {s \in Sockets : {j \in Collected : Traffic(segments[j].log, {s}) > 0} # {} /\ Accepted(s)}
      /\ \A s \in D : Entries[s].stat = Cardinality(By(s))
  BY DEF Entries, Traffic
<1>8. IsFiniteSet(D)
  <2>1. IsFiniteSet(Sockets) /\ D \in SUBSET Sockets
    BY <1>7, DashboardAssumption
  <2> QED
    BY <2>1, FS_Subset
<1> HIDE DEF D
<1>9. \A s \in D : IsFiniteSet(G[s])
  BY CollectedLog, FS_Subset
<1>10. \A s, t \in D : s # t => G[s] \cap G[t] = {}
  OBVIOUS
<1>11. IsFiniteSet(B) /\ Sum([s \in D |-> Cardinality(G[s])], D) = Cardinality(B)
  <2> HIDE DEF G
  <2> QED
    BY <1>8, <1>9, <1>10, SumSizes
<1>12. A \subseteq B \cup C
  <2> SUFFICES ASSUME NEW i \in Current, NEW m \in Of(i), m \notin C PROVE m \in B
    OBVIOUS
  <2> DEFINE j == J(i)
             s == m.sock
             M == {n \in segments[j].log : n.sock \in {s}}
  <2>1. j \in Collected /\ m \in segments[j].log /\ s \in X
    BY <1>2
  <2>2. m \in LogOf(Collected) /\ IsFiniteSet(segments[j].log)
    BY <2>1, CollectedLog, SeriesFacts
  <2>3. m \in M /\ M \in SUBSET segments[j].log
    BY <2>1
  <2>4. IsFiniteSet(M) /\ M # {}
    BY <2>2, <2>3, FS_Subset
  <2> HIDE DEF M
  <2>5. Cardinality(M) \in Nat /\ Cardinality(M) # 0
    BY <2>4, FS_EmptySet, FS_CardinalityType
  <2>6. Traffic(segments[j].log, {s}) > 0
    BY <2>5 DEF M, Traffic
  <2>7. s \in Sockets /\ Accepted(s)
    <3>1. s \notin Strangers
      BY <2>2
    <3> HIDE DEF s
    <3> QED
      BY <1>1, <2>1, <3>1
  <2>8. s \in D
    BY <1>7, <2>1, <2>6, <2>7
  <2> QED
    BY <2>2, <2>8
<1>13. Cardinality(A) <= Cardinality(B) + Cardinality(C)
  <2>1. IsFiniteSet(C)
    BY CollectedLog, FS_Subset
  <2> HIDE DEF A, B, C
  <2>2. /\ IsFiniteSet(B \cup C)
        /\ Cardinality(B \cup C) = Cardinality(B) + Cardinality(C) - Cardinality(B \cap C)
    BY <1>11, <2>1, FS_Union
  <2>3. IsFiniteSet(B \cap C)
    BY <1>11, FS_Subset
  <2>4. Cardinality(A) <= Cardinality(B \cup C) /\ IsFiniteSet(A)
    BY <1>12, <2>2, FS_Subset
  <2>5. /\ Cardinality(A) \in Nat /\ Cardinality(B) \in Nat /\ Cardinality(C) \in Nat
        /\ Cardinality(B \cap C) \in Nat
    BY <1>11, <2>1, <2>3, <2>4, FS_CardinalityType
  <2> QED
    BY <2>2, <2>4, <2>5
<1>14. [i \in Current |-> points[i].val] = [i \in Current |-> Cardinality(F[i])]
  BY <1>2
<1>15. [s \in D |-> Entries[s].stat] = [s \in D |-> Cardinality(G[s])]
  BY <1>7
<1>16. Traffic(LogOf(Collected), Strangers) = Cardinality(C)
  BY DEF Traffic
<1> HIDE DEF C
<1> QED
  BY <1>6, <1>11, <1>13, <1>14, <1>15, <1>16 DEF D

\* The table accounts for every point of the sparkline that it could still
\* collect, but for what the sparkline counts of other processes when a custom
\* filter meets the filter of a view.
THEOREM DashboardTableCoversPoints == Spec => TableCoversPoints
<1>1. DashboardInv /\ [Next]_vars =>
        [CollectTable =>
           LET current == {i \in 1 .. Len(points) :
                             /\ points[i].by = custom
                             /\ \E j \in Collected : segments[j].ts = points[i].ts}
           IN  SumFunction([i \in current |-> points[i].val])
                 <= SumFunction([s \in DOMAIN rows' |-> rows'[s].stat])
                      + Traffic(LogOf(Collected), Strangers)]_vars
  <2> SUFFICES ASSUME DashboardInv, CollectTable
               PROVE  SumFunction([i \in Current |-> points[i].val])
                        <= SumFunction([s \in DOMAIN rows' |-> rows'[s].stat])
                             + Traffic(LogOf(Collected), Strangers)
    BY DEF Current
  <2>1. rows' = Entries
    BY DEF CollectTable
  <2>2. /\ DOMAIN [i \in Current |-> points[i].val] = Current
        /\ DOMAIN [s \in DOMAIN Entries |-> Entries[s].stat] = DOMAIN Entries
    OBVIOUS
  <2>3. Sum([i \in Current |-> points[i].val], Current)
          <= Sum([s \in DOMAIN Entries |-> Entries[s].stat], DOMAIN Entries)
               + Traffic(LogOf(Collected), Strangers)
    BY TableCovers DEF DashboardInv
  <2> QED
    BY <2>1, <2>2, <2>3 DEF SumFunction, Sum
<1> QED
  BY <1>1, DashboardInvariant, PTL DEF Spec, TableCoversPoints

=============================================================================
