--------------------------- MODULE SegmentProofs ---------------------------
(***************************************************************************)
(* Theorems about module Segment, for any number of CPUs, any messages and *)
(* any filters.                                                            *)
(***************************************************************************)
EXTENDS Segment, NumberProofs

\* The index and the set of sockets; all of an index is of known kinds.
IndexTyped(ix) ==
  /\ IsFiniteSet(DOMAIN ix) /\ DOMAIN ix \subseteq Interests
  /\ \A i \in DOMAIN ix : ix[i] \in Stat

SocksTyped ==
  /\ IsFiniteSet(DOMAIN socks) /\ DOMAIN socks \subseteq Locals
  /\ \A l \in DOMAIN socks : socks[l] \in Sockets /\ socks[l].local = l

\* A CPU that works on a message has put its socket into the set.
CpusTyped ==
  /\ pos \in [Cpus -> 0 .. 5] /\ msg \in [Cpus -> Messages \cup {NoMsg}]
  /\ \A c \in Cpus : pos[c] # 0 =>
       msg[c] \in Messages /\ msg[c].ret \in Nat /\ msg[c].local \in DOMAIN socks

\* Traffic of a local address comes with its socket.
Covered(ix, locals) == \A l : LocalSocket(l) \in DOMAIN ix => l \in locals

WriterInv ==
  /\ IndexTyped(index) /\ SocksTyped /\ CpusTyped
  /\ count \in 0 .. MaxUpdates /\ Covered(index, DOMAIN socks)

-----------------------------------------------------------------------------
(* The operators                                                           *)

LEMMA EmptyFacts == DOMAIN Empty = {} /\ IsFiniteSet(DOMAIN Empty)
BY FS_EmptySet DEF Empty

LEMMA StatFacts ==
  ASSUME NEW stat \in Stat
  PROVE  Total(stat) \in Nat /\ StatLeq(stat, stat)
BY DEF Stat, Total, StatLeq

LEMMA NoStatFacts ==
  NoStat \in Stat /\ Total(NoStat) = 0 /\ \A stat \in Stat : StatLeq(NoStat, stat)
BY DEF NoStat, Stat, Total, StatLeq

LEMMA StatLeqTotal ==
  ASSUME NEW a \in Stat, NEW b \in Stat, StatLeq(a, b)
  PROVE  Total(a) <= Total(b)
BY DEF Stat, Total, StatLeq

LEMMA StatLeqTransitive ==
  ASSUME NEW a \in Stat, NEW b \in Stat, NEW c \in Stat, StatLeq(a, b), StatLeq(b, c)
  PROVE  StatLeq(a, c)
BY DEF Stat, StatLeq

\* A packet adds its size to the total and takes nothing away.
LEMMA IncrementFacts ==
  ASSUME NEW stat \in Stat, NEW channel, NEW len \in Nat
  PROVE  /\ Increment(stat, channel, len) \in Stat
         /\ Total(Increment(stat, channel, len)) = Total(stat) + len
         /\ StatLeq(stat, Increment(stat, channel, len))
<1>0. /\ stat.rx \in Nat /\ stat.rxCount \in Nat /\ stat.tx \in Nat /\ stat.txCount \in Nat
  BY DEF Stat
<1>1. CASE channel = "Rx"
  <2> DEFINE u == [stat EXCEPT !.rx = stat.rx + len]
             v == [u EXCEPT !.rxCount = stat.rxCount + 1]
  <2>1. Increment(stat, channel, len) = v
    BY <1>1 DEF Increment, Stat
  <2>2. /\ v.rx = stat.rx + len /\ v.rxCount = stat.rxCount + 1
        /\ v.tx = stat.tx /\ v.txCount = stat.txCount
    BY DEF Stat
  <2>3. u \in Stat
    BY <1>0 DEF Stat
  <2> HIDE DEF u
  <2>4. v \in Stat
    BY <1>0, <2>3 DEF Stat
  <2> HIDE DEF v
  <2> QED
    BY <1>0, <2>1, <2>2, <2>4 DEF Total, StatLeq
<1>2. CASE channel # "Rx"
  <2> DEFINE u == [stat EXCEPT !.tx = stat.tx + len]
             v == [u EXCEPT !.txCount = stat.txCount + 1]
  <2>1. Increment(stat, channel, len) = v
    BY <1>2 DEF Increment, Stat
  <2>2. /\ v.tx = stat.tx + len /\ v.txCount = stat.txCount + 1
        /\ v.rx = stat.rx /\ v.rxCount = stat.rxCount
    BY DEF Stat
  <2>3. u \in Stat
    BY <1>0 DEF Stat
  <2> HIDE DEF u
  <2>4. v \in Stat
    BY <1>0, <2>3 DEF Stat
  <2> HIDE DEF v
  <2> QED
    BY <1>0, <2>1, <2>2, <2>4 DEF Total, StatLeq
<1> QED
  BY <1>1, <1>2

LEMMA StatByInterestFacts ==
  ASSUME NEW ix, IndexTyped(ix), NEW i
  PROVE  StatByInterest(ix, i) \in Stat
BY NoStatFacts DEF StatByInterest, IndexTyped

\* The kind of the n-th interest of a message.
Kind == <<"Pid", "LocalSocket", "RemoteSocket", "RemoteIp", "All">>

LEMMA KindFacts ==
  ASSUME NEW m \in Messages, NEW n \in 1 .. 5
  PROVE  /\ InterestsFromMsg(m)[n] \in Interests
         /\ InterestsFromMsg(m)[n][1] = Kind[n]
         /\ \A l : InterestsFromMsg(m)[n] = LocalSocket(l) => n = 2 /\ l = m.local
<1>1. InterestsFromMsg(m)[n] \in Interests
  BY DEF Interests
<1>2. n = 1 \/ n = 2 \/ n = 3 \/ n = 4 \/ n = 5
  OBVIOUS
<1>3. InterestsFromMsg(m)[n][1] = Kind[n]
  BY <1>2 DEF InterestsFromMsg, Kind, PidOf, LocalSocket, RemoteSocket, RemoteIp, All
<1>4. ASSUME NEW l, InterestsFromMsg(m)[n] = LocalSocket(l)
      PROVE  n = 2 /\ l = m.local
  <2>1. Kind[n] = "LocalSocket"
    BY <1>3, <1>4 DEF LocalSocket
  <2>2. n = 2
    BY <1>2, <2>1 DEF Kind
  <2>3. LocalSocket(m.local) = LocalSocket(l)
    BY <1>4, <2>2 DEF InterestsFromMsg
  <2> QED
    BY <2>2, <2>3 DEF LocalSocket
<1> QED
  BY <1>1, <1>3, <1>4

\* The interest that CPU c updates next.
NextInterest(c) == InterestsFromMsg(msg[c])[pos[c]]

\* What one update does to the index.
LEMMA UpdateEffect ==
  ASSUME WriterInv, NEW c \in Cpus, UpdateIndex(c), NEW i, i = NextInterest(c)
  PROVE  /\ pos[c] \in 1 .. 5 /\ msg[c] \in Messages /\ msg[c].ret \in Nat
         /\ i \in Interests /\ i[1] = Kind[pos[c]]
         /\ DOMAIN index' = DOMAIN index \cup {i}
         /\ Total(index'[i]) =
              (IF i \in DOMAIN index THEN Total(index[i]) ELSE 0) + msg[c].ret
         /\ \A j \in DOMAIN index : j # i => index'[j] = index[j]
         /\ IndexTyped(index')
         /\ \A j : StatLeq(StatByInterest(index, j), StatByInterest(index', j))
<1> DEFINE m == msg[c]
<1>1. pos[c] \in 1 .. 5 /\ m \in Messages /\ m.ret \in Nat
  BY DEF UpdateIndex, WriterInv, CpusTyped
<1>2. index' = Put(index, i, Increment(StatByInterest(index, i), m.channel, m.ret))
  BY DEF UpdateIndex, NextInterest
<1>3. i \in Interests /\ i[1] = Kind[pos[c]]
  BY <1>1, KindFacts DEF NextInterest
<1>4. IndexTyped(index)
  BY DEF WriterInv
<1> HIDE DEF m
<1> DEFINE s == StatByInterest(index, i)
           v == Increment(s, m.channel, m.ret)
<1>5. s \in Stat /\ (i \in DOMAIN index => s = index[i]) /\ (i \notin DOMAIN index => s = NoStat)
  BY <1>4, StatByInterestFacts DEF StatByInterest
<1> HIDE DEF s
<1>6. v \in Stat /\ Total(v) = Total(s) + m.ret /\ StatLeq(s, v)
  BY <1>1, <1>5, IncrementFacts
<1>7. v = Increment(StatByInterest(index, i), m.channel, m.ret)
  BY DEF s
<1> HIDE DEF v
<1>8. /\ DOMAIN index' = DOMAIN index \cup {i} /\ index'[i] = v
      /\ \A j \in DOMAIN index : j # i => index'[j] = index[j]
  <2>1. index' = Put(index, i, v)
    BY <1>2, <1>7
  <2> QED
    BY <2>1 DEF Put
<1>9. Total(v) = (IF i \in DOMAIN index THEN Total(index[i]) ELSE 0) + m.ret
  BY <1>5, <1>6, NoStatFacts
<1>10. IndexTyped(index')
  <2>1. IsFiniteSet(DOMAIN index')
    BY <1>4, <1>8, FS_AddElement DEF IndexTyped
  <2> QED
    BY <1>3, <1>4, <1>6, <1>8, <2>1 DEF IndexTyped
<1>11. ASSUME NEW j PROVE StatLeq(StatByInterest(index, j), StatByInterest(index', j))
  <2>1. CASE j = i
    <3>1. StatByInterest(index', j) = v
      BY <1>8, <2>1 DEF StatByInterest
    <3> QED
      BY <1>6, <2>1, <3>1 DEF s
  <2>2. CASE j # i
    <3>1. StatByInterest(index', j) = StatByInterest(index, j)
      BY <1>8, <2>2 DEF StatByInterest
    <3> QED
      BY <1>4, <3>1, StatByInterestFacts, StatFacts
  <2> QED
    BY <2>1, <2>2
<1> QED
  BY <1>1, <1>3, <1>6, <1>7, <1>8, <1>9, <1>10, <1>11 DEF m

-----------------------------------------------------------------------------
(* The writers                                                             *)

LEMMA WriterInit ==
  ASSUME Init
  PROVE  WriterInv
<1>1. IndexTyped(index) /\ SocksTyped /\ Covered(index, DOMAIN socks)
  BY EmptyFacts DEF Init, IndexTyped, SocksTyped, Covered
<1>2. CpusTyped
  BY DEF Init, CpusTyped
<1>3. count \in 0 .. MaxUpdates
  BY SegmentAssumption DEF Init
<1> QED
  BY <1>1, <1>2, <1>3 DEF WriterInv

\* Each update is one of three; the walk writes nothing.
LEMMA WriterStep ==
  ASSUME WriterInv, [Next]_vars
  PROVE  WriterInv'
<1>0. /\ IndexTyped(index) /\ SocksTyped /\ CpusTyped
      /\ count \in 0 .. MaxUpdates /\ Covered(index, DOMAIN socks) /\ MaxUpdates \in Nat
  BY SegmentAssumption DEF WriterInv
<1>1. ASSUME NEW c \in Cpus, UpdateIndex(c) PROVE WriterInv'
  <2>1. /\ pos[c] \in 1 .. 5 /\ msg[c] \in Messages
        /\ DOMAIN index' = DOMAIN index \cup {NextInterest(c)} /\ IndexTyped(index')
    BY <1>1, UpdateEffect
  <2>2. /\ pos' = [pos EXCEPT ![c] = IF @ = 5 THEN 0 ELSE @ + 1]
        /\ msg' = [msg EXCEPT ![c] = IF pos[c] = 5 THEN NoMsg ELSE @]
        /\ socks' = socks /\ count' = count
    BY <1>1 DEF UpdateIndex
  <2>3. Covered(index', DOMAIN socks')
    <3>1. msg[c].local \in DOMAIN socks
      BY <1>0, <2>1 DEF CpusTyped
    <3>2. \A l : NextInterest(c) = LocalSocket(l) => l = msg[c].local
      BY <2>1, KindFacts DEF NextInterest
    <3> QED
      BY <1>0, <2>1, <2>2, <3>1, <3>2 DEF Covered
  <2>4. CpusTyped'
    <3>1. pos' \in [Cpus -> 0 .. 5] /\ msg' \in [Cpus -> Messages \cup {NoMsg}]
      BY <1>0, <2>1, <2>2 DEF CpusTyped
    <3>2. ASSUME NEW d \in Cpus, pos'[d] # 0 PROVE pos[d] # 0 /\ msg'[d] = msg[d]
      BY <1>0, <2>1, <2>2, <3>2 DEF CpusTyped
    <3> QED
      BY <1>0, <2>2, <3>1, <3>2 DEF CpusTyped
  <2>5. SocksTyped'
    BY <1>0, <2>2 DEF SocksTyped
  <2> QED
    BY <1>0, <2>1, <2>2, <2>3, <2>4, <2>5 DEF WriterInv
<1>2. ASSUME NEW c \in Cpus, NEW m \in Messages, SkipMessage(c, m) PROVE WriterInv'
  <2>1. /\ count < MaxUpdates /\ count' = count + 1
        /\ UNCHANGED <<index, socks, msg, pos>>
    BY <1>2 DEF SkipMessage, Take
  <2>2. count' \in 0 .. MaxUpdates
    BY <1>0, <2>1
  <2> QED
    BY <1>0, <2>1, <2>2 DEF WriterInv, SocksTyped, CpusTyped
<1>3. ASSUME NEW c \in Cpus, NEW m \in Messages, InsertSocket(c, m) PROVE WriterInv'
  <2>1. /\ count < MaxUpdates /\ count' = count + 1 /\ pos[c] = 0
        /\ m.ret >= 0 /\ socks' = WithSocket(socks, SocketOf(m))
        /\ msg' = [msg EXCEPT ![c] = m] /\ pos' = [pos EXCEPT ![c] = 1]
        /\ index' = index
    BY <1>3 DEF InsertSocket, Take
  <2>2. count' \in 0 .. MaxUpdates /\ m.ret \in Nat
    BY <1>0, <2>1, SegmentAssumption
  <2>3. /\ SocketOf(m) \in Sockets /\ SocketOf(m).local = m.local /\ m.local \in Locals
    BY DEF Sockets, Locals, SocketOf
  <2>4. /\ DOMAIN socks' = DOMAIN socks \cup {m.local}
        /\ \A l \in DOMAIN socks : socks'[l] = socks[l]
        /\ m.local \notin DOMAIN socks => socks'[m.local] = SocketOf(m)
    <3>1. CASE m.local \in DOMAIN socks
      BY <2>1, <2>3, <3>1 DEF WithSocket
    <3>2. CASE m.local \notin DOMAIN socks
      <4>1. socks' = Put(socks, m.local, SocketOf(m))
        BY <2>1, <2>3, <3>2 DEF WithSocket
      <4> QED
        BY <3>2, <4>1 DEF Put
    <3> QED
      BY <3>1, <3>2
  <2>5. SocksTyped'
    <3>1. IsFiniteSet(DOMAIN socks')
      BY <1>0, <2>4, FS_AddElement DEF SocksTyped
    <3> QED
      BY <1>0, <2>3, <2>4, <3>1 DEF SocksTyped
  <2>6. CpusTyped'
    <3>1. pos' \in [Cpus -> 0 .. 5] /\ msg' \in [Cpus -> Messages \cup {NoMsg}]
      BY <1>0, <2>1 DEF CpusTyped
    <3>2. ASSUME NEW d \in Cpus, pos'[d] # 0
          PROVE  msg'[d] \in Messages /\ msg'[d].ret \in Nat /\ msg'[d].local \in DOMAIN socks'
      BY <1>0, <2>1, <2>2, <2>4, <3>2 DEF CpusTyped
    <3> QED
      BY <3>1, <3>2 DEF CpusTyped
  <2>7. Covered(index', DOMAIN socks')
    BY <1>0, <2>1, <2>4 DEF Covered
  <2> QED
    BY <1>0, <2>1, <2>2, <2>5, <2>6, <2>7 DEF WriterInv
<1>4. CASE UNCHANGED writerVars
  BY <1>4 DEF writerVars, WriterInv, SocksTyped, CpusTyped
<1> QED
  BY <1>1, <1>2, <1>3, <1>4
  DEF Next, vars, writerVars, StartWalk, VisitSocket, EndWalk

\* SocksCover always holds: batch_update inserts the socket before it counts
\* its traffic, so the table finds the socket of whatever traffic there is.
THEOREM SegmentSocksCover == Spec => []SocksCover
<1>1. WriterInv => SocksCover
  BY DEF WriterInv, Covered, SocksCover
<1> QED
  BY <1>1, WriterInit, WriterStep, PTL DEF Spec

-----------------------------------------------------------------------------
(* The totals of the five kinds                                            *)

Bytes(ix) == [i \in DOMAIN ix |-> Total(ix[i])]

\* Bytes of the messages that are about to be counted under their n-th
\* interest.
InFlight(n) == [c \in Cpus |-> IF pos[c] = n THEN msg[c].ret ELSE 0]
Flight(n) == Sum(InFlight(n), Cpus)

\* The totals of two successive kinds differ by what is between them.
KindSteps ==
  \A n \in 1 .. 4 :
    KindTotal(index, Kind[n]) = KindTotal(index, Kind[n + 1]) + Flight(n + 1)

LEMMA KindTotalSum ==
  ASSUME NEW ix, IndexTyped(ix), NEW kind
  PROVE  /\ KindTotal(ix, kind) = Sum(Bytes(ix), OfKind(ix, kind))
         /\ IsNatOn(Bytes(ix), OfKind(ix, kind))
         /\ KindTotal(ix, kind) \in Nat
<1>1. KindTotal(ix, kind) = Sum(Bytes(ix), OfKind(ix, kind))
  BY DEF KindTotal, Sum, Bytes
<1>2. IsFiniteSet(OfKind(ix, kind))
  BY FS_Subset DEF OfKind, IndexTyped
<1>3. IsNatOn(Bytes(ix), OfKind(ix, kind))
  BY <1>2, StatFacts DEF IsNatOn, Bytes, OfKind, IndexTyped
<1> QED
  BY <1>1, <1>3, SumNat

\* An update adds the message to the total of one kind.
LEMMA KindTotalStep ==
  ASSUME WriterInv, NEW c \in Cpus, UpdateIndex(c), NEW kind
  PROVE  KindTotal(index', kind) =
           KindTotal(index, kind) + IF kind = Kind[pos[c]] THEN msg[c].ret ELSE 0
<1> DEFINE S == OfKind(index, kind)
<1>1. PICK i : i = NextInterest(c)
  OBVIOUS
<1>2. /\ msg[c].ret \in Nat
      /\ i[1] = Kind[pos[c]]
      /\ DOMAIN index' = DOMAIN index \cup {i}
      /\ Total(index'[i]) = (IF i \in DOMAIN index THEN Total(index[i]) ELSE 0) + msg[c].ret
      /\ \A j \in DOMAIN index : j # i => index'[j] = index[j]
      /\ IndexTyped(index') /\ IndexTyped(index)
  BY <1>1, UpdateEffect DEF WriterInv
<1>3. /\ KindTotal(index, kind) = Sum(Bytes(index), S) /\ IsNatOn(Bytes(index), S)
      /\ KindTotal(index', kind) = Sum(Bytes(index'), OfKind(index', kind))
      /\ IsNatOn(Bytes(index'), OfKind(index', kind))
      /\ KindTotal(index, kind) \in Nat
  BY <1>2, KindTotalSum
<1>4. CASE kind = Kind[pos[c]]
  <2>1. OfKind(index', kind) = S \cup {i}
    BY <1>2, <1>4 DEF OfKind
  <2>2. /\ Bytes(index')[i] = (IF i \in S THEN Bytes(index)[i] ELSE 0) + msg[c].ret
        /\ \A j \in S \ {i} : Bytes(index')[j] = Bytes(index)[j]
    BY <1>2, <1>4 DEF Bytes, OfKind
  <2> HIDE DEF S
  <2>3. Sum(Bytes(index'), S \cup {i}) = Sum(Bytes(index), S) + msg[c].ret
    <3>1. CASE i \in S
      <4>1. S \cup {i} = S /\ IsNatOn(Bytes(index'), S)
        BY <1>3, <2>1, <3>1
      <4>2. Sum(Bytes(index'), S) + Bytes(index)[i] = Sum(Bytes(index), S) + Bytes(index')[i]
        BY <1>3, <2>2, <3>1, <4>1, SumChange
      <4>3. Bytes(index)[i] \in Nat /\ Bytes(index')[i] = Bytes(index)[i] + msg[c].ret
        BY <1>3, <2>2, <3>1 DEF IsNatOn
      <4>4. Sum(Bytes(index'), S) \in Nat /\ Sum(Bytes(index), S) \in Nat
        BY <1>3, <4>1, SumNat
      <4>5. msg[c].ret \in Nat
        BY <1>2
      <4>6. Sum(Bytes(index'), S) = Sum(Bytes(index), S) + msg[c].ret
        BY <4>2, <4>3, <4>4, <4>5
      <4> QED
        BY <4>1, <4>6
    <3>2. CASE i \notin S
      <4>1. \A j \in S : Bytes(index)[j] = Bytes(index')[j]
        BY <2>2, <3>2
      <4>2. IsNatOn(Bytes(index'), S) /\ Bytes(index')[i] = msg[c].ret
        BY <1>2, <1>3, <2>2, <3>2, <4>1 DEF IsNatOn
      <4>3. Sum(Bytes(index), S) = Sum(Bytes(index'), S)
        BY <1>3, <4>1, SumEqual
      <4>4. Sum(Bytes(index'), S \cup {i}) = Sum(Bytes(index'), S) + Bytes(index')[i]
        BY <1>2, <3>2, <4>2, SumAdd
      <4> QED
        BY <4>2, <4>3, <4>4
    <3> QED
      BY <3>1, <3>2
  <2> QED
    BY <1>3, <1>4, <2>1, <2>3
<1>5. CASE kind # Kind[pos[c]]
  <2>1. OfKind(index', kind) = S
    BY <1>2, <1>5 DEF OfKind
  <2>2. \A j \in S : Bytes(index)[j] = Bytes(index')[j]
    BY <1>2, <1>5 DEF Bytes, OfKind
  <2> HIDE DEF S
  <2>3. Sum(Bytes(index'), S) = Sum(Bytes(index), S)
    BY <1>3, <2>2, SumEqual
  <2> QED
    BY <1>3, <1>5, <2>1, <2>3
<1> QED
  BY <1>4, <1>5

LEMMA FlightNat ==
  ASSUME CpusTyped, NEW n \in 1 .. 5
  PROVE  IsNatOn(InFlight(n), Cpus) /\ Flight(n) \in Nat
<1>1. \A c \in Cpus : InFlight(n)[c] \in Nat
  BY DEF InFlight, CpusTyped
<1>2. IsNatOn(InFlight(n), Cpus)
  BY <1>1, SegmentAssumption DEF IsNatOn
<1> QED
  BY <1>2, SumNat DEF Flight

\* A CPU goes on: what it had in flight is one kind further.
LEMMA FlightStep ==
  ASSUME CpusTyped, CpusTyped', NEW c \in Cpus, NEW n \in 1 .. 5,
         \A d \in Cpus \ {c} : pos'[d] = pos[d] /\ msg'[d] = msg[d]
  PROVE  /\ Flight(n)' + InFlight(n)[c] = Flight(n) + InFlight(n)'[c]
         /\ Flight(n)' \in Nat
<1>1. IsNatOn(InFlight(n), Cpus) /\ IsNatOn(InFlight(n)', Cpus)
  <2>1. IsNatOn(InFlight(n), Cpus)
    BY FlightNat
  <2>2. \A d \in Cpus : InFlight(n)'[d] \in Nat
    BY DEF InFlight, CpusTyped
  <2> QED
    BY <2>1, <2>2 DEF IsNatOn
<1>2. \A d \in Cpus \ {c} : InFlight(n)[d] = InFlight(n)'[d]
  BY DEF InFlight
<1>3. Flight(n)' = Sum(InFlight(n)', Cpus)
  BY DEF Flight
<1> QED
  BY <1>1, <1>2, <1>3, SumChange, SumNat DEF Flight

LEMMA KindStepsInit ==
  ASSUME Init
  PROVE  KindSteps
<1>1. ASSUME NEW kind PROVE KindTotal(index, kind) = 0
  <2>1. index = Empty /\ OfKind(index, kind) = {}
    BY EmptyFacts DEF Init, OfKind
  <2> QED
    BY <2>1, SumEmpty DEF KindTotal, Sum
<1>2. ASSUME NEW n \in 2 .. 5 PROVE Flight(n) = 0
  <2>1. \A c \in Cpus : InFlight(n)[c] = 0
    BY DEF Init, InFlight
  <2> QED
    BY <2>1, SumZero, SegmentAssumption DEF Flight
<1> QED
  BY <1>1, <1>2 DEF KindSteps

LEMMA KindStepsStep ==
  ASSUME WriterInv, WriterInv', KindSteps, [Next]_vars
  PROVE  KindSteps'
<1>0. CpusTyped /\ CpusTyped' /\ IndexTyped(index)
  BY DEF WriterInv
<1>1. ASSUME NEW c \in Cpus, UpdateIndex(c) PROVE KindSteps'
  <2> SUFFICES ASSUME NEW n \in 1 .. 4
               PROVE  KindTotal(index', Kind[n]) = KindTotal(index', Kind[n + 1]) + Flight(n + 1)'
    BY DEF KindSteps
  <2>1. /\ pos[c] \in 1 .. 5 /\ msg[c].ret \in Nat
        /\ pos' = [pos EXCEPT ![c] = IF @ = 5 THEN 0 ELSE @ + 1]
        /\ msg' = [msg EXCEPT ![c] = IF pos[c] = 5 THEN NoMsg ELSE @]
    BY <1>1, UpdateEffect DEF UpdateIndex
  <2>2. /\ pos'[c] = (IF pos[c] = 5 THEN 0 ELSE pos[c] + 1)
        /\ msg'[c] = (IF pos[c] = 5 THEN NoMsg ELSE msg[c])
        /\ \A d \in Cpus \ {c} : pos'[d] = pos[d] /\ msg'[d] = msg[d]
    BY <1>0, <2>1 DEF CpusTyped
  <2>3. /\ Flight(n + 1)' + InFlight(n + 1)[c] = Flight(n + 1) + InFlight(n + 1)'[c]
        /\ Flight(n + 1)' \in Nat
    BY <1>0, <2>2, FlightStep
  <2>4. /\ InFlight(n + 1)[c] = (IF pos[c] = n + 1 THEN msg[c].ret ELSE 0)
        /\ InFlight(n + 1)'[c] = (IF pos[c] = n THEN msg[c].ret ELSE 0)
    BY <2>1, <2>2 DEF InFlight
  <2>5. /\ KindTotal(index', Kind[n]) =
             KindTotal(index, Kind[n]) + IF Kind[n] = Kind[pos[c]] THEN msg[c].ret ELSE 0
        /\ KindTotal(index', Kind[n + 1]) =
             KindTotal(index, Kind[n + 1])
               + IF Kind[n + 1] = Kind[pos[c]] THEN msg[c].ret ELSE 0
    BY <1>1, KindTotalStep
  <2>6. /\ Kind[n] = Kind[pos[c]] <=> pos[c] = n
        /\ Kind[n + 1] = Kind[pos[c]] <=> pos[c] = n + 1
    <3>1. pos[c] \in {1, 2, 3, 4, 5} /\ n \in {1, 2, 3, 4}
      BY <2>1
    <3> QED
      BY <3>1 DEF Kind
  <2>7. KindTotal(index, Kind[n]) = KindTotal(index, Kind[n + 1]) + Flight(n + 1)
    BY DEF KindSteps
  <2>8. /\ KindTotal(index, Kind[n]) \in Nat /\ KindTotal(index, Kind[n + 1]) \in Nat
        /\ Flight(n + 1) \in Nat
    BY <1>0, KindTotalSum, FlightNat
  <2>9. pos[c] \in Nat /\ n \in Nat
    BY <2>1
  <2>10. CASE pos[c] = n
    BY <2>1, <2>3, <2>4, <2>5, <2>6, <2>7, <2>8, <2>9, <2>10
  <2>11. CASE pos[c] = n + 1
    BY <2>1, <2>3, <2>4, <2>5, <2>6, <2>7, <2>8, <2>9, <2>11
  <2>12. CASE pos[c] # n /\ pos[c] # n + 1
    BY <2>1, <2>3, <2>4, <2>5, <2>6, <2>7, <2>8, <2>9, <2>12
  <2> QED
    BY <2>10, <2>11, <2>12
<1>2. ASSUME NEW c \in Cpus, NEW m \in Messages, SkipMessage(c, m) PROVE KindSteps'
  BY <1>2 DEF SkipMessage, KindSteps, Flight, InFlight
<1>3. ASSUME NEW c \in Cpus, NEW m \in Messages, InsertSocket(c, m) PROVE KindSteps'
  <2>1. /\ pos[c] = 0 /\ index' = index
        /\ msg' = [msg EXCEPT ![c] = m] /\ pos' = [pos EXCEPT ![c] = 1]
    BY <1>3 DEF InsertSocket, Take
  <2>2. ASSUME NEW n \in 2 .. 5 PROVE InFlight(n)' = InFlight(n)
    <3>1. ASSUME NEW d \in Cpus
          PROVE  (IF pos'[d] = n THEN msg'[d].ret ELSE 0) = (IF pos[d] = n THEN msg[d].ret ELSE 0)
      BY <1>0, <2>1 DEF CpusTyped
    <3> QED
      BY <3>1 DEF InFlight
  <2>3. ASSUME NEW n \in 2 .. 5 PROVE Flight(n)' = Flight(n)
    BY <2>2 DEF Flight
  <2> QED
    BY <2>1, <2>3 DEF KindSteps
<1>4. CASE UNCHANGED writerVars
  BY <1>4 DEF writerVars, KindSteps, Flight, InFlight
<1> QED
  BY <1>1, <1>2, <1>3, <1>4
  DEF Next, vars, writerVars, StartWalk, VisitSocket, EndWalk

\* Where no message is in flight, all totals are equal.
LEMMA Quiescent ==
  ASSUME CpusTyped, \A c \in Cpus : pos[c] = 0, NEW n \in 1 .. 5
  PROVE  Flight(n) = 0
<1>1. \A c \in Cpus : InFlight(n)[c] = 0
  BY DEF InFlight
<1> QED
  BY <1>1, SumZero, SegmentAssumption DEF Flight

LEMMA KindOrder ==
  ASSUME WriterInv, KindSteps
  PROVE  KindsAgree /\ KindTotal(index, "LocalSocket") >= KindTotal(index, "All")
<1>0. IndexTyped(index) /\ CpusTyped
  BY DEF WriterInv
<1>1. ASSUME NEW n \in 1 .. 4
      PROVE  /\ KindTotal(index, Kind[n]) = KindTotal(index, Kind[n + 1]) + Flight(n + 1)
             /\ KindTotal(index, Kind[n]) \in Nat /\ KindTotal(index, Kind[n + 1]) \in Nat
             /\ Flight(n + 1) \in Nat
  BY <1>0, KindTotalSum, FlightNat DEF KindSteps
<1>2. /\ Kind[1] = "Pid" /\ Kind[2] = "LocalSocket" /\ Kind[3] = "RemoteSocket"
      /\ Kind[4] = "RemoteIp" /\ Kind[5] = "All"
  BY DEF Kind
<1>3. KindTotal(index, "Pid") = KindTotal(index, "LocalSocket") + Flight(2)
  BY <1>1, <1>2
<1>4. KindTotal(index, "LocalSocket") = KindTotal(index, "RemoteSocket") + Flight(3)
  BY <1>1, <1>2
<1>5. KindTotal(index, "RemoteSocket") = KindTotal(index, "RemoteIp") + Flight(4)
  BY <1>1, <1>2
<1>6. KindTotal(index, "RemoteIp") = KindTotal(index, "All") + Flight(5)
  BY <1>1, <1>2
<1>7. /\ Flight(2) \in Nat /\ Flight(3) \in Nat /\ Flight(4) \in Nat /\ Flight(5) \in Nat
      /\ KindTotal(index, "All") \in Nat
  BY <1>0, FlightNat, KindTotalSum
<1>8. ASSUME \A c \in Cpus : pos[c] = 0
      PROVE  Flight(2) = 0 /\ Flight(3) = 0 /\ Flight(4) = 0 /\ Flight(5) = 0
  BY <1>0, <1>8, Quiescent
<1> QED
  BY <1>3, <1>4, <1>5, <1>6, <1>7, <1>8 DEF KindsAgree

\* KindsAgree always holds: however the updates of the CPUs interleave, the
\* totals of a kind are those of the next kind and what is in between.
THEOREM SegmentKindsAgree == Spec => []KindsAgree
<1>1. WriterInv /\ KindSteps => KindsAgree
  BY KindOrder
<1> QED
  BY <1>1, WriterInit, WriterStep, KindStepsInit, KindStepsStep, PTL DEF Spec

-----------------------------------------------------------------------------
(* The walk                                                                *)

\* The index only grows, and so do the sockets, which keep their values.
LEMMA Grows ==
  ASSUME WriterInv, [Next]_vars
  PROVE  /\ \A i : StatLeq(StatByInterest(index, i), StatByInterest(index', i))
         /\ DOMAIN socks \subseteq DOMAIN socks'
         /\ \A l \in DOMAIN socks : socks'[l] = socks[l]
<1>0. IndexTyped(index)
  BY DEF WriterInv
<1>1. ASSUME index' = index
      PROVE  \A i : StatLeq(StatByInterest(index, i), StatByInterest(index', i))
  BY <1>0, <1>1, StatByInterestFacts, StatFacts
<1>2. ASSUME NEW c \in Cpus, UpdateIndex(c)
      PROVE  /\ \A i : StatLeq(StatByInterest(index, i), StatByInterest(index', i))
             /\ socks' = socks
  BY <1>2, UpdateEffect DEF UpdateIndex
<1>3. ASSUME NEW c \in Cpus, NEW m \in Messages, InsertSocket(c, m)
      PROVE  /\ index' = index /\ DOMAIN socks \subseteq DOMAIN socks'
             /\ \A l \in DOMAIN socks : socks'[l] = socks[l]
  BY <1>3 DEF InsertSocket, WithSocket, Put
<1> QED
  BY <1>1, <1>2, <1>3
  DEF Next, vars, writerVars, SkipMessage, StartWalk, VisitSocket, EndWalk

\* What the walk has left to do and has done.
WalkDone ==
  /\ walk.phase \in {"none", "walking", "done"} /\ (walk.phase = "done" => pending = {})
  /\ pending \subseteq DOMAIN socks /\ visited \subseteq DOMAIN socks
  /\ before.locals \subseteq pending \cup visited
  /\ DOMAIN rows = {l \in visited : Accepted(socks[l])}
  /\ \A l \in DOMAIN rows : rows[l].stat \in Stat

\* The segment as it was when the walk began.
BeforeTrue ==
  /\ IndexTyped(before.index) /\ Covered(before.index, before.locals)
  /\ KindTotal(before.index, "LocalSocket") >= KindTotal(before.index, "All")
  /\ \A i : StatLeq(StatByInterest(before.index, i), StatByInterest(index, i))

WalkInv == WalkDone /\ BeforeTrue /\ RowsBracketed

LEMMA WalkInit ==
  ASSUME Init
  PROVE  WalkInv
<1>1. /\ walk.phase = "none" /\ pending = {} /\ visited = {} /\ rows = Empty
      /\ before.index = Empty /\ before.locals = {} /\ index = Empty
  BY DEF Init, NoWalk
<1>2. WalkDone
  BY <1>1, EmptyFacts DEF WalkDone
<1>3. IndexTyped(Empty) /\ Covered(Empty, {})
  BY EmptyFacts DEF IndexTyped, Covered
<1>4. ASSUME NEW kind PROVE KindTotal(Empty, kind) = 0
  <2>1. OfKind(Empty, kind) = {}
    BY EmptyFacts DEF OfKind
  <2> QED
    BY <2>1, SumEmpty DEF KindTotal, Sum
<1>5. \A i : StatLeq(StatByInterest(Empty, i), StatByInterest(Empty, i))
  BY <1>3, StatByInterestFacts, StatFacts
<1>6. KindTotal(Empty, "LocalSocket") >= KindTotal(Empty, "All")
  BY <1>4
<1>7. BeforeTrue
  BY <1>1, <1>3, <1>5, <1>6 DEF BeforeTrue
<1>8. RowsBracketed
  BY <1>1, EmptyFacts DEF RowsBracketed
<1> QED
  BY <1>2, <1>7, <1>8 DEF WalkInv

\* The walk keeps its invariant while the segment changes under it.
LEMMA WalkKept ==
  ASSUME WriterInv, WriterInv', WalkInv, [Next]_vars, UNCHANGED tableVars
  PROVE  WalkInv'
<1>0. /\ IndexTyped(index) /\ IndexTyped(index') /\ WalkDone /\ BeforeTrue /\ RowsBracketed
      /\ UNCHANGED <<walk, pending, visited, rows, before>>
  BY DEF WriterInv, WalkInv, tableVars
<1>1. /\ \A i : StatLeq(StatByInterest(index, i), StatByInterest(index', i))
      /\ DOMAIN socks \subseteq DOMAIN socks'
      /\ \A l \in DOMAIN socks : socks'[l] = socks[l]
  BY Grows
<1>2. \A i : StatByInterest(index, i) \in Stat /\ StatByInterest(index', i) \in Stat
  BY <1>0, StatByInterestFacts
<1>3. WalkDone'
  <2>1. \A l \in visited : l \in DOMAIN socks /\ socks'[l] = socks[l]
    BY <1>0, <1>1 DEF WalkDone
  <2>2. \A l \in visited : Accepted(socks[l])' <=> Accepted(socks[l])
    BY <1>0, <2>1 DEF Accepted
  <2> QED
    BY <1>0, <1>1, <2>2 DEF WalkDone
<1>4. BeforeTrue'
  <2>1. ASSUME NEW i PROVE StatLeq(StatByInterest(before.index, i), StatByInterest(index', i))
    <3>1. /\ StatLeq(StatByInterest(before.index, i), StatByInterest(index, i))
          /\ StatByInterest(before.index, i) \in Stat
      BY <1>0, StatByInterestFacts DEF BeforeTrue
    <3> QED
      BY <1>1, <1>2, <3>1, StatLeqTransitive
  <2> QED
    BY <1>0, <2>1 DEF BeforeTrue
<1>5. RowsBracketed'
  <2>1. ASSUME NEW l \in DOMAIN rows
        PROVE  StatLeq(rows[l].stat, StatByInterest(index', LocalSocket(l)))
    <3>1. /\ StatLeq(rows[l].stat, StatByInterest(index, LocalSocket(l)))
          /\ rows[l].stat \in Stat
      BY <1>0 DEF RowsBracketed, WalkDone
    <3> QED
      BY <1>1, <1>2, <3>1, StatLeqTransitive
  <2> QED
    BY <1>0, <2>1 DEF RowsBracketed
<1> QED
  BY <1>3, <1>4, <1>5 DEF WalkInv

LEMMA StartWalkInv ==
  ASSUME WriterInv, KindSteps, NEW f, NEW a, StartWalk(f, a)
  PROVE  WalkInv'
<1>0. IndexTyped(index) /\ Covered(index, DOMAIN socks)
  BY DEF WriterInv
<1>1. /\ walk' = [phase |-> "walking", filter |-> f, custom |-> a]
      /\ pending' = DOMAIN socks /\ visited' = {} /\ rows' = Empty
      /\ before' = [index |-> index, locals |-> DOMAIN socks]
      /\ index' = index /\ socks' = socks
  BY DEF StartWalk, writerVars
<1>2. before'.index = index /\ before'.locals = DOMAIN socks /\ walk'.phase = "walking"
  BY <1>1
<1>3. WalkDone'
  BY <1>1, <1>2, EmptyFacts DEF WalkDone
<1>4. KindTotal(index, "LocalSocket") >= KindTotal(index, "All")
  BY KindOrder
<1>5. \A i : StatLeq(StatByInterest(index, i), StatByInterest(index, i))
  BY <1>0, StatByInterestFacts, StatFacts
<1>6. BeforeTrue'
  BY <1>0, <1>1, <1>2, <1>4, <1>5 DEF BeforeTrue
<1>7. RowsBracketed'
  BY <1>1, EmptyFacts DEF RowsBracketed
<1> QED
  BY <1>3, <1>6, <1>7 DEF WalkInv

LEMMA VisitSocketInv ==
  ASSUME WriterInv, WalkInv, NEW l \in Locals, VisitSocket(l)
  PROVE  WalkInv'
<1>0. IndexTyped(index) /\ SocksTyped /\ WalkDone /\ BeforeTrue /\ RowsBracketed
  BY DEF WriterInv, WalkInv
<1>1. /\ walk.phase = "walking" /\ l \in DOMAIN socks \ visited
      /\ visited' = visited \cup {l} /\ pending' = pending \ {l}
      /\ rows' = (IF Accepted(socks[l]) THEN Put(rows, l, Row(socks[l])) ELSE rows)
      /\ UNCHANGED <<walk, before, index, socks>>
  BY DEF VisitSocket, writerVars
<1>2. socks[l].local = l
  BY <1>0, <1>1 DEF SocksTyped
<1> DEFINE v == StatByInterest(index, LocalSocket(l))
<1>3. Row(socks[l]).stat = v /\ v \in Stat
  BY <1>0, <1>2, StatByInterestFacts DEF Row
<1>4. /\ DOMAIN rows' = DOMAIN rows \cup (IF Accepted(socks[l]) THEN {l} ELSE {})
      /\ \A k \in DOMAIN rows : k # l /\ rows'[k] = rows[k]
      /\ Accepted(socks[l]) => rows'[l].stat = v
  <2>1. l \notin DOMAIN rows
    BY <1>0, <1>1 DEF WalkDone
  <2>2. CASE Accepted(socks[l])
    <3>1. rows' = Put(rows, l, Row(socks[l]))
      BY <1>1, <2>2
    <3>2. /\ DOMAIN rows' = DOMAIN rows \cup {l} /\ rows'[l] = Row(socks[l])
          /\ \A k \in DOMAIN rows : k # l /\ rows'[k] = rows[k]
      BY <2>1, <3>1 DEF Put
    <3> QED
      BY <1>3, <2>2, <3>2
  <2>3. CASE ~Accepted(socks[l])
    BY <1>1, <2>1, <2>3
  <2> QED
    BY <2>2, <2>3
<1> HIDE DEF v
<1>5. WalkDone'
  <2>1. \A k \in DOMAIN socks : Accepted(socks[k])' <=> Accepted(socks[k])
    BY <1>1 DEF Accepted
  <2>2. DOMAIN rows' = {k \in visited' : Accepted(socks[k])'}
    BY <1>0, <1>1, <1>4, <2>1 DEF WalkDone
  <2>3. \A k \in DOMAIN rows' : rows'[k].stat \in Stat
    BY <1>0, <1>3, <1>4 DEF WalkDone
  <2> QED
    BY <1>0, <1>1, <2>2, <2>3 DEF WalkDone
<1>6. BeforeTrue'
  BY <1>0, <1>1 DEF BeforeTrue
<1>7. RowsBracketed'
  <2>1. StatLeq(StatByInterest(before.index, LocalSocket(l)), v) /\ StatLeq(v, v)
    BY <1>0, <1>3, StatFacts DEF BeforeTrue, v
  <2> QED
    BY <1>0, <1>1, <1>4, <2>1 DEF RowsBracketed, v
<1> QED
  BY <1>5, <1>6, <1>7 DEF WalkInv

LEMMA WalkStep ==
  ASSUME WriterInv, WriterInv', KindSteps, WalkInv, [Next]_vars
  PROVE  WalkInv'
<1>1. CASE UNCHANGED tableVars
  BY <1>1, WalkKept
<1>2. CASE EndWalk
  <2>1. /\ walk' = [walk EXCEPT !.phase = "done"] /\ pending = {}
        /\ UNCHANGED <<pending, visited, rows, before, index, socks>>
    BY <1>2 DEF EndWalk, writerVars
  <2>2. walk'.phase = "done" \/ walk'.phase = walk.phase
    BY <2>1
  <2>3. walk'.filter = walk.filter /\ walk'.custom = walk.custom
    BY <2>1
  <2>4. \A s : Accepted(s)' <=> Accepted(s)
    BY <2>3 DEF Accepted
  <2> QED
    BY <2>1, <2>2, <2>4 DEF WalkInv, WalkDone, BeforeTrue, RowsBracketed
<1> QED
  BY <1>1, <1>2, StartWalkInv, VisitSocketInv
  DEF Next, vars, tableVars, UpdateIndex, SkipMessage, InsertSocket, Take

\* RowsBracketed always holds: a row of the table is what its socket had at
\* one moment of the walk, although other CPUs update the segment under it.
THEOREM SegmentRowsBracketed == Spec => []RowsBracketed
<1>1. WalkInv => RowsBracketed
  BY DEF WalkInv
<1> QED
  BY <1>1, WriterInit, WriterStep, KindStepsInit, KindStepsStep, WalkInit, WalkStep, PTL
  DEF Spec

-----------------------------------------------------------------------------
(* The table and the grand total                                           *)

\* Bytes of each local address.
LocalBytes(ix, locals) ==
  [l \in locals |-> Total(StatByInterest(ix, LocalSocket(l)))]

LEMMA LocalBytesNat ==
  ASSUME NEW ix, IndexTyped(ix), NEW locals, NEW S, S \subseteq locals, IsFiniteSet(S)
  PROVE  IsNatOn(LocalBytes(ix, locals), S)
BY StatByInterestFacts, StatFacts DEF IsNatOn, LocalBytes

\* The interests of two of the kinds.
LEMMA InterestKinds ==
  ASSUME NEW i \in Interests
  PROVE  /\ i[1] = "LocalSocket" => \E l : i = LocalSocket(l)
         /\ i[1] = "All" <=> i = All
<1>1. PICK m \in Messages, n \in 1 .. 5 : i = InterestsFromMsg(m)[n]
  BY DEF Interests
<1>2. i[1] = Kind[n]
  BY <1>1, KindFacts
<1>3. n = 1 \/ n = 2 \/ n = 3 \/ n = 4 \/ n = 5
  OBVIOUS
<1>4. i[1] = "LocalSocket" => n = 2
  BY <1>2, <1>3 DEF Kind
<1>5. i[1] = "All" => n = 5
  BY <1>2, <1>3 DEF Kind
<1>6. n = 2 => i = LocalSocket(m.local)
  BY <1>1 DEF InterestsFromMsg
<1>7. n = 5 => i = All
  BY <1>1 DEF InterestsFromMsg
<1>8. All[1] = "All"
  BY DEF All
<1> QED
  BY <1>4, <1>5, <1>6, <1>7, <1>8

\* The total of the local addresses, summed over them.
LEMMA LocalsTotal ==
  ASSUME NEW ix, IndexTyped(ix), NEW locals, IsFiniteSet(locals), Covered(ix, locals)
  PROVE  KindTotal(ix, "LocalSocket") = Sum(LocalBytes(ix, locals), locals)
<1> DEFINE D == {l \in locals : LocalSocket(l) \in DOMAIN ix}
           f == [l \in D |-> LocalSocket(l)]
           G == [l \in D |-> Bytes(ix)[f[l]]]
<1>1. IsFiniteSet(D)
  BY FS_Subset
<1>2. {f[l] : l \in D} = OfKind(ix, "LocalSocket")
  <2>1. ASSUME NEW i \in OfKind(ix, "LocalSocket") PROVE \E l \in D : i = f[l]
    <3>1. i \in DOMAIN ix /\ i \in Interests /\ i[1] = "LocalSocket"
      BY DEF OfKind, IndexTyped
    <3>2. PICK l : i = LocalSocket(l)
      BY <3>1, InterestKinds
    <3> QED
      BY <3>1, <3>2 DEF Covered
  <2>2. ASSUME NEW l \in D PROVE f[l] \in OfKind(ix, "LocalSocket")
    BY DEF OfKind, LocalSocket
  <2> QED
    BY <2>1, <2>2
<1>3. \A k, l \in D : f[k] = f[l] => k = l
  BY DEF LocalSocket
<1>4. /\ \A l \in D : Bytes(ix)[f[l]] \in Nat
      /\ \A l \in D : G[l] = LocalBytes(ix, locals)[l]
      /\ \A l \in locals \ D : LocalBytes(ix, locals)[l] = 0
  BY StatFacts, NoStatFacts DEF Bytes, IndexTyped, LocalBytes, StatByInterest
<1>5. KindTotal(ix, "LocalSocket") = Sum(Bytes(ix), OfKind(ix, "LocalSocket"))
  BY KindTotalSum
<1>6. IsNatOn(LocalBytes(ix, locals), locals) /\ D \subseteq locals
  BY LocalBytesNat
<1>7. IsNatOn(G, D)
  BY <1>1, <1>4 DEF IsNatOn
<1> HIDE DEF D, f
<1>8. Sum(Bytes(ix), {f[l] : l \in D}) = Sum(G, D)
  BY <1>1, <1>3, <1>4, SumImage
<1> HIDE DEF G
<1>9. Sum(G, D) = Sum(LocalBytes(ix, locals), D)
  BY <1>4, <1>7, SumEqual
<1>10. Sum(LocalBytes(ix, locals), locals) = Sum(LocalBytes(ix, locals), D)
  BY <1>4, <1>6, SumSame
<1> QED
  BY <1>2, <1>5, <1>8, <1>9, <1>10

\* There is one interest of kind All.
LEMMA AllTotal ==
  ASSUME NEW ix, IndexTyped(ix)
  PROVE  KindTotal(ix, "All") = Total(StatByInterest(ix, All))
<1>1. \A i \in OfKind(ix, "All") : i = All
  BY InterestKinds DEF OfKind, IndexTyped
<1>2. KindTotal(ix, "All") = Sum(Bytes(ix), OfKind(ix, "All"))
  BY KindTotalSum
<1>3. CASE All \in DOMAIN ix
  <2>1. OfKind(ix, "All") = {} \cup {All}
    BY <1>1, <1>3 DEF OfKind, All
  <2>2. Bytes(ix)[All] = Total(StatByInterest(ix, All)) /\ Bytes(ix)[All] \in Nat
    BY <1>3, StatFacts DEF Bytes, StatByInterest, IndexTyped
  <2>3. IsNatOn(Bytes(ix), {})
    BY FS_EmptySet DEF IsNatOn
  <2>4. Sum(Bytes(ix), {} \cup {All}) = Sum(Bytes(ix), {}) + Bytes(ix)[All]
    BY <2>2, <2>3, SumAdd
  <2> QED
    BY <1>2, <2>1, <2>2, <2>4, SumEmpty
<1>4. CASE All \notin DOMAIN ix
  <2>1. OfKind(ix, "All") = {}
    BY <1>1, <1>4 DEF OfKind
  <2> QED
    BY <1>2, <1>4, <2>1, SumEmpty, NoStatFacts DEF StatByInterest
<1> QED
  BY <1>3, <1>4

RowBytes == [l \in DOMAIN rows |-> Total(rows[l].stat)]

LEMMA RowsSum ==
  ASSUME WriterInv, WalkInv
  PROVE  RowsTotal = Sum(RowBytes, DOMAIN rows) /\ IsNatOn(RowBytes, DOMAIN rows)
<1>1. IsFiniteSet(DOMAIN rows)
  BY FS_Subset DEF WriterInv, WalkInv, WalkDone, SocksTyped
<1>2. IsNatOn(RowBytes, DOMAIN rows)
  BY <1>1, StatFacts DEF IsNatOn, RowBytes, WalkInv, WalkDone
<1>3. DOMAIN RowBytes = DOMAIN rows
  BY DEF RowBytes
<1> QED
  BY <1>2, <1>3 DEF RowsTotal, SumFunction, Sum, RowBytes

LEMMA TableCovers ==
  ASSUME WriterInv, WalkInv
  PROVE  TableCoversAll
<1> SUFFICES ASSUME walk.phase = "done", walk.filter = All, walk.custom = Sockets
             PROVE  RowsTotal >= Total(StatByInterest(before.index, All))
  BY DEF TableCoversAll
<1> DEFINE L == before.locals
           B == LocalBytes(before.index, L)
<1>0. /\ SocksTyped /\ WalkDone /\ BeforeTrue /\ RowsBracketed
      /\ IndexTyped(before.index)
  BY DEF WriterInv, WalkInv, BeforeTrue
<1>1. L \subseteq DOMAIN rows
  <2>1. L \subseteq visited /\ visited \subseteq DOMAIN socks
    BY <1>0 DEF WalkDone
  <2>2. ASSUME NEW l \in L PROVE Accepted(socks[l])
    BY <1>0, <2>1 DEF SocksTyped, Accepted, MatchInterest
  <2> QED
    BY <1>0, <2>1, <2>2 DEF WalkDone
<1>2. IsFiniteSet(DOMAIN rows) /\ IsFiniteSet(L)
  BY <1>1, RowsSum, FS_Subset DEF IsNatOn
<1>3. IsNatOn(B, L)
  BY <1>0, <1>2, LocalBytesNat
<1>4. IsNatOn(RowBytes, DOMAIN rows) /\ IsNatOn(RowBytes, L)
  BY <1>1, <1>2, RowsSum DEF IsNatOn
<1>5. ASSUME NEW l \in L PROVE B[l] <= RowBytes[l]
  <2>1. /\ StatLeq(StatByInterest(before.index, LocalSocket(l)), rows[l].stat)
        /\ rows[l].stat \in Stat /\ StatByInterest(before.index, LocalSocket(l)) \in Stat
    BY <1>0, <1>1, StatByInterestFacts DEF RowsBracketed, WalkDone
  <2>2. Total(StatByInterest(before.index, LocalSocket(l))) <= Total(rows[l].stat)
    BY <2>1, StatLeqTotal
  <2> QED
    BY <1>1, <2>2 DEF LocalBytes, RowBytes
<1>6. KindTotal(before.index, "LocalSocket") = Sum(B, L)
  BY <1>0, <1>2, LocalsTotal DEF BeforeTrue
<1>7. KindTotal(before.index, "All") = Total(StatByInterest(before.index, All))
  BY <1>0, AllTotal
<1>8. KindTotal(before.index, "LocalSocket") >= KindTotal(before.index, "All")
  BY <1>0 DEF BeforeTrue
<1>9. KindTotal(before.index, "LocalSocket") \in Nat /\ KindTotal(before.index, "All") \in Nat
  BY <1>0, KindTotalSum
<1> HIDE DEF L, B
<1>10. Sum(B, L) <= Sum(RowBytes, L)
  BY <1>3, <1>4, <1>5, SumLeq
<1>11. Sum(RowBytes, L) <= Sum(RowBytes, DOMAIN rows)
  BY <1>1, <1>4, SumSubset
<1>12. Sum(RowBytes, L) \in Nat /\ Sum(RowBytes, DOMAIN rows) \in Nat
  BY <1>4, SumNat
<1>13. RowsTotal = Sum(RowBytes, DOMAIN rows)
  BY RowsSum
<1> QED
  BY <1>6, <1>7, <1>8, <1>9, <1>10, <1>11, <1>12, <1>13

\* TableCoversAll always holds: the unfiltered table, however it interleaves
\* with the updates, shows at least the grand total of the moment it began.
THEOREM SegmentTableCoversAll == Spec => []TableCoversAll
<1>1. WriterInv /\ WalkInv => TableCoversAll
  BY TableCovers
<1> QED
  BY <1>1, WriterInit, WriterStep, KindStepsInit, KindStepsStep, WalkInit, WalkStep, PTL
  DEF Spec

-----------------------------------------------------------------------------
(* The table of a process                                                  *)

\* No local address is shared by two processes.
Apart == \A m, n \in Messages : m.local = n.local => m.pid = n.pid

\* Bytes of a process that are counted for it and not yet for the local
\* address.
PidInFlight(p) ==
  [c \in Cpus |-> IF pos[c] = 2 /\ msg[c].pid = p THEN msg[c].ret ELSE 0]
PidFlight(p) == Sum(PidInFlight(p), Cpus)

LocalsOfPid(p) == {l \in DOMAIN socks : socks[l].pid = p}

\* The traffic of a process is that of the sockets it is shown with, and what
\* is in between.
PidAgrees(p) ==
  Total(StatByInterest(index, PidOf(p))) =
    Sum(LocalBytes(index, DOMAIN socks), LocalsOfPid(p)) + PidFlight(p)

Pids == {m.pid : m \in Messages}
PidsAgree == \A p \in Pids : PidAgrees(p)

\* The socket that the set has for a message is of the message's process.
LEMMA SocketPid ==
  ASSUME Apart, SocksTyped, NEW m \in Messages, m.local \in DOMAIN socks
  PROVE  socks[m.local].pid = m.pid
<1>1. PICK n \in Messages : socks[m.local] = SocketOf(n)
  BY DEF SocksTyped, Sockets
<1>2. socks[m.local].local = m.local
  BY DEF SocksTyped
<1>3. n.local = m.local /\ socks[m.local].pid = n.pid
  BY <1>1, <1>2 DEF SocketOf
<1> QED
  BY <1>3 DEF Apart

LEMMA PidFlightNat ==
  ASSUME CpusTyped, NEW p
  PROVE  IsNatOn(PidInFlight(p), Cpus) /\ PidFlight(p) \in Nat
<1>1. \A c \in Cpus : PidInFlight(p)[c] \in Nat
  BY DEF PidInFlight, CpusTyped
<1>2. IsNatOn(PidInFlight(p), Cpus)
  BY <1>1, SegmentAssumption DEF IsNatOn
<1> QED
  BY <1>2, SumNat DEF PidFlight

LEMMA PidFlightStep ==
  ASSUME CpusTyped, CpusTyped', NEW c \in Cpus, NEW p,
         \A d \in Cpus \ {c} : pos'[d] = pos[d] /\ msg'[d] = msg[d]
  PROVE  /\ PidFlight(p)' + PidInFlight(p)[c] = PidFlight(p) + PidInFlight(p)'[c]
         /\ PidFlight(p)' \in Nat
<1>1. IsNatOn(PidInFlight(p), Cpus) /\ IsNatOn(PidInFlight(p)', Cpus)
  <2>1. IsNatOn(PidInFlight(p), Cpus)
    BY PidFlightNat
  <2>2. \A d \in Cpus : PidInFlight(p)'[d] \in Nat
    BY DEF PidInFlight, CpusTyped
  <2> QED
    BY <2>1, <2>2 DEF IsNatOn
<1>2. \A d \in Cpus \ {c} : PidInFlight(p)[d] = PidInFlight(p)'[d]
  BY DEF PidInFlight
<1>3. PidFlight(p)' = Sum(PidInFlight(p)', Cpus)
  BY DEF PidFlight
<1> QED
  BY <1>1, <1>2, <1>3, SumChange, SumNat DEF PidFlight

\* The interests that an update of the index leaves alone.
LEMMA OneInterest ==
  ASSUME WriterInv, NEW c \in Cpus, UpdateIndex(c)
  PROVE  /\ \A p : /\ PidOf(p) # NextInterest(c) =>
                        StatByInterest(index', PidOf(p)) = StatByInterest(index, PidOf(p))
                   /\ PidOf(p) = NextInterest(c) <=> pos[c] = 1 /\ p = msg[c].pid
         /\ \A l : /\ LocalSocket(l) # NextInterest(c) =>
                        StatByInterest(index', LocalSocket(l)) = StatByInterest(index, LocalSocket(l))
                   /\ LocalSocket(l) = NextInterest(c) <=> pos[c] = 2 /\ l = msg[c].local
         /\ Total(StatByInterest(index', NextInterest(c))) =
              Total(StatByInterest(index, NextInterest(c))) + msg[c].ret
<1>1. PICK i : i = NextInterest(c)
  OBVIOUS
<1>2. /\ pos[c] \in 1 .. 5 /\ msg[c] \in Messages /\ msg[c].ret \in Nat
      /\ i[1] = Kind[pos[c]]
      /\ DOMAIN index' = DOMAIN index \cup {i}
      /\ Total(index'[i]) = (IF i \in DOMAIN index THEN Total(index[i]) ELSE 0) + msg[c].ret
      /\ \A j \in DOMAIN index : j # i => index'[j] = index[j]
  BY <1>1, UpdateEffect
<1>3. \A j : j # i => StatByInterest(index', j) = StatByInterest(index, j)
  BY <1>2 DEF StatByInterest
<1>4. Total(StatByInterest(index', i)) = Total(StatByInterest(index, i)) + msg[c].ret
  <2>1. Total(StatByInterest(index, i)) = (IF i \in DOMAIN index THEN Total(index[i]) ELSE 0)
    BY NoStatFacts DEF StatByInterest
  <2>2. StatByInterest(index', i) = index'[i]
    BY <1>2 DEF StatByInterest
  <2> QED
    BY <1>2, <2>1, <2>2
<1>5. pos[c] = 1 \/ pos[c] = 2 \/ pos[c] = 3 \/ pos[c] = 4 \/ pos[c] = 5
  BY <1>2
<1>6. ASSUME NEW p PROVE PidOf(p) = i <=> pos[c] = 1 /\ p = msg[c].pid
  <2>1. PidOf(p) = i => pos[c] = 1
    BY <1>2, <1>5 DEF Kind, PidOf
  <2>2. pos[c] = 1 => i = PidOf(msg[c].pid)
    BY <1>1 DEF NextInterest, InterestsFromMsg
  <2> QED
    BY <2>1, <2>2 DEF PidOf
<1>7. ASSUME NEW l PROVE LocalSocket(l) = i <=> pos[c] = 2 /\ l = msg[c].local
  <2>1. LocalSocket(l) = i => pos[c] = 2
    BY <1>2, <1>5 DEF Kind, LocalSocket
  <2>2. pos[c] = 2 => i = LocalSocket(msg[c].local)
    BY <1>1 DEF NextInterest, InterestsFromMsg
  <2> QED
    BY <2>1, <2>2 DEF LocalSocket
<1> QED
  BY <1>1, <1>3, <1>4, <1>6, <1>7

\* An update moves the bytes of its message from one term to another.
LEMMA PidUpdate ==
  ASSUME Apart, WriterInv, WriterInv', NEW c \in Cpus, UpdateIndex(c), NEW p, PidAgrees(p)
  PROVE  PidAgrees(p)'
<1> DEFINE m == msg[c]
           S == LocalsOfPid(p)
           B == LocalBytes(index, DOMAIN socks)
           C == LocalBytes(index', DOMAIN socks)
<1>0. /\ CpusTyped /\ CpusTyped' /\ SocksTyped
      /\ IndexTyped(index) /\ IndexTyped(index') /\ socks' = socks
  BY DEF WriterInv, UpdateIndex
<1>1. /\ pos[c] \in 1 .. 5 /\ m \in Messages /\ m.ret \in Nat
      /\ pos' = [pos EXCEPT ![c] = IF @ = 5 THEN 0 ELSE @ + 1]
      /\ msg' = [msg EXCEPT ![c] = IF pos[c] = 5 THEN NoMsg ELSE @]
  BY UpdateEffect DEF UpdateIndex
<1>2. /\ pos'[c] = (IF pos[c] = 5 THEN 0 ELSE pos[c] + 1)
      /\ msg'[c] = (IF pos[c] = 5 THEN NoMsg ELSE m)
      /\ \A d \in Cpus \ {c} : pos'[d] = pos[d] /\ msg'[d] = msg[d]
  BY <1>0, <1>1 DEF CpusTyped
<1>3. /\ PidFlight(p)' + PidInFlight(p)[c] = PidFlight(p) + PidInFlight(p)'[c]
      /\ PidFlight(p)' \in Nat /\ PidFlight(p) \in Nat
  BY <1>0, <1>2, PidFlightStep, PidFlightNat
<1>4. /\ PidInFlight(p)[c] = (IF pos[c] = 2 /\ m.pid = p THEN m.ret ELSE 0)
      /\ PidInFlight(p)'[c] = (IF pos[c] = 1 /\ m.pid = p THEN m.ret ELSE 0)
  BY <1>1, <1>2 DEF PidInFlight
<1>5. Total(StatByInterest(index', PidOf(p))) =
        Total(StatByInterest(index, PidOf(p))) + (IF pos[c] = 1 /\ m.pid = p THEN m.ret ELSE 0)
  <2>1. Total(StatByInterest(index, PidOf(p))) \in Nat
    BY <1>0, StatByInterestFacts, StatFacts
  <2> QED
    BY <2>1, OneInterest
<1>6. IsFiniteSet(S) /\ IsNatOn(B, S) /\ IsNatOn(C, S)
  <2>1. IsFiniteSet(S)
    BY <1>0, FS_Subset DEF LocalsOfPid, SocksTyped
  <2> QED
    BY <1>0, <2>1, LocalBytesNat DEF LocalsOfPid
<1>7. Sum(B, S) \in Nat
  BY <1>6, SumNat
<1>8. Sum(C, S) = Sum(B, S) + (IF pos[c] = 2 /\ m.pid = p THEN m.ret ELSE 0)
  <2>1. CASE pos[c] = 2 /\ m.pid = p
    <3>1. m.local \in S
      <4>1. m.local \in DOMAIN socks
        BY <1>0, <1>1 DEF CpusTyped
      <4> QED
        BY <1>0, <1>1, <2>1, <4>1, SocketPid DEF LocalsOfPid
    <3>2. NextInterest(c) = LocalSocket(m.local)
      BY <2>1, OneInterest
    <3>3. C[m.local] = B[m.local] + m.ret
      BY <3>1, <3>2, OneInterest DEF LocalBytes, LocalsOfPid
    <3>4. \A l \in S \ {m.local} : B[l] = C[l]
      BY <2>1, OneInterest DEF LocalBytes, LocalsOfPid
    <3>5. B[m.local] \in Nat
      BY <1>6, <3>1 DEF IsNatOn
    <3> HIDE DEF S, B, C, m
    <3>6. Sum(C, S) + B[m.local] = Sum(B, S) + C[m.local]
      BY <1>6, <3>1, <3>4, SumChange
    <3>7. Sum(C, S) \in Nat
      BY <1>6, SumNat
    <3> QED
      BY <1>1, <1>7, <2>1, <3>3, <3>5, <3>6, <3>7
  <2>2. CASE ~(pos[c] = 2 /\ m.pid = p)
    <3>1. ASSUME NEW l \in S PROVE B[l] = C[l]
      <4>1. l \in DOMAIN socks /\ socks[l].pid = p
        BY DEF LocalsOfPid
      <4>2. l = m.local => socks[l].pid = m.pid
        BY <1>0, <1>1, <4>1, SocketPid
      <4>3. StatByInterest(index', LocalSocket(l)) = StatByInterest(index, LocalSocket(l))
        BY <2>2, <4>1, <4>2, OneInterest
      <4> QED
        BY <4>1, <4>3 DEF LocalBytes
    <3> HIDE DEF S, B, C, m
    <3>2. Sum(B, S) = Sum(C, S)
      BY <1>6, <3>1, SumEqual
    <3> QED
      BY <1>7, <2>2, <3>2
  <2> QED
    BY <2>1, <2>2
<1>9. Total(StatByInterest(index, PidOf(p))) = Sum(B, S) + PidFlight(p)
  BY DEF PidAgrees
<1>10. PidAgrees(p)' <=> Total(StatByInterest(index', PidOf(p))) = Sum(C, S) + PidFlight(p)'
  BY <1>0 DEF PidAgrees, LocalsOfPid
<1> HIDE DEF S, B, C, m
<1>11. Total(StatByInterest(index', PidOf(p))) = Sum(C, S) + PidFlight(p)'
  <2>1. CASE pos[c] = 1 /\ m.pid = p
    BY <1>1, <1>3, <1>4, <1>5, <1>7, <1>8, <1>9, <2>1
  <2>2. CASE pos[c] = 2 /\ m.pid = p
    BY <1>1, <1>3, <1>4, <1>5, <1>7, <1>8, <1>9, <2>2
  <2>3. CASE ~(pos[c] = 1 /\ m.pid = p) /\ ~(pos[c] = 2 /\ m.pid = p)
    <3>1. PidFlight(p)' = PidFlight(p)
      BY <1>3, <1>4, <2>3
    <3>2. Sum(C, S) = Sum(B, S)
      BY <1>7, <1>8, <2>3
    <3>3. Total(StatByInterest(index', PidOf(p))) = Sum(B, S) + PidFlight(p)
      BY <1>3, <1>5, <1>7, <1>9, <2>3
    <3> QED
      BY <3>1, <3>2, <3>3
  <2> QED
    BY <2>1, <2>2, <2>3
<1> QED
  BY <1>10, <1>11

\* A socket is new: it has no traffic yet.
LEMMA PidInsert ==
  ASSUME Apart, WriterInv, WriterInv', NEW c \in Cpus, NEW m \in Messages, InsertSocket(c, m),
         NEW p, PidAgrees(p)
  PROVE  PidAgrees(p)'
<1> DEFINE S == LocalsOfPid(p)
           U == S'
           B == LocalBytes(index, DOMAIN socks)
           C == LocalBytes(index, DOMAIN socks')
<1>0. /\ CpusTyped /\ SocksTyped /\ SocksTyped' /\ IndexTyped(index)
      /\ Covered(index, DOMAIN socks)
  BY DEF WriterInv
<1>1. /\ pos[c] = 0 /\ index' = index /\ socks' = WithSocket(socks, SocketOf(m))
      /\ msg' = [msg EXCEPT ![c] = m] /\ pos' = [pos EXCEPT ![c] = 1]
  BY DEF InsertSocket, Take
<1>2. /\ DOMAIN socks \subseteq DOMAIN socks'
      /\ \A l \in DOMAIN socks : socks'[l] = socks[l]
  BY <1>1 DEF WithSocket, Put
<1>3. PidFlight(p)' = PidFlight(p)
  <2>1. ASSUME NEW d \in Cpus
        PROVE  (IF pos'[d] = 2 /\ msg'[d].pid = p THEN msg'[d].ret ELSE 0)
                 = (IF pos[d] = 2 /\ msg[d].pid = p THEN msg[d].ret ELSE 0)
    BY <1>0, <1>1 DEF CpusTyped
  <2>2. PidInFlight(p)' = PidInFlight(p)
    BY <2>1 DEF PidInFlight
  <2> QED
    BY <2>2 DEF PidFlight
<1>4. IsFiniteSet(S) /\ IsFiniteSet(U) /\ S \subseteq U
  <2>1. IsFiniteSet(DOMAIN socks) /\ IsFiniteSet(DOMAIN socks')
    BY <1>0 DEF SocksTyped
  <2>2. S \subseteq DOMAIN socks /\ U \subseteq DOMAIN socks' /\ S \subseteq U
    BY <1>2 DEF LocalsOfPid
  <2> QED
    BY <2>1, <2>2, FS_Subset
<1>5. IsNatOn(B, S) /\ IsNatOn(C, U)
  <2>1. S \subseteq DOMAIN socks /\ U \subseteq DOMAIN socks'
    BY DEF LocalsOfPid
  <2> QED
    BY <1>0, <1>4, <2>1, LocalBytesNat
<1>6. ASSUME NEW l \in U \ S PROVE C[l] = 0
  <2>1. l \in DOMAIN socks' /\ l \notin DOMAIN socks
    BY <1>2 DEF LocalsOfPid
  <2>2. StatByInterest(index, LocalSocket(l)) = NoStat
    BY <1>0, <2>1 DEF Covered, StatByInterest
  <2> QED
    BY <2>1, <2>2, NoStatFacts DEF LocalBytes
<1>7. \A l \in S : B[l] = C[l]
  BY <1>2 DEF LocalBytes, LocalsOfPid
<1>8. PidAgrees(p)' <=> Total(StatByInterest(index, PidOf(p))) = Sum(C, U) + PidFlight(p)'
  BY <1>1 DEF PidAgrees
<1>9. Total(StatByInterest(index, PidOf(p))) = Sum(B, S) + PidFlight(p)
  BY DEF PidAgrees
<1> HIDE DEF S, U, B, C
<1>10. Sum(B, S) = Sum(C, S)
  BY <1>5, <1>7, SumEqual
<1>11. Sum(C, U) = Sum(C, S)
  BY <1>4, <1>5, <1>6, SumSame
<1> QED
  BY <1>3, <1>8, <1>9, <1>10, <1>11

LEMMA PidsAgreeInit ==
  ASSUME Init
  PROVE  PidsAgree
<1> SUFFICES ASSUME NEW p \in Pids PROVE PidAgrees(p)
  BY DEF PidsAgree
<1>1. index = Empty /\ socks = Empty /\ \A c \in Cpus : pos[c] = 0
  BY DEF Init
<1>2. LocalsOfPid(p) = {}
  BY <1>1, EmptyFacts DEF LocalsOfPid
<1>3. Total(StatByInterest(index, PidOf(p))) = 0
  BY <1>1, EmptyFacts, NoStatFacts DEF StatByInterest
<1>4. \A c \in Cpus : PidInFlight(p)[c] = 0
  BY <1>1 DEF PidInFlight
<1>5. PidFlight(p) = 0
  BY <1>4, SumZero, SegmentAssumption DEF PidFlight
<1> QED
  BY <1>2, <1>3, <1>5, SumEmpty DEF PidAgrees

LEMMA PidsAgreeStep ==
  ASSUME Apart, WriterInv, WriterInv', PidsAgree, [Next]_vars
  PROVE  PidsAgree'
<1> SUFFICES ASSUME NEW p \in Pids PROVE PidAgrees(p)'
  BY DEF PidsAgree, Pids
<1>0. PidAgrees(p)
  BY DEF PidsAgree
<1>1. ASSUME NEW c \in Cpus, UpdateIndex(c) PROVE PidAgrees(p)'
  BY <1>0, <1>1, PidUpdate
<1>2. ASSUME NEW c \in Cpus, NEW m \in Messages, InsertSocket(c, m) PROVE PidAgrees(p)'
  BY <1>0, <1>2, PidInsert
<1>3. CASE UNCHANGED <<index, socks, msg, pos>>
  <2>1. LocalsOfPid(p)' = LocalsOfPid(p) /\ PidFlight(p)' = PidFlight(p)
    BY <1>3 DEF LocalsOfPid, PidFlight, PidInFlight
  <2> QED
    BY <1>0, <1>3, <2>1 DEF PidAgrees
<1> QED
  BY <1>1, <1>2, <1>3
  DEF Next, vars, writerVars, SkipMessage, StartWalk, VisitSocket, EndWalk

LEMMA ProcessTableShown ==
  ASSUME WriterInv, WalkInv, PidsAgree
  PROVE  ProcessTable
<1> SUFFICES ASSUME walk.phase = "done", walk.custom = Sockets, before.index = index,
                    \A c \in Cpus : pos[c] = 0, NEW p \in Pids, walk.filter = PidOf(p)
             PROVE  RowsTotal = Total(StatByInterest(index, PidOf(p)))
  BY DEF ProcessTable, Pids
<1> DEFINE S == LocalsOfPid(p)
           R == DOMAIN rows
           B == LocalBytes(index, DOMAIN socks)
<1>0. /\ SocksTyped /\ WalkDone /\ BeforeTrue /\ RowsBracketed /\ CpusTyped
      /\ IndexTyped(index) /\ IndexTyped(before.index)
  BY DEF WriterInv, WalkInv, BeforeTrue
<1>1. ASSUME NEW l \in DOMAIN socks PROVE Accepted(socks[l]) <=> socks[l].pid = p
  <2>1. socks[l] \in Sockets
    BY <1>0 DEF SocksTyped
  <2>2. MatchInterest(socks[l], PidOf(p)) <=> PidOf(p) = PidOf(socks[l].pid)
    BY DEF MatchInterest, PidOf, RemoteIp, RemoteSocket, LocalSocket, All
  <2> QED
    BY <2>1, <2>2 DEF Accepted, PidOf
<1>2. R = S \cap visited
  BY <1>0, <1>1 DEF WalkDone, LocalsOfPid
<1>3. ASSUME NEW l \in S \ R PROVE B[l] = 0
  <2>1. before.locals \subseteq visited /\ l \notin visited /\ l \in DOMAIN socks
    BY <1>0, <1>2 DEF WalkDone, LocalsOfPid
  <2>2. LocalSocket(l) \notin DOMAIN index
    BY <1>0, <2>1 DEF BeforeTrue, Covered
  <2> QED
    BY <2>1, <2>2, NoStatFacts DEF LocalBytes, StatByInterest
<1>4. ASSUME NEW l \in R PROVE RowBytes[l] = B[l]
  <2>1. l \in DOMAIN socks
    BY <1>2 DEF LocalsOfPid
  <2>2. /\ StatLeq(StatByInterest(index, LocalSocket(l)), rows[l].stat)
        /\ StatLeq(rows[l].stat, StatByInterest(index, LocalSocket(l)))
        /\ rows[l].stat \in Stat /\ StatByInterest(index, LocalSocket(l)) \in Stat
    BY <1>0, StatByInterestFacts DEF RowsBracketed, WalkDone
  <2>3. /\ Total(StatByInterest(index, LocalSocket(l))) <= Total(rows[l].stat)
        /\ Total(rows[l].stat) <= Total(StatByInterest(index, LocalSocket(l)))
        /\ Total(rows[l].stat) \in Nat /\ Total(StatByInterest(index, LocalSocket(l))) \in Nat
    BY <2>2, StatLeqTotal, StatFacts
  <2>4. Total(rows[l].stat) = Total(StatByInterest(index, LocalSocket(l)))
    BY <2>3
  <2> QED
    BY <2>1, <2>4 DEF RowBytes, LocalBytes
<1>5. RowsTotal = Sum(RowBytes, R) /\ IsNatOn(RowBytes, R)
  BY RowsSum
<1>6. IsNatOn(B, S)
  <2>1. IsFiniteSet(S) /\ S \subseteq DOMAIN socks
    BY <1>0, FS_Subset DEF LocalsOfPid, SocksTyped
  <2> QED
    BY <1>0, <2>1, LocalBytesNat
<1>7. PidFlight(p) = 0
  <2>1. \A c \in Cpus : PidInFlight(p)[c] = 0
    BY DEF PidInFlight
  <2> QED
    BY <2>1, SumZero, SegmentAssumption DEF PidFlight
<1>8. Total(StatByInterest(index, PidOf(p))) = Sum(B, S) + PidFlight(p)
  BY DEF PidsAgree, PidAgrees
<1> HIDE DEF S, R, B
<1>9. Sum(RowBytes, R) = Sum(B, R)
  BY <1>4, <1>5, SumEqual
<1>10. Sum(B, S) = Sum(B, R)
  BY <1>2, <1>3, <1>6, SumSame
<1>11. Sum(B, S) \in Nat
  BY <1>6, SumNat
<1> QED
  BY <1>5, <1>7, <1>8, <1>9, <1>10, <1>11

\* ProcessTable always holds where no two processes share a local address:
\* the table of a process, walked while nothing is in flight, adds up to what
\* the segment has recorded for the process.  Equality of Sockets looks at
\* the local address alone, so that the condition is needed: where a parent
\* and its child share a socket, the table of one of them misses its traffic.
THEOREM SegmentProcessTable == Apart /\ Spec => []ProcessTable
<1>1. WriterInv /\ WalkInv /\ PidsAgree => ProcessTable
  BY ProcessTableShown
<1> SUFFICES ASSUME Apart PROVE Spec => []ProcessTable
  OBVIOUS
<1>2. WriterInv /\ WriterInv' /\ PidsAgree /\ [Next]_vars => PidsAgree'
  BY PidsAgreeStep
<1> QED
  BY <1>1, <1>2, WriterInit, WriterStep, KindStepsInit, KindStepsStep, WalkInit, WalkStep,
     PidsAgreeInit, PTL DEF Spec

\* TypeOK always holds: the keys of the index are interests, the rows are
\* sockets that the walk has visited.
THEOREM SegmentTypeOK == Spec => []TypeOK
<1>1. WriterInv /\ WalkInv => TypeOK
  BY DEF WriterInv, IndexTyped, SocksTyped, CpusTyped, WalkInv, WalkDone, TypeOK
<1> QED
  BY <1>1, WriterInit, WriterStep, KindStepsInit, KindStepsStep, WalkInit, WalkStep, PTL
  DEF Spec

=============================================================================
