------------------------------ MODULE Segment ------------------------------
(***************************************************************************)
(* ptraf/src/store.rs: one Segment, i.e. the traffic of one time window.   *)
(*                                                                         *)
(* Any number of CPU tasks update a segment at once, each under a mere     *)
(* read guard of the Store, while the socket table of the UI walks it      *)
(* (ui/socktable.rs).  `index` is a DashMap and `socks` a DashSet: each    *)
(* call on them is atomic for its key, and nothing spans two calls.  A     *)
(* message therefore takes six steps: one socks.insert, then one update of *)
(* the index for each of its five interests.                               *)
(*                                                                         *)
(* A walk of a DashSet visits each socket that was there when it began     *)
(* exactly once, in any order, and may or may not visit the ones inserted  *)
(* meanwhile.                                                              *)
(***************************************************************************)
EXTENDS Integers, Sequences, FiniteSetsExt

CONSTANTS
  Cpus,       \* the tasks that update the segment
  Messages,   \* SockMsgEvents: [pid, local, remote : [ip, port], channel, ret]
  Customs,    \* custom filters, each as the set of Sockets it accepts
  MaxUpdates  \* bound: messages handled, by all CPUs

ASSUME SegmentAssumption ==
  /\ IsFiniteSet(Cpus)
  /\ \A m \in Messages : m.channel \in {"Rx", "Tx"} /\ m.ret \in Int
  /\ MaxUpdates \in Nat

VARIABLES
  index,   \* Segment::index, a partial function from Interest to Stat
  socks,   \* Segment::socks, a partial function from local address to Socket
  msg,     \* the message each CPU works on
  pos,     \* the next interest of that message to be updated; 0: no message
  count,   \* messages handled
  walk,    \* the table's collector: [phase, filter, custom]
  pending, \* sockets that the walk has yet to visit
  visited, \* sockets that it has visited
  rows,    \* SocketTableCollector::socket_cache, by local address
  before   \* history: index and sockets when the walk began

writerVars == <<index, socks, msg, pos, count>>
tableVars == <<walk, pending, visited, rows, before>>
vars == <<index, socks, msg, pos, count, walk, pending, visited, rows, before>>

-----------------------------------------------------------------------------
(* Interest, Socket, Stat                                                  *)

PidOf(p) == <<"Pid", p>>
LocalSocket(l) == <<"LocalSocket", l>>
RemoteSocket(r) == <<"RemoteSocket", r>>
RemoteIp(ip) == <<"RemoteIp", ip>>
All == <<"All">>

\* Mutant of InterestsFromMsg: the grand total comes first.
InterestsAllFirst(m) ==
  <<All, PidOf(m.pid), LocalSocket(m.local), RemoteSocket(m.remote),
    RemoteIp(m.remote.ip)>>

\* Mutant of InterestsFromMsg: a total is missing.
InterestsNoRemote(m) ==
  <<PidOf(m.pid), LocalSocket(m.local), RemoteIp(m.remote.ip), All, All>>

\* Interest::interests_from_msg; the order is the order of the updates.
InterestsFromMsg(m) ==
  <<PidOf(m.pid), LocalSocket(m.local), RemoteSocket(m.remote),
    RemoteIp(m.remote.ip), All>>

Interests == UNION {{InterestsFromMsg(m)[k] : k \in 1 .. 5} : m \in Messages}

\* From<&SockMsgEvent> for Socket (the type of the socket is not told apart).
SocketOf(m) == [pid |-> m.pid, local |-> m.local, remote |-> m.remote]

Sockets == {SocketOf(m) : m \in Messages}
Locals == {s.local : s \in Sockets}

\* Mutant of MatchInterest: the interest of the view is not looked at.
MatchInterestAny(s, interest) == TRUE

\* Socket::match_interest.  The arm of LocalSocket compares the remote
\* address; no Filter asks for it.
MatchInterest(s, interest) ==
  \/ interest = RemoteIp(s.remote.ip)
  \/ interest = RemoteSocket(s.remote)
  \/ interest = LocalSocket(s.remote)
  \/ interest = PidOf(s.pid)
  \/ interest = All

\* Filter::interest: Filter::None, Process(pid) and RemoteIp(ip).
FilterInterests ==
  {All} \cup {PidOf(m.pid) : m \in Messages} \cup {RemoteIp(m.remote.ip) : m \in Messages}

Stat == [rx : Nat, rxCount : Nat, tx : Nat, txCount : Nat]

NoStat == [rx |-> 0, rxCount |-> 0, tx |-> 0, txCount |-> 0]

\* Metrics::increment by one packet of size len.
Increment(stat, channel, len) ==
  IF channel = "Rx"
    THEN [stat EXCEPT !.rx = @ + len, !.rxCount = @ + 1]
    ELSE [stat EXCEPT !.tx = @ + len, !.txCount = @ + 1]

\* Segment::stat_by_interest(..).unwrap_or_default().
StatByInterest(ix, interest) ==
  IF interest \in DOMAIN ix THEN ix[interest] ELSE NoStat

\* f with one more key, or with a new value for it.
Put(f, k, v) == [x \in DOMAIN f \cup {k} |-> IF x = k THEN v ELSE f[x]]

Empty == [x \in {} |-> NoStat]

\* No message, no walk.
NoMsg == [pid |-> 0]
NoWalk == [phase |-> "none", filter |-> All, custom |-> {}]

Init ==
  /\ index = Empty
  /\ socks = Empty
  /\ msg = [c \in Cpus |-> NoMsg]
  /\ pos = [c \in Cpus |-> 0]
  /\ count = 0
  /\ walk = NoWalk
  /\ pending = {}
  /\ visited = {}
  /\ rows = Empty
  /\ before = [index |-> Empty, locals |-> {}]

-----------------------------------------------------------------------------
(* Segment::batch_update                                                   *)

\* The next message of the batch.
Take(c) ==
  /\ pos[c] = 0
  /\ count < MaxUpdates
  /\ count' = count + 1
  /\ UNCHANGED tableVars

\* packet_size() is Err: the message is left out.
SkipMessage(c, m) ==
  /\ Take(c)
  /\ m.ret < 0
  /\ UNCHANGED <<index, socks, msg, pos>>

\* Mutant of InsertSocket: the socket is forgotten.
InsertSocketNever(c, m) ==
  /\ Take(c)
  /\ m.ret >= 0
  /\ msg' = [msg EXCEPT ![c] = m]
  /\ pos' = [pos EXCEPT ![c] = 1]
  /\ UNCHANGED <<index, socks>>

\* A set of Sockets with s: Sockets are equal when their local addresses are,
\* and the set keeps the one it has.
WithSocket(set, s) == IF s.local \in DOMAIN set THEN set ELSE Put(set, s.local, s)

\* socks.insert(msg.into()).
InsertSocket(c, m) ==
  /\ Take(c)
  /\ m.ret >= 0
  /\ socks' = WithSocket(socks, SocketOf(m))
  /\ msg' = [msg EXCEPT ![c] = m]
  /\ pos' = [pos EXCEPT ![c] = 1]
  /\ UNCHANGED index

\* Mutant of UpdateIndex: read the entry, then write a new one back: an
\* update is lost when or_insert_with builds the Metrics from nothing.
UpdateIndexOverwrite(c) ==
  LET m == msg[c]
      interest == InterestsFromMsg(m)[pos[c]]
  IN
  /\ pos[c] # 0
  /\ index' = Put(index, interest, Increment(NoStat, m.channel, m.ret))
  /\ pos' = [pos EXCEPT ![c] = IF @ = 5 THEN 0 ELSE @ + 1]
  /\ msg' = [msg EXCEPT ![c] = IF pos[c] = 5 THEN NoMsg ELSE @]
  /\ UNCHANGED <<socks, count>>
  /\ UNCHANGED tableVars

\* index.entry(interest).and_modify(..).or_insert_with(..).
UpdateIndex(c) ==
  LET m == msg[c]
      interest == InterestsFromMsg(m)[pos[c]]
  IN
  /\ pos[c] # 0
  /\ index' = Put(index, interest,
                  Increment(StatByInterest(index, interest), m.channel, m.ret))
  /\ pos' = [pos EXCEPT ![c] = IF @ = 5 THEN 0 ELSE @ + 1]
  /\ msg' = [msg EXCEPT ![c] = IF pos[c] = 5 THEN NoMsg ELSE @]
  /\ UNCHANGED <<socks, count>>
  /\ UNCHANGED tableVars

-----------------------------------------------------------------------------
(* SocketTableCollector::collect on this segment                           *)

StartWalk(filter, custom) ==
  /\ walk.phase # "walking"
  /\ walk' = [phase |-> "walking", filter |-> filter, custom |-> custom]
  /\ pending' = DOMAIN socks
  /\ visited' = {}
  /\ rows' = Empty
  /\ before' = [index |-> index, locals |-> DOMAIN socks]
  /\ UNCHANGED writerVars

\* The walk's closure: early return unless both filters accept the socket.
Accepted(s) == MatchInterest(s, walk.filter) /\ s \in walk.custom

\* The entry that the closure makes for an accepted socket.
Row(s) == [socket |-> s, stat |-> StatByInterest(index, LocalSocket(s.local))]

VisitSocket(l) ==
  /\ walk.phase = "walking"
  /\ l \in DOMAIN socks \ visited
  /\ visited' = visited \cup {l}
  /\ pending' = pending \ {l}
  /\ rows' = IF Accepted(socks[l]) THEN Put(rows, l, Row(socks[l])) ELSE rows
  /\ UNCHANGED <<walk, before>>
  /\ UNCHANGED writerVars

EndWalk ==
  /\ walk.phase = "walking"
  /\ pending = {}
  /\ walk' = [walk EXCEPT !.phase = "done"]
  /\ UNCHANGED <<pending, visited, rows, before>>
  /\ UNCHANGED writerVars

-----------------------------------------------------------------------------

Next ==
  \/ \E c \in Cpus :
       \/ UpdateIndex(c)
       \/ \E m \in Messages : SkipMessage(c, m) \/ InsertSocket(c, m)
  \/ \E f \in FilterInterests, a \in Customs : StartWalk(f, a)
  \/ \E l \in Locals : VisitSocket(l)
  \/ EndWalk

Spec == Init /\ [][Next]_vars

-----------------------------------------------------------------------------
(* Properties                                                              *)

\* The variables keep their types; the keys of the index are interests of
\* some message.
TypeOK ==
  /\ DOMAIN index \subseteq Interests
  /\ \A i \in DOMAIN index : index[i] \in Stat
  /\ DOMAIN socks \subseteq Locals
  /\ \A l \in DOMAIN socks : socks[l] \in Sockets /\ socks[l].local = l
  /\ \A c \in Cpus : pos[c] \in 0 .. 5 /\ (pos[c] # 0 => msg[c] \in Messages)
  /\ count \in 0 .. MaxUpdates
  /\ pending \subseteq DOMAIN socks /\ visited \subseteq DOMAIN socks
  /\ DOMAIN rows \subseteq visited

\* Bytes in both directions.
Total(stat) == stat.rx + stat.tx

\* Bytes recorded in an index under the interests of one kind.
OfKind(ix, kind) == {i \in DOMAIN ix : i[1] = kind}
KindTotal(ix, kind) ==
  SumFunctionOnSet([i \in DOMAIN ix |-> Total(ix[i])], OfKind(ix, kind))

\* The table finds sockets in socks and their traffic in index: whatever the
\* interleaving, traffic of a local address is never in the index without its
\* socket in the set, so no traffic is out of the table's reach.
SocksCover ==
  \A l \in Locals : LocalSocket(l) \in DOMAIN index => l \in DOMAIN socks

\* Five independent updates per message keep the five kinds of totals in
\* step: the totals of a kind are never behind those of the next kind, and
\* they are all equal when no message is being handled.
KindsAgree ==
  /\ KindTotal(index, "Pid") >= KindTotal(index, "LocalSocket")
  /\ KindTotal(index, "LocalSocket") >= KindTotal(index, "RemoteSocket")
  /\ KindTotal(index, "RemoteSocket") >= KindTotal(index, "RemoteIp")
  /\ KindTotal(index, "RemoteIp") >= KindTotal(index, "All")
  /\ (\A c \in Cpus : pos[c] = 0) => KindTotal(index, "Pid") = KindTotal(index, "All")

StatLeq(a, b) ==
  a.rx <= b.rx /\ a.rxCount <= b.rxCount /\ a.tx <= b.tx /\ a.txCount <= b.txCount

\* What a row shows was true at some moment of the walk: at least what the
\* socket had when the walk began and at most what it has now, although the
\* segment is updated under the walk.
RowsBracketed ==
  \A l \in DOMAIN rows :
    /\ StatLeq(StatByInterest(before.index, LocalSocket(l)), rows[l].stat)
    /\ StatLeq(rows[l].stat, StatByInterest(index, LocalSocket(l)))

RowsTotal ==
  SumFunction([l \in DOMAIN rows |-> Total(rows[l].stat)])

\* The unfiltered table and the sparkline (which reads Interest::All) agree
\* as far as two unsynchronised readers can: the table shows no less than the
\* grand total of the moment the walk began.  It takes socks.insert first and
\* All last in batch_update.
TableCoversAll ==
  walk.phase = "done" /\ walk.filter = All /\ walk.custom = Sockets =>
    RowsTotal >= Total(StatByInterest(before.index, All))

\* "An eBPF based per-process network traffic monitor" (README.md): the table
\* of a process, walked while nothing is in flight, shows all of the traffic
\* recorded for the process and no other.
ProcessTable ==
  /\ walk.phase = "done" /\ walk.custom = Sockets
  /\ before.index = index
  /\ \A c \in Cpus : pos[c] = 0
  => \A p \in {m.pid : m \in Messages} :
       walk.filter = PidOf(p) => RowsTotal = Total(StatByInterest(index, PidOf(p)))

=============================================================================
