----------------------------- MODULE SockProbe -----------------------------
(***************************************************************************)
(* ptraf-ebpf/src/ptraf-ebpf.rs: the probes around sock_sendmsg and        *)
(* sock_recvmsg, and ptraf/src/probe.rs, which attaches them one by one to *)
(* a running system.                                                       *)
(*                                                                         *)
(* The entry probe `msg` puts the socket of the call into CACHE under the  *)
(* id of the thread; the return probe takes it out and reports the call.   *)
(* A thread is in one call at a time:                                      *)
(*                                                                         *)
(*   user   outside of the two functions                                   *)
(*   call   inside, the entry probe (if any) has run                       *)
(*   got    in the return probe, after CACHE.remove: it still holds the    *)
(*          reference that CACHE.get returned, and reads through it next   *)
(*                                                                         *)
(* CACHE is a preallocated BPF hash map (external): `cache` names the slot *)
(* of a key and `value` is what the slots hold.  A slot that is removed is *)
(* pushed on the free list of the CPU at once; an insertion pops one from  *)
(* its CPU's list, or from another CPU's when its own is empty, and fails  *)
(* when there is none.  A thread may return on another CPU than the one it *)
(* entered on, so slots wander between the lists.  A probe is not          *)
(* preempted.  Each probe has several points of failure (an argument or a  *)
(* return value it cannot get, kernel memory it cannot read, a full map):  *)
(* an entry probe that fails leaves CACHE as it was, a return probe fails  *)
(* before it looks or after it has emptied its entry.                      *)
(***************************************************************************)
EXTENDS Integers, Sequences, FiniteSets

CONSTANTS
  Threads,  \* kernel tasks; bpf_get_current_pid_tgid() tells them apart
  Cpus,
  Inet,     \* sockets of family AF_INET or AF_INET6
  Other,    \* sockets of any other family
  Slots,    \* the elements of CACHE
  FreeInit, \* FreeInit[k]: the free list of CPU k at first, a sequence of slots
  Attached, \* how many probes are attached at first (0, or 4: a settled system)
  NoSlot,
  MaxCalls  \* bound: MaxCalls[t] is the number of calls of thread t

ASSUME ProbeAssumption ==
  /\ Inet \cap Other = {}
  /\ NoSlot \notin Slots \cup Cpus
  /\ FreeInit \in [Cpus -> Seq(Slots)]
  /\ \A k, j \in Cpus : \A i \in 1 .. Len(FreeInit[k]), h \in 1 .. Len(FreeInit[j]) :
       FreeInit[k][i] = FreeInit[j][h] => k = j /\ i = h
  /\ Attached \in 0 .. 4
  /\ MaxCalls \in [Threads -> Nat]

VARIABLES
  attached, \* how many of AttachOrder are in place
  pc,       \* where each thread is
  armed,    \* will a return probe fire for the call it is in?
  calls,    \* history: the calls of each thread, in order: [fn, sock, settled],
            \* settled if all the probes were attached when it began
  failed,   \* history: the calls <<t, n>> one of whose probes failed
  cache,    \* CACHE: the slot of each thread's key, or NoSlot
  value,    \* what the slots hold
  free,     \* free lists
  held,     \* the slot that a return probe reads from
  cpu,      \* the CPU on which that return probe runs
  events    \* history: what EVENTS.output was called with, for the n-th call

vars == <<attached, pc, armed, calls, failed, cache, value, free, held, cpu, events>>
cacheVars == <<cache, value, free>>

Sockets == Inet \cup Other
Functions == {"send", "recv"}

Channel(fn) == IF fn = "send" THEN "Tx" ELSE "Rx"

\* Mutant of AttachOrder: one function after the other, crosswise.
AttachOrderMixed ==
  <<<<"entry", "send">>, <<"return", "recv">>, <<"entry", "recv">>, <<"return", "send">>>>

\* ProbeProgram::load attaches in this order.
AttachOrder ==
  <<<<"entry", "send">>, <<"entry", "recv">>, <<"return", "send">>, <<"return", "recv">>>>

IsAttached(probe) == \E i \in 1 .. attached : AttachOrder[i] = probe

Call == [fn : Functions, sock : Sockets, settled : BOOLEAN]

\* The call that t is in, or made last, and its name.
Current(t) == calls[t][Len(calls[t])]
Id(t) == <<t, Len(calls[t])>>

Init ==
  /\ attached = Attached
  /\ pc = [t \in Threads |-> "user"]
  /\ armed = [t \in Threads |-> FALSE]
  /\ calls = [t \in Threads |-> <<>>]
  /\ failed = {}
  /\ cache = [t \in Threads |-> NoSlot]
  /\ value = [s \in Slots |-> NoSlot]
  /\ free = FreeInit
  /\ held = [t \in Threads |-> NoSlot]
  /\ cpu = [t \in Threads |-> NoSlot]
  /\ events = {}

-----------------------------------------------------------------------------
(* CACHE (external)                                                        *)

\* No return probe is in the middle of its work on CPU k.
Runs(k) == \A t \in Threads : pc[t] = "got" => cpu[t] # k

\* The free lists that an insertion on CPU k may pop from.
Lists(k) == IF free[k] # <<>> THEN {k} ELSE {j \in Cpus : free[j] # <<>>}

\* CACHE.insert(t, sock) on CPU k where there is room, or an entry to replace.
Insert(k, t, sock) ==
  \/ /\ cache[t] # NoSlot
     /\ value' = [value EXCEPT ![cache[t]] = sock]
     /\ UNCHANGED <<cache, free>>
  \/ /\ cache[t] = NoSlot
     /\ \E j \in Lists(k) :
          /\ cache' = [cache EXCEPT ![t] = Head(free[j])]
          /\ value' = [value EXCEPT ![Head(free[j])] = sock]
          /\ free' = [free EXCEPT ![j] = Tail(@)]

\* CACHE.remove(t) on CPU k.
Remove(k, t) ==
  /\ cache' = [cache EXCEPT ![t] = NoSlot]
  /\ free' = [free EXCEPT ![k] = <<cache[t]>> \o @]
  /\ UNCHANGED value

-----------------------------------------------------------------------------

\* ProbeProgram::load attaches the next probe.
Attach ==
  /\ attached < 4
  /\ attached' = attached + 1
  /\ UNCHANGED <<pc, armed, calls, failed, cache, value, free, held, cpu, events>>

\* Mutant of TryMsg: nothing is cached for sock_recvmsg.
TryMsgSendOnly(k, t, fn, sock) ==
  IF IsAttached(<<"entry", fn>>) /\ sock \in Inet /\ fn = "send"
    THEN Insert(k, t, sock)
    ELSE UNCHANGED cacheVars

\* Mutant of TryMsg: the family is not looked at.
TryMsgAnyFamily(k, t, fn, sock) ==
  IF IsAttached(<<"entry", fn>>)
    THEN Insert(k, t, sock)
    ELSE UNCHANGED cacheVars

\* try_msg: only internet sockets are cached.
TryMsg(k, t, fn, sock) ==
  IF IsAttached(<<"entry", fn>>) /\ sock \in Inet
    THEN Insert(k, t, sock)
    ELSE UNCHANGED cacheVars

\* A thread calls sock_sendmsg or sock_recvmsg.  The return probe fires for
\* the calls that begin once it is attached.
Begin(t, fn, sock) ==
  /\ pc[t] = "user"
  /\ Len(calls[t]) < MaxCalls[t]
  /\ pc' = [pc EXCEPT ![t] = "call"]
  /\ calls' = [calls EXCEPT ![t] =
                 Append(@, [fn |-> fn, sock |-> sock, settled |-> attached = 4])]
  /\ armed' = [armed EXCEPT ![t] = IsAttached(<<"return", fn>>)]
  /\ UNCHANGED <<attached, held, cpu, events>>

\* The entry probe, on CPU k, succeeds, or there is none yet.
Enter(k, t, fn, sock) ==
  /\ Begin(t, fn, sock)
  /\ Runs(k)
  /\ TryMsg(k, t, fn, sock)
  /\ UNCHANGED failed

\* The entry probe fails: it cannot read the socket, or CACHE is full (of
\* entries of any threads).
EnterFails(t, fn, sock) ==
  /\ Begin(t, fn, sock)
  /\ IsAttached(<<"entry", fn>>)
  /\ failed' = failed \cup {<<t, Len(calls[t]) + 1>>}
  /\ UNCHANGED cacheVars

\* The call returns where no return probe fires, or the probe finds no entry.
ReturnUnseen(t) ==
  /\ pc[t] = "call"
  /\ ~armed[t] \/ cache[t] = NoSlot
  /\ pc' = [pc EXCEPT ![t] = "user"]
  /\ armed' = [armed EXCEPT ![t] = FALSE]
  /\ UNCHANGED <<attached, calls, failed, cache, value, free, held, cpu, events>>

\* Mutant of TryMsgRet: the entry stays in the map.
TryMsgRetKeepsEntry(k, t) ==
  /\ pc[t] = "call"
  /\ armed[t] /\ cache[t] # NoSlot
  /\ Runs(k)
  /\ held' = [held EXCEPT ![t] = cache[t]]
  /\ cpu' = [cpu EXCEPT ![t] = k]
  /\ pc' = [pc EXCEPT ![t] = "got"]
  /\ UNCHANGED cacheVars
  /\ UNCHANGED <<attached, armed, calls, failed, events>>

\* try_msg_ret, up to CACHE.remove, on CPU k.
TryMsgRet(k, t) ==
  /\ pc[t] = "call"
  /\ armed[t] /\ cache[t] # NoSlot
  /\ Runs(k)
  /\ held' = [held EXCEPT ![t] = cache[t]]
  /\ cpu' = [cpu EXCEPT ![t] = k]
  /\ pc' = [pc EXCEPT ![t] = "got"]
  /\ Remove(k, t)
  /\ UNCHANGED <<attached, armed, calls, failed, events>>

\* notify: sockets of other families are left out.
Notify(t, sock, channel) ==
  events' = IF sock \in Inet
              THEN events \cup {[thread |-> t, n |-> Len(calls[t]), sock |-> sock,
                                 channel |-> channel]}
              ELSE events

\* The return probe is done with its slot and the call returns.
Return(t) ==
  /\ pc[t] = "got"
  /\ pc' = [pc EXCEPT ![t] = "user"]
  /\ armed' = [armed EXCEPT ![t] = FALSE]
  /\ held' = [held EXCEPT ![t] = NoSlot]
  /\ cpu' = [cpu EXCEPT ![t] = NoSlot]
  /\ UNCHANGED <<attached, calls, cache, value, free>>

\* The rest of try_msg_ret: dereference the value, notify.
Report(t) ==
  /\ Return(t)
  /\ Notify(t, value[held[t]], Channel(Current(t).fn))
  /\ UNCHANGED failed

\* It fails instead (ctx.ret, a read of the socket): the entry is gone.
ReportFails(t) ==
  /\ Return(t)
  /\ failed' = failed \cup {Id(t)}
  /\ UNCHANGED events

Next ==
  \/ Attach
  \/ \E t \in Threads :
       \/ ReturnUnseen(t)
       \/ Report(t)
       \/ ReportFails(t)
       \/ \E k \in Cpus :
            \/ TryMsgRet(k, t)
            \/ \E fn \in Functions, sock \in Sockets : Enter(k, t, fn, sock)
       \/ \E fn \in Functions, sock \in Sockets : EnterFails(t, fn, sock)

Spec == Init /\ [][Next]_vars

-----------------------------------------------------------------------------
(* Properties                                                              *)

\* The variables keep their types, CACHE only ever holds internet sockets, no
\* slot is in two places, and a return probe that is about to read has a slot.
TypeOK ==
  /\ attached \in 0 .. 4
  /\ pc \in [Threads -> {"user", "call", "got"}]
  /\ armed \in [Threads -> BOOLEAN]
  /\ calls \in [Threads -> Seq(Call)]
  /\ \A id \in failed : id[1] \in Threads /\ id[2] \in 1 .. Len(calls[id[1]])
  /\ cache \in [Threads -> Slots \cup {NoSlot}]
  /\ value \in [Slots -> Inet \cup {NoSlot}]
  /\ free \in [Cpus -> Seq(Slots)]
  /\ held \in [Threads -> Slots \cup {NoSlot}]
  /\ cpu \in [Threads -> Cpus \cup {NoSlot}]
  /\ \A t \in Threads :
       /\ pc[t] # "user" => Len(calls[t]) > 0
       /\ pc[t] = "got" => held[t] # NoSlot /\ cpu[t] # NoSlot
       /\ cache[t] # NoSlot =>
            /\ \A k \in Cpus : \A i \in 1 .. Len(free[k]) : free[k][i] # cache[t]
            /\ \A u \in Threads \ {t} : cache[u] # cache[t]

\* Has the n-th call of t returned?
Returned(t, n) == n < Len(calls[t]) \/ pc[t] = "user"

\* Did the first n calls of t all begin after load had attached everything?
\* (If the first one did, so did the others.)
SettledSince(t, n) == \A m \in 1 .. n : calls[t][m].settled

\* "temporary cache to store the socket between the probe and the return
\* probe": a thread that made no call before load was done has an entry
\* exactly while it is inside a call on an internet socket whose entry probe
\* succeeded, and it is that socket's entry.  No path of the return probe,
\* failing or not, leaves one behind for the thread's next call.
CacheBalanced ==
  \A t \in Threads :
    SettledSince(t, Len(calls[t])) =>
      IF pc[t] = "call" /\ Current(t).sock \in Inet /\ Id(t) \notin failed
        THEN cache[t] # NoSlot /\ value[cache[t]] = Current(t).sock
        ELSE cache[t] = NoSlot

\* The same sentence, read from the events: the socket that an event carries
\* is the socket of the call that it reports.
EventTrue == \A e \in events : e.sock = calls[e.thread][e.n].sock

\* Weaker, and true even while the probes are being attached: an event that
\* reports a call on an internet socket carries the socket of that call,
\* unless the entry probe failed to replace what an earlier call left.
InetTrue ==
  \A e \in events :
    LET c == calls[e.thread][e.n]
    IN  c.sock \in Inet /\ <<e.thread, e.n>> \notin failed => e.sock = c.sock

\* Each call on an internet socket that begins after load is done is reported
\* once, when it returns, with its own socket and direction, unless a probe
\* failed.  Of threads that made no call before, nothing else is reported: a
\* failure loses its own call and no other.
Reported ==
  \A t \in Threads : \A n \in 1 .. Len(calls[t]) :
    LET c == calls[t][n]
        due == c.sock \in Inet /\ <<t, n>> \notin failed /\ Returned(t, n)
        reports == {e \in events : e.thread = t /\ e.n = n}
    IN  /\ c.settled /\ due =>
             reports = {[thread |-> t, n |-> n, sock |-> c.sock,
                         channel |-> Channel(c.fn)]}
        /\ SettledSince(t, n) /\ ~due => reports = {}

=============================================================================
