-------------------------- MODULE SockProbeProofs --------------------------
(***************************************************************************)
(* Theorems about module SockProbe, for any threads, CPUs, sockets, slots  *)
(* and bounds, whatever probes are attached at first and whichever fail.   *)
(***************************************************************************)
EXTENDS SockProbe, TLAPS

\* A slot is on one free list, once, or in CACHE under one key, or neither.
SlotsApart ==
  /\ \A k, j \in Cpus : \A i \in 1 .. Len(free[k]), h \in 1 .. Len(free[j]) :
       free[k][i] = free[j][h] => k = j /\ i = h
  /\ \A t \in Threads : cache[t] # NoSlot =>
       /\ \A k \in Cpus : \A i \in 1 .. Len(free[k]) : free[k][i] # cache[t]
       /\ \A u \in Threads \ {t} : cache[u] # cache[t]

\* The types, without the slots.
Types ==
  /\ attached \in 0 .. 4
  /\ pc \in [Threads -> {"user", "call", "got"}]
  /\ armed \in [Threads -> BOOLEAN]
  /\ calls \in [Threads -> Seq(Call)]
  /\ \A id \in failed : id[1] \in Threads /\ id[2] \in 1 .. Len(calls[id[1]])
  /\ cache \in [Threads -> Slots \cup {NoSlot}]
  /\ value \in [Slots -> Inet \cup {NoSlot}]
  /\ free \in [Cpus -> Seq(Slots)]
  /\ held \in [Threads -> Slots \cup {NoSlot}]
  /\ cpu \in [Threads -> Cpus \cup {NoSlot}]
  /\ \A t \in Threads :
       /\ pc[t] # "user" => Len(calls[t]) > 0
       /\ pc[t] = "got" => held[t] # NoSlot /\ cpu[t] # NoSlot

\* A call for which a return probe will fire also ran its entry probe (the
\* entry probes are attached first): if it is on an internet socket and
\* nothing failed, the entry of the thread is that socket's.
ArmedCached ==
  \A t \in Threads :
    pc[t] = "call" /\ armed[t] /\ Current(t).sock \in Inet /\ Id(t) \notin failed =>
      cache[t] # NoSlot /\ value[cache[t]] = Current(t).sock

\* The return probe fires for every call that began in a settled system.
SettledArmed ==
  \A t \in Threads :
    /\ Len(calls[t]) > 0 /\ Current(t).settled => attached = 4
    /\ pc[t] = "call" /\ Current(t).settled => armed[t]

\* A return probe of a thread that was never unsettled has found the entry of
\* a call on an internet socket.
GotInet ==
  \A t \in Threads :
    pc[t] = "got" /\ SettledSince(t, Len(calls[t])) =>
      Current(t).sock \in Inet /\ Id(t) \notin failed

\* The inductive invariant, with no assumption on the free lists.
ProbeInv ==
  Types /\ SlotsApart /\ ArmedCached /\ SettledArmed /\ GotInet /\ CacheBalanced

\* No CPU ever runs out of free slots of its own.  (Where one does, an
\* insertion takes a slot that a return probe on another CPU still reads: the
\* run probe_reuse.)
SlotsLeft == \A k \in Cpus : free[k] # <<>>

\* A return probe reads the slot that it freed, which is still the first on
\* its CPU's list, and no other probe runs on that CPU.
GotSlot ==
  \A t \in Threads : pc[t] = "got" =>
    /\ cpu[t] \in Cpus /\ free[cpu[t]] # <<>> /\ held[t] = free[cpu[t]][1]
    /\ \A u \in Threads \ {t} : pc[u] = "got" => cpu[u] # cpu[t]

\* What it reads is the socket of its call.
GotTrue ==
  \A t \in Threads :
    pc[t] = "got" /\ Current(t).sock \in Inet /\ Id(t) \notin failed =>
      value[held[t]] = Current(t).sock

\* Only calls that have returned are reported.
EventsPast ==
  \A e \in events :
    /\ e.thread \in Threads /\ e.n \in 1 .. Len(calls[e.thread])
    /\ Returned(e.thread, e.n)

\* What holds in addition as long as SlotsLeft does.
ReportInv == GotSlot /\ GotTrue /\ EventsPast /\ InetTrue /\ Reported

-----------------------------------------------------------------------------
(* CACHE                                                                   *)

\* An insertion changes the entry of its thread only, and its value is the
\* socket that was inserted; the other entries keep their values.
LEMMA InsertEffect ==
  ASSUME Types, SlotsApart, NEW k \in Cpus, NEW t \in Threads, NEW sock \in Inet,
         Insert(k, t, sock)
  PROVE  /\ cache' \in [Threads -> Slots \cup {NoSlot}]
         /\ value' \in [Slots -> Inet \cup {NoSlot}]
         /\ free' \in [Cpus -> Seq(Slots)]
         /\ SlotsApart'
         /\ cache'[t] # NoSlot /\ value'[cache'[t]] = sock
         /\ \A u \in Threads \ {t} :
              /\ cache'[u] = cache[u]
              /\ cache[u] # NoSlot => value'[cache[u]] = value[cache[u]]
<1>0. NoSlot \notin Slots
  BY ProbeAssumption
<1>1. CASE cache[t] # NoSlot
  <2>1. /\ value' = [value EXCEPT ![cache[t]] = sock]
        /\ cache' = cache /\ free' = free
    BY <1>1 DEF Insert
  <2>2. cache[t] \in Slots
    BY <1>1 DEF Types
  <2>3. SlotsApart'
    BY <2>1 DEF SlotsApart
  <2> QED
    BY <1>1, <2>1, <2>2, <2>3 DEF Types, SlotsApart
<1>2. CASE cache[t] = NoSlot
  <2>1. PICK j \in Lists(k) :
          /\ cache' = [cache EXCEPT ![t] = Head(free[j])]
          /\ value' = [value EXCEPT ![Head(free[j])] = sock]
          /\ free' = [free EXCEPT ![j] = Tail(@)]
    BY <1>2 DEF Insert
  <2>2. /\ j \in Cpus /\ free[j] \in Seq(Slots) /\ free[j] # <<>>
    BY DEF Lists, Types
  <2> DEFINE s == Head(free[j])
  <2>3. /\ s \in Slots /\ s # NoSlot /\ Len(free[j]) \in Nat \ {0} /\ s = free[j][1]
        /\ Tail(free[j]) \in Seq(Slots) /\ Len(Tail(free[j])) = Len(free[j]) - 1
        /\ \A i \in 1 .. Len(free[j]) - 1 : Tail(free[j])[i] = free[j][i + 1]
    BY <1>0, <2>2
  <2>4. /\ cache'[t] = s /\ \A u \in Threads \ {t} : cache'[u] = cache[u]
        /\ cache' \in [Threads -> Slots \cup {NoSlot}]
    BY <2>1, <2>3 DEF Types
  <2>5. /\ free' \in [Cpus -> Seq(Slots)]
        /\ free'[j] = Tail(free[j]) /\ \A h \in Cpus \ {j} : free'[h] = free[h]
    BY <2>1, <2>2, <2>3 DEF Types
  <2>6. \A u \in Threads : cache[u] # NoSlot => cache[u] # s
    BY <2>2, <2>3 DEF SlotsApart
  <2>7. /\ value' \in [Slots -> Inet \cup {NoSlot}] /\ value'[s] = sock
        /\ \A x \in Slots : x # s => value'[x] = value[x]
    BY <2>1, <2>3 DEF Types
  <2>8. ASSUME NEW a \in Cpus, NEW i \in 1 .. Len(free'[a])
        PROVE  \E h \in 1 .. Len(free[a]) :
                 /\ free'[a][i] = free[a][h] /\ free[a][h] # s
                 /\ h = IF a = j THEN i + 1 ELSE i
    <3>1. free[a] \in Seq(Slots)
      BY DEF Types
    <3>2. CASE a = j
      <4>1. i + 1 \in 1 .. Len(free[a]) /\ i + 1 # 1 /\ 1 \in 1 .. Len(free[a])
        BY <2>3, <2>5, <2>8, <3>1, <3>2
      <4>2. free'[a][i] = free[a][i + 1]
        BY <2>3, <2>5, <2>8, <3>1, <3>2, <4>1
      <4>3. free[a][i + 1] # free[a][1]
        BY <4>1 DEF SlotsApart
      <4> QED
        BY <2>3, <3>2, <4>1, <4>2, <4>3
    <3>3. CASE a # j
      <4>1. free'[a] = free[a] /\ i \in 1 .. Len(free[a]) /\ 1 \in 1 .. Len(free[j])
        BY <2>2, <2>3, <2>5, <2>8, <3>1, <3>3
      <4>2. free[a][i] # free[j][1]
        BY <2>2, <3>3, <4>1 DEF SlotsApart
      <4> QED
        BY <2>3, <3>3, <4>1, <4>2
    <3> QED
      BY <3>2, <3>3
  <2>9. SlotsApart'
    <3>1. ASSUME NEW a \in Cpus, NEW b \in Cpus, NEW i \in 1 .. Len(free'[a]),
                 NEW h \in 1 .. Len(free'[b]), free'[a][i] = free'[b][h]
          PROVE  a = b /\ i = h
      <4>1. PICK ii \in 1 .. Len(free[a]) :
              free'[a][i] = free[a][ii] /\ ii = IF a = j THEN i + 1 ELSE i
        BY <2>8
      <4>2. PICK hh \in 1 .. Len(free[b]) :
              free'[b][h] = free[b][hh] /\ hh = IF b = j THEN h + 1 ELSE h
        BY <2>8
      <4>3. free[a][ii] = free[b][hh]
        BY <3>1, <4>1, <4>2
      <4>4. a = b /\ ii = hh
        BY <4>3 DEF SlotsApart
      <4>5. i \in Int /\ h \in Int
        OBVIOUS
      <4> QED
        BY <4>1, <4>2, <4>4, <4>5
    <3>2. ASSUME NEW u \in Threads, cache'[u] # NoSlot, NEW a \in Cpus,
                 NEW i \in 1 .. Len(free'[a])
          PROVE  free'[a][i] # cache'[u]
      <4>2. CASE u = t
        BY <2>4, <2>8, <4>2
      <4>3. CASE u # t
        <5>1. cache'[u] = cache[u]
          BY <2>4, <4>3
        <5>2. PICK ii \in 1 .. Len(free[a]) : free'[a][i] = free[a][ii]
          BY <2>8
        <5> QED
          BY <3>2, <5>1, <5>2 DEF SlotsApart
      <4> QED
        BY <4>2, <4>3
    <3>3. ASSUME NEW u \in Threads, cache'[u] # NoSlot, NEW w \in Threads \ {u}
          PROVE  cache'[w] # cache'[u]
      BY <2>3, <2>4, <2>6, <3>3 DEF SlotsApart
    <3> QED
      BY <3>1, <3>2, <3>3 DEF SlotsApart
  <2>10. \A u \in Threads : cache[u] # NoSlot => cache[u] \in Slots
    BY DEF Types
  <2> QED
    BY <2>3, <2>4, <2>5, <2>6, <2>7, <2>9, <2>10
<1> QED
  BY <1>1, <1>2

\* A removal puts the slot of its thread at the head of the CPU's free list.
LEMMA RemoveEffect ==
  ASSUME Types, SlotsApart, NEW k \in Cpus, NEW t \in Threads, cache[t] # NoSlot,
         Remove(k, t)
  PROVE  /\ cache' \in [Threads -> Slots \cup {NoSlot}]
         /\ free' \in [Cpus -> Seq(Slots)]
         /\ SlotsApart'
         /\ value' = value
         /\ cache'[t] = NoSlot /\ \A u \in Threads \ {t} : cache'[u] = cache[u]
         /\ free'[k] # <<>> /\ free'[k][1] = cache[t]
         /\ \A j \in Cpus \ {k} : free'[j] = free[j]
<1>0. NoSlot \notin Slots
  BY ProbeAssumption
<1> DEFINE s == cache[t]
<1>1. s \in Slots /\ free[k] \in Seq(Slots)
  BY <1>0 DEF Types
<1>2. /\ cache' = [cache EXCEPT ![t] = NoSlot]
      /\ free' = [free EXCEPT ![k] = <<s>> \o @]
      /\ value' = value
  BY DEF Remove
<1>3. /\ cache' \in [Threads -> Slots \cup {NoSlot}]
      /\ cache'[t] = NoSlot /\ \A u \in Threads \ {t} : cache'[u] = cache[u]
  BY <1>2 DEF Types
<1>4. /\ <<s>> \o free[k] \in Seq(Slots)
      /\ Len(<<s>> \o free[k]) = Len(free[k]) + 1
      /\ (<<s>> \o free[k])[1] = s
      /\ \A i \in 2 .. Len(free[k]) + 1 : (<<s>> \o free[k])[i] = free[k][i - 1]
  BY <1>1
<1>5. /\ free' \in [Cpus -> Seq(Slots)]
      /\ free'[k] = <<s>> \o free[k] /\ \A j \in Cpus \ {k} : free'[j] = free[j]
  BY <1>2, <1>4 DEF Types
<1>6. SlotsApart'
  <2>1. ASSUME NEW a \in Cpus, NEW i \in 1 .. Len(free'[a])
        PROVE  \/ a = k /\ i = 1 /\ free'[a][i] = s
               \/ /\ a = k /\ i - 1 \in 1 .. Len(free[a])
                  /\ free'[a][i] = free[a][i - 1]
               \/ a # k /\ i \in 1 .. Len(free[a]) /\ free'[a][i] = free[a][i]
    BY <1>1, <1>4, <1>5
  <2>2. \A a \in Cpus : \A i \in 1 .. Len(free[a]) : free[a][i] # s
    BY DEF SlotsApart
  <2>3. ASSUME NEW a \in Cpus, NEW b \in Cpus, NEW i \in 1 .. Len(free'[a]),
               NEW h \in 1 .. Len(free'[b]), free'[a][i] = free'[b][h]
        PROVE  a = b /\ i = h
    <3>1. i \in Int /\ h \in Int
      OBVIOUS
    <3>2. CASE a = k /\ i = 1
      BY <2>1, <2>2, <2>3, <3>2
    <3>3. CASE b = k /\ h = 1
      BY <2>1, <2>2, <2>3, <3>3
    <3>4. CASE ~(a = k /\ i = 1) /\ ~(b = k /\ h = 1)
      <4>1. PICK ii \in 1 .. Len(free[a]) :
              free'[a][i] = free[a][ii] /\ ii = IF a = k THEN i - 1 ELSE i
        BY <2>1, <3>4
      <4>2. PICK hh \in 1 .. Len(free[b]) :
              free'[b][h] = free[b][hh] /\ hh = IF b = k THEN h - 1 ELSE h
        BY <2>1, <3>4
      <4>3. free[a][ii] = free[b][hh]
        BY <2>3, <4>1, <4>2
      <4>4. a = b /\ ii = hh
        BY <4>3 DEF SlotsApart
      <4> QED
        BY <3>1, <4>1, <4>2, <4>4
    <3> QED
      BY <3>2, <3>3, <3>4
  <2>4. ASSUME NEW u \in Threads, cache'[u] # NoSlot
        PROVE  /\ \A a \in Cpus : \A i \in 1 .. Len(free'[a]) : free'[a][i] # cache'[u]
               /\ \A w \in Threads \ {u} : cache'[w] # cache'[u]
    <3>1. u # t /\ cache'[u] = cache[u] /\ cache[u] # s
      BY <1>3, <2>4 DEF SlotsApart
    <3>2. \A a \in Cpus : \A i \in 1 .. Len(free'[a]) : free'[a][i] # cache'[u]
      BY <2>1, <2>4, <3>1 DEF SlotsApart
    <3>3. \A w \in Threads \ {u} : cache'[w] # cache'[u]
      BY <1>3, <2>4, <3>1 DEF SlotsApart
    <3> QED
      BY <3>2, <3>3
  <2> QED
    BY <2>3, <2>4 DEF SlotsApart
<1>7. free'[k] # <<>>
  BY <1>1, <1>4, <1>5
<1> QED
  BY <1>2, <1>3, <1>4, <1>5, <1>6, <1>7

-----------------------------------------------------------------------------
(* Calls                                                                   *)

\* The entry probes are attached before the return probes.
LEMMA EntryFirst ==
  ASSUME attached \in 0 .. 4, NEW fn \in Functions, IsAttached(<<"return", fn>>)
  PROVE  IsAttached(<<"entry", fn>>)
<1>1. PICK i \in 1 .. attached : AttachOrder[i] = <<"return", fn>>
  BY DEF IsAttached
<1>2. i \in 3 .. 4 /\ (i = 3 => fn = "send") /\ (i = 4 => fn = "recv")
  BY <1>1 DEF AttachOrder
<1>3. CASE fn = "send"
  BY <1>2, <1>3 DEF IsAttached, AttachOrder
<1>4. CASE fn = "recv"
  BY <1>2, <1>4 DEF IsAttached, AttachOrder
<1> QED
  BY <1>3, <1>4 DEF Functions

\* In a settled system all of them are.
LEMMA AllAttached ==
  ASSUME attached = 4, NEW fn \in Functions
  PROVE  IsAttached(<<"entry", fn>>) /\ IsAttached(<<"return", fn>>)
<1>1. CASE fn = "send"
  BY <1>1 DEF IsAttached, AttachOrder
<1>2. CASE fn = "recv"
  BY <1>2 DEF IsAttached, AttachOrder
<1> QED
  BY <1>1, <1>2 DEF Functions

\* What a call records of the system when it begins.
LEMMA SettledField ==
  ASSUME NEW fn, NEW sock, NEW n, NEW c,
         c = [fn |-> fn, sock |-> sock, settled |-> n = 4]
  PROVE  c.settled = (n = 4)
BY Zenon

\* A call that begins is the last of its thread; no other call changes.
LEMMA BeginEffect ==
  ASSUME Types, NEW t \in Threads, NEW fn \in Functions, NEW sock \in Sockets,
         Begin(t, fn, sock)
  PROVE  /\ pc \in [Threads -> {"user", "call", "got"}] /\ pc[t] = "user"
         /\ pc' = [pc EXCEPT ![t] = "call"]
         /\ Len(calls[t]) \in Nat
         /\ calls' \in [Threads -> Seq(Call)]
         /\ Len(calls'[t]) = Len(calls[t]) + 1
         /\ calls'[t][Len(calls[t]) + 1] =
              [fn |-> fn, sock |-> sock, settled |-> attached = 4]
         /\ calls'[t][Len(calls[t]) + 1].settled = (attached = 4)
         /\ \A n \in 1 .. Len(calls[t]) : calls'[t][n] = calls[t][n]
         /\ \A u \in Threads \ {t} : calls'[u] = calls[u]
         /\ armed' \in [Threads -> BOOLEAN]
         /\ armed'[t] = IsAttached(<<"return", fn>>)
         /\ \A u \in Threads \ {t} : armed'[u] = armed[u]
         /\ UNCHANGED <<attached, held, cpu, events>>
<1> DEFINE c == [fn |-> fn, sock |-> sock, settled |-> attached = 4]
<1>1. calls[t] \in Seq(Call) /\ c \in Call
  BY DEF Types, Call
<1>2. /\ Append(calls[t], c) \in Seq(Call)
      /\ Len(Append(calls[t], c)) = Len(calls[t]) + 1
      /\ Append(calls[t], c)[Len(calls[t]) + 1] = c
      /\ \A n \in 1 .. Len(calls[t]) : Append(calls[t], c)[n] = calls[t][n]
  BY <1>1
<1>3. /\ calls' \in [Threads -> Seq(Call)] /\ calls'[t] = Append(calls[t], c)
      /\ \A u \in Threads \ {t} : calls'[u] = calls[u]
  BY <1>2 DEF Begin, Types
<1>4. IsAttached(<<"return", fn>>) \in BOOLEAN
  BY DEF IsAttached
<1>5. /\ armed' \in [Threads -> BOOLEAN]
      /\ armed'[t] = IsAttached(<<"return", fn>>)
      /\ \A u \in Threads \ {t} : armed'[u] = armed[u]
  BY <1>4 DEF Begin, Types
<1>8. c.settled = (attached = 4)
  BY SettledField, Zenon
<1> HIDE DEF c
<1>6. Len(calls[t]) \in Nat
  BY <1>1
<1>7. pc \in [Threads -> {"user", "call", "got"}] /\ pc[t] = "user"
  BY DEF Begin, Types
<1> QED
  BY <1>2, <1>3, <1>5, <1>6, <1>7, <1>8 DEF Begin, c

\* A call begins, and its entry probe stores its socket, or leaves CACHE
\* alone: because it is not attached, fails, or sees another family.
LEMMA BeginInv ==
  ASSUME ProbeInv, NEW t \in Threads, NEW fn \in Functions, NEW sock \in Sockets,
         Begin(t, fn, sock),
         failed' \in {failed, failed \cup {<<t, Len(calls[t]) + 1>>}},
         cache' \in [Threads -> Slots \cup {NoSlot}],
         value' \in [Slots -> Inet \cup {NoSlot}],
         free' \in [Cpus -> Seq(Slots)],
         SlotsApart',
         \A u \in Threads \ {t} :
           /\ cache'[u] = cache[u]
           /\ cache[u] # NoSlot => value'[cache[u]] = value[cache[u]],
         IF sock \in Inet /\ IsAttached(<<"entry", fn>>) /\ failed' = failed
           THEN cache'[t] # NoSlot /\ value'[cache'[t]] = sock
           ELSE cache'[t] = cache[t]
  PROVE  ProbeInv'
<1> DEFINE n == Len(calls[t])
<1> USE DEF ProbeInv
<1>1. /\ pc \in [Threads -> {"user", "call", "got"}] /\ pc[t] = "user"
      /\ pc' = [pc EXCEPT ![t] = "call"]
      /\ n \in Nat
      /\ calls' \in [Threads -> Seq(Call)]
      /\ Len(calls'[t]) = n + 1
      /\ calls'[t][n + 1] = [fn |-> fn, sock |-> sock, settled |-> attached = 4]
      /\ calls'[t][n + 1].settled = (attached = 4)
      /\ \A i \in 1 .. n : calls'[t][i] = calls[t][i]
      /\ \A u \in Threads \ {t} : calls'[u] = calls[u]
      /\ armed' \in [Threads -> BOOLEAN]
      /\ armed'[t] = IsAttached(<<"return", fn>>)
      /\ \A u \in Threads \ {t} : armed'[u] = armed[u]
      /\ UNCHANGED <<attached, held, cpu, events>>
  BY BeginEffect
<1>2. /\ pc'[t] = "call" /\ \A u \in Threads \ {t} : pc'[u] = pc[u]
      /\ pc' \in [Threads -> {"user", "call", "got"}]
  BY <1>1
<1>3. Types'
  <2>1. \A id \in failed' : id[1] \in Threads /\ id[2] \in 1 .. Len(calls'[id[1]])
    <3>1. ASSUME NEW id \in failed
          PROVE  id[1] \in Threads /\ id[2] \in 1 .. Len(calls'[id[1]])
      <4>1. id[1] \in Threads /\ id[2] \in 1 .. Len(calls[id[1]])
        BY DEF Types
      <4>2. CASE id[1] = t
        <5>1. Len(calls'[id[1]]) = n + 1 /\ id[2] \in 1 .. n
          BY <1>1, <4>1, <4>2
        <5> QED
          BY <1>1, <4>1, <5>1
      <4>3. CASE id[1] # t
        <5>1. calls'[id[1]] = calls[id[1]]
          BY <1>1, <4>1, <4>3
        <5> QED
          BY <4>1, <5>1
      <4> QED
        BY <4>2, <4>3
    <3>2. ASSUME NEW id, id = <<t, n + 1>>
          PROVE  id[1] \in Threads /\ id[2] \in 1 .. Len(calls'[id[1]])
      BY <1>1, <3>2
    <3> QED
      BY <3>1, <3>2
  <2>2. ASSUME NEW u \in Threads
        PROVE  /\ pc'[u] # "user" => Len(calls'[u]) > 0
               /\ pc'[u] = "got" => held'[u] # NoSlot /\ cpu'[u] # NoSlot
    BY <1>1, <1>2 DEF Types
  <2>3. /\ attached' \in 0 .. 4 /\ held' \in [Threads -> Slots \cup {NoSlot}]
        /\ cpu' \in [Threads -> Cpus \cup {NoSlot}]
    BY <1>1 DEF Types
  <2> QED
    BY <1>1, <1>2, <2>1, <2>2, <2>3 DEF Types
<1>4. /\ Current(t)' = [fn |-> fn, sock |-> sock, settled |-> attached = 4]
      /\ Id(t)' = <<t, n + 1>>
      /\ <<t, n + 1>> \notin failed
  <2>1. <<t, n + 1>> \notin failed
    BY <1>1 DEF Types
  <2> QED
    BY <1>1, <2>1 DEF Current, Id
<1>5. ASSUME NEW u \in Threads, u # t
      PROVE  /\ Current(u)' = Current(u) /\ Id(u)' = Id(u)
             /\ (Id(u) \in failed') = (Id(u) \in failed)
             /\ SettledSince(u, Len(calls[u]))' = SettledSince(u, Len(calls[u]))
             /\ pc'[u] = pc[u] /\ armed'[u] = armed[u] /\ cache'[u] = cache[u]
             /\ cache[u] # NoSlot => value'[cache'[u]] = value[cache[u]]
             /\ Len(calls'[u]) = Len(calls[u])
  BY <1>1, <1>2, <1>5 DEF Current, Id, SettledSince
<1>6. IsAttached(<<"return", fn>>) => IsAttached(<<"entry", fn>>)
  BY EntryFirst DEF Types
<1>7. attached = 4 => IsAttached(<<"entry", fn>>) /\ IsAttached(<<"return", fn>>)
  BY AllAttached
<1>8. Id(t)' \notin failed' <=> failed' = failed
  BY <1>4
<1>9. ArmedCached'
  <2> SUFFICES ASSUME NEW u \in Threads,
                      pc'[u] = "call", armed'[u], Current(u)'.sock \in Inet,
                      Id(u)' \notin failed'
               PROVE  cache'[u] # NoSlot /\ value'[cache'[u]] = Current(u)'.sock
    BY DEF ArmedCached
  <2>1. CASE u = t
    BY <1>1, <1>4, <1>6, <1>8, <2>1
  <2>2. CASE u # t
    BY <1>5, <2>2 DEF ArmedCached
  <2> QED
    BY <2>1, <2>2
<1>10. SettledArmed'
  <2> SUFFICES ASSUME NEW u \in Threads
               PROVE  /\ Len(calls'[u]) > 0 /\ Current(u)'.settled => attached' = 4
                      /\ pc'[u] = "call" /\ Current(u)'.settled => armed'[u]
    BY DEF SettledArmed
  <2>1. CASE u = t
    <3>1. Current(t)'.settled = (attached = 4)
      BY <1>1 DEF Current
    <3>2. attached' = attached /\ armed'[t] = IsAttached(<<"return", fn>>)
      BY <1>1
    <3>3. (attached = 4) => armed'[t]
      BY <1>7, <3>2
    <3> QED
      BY <2>1, <3>1, <3>2, <3>3
  <2>2. CASE u # t
    <3>1. /\ Current(u)' = Current(u) /\ Len(calls'[u]) = Len(calls[u])
          /\ pc'[u] = pc[u] /\ armed'[u] = armed[u] /\ attached' = attached
      BY <1>1, <1>5, <2>2
    <3>2. /\ Len(calls[u]) > 0 /\ Current(u).settled => attached = 4
          /\ pc[u] = "call" /\ Current(u).settled => armed[u]
      BY DEF SettledArmed
    <3> QED
      BY <3>1, <3>2
  <2> QED
    BY <2>1, <2>2
<1>11. GotInet'
  BY <1>2, <1>5 DEF GotInet
<1>12. CacheBalanced'
  <2> SUFFICES ASSUME NEW u \in Threads, SettledSince(u, Len(calls[u]))'
               PROVE  IF pc'[u] = "call" /\ Current(u)'.sock \in Inet
                         /\ Id(u)' \notin failed'
                        THEN cache'[u] # NoSlot /\ value'[cache'[u]] = Current(u)'.sock
                        ELSE cache'[u] = NoSlot
    BY DEF CacheBalanced
  <2>1. CASE u = t
    <3>1. \A m \in 1 .. n + 1 : calls'[t][m].settled
      BY <1>1, <2>1 DEF SettledSince
    <3>2. n + 1 \in 1 .. n + 1 /\ \A m \in 1 .. n : m \in 1 .. n + 1
      BY <1>1
    <3>3. attached = 4
      <4>1. calls'[t][n + 1].settled
        BY <3>1, <3>2
      <4> QED
        BY <1>1, <4>1
    <3>4. SettledSince(t, n)
      BY <1>1, <3>1, <3>2 DEF SettledSince
    <3>5. cache[t] = NoSlot
      BY <1>1, <3>4 DEF CacheBalanced
    <3>6. Current(t)'.sock = sock /\ pc'[t] = "call"
      BY <1>2, <1>4
    <3>7. IF sock \in Inet /\ failed' = failed
            THEN cache'[t] # NoSlot /\ value'[cache'[t]] = sock
            ELSE cache'[t] = NoSlot
      BY <1>7, <3>3, <3>5
    <3> QED
      BY <1>8, <2>1, <3>6, <3>7
  <2>2. CASE u # t
    BY <1>5, <2>2 DEF CacheBalanced
  <2> QED
    BY <2>1, <2>2
<1> QED
  BY <1>3, <1>9, <1>10, <1>11, <1>12

\* A call returns, seen or not: its thread has no entry left if it was never
\* unsettled, and nobody else's call or entry changes.
LEMMA ReturnInv ==
  ASSUME ProbeInv, NEW t \in Threads,
         \/ pc[t] = "call" /\ (~armed[t] \/ cache[t] = NoSlot)
         \/ pc[t] = "got",
         pc' = [pc EXCEPT ![t] = "user"],
         armed' = [armed EXCEPT ![t] = FALSE],
         failed' \in {failed, failed \cup {Id(t)}},
         held' \in {held, [held EXCEPT ![t] = NoSlot]},
         cpu' \in {cpu, [cpu EXCEPT ![t] = NoSlot]},
         UNCHANGED <<attached, calls, cache, value, free>>
  PROVE  ProbeInv'
<1> USE DEF ProbeInv
<1>1. /\ pc \in [Threads -> {"user", "call", "got"}] /\ armed \in [Threads -> BOOLEAN]
      /\ calls \in [Threads -> Seq(Call)]
      /\ held \in [Threads -> Slots \cup {NoSlot}] /\ cpu \in [Threads -> Cpus \cup {NoSlot}]
      /\ Len(calls[t]) \in Nat /\ Len(calls[t]) > 0
  BY DEF Types
<1>2. /\ pc'[t] = "user" /\ armed'[t] = FALSE
      /\ \A u \in Threads \ {t} :
           pc'[u] = pc[u] /\ armed'[u] = armed[u] /\ held'[u] = held[u] /\ cpu'[u] = cpu[u]
      /\ pc' \in [Threads -> {"user", "call", "got"}] /\ armed' \in [Threads -> BOOLEAN]
      /\ held' \in [Threads -> Slots \cup {NoSlot}]
      /\ cpu' \in [Threads -> Cpus \cup {NoSlot}]
  BY <1>1
<1>3. Types'
  <2>1. \A id \in failed' : id[1] \in Threads /\ id[2] \in 1 .. Len(calls'[id[1]])
    <3>1. ASSUME NEW id \in failed
          PROVE  id[1] \in Threads /\ id[2] \in 1 .. Len(calls'[id[1]])
      BY DEF Types
    <3>2. ASSUME NEW id, id = Id(t)
          PROVE  id[1] \in Threads /\ id[2] \in 1 .. Len(calls'[id[1]])
      BY <1>1, <3>2 DEF Id
    <3> QED
      BY <3>1, <3>2
  <2>2. ASSUME NEW u \in Threads
        PROVE  /\ pc'[u] # "user" => Len(calls'[u]) > 0
               /\ pc'[u] = "got" => held'[u] # NoSlot /\ cpu'[u] # NoSlot
    BY <1>2 DEF Types
  <2> QED
    BY <1>2, <2>1, <2>2 DEF Types
<1>4. SlotsApart'
  BY DEF SlotsApart
<1>5. ASSUME NEW u \in Threads, u # t
      PROVE  /\ Current(u)' = Current(u) /\ Id(u)' = Id(u)
             /\ (Id(u) \in failed') = (Id(u) \in failed)
             /\ SettledSince(u, Len(calls[u]))' = SettledSince(u, Len(calls[u]))
             /\ pc'[u] = pc[u] /\ armed'[u] = armed[u]
  BY <1>2, <1>5 DEF Current, Id, SettledSince
<1>6. ArmedCached'
  BY <1>2, <1>5 DEF ArmedCached
<1>7. SettledArmed'
  <2> SUFFICES ASSUME NEW u \in Threads
               PROVE  /\ Len(calls[u]) > 0 /\ Current(u).settled => attached = 4
                      /\ pc'[u] = "call" /\ Current(u).settled => armed'[u]
    BY DEF SettledArmed, Current
  <2>1. /\ Len(calls[u]) > 0 /\ Current(u).settled => attached = 4
        /\ pc[u] = "call" /\ Current(u).settled => armed[u]
    BY DEF SettledArmed
  <2>2. pc'[u] = "call" => u # t /\ pc[u] = "call" /\ armed'[u] = armed[u]
    BY <1>2
  <2> QED
    BY <2>1, <2>2
<1>8. GotInet'
  BY <1>2, <1>5 DEF GotInet
<1>9. CacheBalanced'
  <2> SUFFICES ASSUME NEW u \in Threads, SettledSince(u, Len(calls[u]))'
               PROVE  IF pc'[u] = "call" /\ Current(u)'.sock \in Inet
                         /\ Id(u)' \notin failed'
                        THEN cache'[u] # NoSlot /\ value'[cache'[u]] = Current(u)'.sock
                        ELSE cache'[u] = NoSlot
    BY DEF CacheBalanced
  <2>1. CASE u = t
    <3>1. SettledSince(t, Len(calls[t]))
      BY <2>1 DEF SettledSince
    <3>2. Current(t).settled
      BY <1>1, <3>1 DEF SettledSince, Current
    <3>3. pc[t] = "call" => armed[t]
      BY <3>2 DEF SettledArmed
    <3>4. pc[t] = "got" => cache[t] = NoSlot
      BY <3>1 DEF CacheBalanced
    <3>5. cache'[u] = NoSlot
      BY <2>1, <3>3, <3>4
    <3> QED
      BY <1>2, <2>1, <3>5
  <2>2. CASE u # t
    BY <1>5, <2>2 DEF CacheBalanced
  <2> QED
    BY <2>1, <2>2
<1> QED
  BY <1>3, <1>4, <1>6, <1>7, <1>8, <1>9

\* A return probe finds the entry of its thread and takes it out.
LEMMA TryMsgRetInv ==
  ASSUME ProbeInv, NEW k \in Cpus, NEW t \in Threads, TryMsgRet(k, t)
  PROVE  ProbeInv'
<1> USE DEF ProbeInv
<1>1. /\ pc[t] = "call" /\ armed[t] /\ cache[t] # NoSlot
      /\ held' = [held EXCEPT ![t] = cache[t]] /\ cpu' = [cpu EXCEPT ![t] = k]
      /\ pc' = [pc EXCEPT ![t] = "got"] /\ Remove(k, t)
      /\ UNCHANGED <<attached, armed, calls, failed, events>>
  BY DEF TryMsgRet
<1>2. /\ cache' \in [Threads -> Slots \cup {NoSlot}]
      /\ free' \in [Cpus -> Seq(Slots)]
      /\ SlotsApart'
      /\ value' = value
      /\ cache'[t] = NoSlot /\ \A u \in Threads \ {t} : cache'[u] = cache[u]
  BY <1>1, RemoveEffect
<1>3. k # NoSlot
  BY ProbeAssumption
<1>4. /\ pc'[t] = "got" /\ held'[t] = cache[t] /\ cpu'[t] = k
      /\ \A u \in Threads \ {t} :
           pc'[u] = pc[u] /\ held'[u] = held[u] /\ cpu'[u] = cpu[u]
      /\ pc' \in [Threads -> {"user", "call", "got"}]
      /\ held' \in [Threads -> Slots \cup {NoSlot}]
      /\ cpu' \in [Threads -> Cpus \cup {NoSlot}]
  BY <1>1 DEF Types
<1>5. Types'
  <2>1. ASSUME NEW u \in Threads
        PROVE  /\ pc'[u] # "user" => Len(calls'[u]) > 0
               /\ pc'[u] = "got" => held'[u] # NoSlot /\ cpu'[u] # NoSlot
    BY <1>1, <1>3, <1>4 DEF Types
  <2> QED
    BY <1>1, <1>2, <1>4, <2>1 DEF Types
<1>6. ASSUME NEW u \in Threads
      PROVE  /\ Current(u)' = Current(u) /\ Id(u)' = Id(u)
             /\ SettledSince(u, Len(calls[u]))' = SettledSince(u, Len(calls[u]))
  BY <1>1 DEF Current, Id, SettledSince
<1>7. ArmedCached'
  BY <1>1, <1>2, <1>4, <1>6 DEF ArmedCached
<1>8. SettledArmed'
  <2> SUFFICES ASSUME NEW u \in Threads
               PROVE  /\ Len(calls[u]) > 0 /\ Current(u).settled => attached = 4
                      /\ pc'[u] = "call" /\ Current(u).settled => armed[u]
    BY <1>1 DEF SettledArmed, Current
  <2>1. pc'[u] = "call" => pc[u] = "call"
    BY <1>4
  <2> QED
    BY <2>1 DEF SettledArmed
<1>9. GotInet'
  <2>1. ASSUME SettledSince(t, Len(calls[t]))
        PROVE  Current(t).sock \in Inet /\ Id(t) \notin failed
    BY <1>1, <2>1 DEF CacheBalanced
  <2> QED
    BY <1>1, <1>4, <1>6, <2>1 DEF GotInet
<1>10. CacheBalanced'
  <2> SUFFICES ASSUME NEW u \in Threads, SettledSince(u, Len(calls[u]))
               PROVE  IF pc'[u] = "call" /\ Current(u).sock \in Inet
                         /\ Id(u) \notin failed
                        THEN cache'[u] # NoSlot /\ value'[cache'[u]] = Current(u).sock
                        ELSE cache'[u] = NoSlot
    BY <1>1, <1>6 DEF CacheBalanced
  <2>1. CASE u = t
    BY <1>2, <1>4, <2>1
  <2>2. CASE u # t
    BY <1>2, <1>4, <2>2 DEF CacheBalanced
  <2> QED
    BY <2>1, <2>2
<1> QED
  BY <1>2, <1>5, <1>7, <1>8, <1>9, <1>10

\* The entry probe succeeds, or there is none.
LEMMA EnterInv ==
  ASSUME ProbeInv, NEW k \in Cpus, NEW t \in Threads, NEW fn \in Functions,
         NEW sock \in Sockets, Enter(k, t, fn, sock)
  PROVE  ProbeInv'
<1> USE DEF ProbeInv
<1>1. Begin(t, fn, sock) /\ TryMsg(k, t, fn, sock) /\ failed' = failed
  BY DEF Enter
<1>2. CASE sock \in Inet /\ IsAttached(<<"entry", fn>>)
  <2>1. Insert(k, t, sock)
    BY <1>1, <1>2 DEF TryMsg
  <2>2. /\ cache' \in [Threads -> Slots \cup {NoSlot}]
        /\ value' \in [Slots -> Inet \cup {NoSlot}]
        /\ free' \in [Cpus -> Seq(Slots)]
        /\ SlotsApart'
        /\ cache'[t] # NoSlot /\ value'[cache'[t]] = sock
        /\ \A u \in Threads \ {t} :
             /\ cache'[u] = cache[u]
             /\ cache[u] # NoSlot => value'[cache[u]] = value[cache[u]]
    BY <1>2, <2>1, InsertEffect
  <2> QED
    BY <1>1, <1>2, <2>2, BeginInv
<1>3. CASE ~(sock \in Inet /\ IsAttached(<<"entry", fn>>))
  <2>1. cache' = cache /\ value' = value /\ free' = free
    BY <1>1, <1>3 DEF TryMsg, cacheVars
  <2>2. SlotsApart'
    BY <2>1 DEF SlotsApart
  <2>3. /\ cache' \in [Threads -> Slots \cup {NoSlot}]
        /\ value' \in [Slots -> Inet \cup {NoSlot}]
        /\ free' \in [Cpus -> Seq(Slots)]
    BY <2>1 DEF Types
  <2> QED
    BY <1>1, <1>3, <2>1, <2>2, <2>3, BeginInv
<1> QED
  BY <1>2, <1>3

\* The entry probe fails.
LEMMA EnterFailsInv ==
  ASSUME ProbeInv, NEW t \in Threads, NEW fn \in Functions,
         NEW sock \in Sockets, EnterFails(t, fn, sock)
  PROVE  ProbeInv'
<1> USE DEF ProbeInv
<1>1. /\ Begin(t, fn, sock) /\ failed' = failed \cup {<<t, Len(calls[t]) + 1>>}
      /\ cache' = cache /\ value' = value /\ free' = free
  BY DEF EnterFails, cacheVars
<1>2. SlotsApart'
  BY <1>1 DEF SlotsApart
<1>3. /\ cache' \in [Threads -> Slots \cup {NoSlot}]
      /\ value' \in [Slots -> Inet \cup {NoSlot}]
      /\ free' \in [Cpus -> Seq(Slots)]
  BY <1>1 DEF Types
<1>4. failed' # failed
  <2>1. <<t, Len(calls[t]) + 1>> \notin failed
    <3>1. Len(calls[t]) \in Nat
      BY DEF Types
    <3>2. SUFFICES ASSUME <<t, Len(calls[t]) + 1>> \in failed PROVE FALSE
      OBVIOUS
    <3>3. Len(calls[t]) + 1 \in 1 .. Len(calls[t])
      BY <3>2 DEF Types
    <3> QED
      BY <3>1, <3>3
  <2> QED
    BY <1>1, <2>1
<1> QED
  BY <1>1, <1>2, <1>3, <1>4, BeginInv

LEMMA ProbeInit ==
  ASSUME Init
  PROVE  ProbeInv
<1>1. /\ Attached \in 0 .. 4 /\ FreeInit \in [Cpus -> Seq(Slots)]
      /\ \A k, j \in Cpus : \A i \in 1 .. Len(FreeInit[k]), h \in 1 .. Len(FreeInit[j]) :
           FreeInit[k][i] = FreeInit[j][h] => k = j /\ i = h
  BY ProbeAssumption
<1>2. Types
  BY <1>1 DEF Init, Types
<1>3. SlotsApart
  <2>1. free = FreeInit /\ \A t \in Threads : cache[t] = NoSlot
    BY DEF Init
  <2> QED
    BY <1>1, <2>1 DEF SlotsApart
<1>4. \A t \in Threads : pc[t] = "user" /\ Len(calls[t]) = 0 /\ cache[t] = NoSlot
  BY DEF Init
<1> QED
  BY <1>2, <1>3, <1>4
  DEF ProbeInv, ArmedCached, SettledArmed, GotInet, CacheBalanced

\* Every step preserves the invariant.
LEMMA ProbeStep ==
  ASSUME ProbeInv, [Next]_vars
  PROVE  ProbeInv'
<1>1. CASE UNCHANGED vars
  BY <1>1 DEF vars, ProbeInv, Types, SlotsApart, ArmedCached, SettledArmed, GotInet,
     CacheBalanced, Current, Id, SettledSince
<1>2. CASE Attach
  <2>1. /\ attached' = attached + 1 /\ attached < 4
        /\ UNCHANGED <<pc, armed, calls, failed, cache, value, free, held, cpu>>
    BY <1>2 DEF Attach
  <2>2. Types /\ SettledArmed
    BY DEF ProbeInv
  <2>3. Types'
    BY <2>1, <2>2 DEF Types
  <2>4. SettledArmed'
    <3> SUFFICES ASSUME NEW u \in Threads
                 PROVE  /\ Len(calls[u]) > 0 /\ Current(u).settled => attached' = 4
                        /\ pc[u] = "call" /\ Current(u).settled => armed[u]
      BY <2>1 DEF SettledArmed, Current
    <3> QED
      BY <2>1, <2>2 DEF SettledArmed
  <2>5. SlotsApart' /\ ArmedCached' /\ GotInet' /\ CacheBalanced'
    BY <2>1 DEF ProbeInv, SlotsApart, ArmedCached, GotInet, CacheBalanced, Current, Id,
       SettledSince
  <2> QED
    BY <2>3, <2>4, <2>5 DEF ProbeInv
<1>3. ASSUME NEW t \in Threads, ReturnUnseen(t) PROVE ProbeInv'
  <2>1. /\ pc[t] = "call" /\ (~armed[t] \/ cache[t] = NoSlot)
        /\ pc' = [pc EXCEPT ![t] = "user"] /\ armed' = [armed EXCEPT ![t] = FALSE]
        /\ UNCHANGED <<attached, calls, failed, cache, value, free, held, cpu>>
    BY <1>3 DEF ReturnUnseen
  <2> QED
    BY <2>1, ReturnInv
<1>4. ASSUME NEW t \in Threads, Report(t) \/ ReportFails(t) PROVE ProbeInv'
  <2>1. /\ pc[t] = "got" /\ failed' \in {failed, failed \cup {Id(t)}}
        /\ pc' = [pc EXCEPT ![t] = "user"] /\ armed' = [armed EXCEPT ![t] = FALSE]
        /\ held' = [held EXCEPT ![t] = NoSlot] /\ cpu' = [cpu EXCEPT ![t] = NoSlot]
        /\ UNCHANGED <<attached, calls, cache, value, free>>
    BY <1>4 DEF Report, ReportFails, Return
  <2> QED
    BY <2>1, ReturnInv
<1> QED
  BY <1>1, <1>2, <1>3, <1>4, TryMsgRetInv, EnterInv, EnterFailsInv DEF Next

\* TypeOK always holds: no slot of CACHE is free and in use, or in use twice,
\* and only internet sockets get into it, however the probes of the threads
\* interleave, fail and change CPU.
THEOREM ProbeTypeOK == Spec => []TypeOK
<1>1. Spec => []ProbeInv
  BY ProbeInit, ProbeStep, PTL DEF Spec
<1>2. ProbeInv => TypeOK
  BY DEF ProbeInv, Types, SlotsApart, TypeOK
<1> QED
  BY <1>1, <1>2, PTL

\* CacheBalanced always holds: for a thread that made no call before load was
\* done, try_msg and try_msg_ret leave an entry in CACHE exactly while a call
\* of it is in progress whose entry probe succeeded, and never an old one.
THEOREM ProbeCacheBalanced == Spec => []CacheBalanced
<1>1. Spec => []ProbeInv
  BY ProbeInit, ProbeStep, PTL DEF Spec
<1>2. ProbeInv => CacheBalanced
  BY DEF ProbeInv
<1> QED
  BY <1>1, <1>2, PTL

-----------------------------------------------------------------------------
(* What is reported, while no CPU runs out of slots                        *)

\* An insertion on CPU k takes nothing from another CPU's list and does not
\* write to the slot in front of it.
LEMMA InsertOwn ==
  ASSUME Types, SlotsApart, SlotsLeft, NEW k \in Cpus, NEW t \in Threads,
         NEW sock \in Inet, Insert(k, t, sock), NEW j \in Cpus, j # k
  PROVE  free'[j] = free[j] /\ value'[free[j][1]] = value[free[j][1]]
<1>1. /\ free[j] \in Seq(Slots) /\ free[j] # <<>> /\ 1 \in 1 .. Len(free[j])
      /\ free[k] \in Seq(Slots) /\ free[k] # <<>> /\ 1 \in 1 .. Len(free[k])
      /\ free[j][1] \in Slots
  BY DEF Types, SlotsLeft
<1>2. CASE cache[t] # NoSlot
  <2>1. free[j][1] # cache[t]
    BY <1>1, <1>2 DEF SlotsApart
  <2> QED
    BY <1>1, <1>2, <2>1 DEF Insert, Types
<1>3. CASE cache[t] = NoSlot
  <2>1. Lists(k) = {k}
    BY <1>1 DEF Lists
  <2>2. /\ value' = [value EXCEPT ![Head(free[k])] = sock]
        /\ free' = [free EXCEPT ![k] = Tail(@)]
    BY <1>3, <2>1 DEF Insert
  <2>3. free[j][1] # free[k][1]
    BY <1>1 DEF SlotsApart
  <2> QED
    BY <1>1, <2>2, <2>3 DEF Types
<1> QED
  BY <1>2, <1>3

\* While a return probe is between CACHE.remove and its last read, what it
\* reads from stays as it was.
LEMMA GotKept ==
  ASSUME ProbeInv, GotSlot, SlotsLeft, [Next]_vars, NEW u \in Threads,
         pc[u] = "got", pc'[u] = "got"
  PROVE  /\ cpu'[u] = cpu[u] /\ held'[u] = held[u] /\ free'[cpu[u]] = free[cpu[u]]
         /\ value'[held[u]] = value[held[u]]
         /\ calls'[u] = calls[u] /\ (Id(u) \in failed <=> Id(u) \in failed')
<1>1. /\ Types /\ SlotsApart
      /\ cpu[u] \in Cpus /\ free[cpu[u]] # <<>> /\ held[u] = free[cpu[u]][1]
  BY DEF ProbeInv, GotSlot
<1>2. CASE UNCHANGED vars \/ Attach
  BY <1>2 DEF vars, Attach, Id
<1>3. CASE \E t \in Threads : ReturnUnseen(t) \/ Report(t) \/ ReportFails(t)
  <2>1. PICK t \in Threads : ReturnUnseen(t) \/ Report(t) \/ ReportFails(t)
    BY <1>3
  <2>2. /\ pc' = [pc EXCEPT ![t] = "user"]
        /\ held' \in {held, [held EXCEPT ![t] = NoSlot]}
        /\ cpu' \in {cpu, [cpu EXCEPT ![t] = NoSlot]}
        /\ failed' \in {failed, failed \cup {Id(t)}}
        /\ UNCHANGED <<calls, value, free>>
    BY <2>1 DEF ReturnUnseen, Report, ReportFails, Return
  <2>3. u # t
    BY <1>1, <2>2 DEF Types
  <2> QED
    BY <1>1, <2>2, <2>3 DEF Types, Id
<1>4. CASE \E t \in Threads, k \in Cpus : TryMsgRet(k, t)
  <2>1. PICK t \in Threads, k \in Cpus : TryMsgRet(k, t)
    BY <1>4
  <2>2. /\ pc[t] = "call" /\ cache[t] # NoSlot /\ Runs(k) /\ Remove(k, t)
        /\ held' = [held EXCEPT ![t] = cache[t]] /\ cpu' = [cpu EXCEPT ![t] = k]
        /\ UNCHANGED <<calls, failed>>
    BY <2>1 DEF TryMsgRet
  <2>3. u # t /\ cpu[u] # k
    BY <2>2 DEF Runs
  <2>4. value' = value /\ free'[cpu[u]] = free[cpu[u]]
    BY <1>1, <2>2, <2>3, RemoveEffect
  <2> QED
    BY <1>1, <2>2, <2>3, <2>4 DEF Types, Id
<1>5. CASE \E t \in Threads, k \in Cpus, fn \in Functions, sock \in Sockets :
             Enter(k, t, fn, sock)
  <2>1. PICK t \in Threads, k \in Cpus, fn \in Functions, sock \in Sockets :
          Enter(k, t, fn, sock)
    BY <1>5
  <2>2. /\ pc[t] = "user" /\ Runs(k) /\ TryMsg(k, t, fn, sock)
        /\ Begin(t, fn, sock) /\ UNCHANGED <<held, cpu, failed>>
    BY <2>1 DEF Enter, Begin
  <2>3. u # t /\ cpu[u] # k
    BY <2>2 DEF Runs
  <2>4. calls'[u] = calls[u]
    BY <1>1, <2>2, <2>3, BeginEffect
  <2>5. value'[held[u]] = value[held[u]] /\ free'[cpu[u]] = free[cpu[u]]
    <3>1. CASE IsAttached(<<"entry", fn>>) /\ sock \in Inet
      <4>1. Insert(k, t, sock)
        BY <2>2, <3>1 DEF TryMsg
      <4> QED
        BY <1>1, <2>3, <3>1, <4>1, InsertOwn
    <3>2. CASE ~(IsAttached(<<"entry", fn>>) /\ sock \in Inet)
      BY <2>2, <3>2 DEF TryMsg, cacheVars
    <3> QED
      BY <3>1, <3>2
  <2> QED
    BY <2>2, <2>4, <2>5 DEF Id
<1>6. CASE \E t \in Threads, fn \in Functions, sock \in Sockets : EnterFails(t, fn, sock)
  <2>1. PICK t \in Threads, fn \in Functions, sock \in Sockets : EnterFails(t, fn, sock)
    BY <1>6
  <2>2. /\ pc[t] = "user" /\ Begin(t, fn, sock)
        /\ failed' = failed \cup {<<t, Len(calls[t]) + 1>>}
        /\ UNCHANGED <<held, cpu, value, free>>
    BY <2>1 DEF EnterFails, Begin, cacheVars
  <2>3. u # t
    BY <2>2
  <2>4. calls'[u] = calls[u]
    BY <1>1, <2>2, <2>3, BeginEffect
  <2> QED
    BY <2>2, <2>3, <2>4 DEF Id
<1> QED
  BY <1>2, <1>3, <1>4, <1>5, <1>6 DEF Next

\* A return probe that has just freed its slot is the only one on its CPU and
\* has found the socket of its call.
LEMMA GotNew ==
  ASSUME ProbeInv, GotSlot, [Next]_vars, NEW u \in Threads,
         pc[u] # "got", pc'[u] = "got"
  PROVE  /\ cpu'[u] \in Cpus /\ free'[cpu'[u]] # <<>> /\ held'[u] = free'[cpu'[u]][1]
         /\ \A t \in Threads \ {u} :
              pc'[t] = "got" => pc[t] = "got" /\ cpu[t] # cpu'[u]
         /\ calls' = calls /\ failed' = failed
         /\ Current(u).sock \in Inet /\ Id(u) \notin failed =>
              value'[held'[u]] = Current(u).sock
<1>1. /\ Types /\ SlotsApart /\ ArmedCached
  BY DEF ProbeInv
<1>2. \E k \in Cpus : TryMsgRet(k, u)
  <2>1. ASSUME NEW t \in Threads, ReturnUnseen(t) \/ Report(t) \/ ReportFails(t)
        PROVE  FALSE
    <3>1. pc' = [pc EXCEPT ![t] = "user"]
      BY <2>1 DEF ReturnUnseen, Report, ReportFails, Return
    <3> QED
      BY <1>1, <3>1 DEF Types
  <2>2. ASSUME NEW t \in Threads, NEW fn \in Functions, NEW sock \in Sockets,
               Begin(t, fn, sock)
        PROVE  FALSE
    <3>1. pc' = [pc EXCEPT ![t] = "call"]
      BY <2>2 DEF Begin
    <3> QED
      BY <1>1, <3>1 DEF Types
  <2>3. ASSUME NEW t \in Threads, NEW k \in Cpus, TryMsgRet(k, t)
        PROVE  t = u
    <3>1. pc' = [pc EXCEPT ![t] = "got"]
      BY <2>3 DEF TryMsgRet
    <3> QED
      BY <1>1, <3>1 DEF Types
  <2>4. ~Attach /\ ~UNCHANGED vars
    BY DEF Attach, vars
  <2> QED
    BY <2>1, <2>2, <2>3, <2>4 DEF Next, Enter, EnterFails
<1>3. PICK k \in Cpus : TryMsgRet(k, u)
  BY <1>2
<1>4. /\ pc[u] = "call" /\ armed[u] /\ cache[u] # NoSlot /\ Runs(k) /\ Remove(k, u)
      /\ pc' = [pc EXCEPT ![u] = "got"]
      /\ held' = [held EXCEPT ![u] = cache[u]] /\ cpu' = [cpu EXCEPT ![u] = k]
      /\ calls' = calls /\ failed' = failed
  BY <1>3 DEF TryMsgRet
<1>5. cpu'[u] = k /\ held'[u] = cache[u] /\ \A t \in Threads \ {u} : pc'[t] = pc[t]
  BY <1>1, <1>4 DEF Types
<1>6. value' = value /\ free'[k] # <<>> /\ free'[k][1] = cache[u]
  BY <1>1, <1>4, RemoveEffect
<1>7. Current(u).sock \in Inet /\ Id(u) \notin failed => value[cache[u]] = Current(u).sock
  BY <1>1, <1>4 DEF ArmedCached
<1> QED
  BY <1>4, <1>5, <1>6, <1>7 DEF Runs

LEMMA GotStep ==
  ASSUME ProbeInv, GotSlot, GotTrue, SlotsLeft, [Next]_vars
  PROVE  GotSlot' /\ GotTrue'
<1>1. ASSUME NEW u \in Threads, pc'[u] = "got"
      PROVE  /\ cpu'[u] \in Cpus /\ free'[cpu'[u]] # <<>> /\ held'[u] = free'[cpu'[u]][1]
             /\ \A t \in Threads \ {u} : pc'[t] = "got" => cpu'[t] # cpu'[u]
             /\ Current(u)'.sock \in Inet /\ Id(u)' \notin failed' =>
                  value'[held'[u]] = Current(u)'.sock
  <2>1. CASE pc[u] = "got"
    <3>1. /\ cpu'[u] = cpu[u] /\ held'[u] = held[u] /\ free'[cpu[u]] = free[cpu[u]]
          /\ value'[held[u]] = value[held[u]]
          /\ calls'[u] = calls[u] /\ (Id(u) \in failed <=> Id(u) \in failed')
      BY <1>1, <2>1, GotKept
    <3>2. /\ cpu[u] \in Cpus /\ free[cpu[u]] # <<>> /\ held[u] = free[cpu[u]][1]
          /\ \A t \in Threads \ {u} : pc[t] = "got" => cpu[t] # cpu[u]
      BY <2>1 DEF GotSlot
    <3>3. Current(u).sock \in Inet /\ Id(u) \notin failed =>
            value[held[u]] = Current(u).sock
      BY <2>1 DEF GotTrue
    <3>4. ASSUME NEW t \in Threads \ {u}, pc'[t] = "got"
          PROVE  cpu'[t] # cpu'[u]
      <4>1. CASE pc[t] = "got"
        BY <3>1, <3>2, <3>4, <4>1, GotKept
      <4>2. CASE pc[t] # "got"
        BY <1>1, <2>1, <3>1, <3>4, <4>2, GotNew
      <4> QED
        BY <4>1, <4>2
    <3> QED
      BY <3>1, <3>2, <3>3, <3>4 DEF Current, Id
  <2>2. CASE pc[u] # "got"
    <3>1. /\ cpu'[u] \in Cpus /\ free'[cpu'[u]] # <<>>
          /\ held'[u] = free'[cpu'[u]][1]
          /\ \A t \in Threads \ {u} :
               pc'[t] = "got" => pc[t] = "got" /\ cpu[t] # cpu'[u]
          /\ calls' = calls /\ failed' = failed
          /\ Current(u).sock \in Inet /\ Id(u) \notin failed =>
               value'[held'[u]] = Current(u).sock
      BY <1>1, <2>2, GotNew
    <3>2. \A t \in Threads \ {u} : pc'[t] = "got" => cpu'[t] # cpu'[u]
      BY <3>1, GotKept
    <3> QED
      BY <3>1, <3>2 DEF Current, Id
  <2> QED
    BY <2>1, <2>2
<1> QED
  BY <1>1 DEF GotSlot, GotTrue

\* Calls are only added; a call that has returned stays as it is, and no
\* probe fails for it any more.
LEMMA CallsGrow ==
  ASSUME ProbeInv, [Next]_vars, NEW t \in Threads, NEW n \in 1 .. Len(calls[t])
  PROVE  /\ n \in 1 .. Len(calls'[t]) /\ calls'[t][n] = calls[t][n]
         /\ Returned(t, n) =>
              Returned(t, n)' /\ (<<t, n>> \in failed <=> <<t, n>> \in failed')
<1>1. Types /\ pc \in [Threads -> {"user", "call", "got"}] /\ Len(calls[t]) \in Nat
  BY DEF ProbeInv, Types
<1>2. CASE UNCHANGED vars \/ Attach
  BY <1>2 DEF vars, Attach, Returned
<1>3. CASE \E u \in Threads : ReturnUnseen(u) \/ Report(u) \/ ReportFails(u)
  <2>1. PICK u \in Threads : ReturnUnseen(u) \/ Report(u) \/ ReportFails(u)
    BY <1>3
  <2>2. /\ pc[u] # "user" /\ pc' = [pc EXCEPT ![u] = "user"] /\ calls' = calls
        /\ failed' \in {failed, failed \cup {Id(u)}}
    BY <2>1 DEF ReturnUnseen, Report, ReportFails, Return
  <2>3. Returned(t, n) => Returned(t, n)'
    BY <1>1, <2>2 DEF Returned
  <2>4. Returned(t, n) => <<t, n>> # Id(u)
    BY <1>1, <2>2 DEF Returned, Id
  <2> QED
    BY <2>2, <2>3, <2>4
<1>4. CASE \E u \in Threads, k \in Cpus : TryMsgRet(k, u)
  <2>1. PICK u \in Threads, k \in Cpus : TryMsgRet(k, u)
    BY <1>4
  <2>2. /\ pc[u] = "call" /\ pc' = [pc EXCEPT ![u] = "got"]
        /\ calls' = calls /\ failed' = failed
    BY <2>1 DEF TryMsgRet
  <2> QED
    BY <1>1, <2>2 DEF Returned
<1>5. CASE \E u \in Threads, fn \in Functions, sock \in Sockets :
             \/ EnterFails(u, fn, sock)
             \/ \E k \in Cpus : Enter(k, u, fn, sock)
  <2>1. PICK u \in Threads, fn \in Functions, sock \in Sockets :
             \/ EnterFails(u, fn, sock)
             \/ \E k \in Cpus : Enter(k, u, fn, sock)
    BY <1>5
  <2>2. /\ Begin(u, fn, sock)
        /\ failed' \in {failed, failed \cup {<<u, Len(calls[u]) + 1>>}}
    BY <2>1 DEF EnterFails, Enter
  <2>3. /\ pc' = [pc EXCEPT ![u] = "call"]
        /\ Len(calls'[u]) = Len(calls[u]) + 1
        /\ \A i \in 1 .. Len(calls[u]) : calls'[u][i] = calls[u][i]
        /\ \A v \in Threads \ {u} : calls'[v] = calls[v]
    BY <1>1, <2>2, BeginEffect
  <2>4. n \in 1 .. Len(calls'[t]) /\ calls'[t][n] = calls[t][n]
    BY <1>1, <2>3
  <2>5. Returned(t, n) => Returned(t, n)'
    BY <1>1, <2>3 DEF Returned
  <2>6. <<t, n>> # <<u, Len(calls[u]) + 1>>
    BY <1>1
  <2> QED
    BY <2>2, <2>4, <2>5, <2>6
<1> QED
  BY <1>2, <1>3, <1>4, <1>5 DEF Next

\* EVENTS.output is called by return probes only.
LEMMA EventsReported ==
  ASSUME [Next]_vars
  PROVE  events' = events \/ \E t \in Threads : Report(t)
<1>1. CASE Attach
  BY <1>1 DEF Attach
<1>2. ASSUME NEW t \in Threads, ReturnUnseen(t) \/ ReportFails(t) PROVE events' = events
  BY <1>2 DEF ReturnUnseen, ReportFails
<1>3. ASSUME NEW t \in Threads, NEW k \in Cpus, TryMsgRet(k, t) PROVE events' = events
  BY <1>3 DEF TryMsgRet
<1>4. ASSUME NEW t \in Threads, NEW k \in Cpus, NEW fn \in Functions, NEW sock \in Sockets,
             Enter(k, t, fn, sock)
      PROVE  events' = events
  BY <1>4 DEF Enter, Begin
<1>5. ASSUME NEW t \in Threads, NEW fn \in Functions, NEW sock \in Sockets,
             EnterFails(t, fn, sock)
      PROVE  events' = events
  BY <1>5 DEF EnterFails, Begin
<1>6. CASE UNCHANGED vars
  BY <1>6 DEF vars
<1> QED
  BY <1>1, <1>2, <1>3, <1>4, <1>5, <1>6 DEF Next

\* EVENTS.output is called for a call that is about to return, by its return
\* probe, with what that reads from its slot.
LEMMA NewEvent ==
  ASSUME ProbeInv, GotTrue, [Next]_vars, NEW e \in events', e \notin events
  PROVE  /\ e.thread \in Threads /\ Len(calls[e.thread]) > 0
         /\ Report(e.thread) /\ events' = events \cup {e}
         /\ e = [thread |-> e.thread, n |-> Len(calls[e.thread]),
                 sock |-> value[held[e.thread]],
                 channel |-> Channel(Current(e.thread).fn)]
         /\ Current(e.thread).sock \in Inet /\ Id(e.thread) \notin failed =>
              e.sock = Current(e.thread).sock
<1>1. Types
  BY DEF ProbeInv
<1>2. \E t \in Threads : Report(t)
  BY EventsReported
<1>3. PICK t \in Threads : Report(t)
  BY <1>2
<1>4. /\ pc[t] = "got"
      /\ Notify(t, value[held[t]], Channel(Current(t).fn))
  BY <1>3 DEF Report, Return
<1>5. /\ events' = events \cup {e}
      /\ e = [thread |-> t, n |-> Len(calls[t]), sock |-> value[held[t]],
              channel |-> Channel(Current(t).fn)]
  BY <1>4 DEF Notify
<1>6. e.thread = t /\ e.sock = value[held[t]]
  BY <1>5
<1>7. Len(calls[t]) > 0
  BY <1>1, <1>4 DEF Types
<1>8. Current(t).sock \in Inet /\ Id(t) \notin failed => value[held[t]] = Current(t).sock
  BY <1>4 DEF GotTrue
<1> QED
  BY <1>3, <1>5, <1>6, <1>7, <1>8

LEMMA EventsStep ==
  ASSUME ProbeInv, GotTrue, EventsPast, [Next]_vars
  PROVE  EventsPast'
<1> SUFFICES ASSUME NEW e \in events'
             PROVE  /\ e.thread \in Threads /\ e.n \in 1 .. Len(calls'[e.thread])
                    /\ Returned(e.thread, e.n)'
  BY DEF EventsPast
<1>1. CASE e \in events
  <2>1. /\ e.thread \in Threads /\ e.n \in 1 .. Len(calls[e.thread])
        /\ Returned(e.thread, e.n)
    BY <1>1 DEF EventsPast
  <2> QED
    BY <2>1, CallsGrow
<1>2. CASE e \notin events
  <2>1. /\ e.thread \in Threads /\ Len(calls[e.thread]) > 0 /\ Report(e.thread)
        /\ e = [thread |-> e.thread, n |-> Len(calls[e.thread]),
                sock |-> value[held[e.thread]],
                channel |-> Channel(Current(e.thread).fn)]
    BY <1>2, NewEvent
  <2>2. e.n = Len(calls[e.thread])
    BY <2>1
  <2>3. calls' = calls /\ pc' = [pc EXCEPT ![e.thread] = "user"]
    BY <2>1 DEF Report, Return
  <2>4. pc'[e.thread] = "user" /\ Len(calls[e.thread]) \in Nat
    BY <2>1, <2>3 DEF ProbeInv, Types
  <2> QED
    BY <2>1, <2>2, <2>3, <2>4 DEF Returned
<1> QED
  BY <1>1, <1>2

LEMMA InetTrueStep ==
  ASSUME ProbeInv, GotTrue, EventsPast, InetTrue, [Next]_vars
  PROVE  InetTrue'
<1> SUFFICES ASSUME NEW e \in events', calls'[e.thread][e.n].sock \in Inet,
                    <<e.thread, e.n>> \notin failed'
             PROVE  e.sock = calls'[e.thread][e.n].sock
  BY DEF InetTrue
<1>1. CASE e \in events
  <2>1. /\ e.thread \in Threads /\ e.n \in 1 .. Len(calls[e.thread])
        /\ Returned(e.thread, e.n)
    BY <1>1 DEF EventsPast
  <2>2. /\ calls'[e.thread][e.n] = calls[e.thread][e.n]
        /\ <<e.thread, e.n>> \notin failed
    BY <2>1, CallsGrow
  <2> QED
    BY <1>1, <2>2 DEF InetTrue
<1>2. CASE e \notin events
  <2>1. /\ Report(e.thread)
        /\ e = [thread |-> e.thread, n |-> Len(calls[e.thread]),
                sock |-> value[held[e.thread]],
                channel |-> Channel(Current(e.thread).fn)]
        /\ Current(e.thread).sock \in Inet /\ Id(e.thread) \notin failed =>
             e.sock = Current(e.thread).sock
    BY <1>2, NewEvent
  <2>2. e.n = Len(calls[e.thread])
    BY <2>1
  <2>3. calls' = calls /\ failed' = failed
    BY <2>1 DEF Report, Return
  <2> QED
    BY <2>1, <2>2, <2>3 DEF Current, Id
<1> QED
  BY <1>1, <1>2

\* What Reported says of the n-th call of t.
CallReported(t, n) ==
  LET c == calls[t][n]
      due == c.sock \in Inet /\ <<t, n>> \notin failed /\ Returned(t, n)
      reports == {e \in events : e.thread = t /\ e.n = n}
  IN  /\ c.settled /\ due =>
           reports = {[thread |-> t, n |-> n, sock |-> c.sock,
                       channel |-> Channel(c.fn)]}
      /\ SettledSince(t, n) /\ ~due => reports = {}

\* A call that had returned is reported as before.
LEMMA ReportedPast ==
  ASSUME ProbeInv, GotTrue, EventsPast, [Next]_vars,
         NEW t \in Threads, NEW n \in 1 .. Len(calls[t]), Returned(t, n),
         CallReported(t, n)
  PROVE  CallReported(t, n)'
<1>1. /\ calls'[t][n] = calls[t][n] /\ Returned(t, n)'
      /\ (<<t, n>> \in failed <=> <<t, n>> \in failed')
  BY CallsGrow
<1>2. SettledSince(t, n)' <=> SettledSince(t, n)
  <2>1. Len(calls[t]) \in Nat
    BY DEF ProbeInv, Types
  <2>2. \A m \in 1 .. n : m \in 1 .. Len(calls[t])
    BY <2>1
  <2>3. \A m \in 1 .. n : calls'[t][m] = calls[t][m]
    BY <2>2, CallsGrow
  <2> QED
    BY <2>3 DEF SettledSince
<1>3. {e \in events' : e.thread = t /\ e.n = n} = {e \in events : e.thread = t /\ e.n = n}
  <2>1. ASSUME NEW e \in events', e \notin events
        PROVE  ~(e.thread = t /\ e.n = n)
    <3>1. /\ Report(e.thread)
          /\ e = [thread |-> e.thread, n |-> Len(calls[e.thread]),
                  sock |-> value[held[e.thread]],
                  channel |-> Channel(Current(e.thread).fn)]
      BY <2>1, NewEvent
    <3>2. e.n = Len(calls[e.thread]) /\ pc[e.thread] = "got"
      BY <3>1 DEF Report, Return
    <3>3. Len(calls[t]) \in Nat
      BY DEF ProbeInv, Types
    <3> QED
      BY <3>2, <3>3 DEF Returned
  <2>2. events \subseteq events'
    <3>1. ASSUME NEW u \in Threads, Report(u) PROVE events \subseteq events'
      BY <3>1 DEF Report, Notify
    <3> QED
      BY <3>1, EventsReported
  <2> QED
    BY <2>1, <2>2
<1> QED
  BY <1>1, <1>2, <1>3 DEF CallReported

\* A call that is about to return is reported if it is due, and by itself.
LEMMA ReportedNow ==
  ASSUME ProbeInv, GotTrue, EventsPast, [Next]_vars,
         NEW t \in Threads, NEW n \in 1 .. Len(calls[t]), ~Returned(t, n),
         Returned(t, n)'
  PROVE  CallReported(t, n)'
<1>1. Types /\ Len(calls[t]) \in Nat
  BY DEF ProbeInv, Types
<1>2. n = Len(calls[t]) /\ pc[t] # "user"
  BY <1>1 DEF Returned
<1>3. {e \in events : e.thread = t /\ e.n = n} = {}
  BY DEF EventsPast
<1>4. calls'[t][n] = calls[t][n] /\ Current(t) = calls[t][n] /\ Id(t) = <<t, n>>
  BY <1>2, CallsGrow DEF Current, Id
<1>5. SettledSince(t, n)' <=> SettledSince(t, n)
  <2>1. \A m \in 1 .. n : calls'[t][m] = calls[t][m]
    BY <1>2, CallsGrow
  <2> QED
    BY <2>1 DEF SettledSince
<1>6. SettledSince(t, n) => Current(t).settled
  BY <1>2, <1>4 DEF SettledSince
<1>7. ReturnUnseen(t) \/ Report(t) \/ ReportFails(t)
  <2>1. pc \in [Threads -> {"user", "call", "got"}]
    BY <1>1 DEF Types
  <2>2. ASSUME NEW u \in Threads, u # t, ReturnUnseen(u) \/ Report(u) \/ ReportFails(u)
        PROVE  FALSE
    <3>1. pc' = [pc EXCEPT ![u] = "user"] /\ calls' = calls
      BY <2>2 DEF ReturnUnseen, Report, ReportFails, Return
    <3> QED
      BY <1>1, <1>2, <2>1, <2>2, <3>1 DEF Returned
  <2>3. ASSUME NEW u \in Threads, NEW k \in Cpus, TryMsgRet(k, u)
        PROVE  FALSE
    <3>1. pc' = [pc EXCEPT ![u] = "got"] /\ calls' = calls
      BY <2>3 DEF TryMsgRet
    <3> QED
      BY <1>1, <1>2, <2>1, <3>1 DEF Returned
  <2>4. ASSUME NEW u \in Threads, NEW fn \in Functions, NEW sock \in Sockets,
               Begin(u, fn, sock)
        PROVE  FALSE
    <3>1. /\ pc[u] = "user" /\ pc' = [pc EXCEPT ![u] = "call"]
          /\ \A v \in Threads \ {u} : calls'[v] = calls[v]
      BY <1>1, <2>4, BeginEffect
    <3>2. u # t
      BY <1>2, <3>1
    <3> QED
      BY <1>1, <1>2, <2>1, <3>1, <3>2 DEF Returned
  <2>5. ~Attach /\ ~UNCHANGED vars
    BY <1>2 DEF Attach, vars, Returned
  <2> QED
    BY <2>2, <2>3, <2>4, <2>5 DEF Next, Enter, EnterFails
<1>8. CASE ReturnUnseen(t)
  <2>1. /\ pc[t] = "call" /\ (~armed[t] \/ cache[t] = NoSlot)
        /\ events' = events /\ failed' = failed
    BY <1>8 DEF ReturnUnseen
  <2>2. ~(Current(t).settled /\ Current(t).sock \in Inet /\ Id(t) \notin failed)
    <3>1. pc[t] = "call" /\ Current(t).settled => armed[t]
      BY DEF ProbeInv, SettledArmed
    <3>2. armed[t] /\ Current(t).sock \in Inet /\ Id(t) \notin failed =>
            cache[t] # NoSlot
      BY <2>1 DEF ProbeInv, ArmedCached
    <3> QED
      BY <2>1, <3>1, <3>2
  <2> QED
    BY <1>3, <1>4, <2>1, <2>2 DEF CallReported
<1>9. CASE ReportFails(t)
  <2>1. events' = events /\ failed' = failed \cup {Id(t)}
    BY <1>9 DEF ReportFails
  <2> QED
    BY <1>3, <1>4, <2>1 DEF CallReported
<1>10. CASE Report(t)
  <2>1. /\ pc[t] = "got" /\ failed' = failed
        /\ Notify(t, value[held[t]], Channel(Current(t).fn))
    BY <1>10 DEF Report, Return
  <2>2. SettledSince(t, n) => Current(t).sock \in Inet /\ Id(t) \notin failed
    BY <1>2, <2>1 DEF ProbeInv, GotInet
  <2>3. ASSUME Current(t).sock \in Inet, Id(t) \notin failed
        PROVE  {e \in events' : e.thread = t /\ e.n = n} =
                 {[thread |-> t, n |-> n, sock |-> Current(t).sock,
                   channel |-> Channel(Current(t).fn)]}
    <3>1. value[held[t]] = Current(t).sock
      BY <2>1, <2>3 DEF GotTrue
    <3>2. events' = events \cup {[thread |-> t, n |-> n, sock |-> Current(t).sock,
                                  channel |-> Channel(Current(t).fn)]}
      BY <1>2, <2>1, <2>3, <3>1 DEF Notify
    <3> QED
      BY <1>3, <3>2
  <2> QED
    BY <1>4, <1>5, <2>1, <2>2, <2>3 DEF CallReported
<1> QED
  BY <1>7, <1>8, <1>9, <1>10

LEMMA ReportedStep ==
  ASSUME ProbeInv, ProbeInv', GotTrue, EventsPast, EventsPast', Reported, [Next]_vars
  PROVE  Reported'
<1> SUFFICES ASSUME NEW t \in Threads, NEW n \in 1 .. Len(calls'[t])
             PROVE  CallReported(t, n)'
  BY DEF Reported, CallReported
<1>1. CASE ~Returned(t, n)'
  <2>1. {e \in events' : e.thread = t /\ e.n = n} = {}
    BY <1>1 DEF EventsPast
  <2> QED
    BY <1>1, <2>1 DEF CallReported
<1>2. CASE Returned(t, n)' /\ n \in 1 .. Len(calls[t])
  <2>1. CallReported(t, n)
    BY <1>2 DEF Reported, CallReported
  <2> QED
    BY <1>2, <2>1, ReportedPast, ReportedNow
<1>3. CASE n \notin 1 .. Len(calls[t])
  <2>1. PICK u \in Threads, fn \in Functions, sock \in Sockets : Begin(u, fn, sock)
    BY <1>3 DEF Next, vars, Attach, ReturnUnseen, Report, Return, ReportFails, TryMsgRet,
       Enter, EnterFails
  <2>2. /\ Len(calls[u]) \in Nat /\ Len(calls'[u]) = Len(calls[u]) + 1
        /\ \A v \in Threads \ {u} : calls'[v] = calls[v]
        /\ pc \in [Threads -> {"user", "call", "got"}] /\ pc' = [pc EXCEPT ![u] = "call"]
    BY <2>1, BeginEffect DEF ProbeInv
  <2>3. u = t
    BY <1>3, <2>2
  <2>4. n = Len(calls'[t]) /\ pc'[t] = "call"
    BY <1>3, <2>2, <2>3
  <2>5. ~Returned(t, n)'
    BY <2>2, <2>3, <2>4 DEF Returned
  <2> QED
    BY <1>1, <2>5
<1> QED
  BY <1>1, <1>2, <1>3

\* The invariant of a system in which no CPU runs out of slots.
LEMMA ReportInvariant == Spec /\ []SlotsLeft => [](ProbeInv /\ ReportInv)
<1>1. Init => ProbeInv /\ ReportInv
  <2>1. ASSUME Init PROVE ReportInv
    <3>1. events = {} /\ \A t \in Threads : pc[t] = "user" /\ Len(calls[t]) = 0
      BY <2>1 DEF Init
    <3> QED
      BY <3>1 DEF ReportInv, GotSlot, GotTrue, EventsPast, InetTrue, Reported
  <2> QED
    BY <2>1, ProbeInit
<1>2. ProbeInv /\ ReportInv /\ SlotsLeft /\ [Next]_vars => ProbeInv' /\ ReportInv'
  BY ProbeStep, GotStep, EventsStep, InetTrueStep, ReportedStep DEF ReportInv
<1> QED
  BY <1>1, <1>2, PTL DEF Spec

\* While no CPU runs out of slots, what a return probe reports of a call on an
\* internet socket is the socket of that call, even while the probes are being
\* attached, unless the entry probe failed: InetTrue always holds.
THEOREM ProbeInetTrue == Spec /\ []SlotsLeft => []InetTrue
<1>1. ReportInv => InetTrue
  BY DEF ReportInv
<1> QED
  BY <1>1, ReportInvariant, PTL

\* While no CPU runs out of slots, each call on an internet socket that begins
\* after load is done is reported once, with its own socket and direction,
\* when it returns, unless a probe failed; nothing else is reported of threads
\* that made no earlier call: Reported always holds.
THEOREM ProbeReported == Spec /\ []SlotsLeft => []Reported
<1>1. ReportInv => Reported
  BY DEF ReportInv
<1> QED
  BY <1>1, ReportInvariant, PTL

\* Where all probes are attached at first, every call is settled.
AllSettled ==
  attached = 4 /\ \A t \in Threads : \A n \in 1 .. Len(calls[t]) : calls[t][n].settled

LEMMA SettledStep ==
  ASSUME ProbeInv, AllSettled, [Next]_vars
  PROVE  AllSettled'
<1>1. CASE \E t \in Threads, fn \in Functions, sock \in Sockets : Begin(t, fn, sock)
  <2>1. PICK t \in Threads, fn \in Functions, sock \in Sockets : Begin(t, fn, sock)
    BY <1>1
  <2>2. /\ Len(calls[t]) \in Nat /\ Len(calls'[t]) = Len(calls[t]) + 1
        /\ calls'[t][Len(calls[t]) + 1].settled = (attached = 4)
        /\ \A n \in 1 .. Len(calls[t]) : calls'[t][n] = calls[t][n]
        /\ \A u \in Threads \ {t} : calls'[u] = calls[u]
        /\ attached' = attached
    BY <2>1, BeginEffect DEF ProbeInv
  <2>3. ASSUME NEW u \in Threads, NEW n \in 1 .. Len(calls'[u])
        PROVE  calls'[u][n].settled
    <3>1. CASE n \in 1 .. Len(calls[u])
      <4>1. calls'[u][n] = calls[u][n]
        BY <2>2, <3>1
      <4> QED
        BY <3>1, <4>1 DEF AllSettled
    <3>2. CASE n \notin 1 .. Len(calls[u])
      <4>1. u = t /\ n = Len(calls[t]) + 1
        BY <2>2, <3>2
      <4> QED
        BY <2>2, <4>1 DEF AllSettled
    <3> QED
      BY <3>1, <3>2
  <2> QED
    BY <2>2, <2>3 DEF AllSettled
<1>2. CASE ~\E t \in Threads, fn \in Functions, sock \in Sockets : Begin(t, fn, sock)
  <2>1. ~Attach
    BY DEF Attach, AllSettled
  <2>2. calls' = calls /\ attached' = attached
    BY <1>2, <2>1 DEF Next, vars, ReturnUnseen, Report, Return, ReportFails, TryMsgRet,
       Enter, EnterFails
  <2> QED
    BY <2>2 DEF AllSettled
<1> QED
  BY <1>1, <1>2

\* CACHE does what its comment says, where all probes are attached and no CPU
\* runs out of slots: the socket of an event is the socket of the call that it
\* reports.  The run probe_reuse shows what happens where one does.
THEOREM ProbeEventTrue == Attached = 4 /\ Spec /\ []SlotsLeft => []EventTrue
<1>1. Attached = 4 /\ Init => AllSettled
  BY DEF Init, AllSettled
<1>2. ProbeInv /\ AllSettled /\ [Next]_vars => AllSettled'
  BY SettledStep
<1>3. ProbeInv /\ ReportInv /\ AllSettled => EventTrue
  <2> SUFFICES ASSUME ProbeInv, ReportInv, AllSettled, NEW e \in events
               PROVE  e.sock = calls[e.thread][e.n].sock
    BY DEF EventTrue
  <2> DEFINE t == e.thread
             n == e.n
  <2>1. t \in Threads /\ n \in 1 .. Len(calls[t]) /\ Len(calls[t]) \in Nat
    BY DEF ReportInv, EventsPast, ProbeInv, Types
  <2>2. calls[t][n].settled /\ SettledSince(t, n)
    <3>1. \A m \in 1 .. n : m \in 1 .. Len(calls[t])
      BY <2>1
    <3> QED
      BY <2>1, <3>1 DEF AllSettled, SettledSince
  <2>3. CallReported(t, n)
    BY <2>1 DEF ReportInv, Reported, CallReported
  <2>4. {d \in events : d.thread = t /\ d.n = n} # {}
    OBVIOUS
  <2>5. {d \in events : d.thread = t /\ d.n = n} =
          {[thread |-> t, n |-> n, sock |-> calls[t][n].sock,
            channel |-> Channel(calls[t][n].fn)]}
    BY <2>2, <2>3, <2>4 DEF CallReported
  <2>6. e = [thread |-> t, n |-> n, sock |-> calls[t][n].sock,
             channel |-> Channel(calls[t][n].fn)]
    BY <2>5
  <2> QED
    BY <2>6
<1> QED
  BY <1>1, <1>2, <1>3, ReportInvariant, PTL DEF Spec

=============================================================================
