-------------------------- MODULE LifecycleProofs --------------------------
(***************************************************************************)
(* Theorems about module Lifecycle, for any number of CPUs, any sizes of   *)
(* rings and buffers and any load.                                         *)
(***************************************************************************)
EXTENDS Lifecycle, NumberProofs, SequenceTheorems

-----------------------------------------------------------------------------
(* The terminal                                                            *)

Mains == {"load", "opening", "select", "joining", "dropping", "exited"}
Uis == {"none", "spawned", "setup", "entered", "parked", "awake",
        "restoring", "leaving", "ended", "dropped"}

UiTyped ==
  /\ main \in Mains /\ ui \in Uis
  /\ raw \in BOOLEAN /\ alt \in BOOLEAN /\ quit \in BOOLEAN /\ fault \in BOOLEAN

\* The task of the UI begins after load, and has ended where main has.
UiWithin ==
  /\ main = "load" => ui = "none"
  /\ main = "exited" => ui \in {"none", "ended", "dropped"}

\* What each phase of run_ui has done to the terminal.  Past run_app, the task
\* does not await, so that it is not dropped.
UiPhases ==
  /\ ui \in {"none", "spawned"} => ~raw
  /\ ui \in {"none", "spawned", "setup"} => ~alt
  /\ ui = "leaving" => ~raw
  /\ ui = "ended" => fault \/ (~raw /\ ~alt)
  /\ quit => ui \in {"restoring", "leaving", "ended"}

UiInv == UiTyped /\ UiWithin /\ UiPhases

LEMMA UiInit ==
  ASSUME Init
  PROVE  UiInv
BY DEF Init, UiInv, UiTyped, UiWithin, UiPhases, Mains, Uis

LEMMA MainUi ==
  ASSUME UiInv, MainStep
  PROVE  UiInv'
<1> USE DEF UiInv, UiTyped, UiWithin, UiPhases, Mains, Uis
<1>1. CASE Load
  BY <1>1 DEF Load, Main
<1>2. CASE DropUi
  BY <1>2 DEF DropUi
<1>3. CASE Exit
  BY <1>3 DEF Exit, Main, uiVars
<1>4. CASE LoadFails \/ Opened \/ OpenFails \/ Joined \/ ReaderEnded \/ UiEnded
  BY <1>4 DEF LoadFails, Opened, OpenFails, Joined, ReaderEnded, UiEnded, Main, uiVars
<1>5. CASE UNCHANGED <<main, uiVars>>
  BY <1>5 DEF uiVars
<1> QED
  BY <1>1, <1>2, <1>3, <1>4, <1>5 DEF MainStep, Open, AbortReader, DropLookup

LEMMA UiUi ==
  ASSUME UiInv, UiStep
  PROVE  UiInv'
<1> USE DEF UiInv, UiTyped, UiWithin, UiPhases, Mains, Uis
<1>1. CASE EnableRawMode
  BY <1>1 DEF EnableRawMode
<1>2. CASE EnterAlternateScreen
  BY <1>2 DEF EnterAlternateScreen
<1>3. CASE NewTerminal
  BY <1>3 DEF NewTerminal
<1>4. CASE DrawFrame
  BY <1>4 DEF DrawFrame
<1>5. CASE DrawFails
  BY <1>5 DEF DrawFails
<1>6. CASE DrawPanics
  BY <1>6 DEF DrawPanics
<1>7. CASE DisableRawMode
  BY <1>7 DEF DisableRawMode
<1>8. CASE LeaveAlternateScreen
  BY <1>8 DEF LeaveAlternateScreen
<1> QED
  BY <1>1, <1>2, <1>3, <1>4, <1>5, <1>6, <1>7, <1>8 DEF UiStep

LEMMA UiNext ==
  ASSUME UiInv, [Next]_vars
  PROVE  UiInv'
<1> USE DEF UiInv, UiTyped, UiWithin, UiPhases, Mains, Uis
<1>1. CASE Tick \/ KeyOpen \/ KeyBack
  BY <1>1 DEF Tick, KeyOpen, KeyBack, Wake
<1>2. CASE KeyQuit
  BY <1>2 DEF KeyQuit
<1>3. CASE CtrlC
  BY <1>3 DEF CtrlC, Main, uiVars
<1>4. CASE UNCHANGED <<main, uiVars>>
  BY <1>4 DEF uiVars
<1>5. ASSUME NEW n, LookupStep(n) PROVE UNCHANGED <<main, uiVars>>
  BY <1>5 DEF LookupStep, Start, Finish
<1>6. ASSUME NEW k, ReaderStep(k) \/ ReaderFails(k) \/ Produce(k) PROVE UNCHANGED <<main, uiVars>>
  BY <1>6 DEF ReaderStep, Read, Apply, ReaderFails, Produce
<1>7. CASE UNCHANGED vars
  BY <1>4, <1>7 DEF vars
<1> QED
  BY <1>1, <1>2, <1>3, <1>4, <1>5, <1>6, <1>7, MainUi, UiUi DEF Next, Ended

\* QuitRestores always holds: once run_app has returned, nothing that ends
\* main at the same time keeps run_ui from restoring the terminal.
THEOREM LifecycleQuitRestores == Spec => []QuitRestores
<1>1. UiInv => QuitRestores
  BY DEF UiInv, UiWithin, UiPhases, QuitRestores
<1> QED
  BY <1>1, UiInit, UiNext, PTL DEF Spec

-----------------------------------------------------------------------------
(* Records                                                                 *)

RecordSet == {[event |-> n] : n \in Nat} \cup {[lost |-> n] : n \in Nat}

LEMMA RecordFacts ==
  ASSUME NEW r \in RecordSet
  PROVE  (IsEvent(r) => r.event \in Nat) /\ (~IsEvent(r) => r.lost \in Nat)
BY DEF RecordSet, IsEvent

LEMMA EventRecord ==
  ASSUME NEW n \in Nat
  PROVE  /\ [event |-> n] \in RecordSet /\ IsEvent([event |-> n]) /\ [event |-> n].event = n
BY DEF RecordSet, IsEvent

LEMMA LostRecord ==
  ASSUME NEW n \in Nat
  PROVE  /\ [lost |-> n] \in RecordSet /\ ~IsEvent([lost |-> n]) /\ [lost |-> n].lost = n
BY DEF RecordSet, IsEvent

\* F[n] is what the first n records of s hold.
Step(F, s, n) ==
  IF n = 0 THEN <<>>
  ELSE IF IsEvent(s[n]) THEN Append(F[n - 1], s[n].event)
  ELSE F[n - 1]
IsFirst(F, s) == F = [n \in 0 .. Len(s) |-> Step(F, s, n)]

LEMMA EventsIs ==
  ASSUME NEW s
  PROVE  Events(s) = (CHOOSE F : IsFirst(F, s))[Len(s)]
BY DEF Events, IsFirst, Step

\* Such an F exists, one step after the other.
LEMMA FirstExists ==
  ASSUME NEW s \in Seq(RecordSet)
  PROVE  \E F : IsFirst(F, s)
<1> DEFINE Upto(F, m) == F = [n \in 0 .. Len(s) |-> IF n <= m THEN Step(F, s, n) ELSE <<>>]
           T == {m \in Nat : \E F : Upto(F, m)}
<1>0. Len(s) \in Nat
  OBVIOUS
<1>1. 0 \in T
  <2> DEFINE F == [n \in 0 .. Len(s) |-> <<>>]
  <2>1. \A n \in 0 .. Len(s) : F[n] = IF n <= 0 THEN Step(F, s, n) ELSE <<>>
    BY <1>0 DEF Step
  <2>2. Upto(F, 0)
    BY <2>1
  <2> HIDE DEF F
  <2> QED
    BY <2>2
<1>2. ASSUME NEW m \in Nat, m \in T PROVE m + 1 \in T
  <2>1. PICK F : Upto(F, m)
    BY <1>2
  <2> DEFINE G == [n \in 0 .. Len(s) |-> IF n = m + 1 THEN Step(F, s, n) ELSE F[n]]
  <2>2. ASSUME NEW n \in 0 .. Len(s)
        PROVE  G[n] = IF n <= m + 1 THEN Step(G, s, n) ELSE <<>>
    <3>1. CASE n > m + 1
      <4>1. F[n] = <<>>
        BY <2>1, <3>1
      <4> QED
        BY <3>1, <4>1
    <3>2. CASE n = 0
      <4>1. F[n] = <<>>
        BY <2>1, <3>2 DEF Step
      <4> QED
        BY <3>2, <4>1 DEF Step
    <3>3. CASE n <= m + 1 /\ n # 0
      <4>1. n - 1 \in 0 .. Len(s) /\ n - 1 # m + 1
        BY <1>0, <3>3
      <4>2. G[n - 1] = F[n - 1]
        BY <4>1
      <4>3. Step(G, s, n) = Step(F, s, n)
        BY <4>2 DEF Step
      <4>4. CASE n = m + 1
        BY <3>3, <4>3, <4>4
      <4>5. CASE n # m + 1
        <5>1. n <= m
          BY <3>3, <4>5
        <5>2. F[n] = Step(F, s, n)
          BY <2>1, <5>1
        <5> QED
          BY <3>3, <4>3, <4>5, <5>2
      <4> QED
        BY <4>4, <4>5
    <3> QED
      BY <3>1, <3>2, <3>3
  <2>3. Upto(G, m + 1)
    BY <2>2
  <2> HIDE DEF G
  <2> QED
    BY <2>3
<1>3. Len(s) \in T
  <2> HIDE DEF T
  <2> QED
    BY <1>0, <1>1, <1>2, NatInd
<1>4. PICK F : Upto(F, Len(s))
  BY <1>3
<1>5. IsFirst(F, s)
  BY <1>0, <1>4 DEF IsFirst
<1> QED
  BY <1>5

LEMMA FirstFacts ==
  ASSUME NEW s \in Seq(RecordSet), NEW F, IsFirst(F, s)
  PROVE  \A n \in 0 .. Len(s) : F[n] \in Seq(Nat) /\ F[n] = Step(F, s, n)
<1>0. Len(s) \in Nat /\ \A n \in 0 .. Len(s) : F[n] = Step(F, s, n)
  BY DEF IsFirst
<1> DEFINE T == {m \in Nat : m <= Len(s) => F[m] \in Seq(Nat)}
<1>1. 0 \in T
  <2>1. F[0] = <<>>
    BY <1>0 DEF Step
  <2> QED
    BY <2>1, EmptySeq
<1>2. ASSUME NEW m \in Nat, m \in T PROVE m + 1 \in T
  <2> SUFFICES ASSUME m + 1 <= Len(s) PROVE F[m + 1] \in Seq(Nat)
    OBVIOUS
  <2>1. F[m] \in Seq(Nat) /\ s[m + 1] \in RecordSet /\ m + 1 # 0 /\ (m + 1) - 1 = m
    BY <1>0, <1>2
  <2>2. F[m + 1] = IF IsEvent(s[m + 1]) THEN Append(F[m], s[m + 1].event) ELSE F[m]
    BY <1>0, <2>1 DEF Step
  <2> QED
    BY <2>1, <2>2, RecordFacts
<1>3. \A m \in Nat : m \in T
  <2> HIDE DEF T
  <2> QED
    BY <1>1, <1>2, NatInd
<1> QED
  BY <1>0, <1>3

LEMMA EventsFirst ==
  ASSUME NEW s \in Seq(RecordSet)
  PROVE  \E F : IsFirst(F, s) /\ Events(s) = F[Len(s)]
BY FirstExists, EventsIs

LEMMA EventsSeq ==
  ASSUME NEW s \in Seq(RecordSet)
  PROVE  Events(s) \in Seq(Nat)
BY EventsFirst, FirstFacts

LEMMA ConcatNat ==
  ASSUME NEW f \in Seq(Nat), NEW g \in Seq(Nat), NEW h \in Seq(Nat)
  PROVE  (f \o g) \o h = f \o (g \o h)
BY ConcatAssociative, SMTT(40)

LEMMA ConcatAppend ==
  ASSUME NEW f \in Seq(Nat), NEW g \in Seq(Nat), NEW e \in Nat
  PROVE  Append(f \o g, e) = f \o Append(g, e)
<1>1. <<e>> \in Seq(Nat) /\ f \o g \in Seq(Nat)
  OBVIOUS
<1>2. Append(f \o g, e) = (f \o g) \o <<e>>
  BY <1>1, AppendIsConcat
<1>3. Append(g, e) = g \o <<e>>
  BY AppendIsConcat
<1>4. (f \o g) \o <<e>> = f \o (g \o <<e>>)
  BY <1>1, ConcatAssociative
<1> QED
  BY <1>2, <1>3, <1>4

\* The events of a sequence that continues another.
LEMMA EventsConcat ==
  ASSUME NEW s \in Seq(RecordSet), NEW t \in Seq(RecordSet)
  PROVE  Events(s \o t) = Events(s) \o Events(t)
<1> DEFINE u == s \o t
<1>0. /\ Len(s) \in Nat /\ Len(t) \in Nat /\ u \in Seq(RecordSet) /\ Len(u) = Len(s) + Len(t)
      /\ \A n \in 1 .. Len(s) : u[n] = s[n]
      /\ \A n \in 1 .. Len(t) : u[Len(s) + n] = t[n]
  OBVIOUS
<1> HIDE DEF u
<1>a. PICK F : IsFirst(F, s) /\ Events(s) = F[Len(s)]
  BY EventsFirst
<1>b. PICK G : IsFirst(G, t) /\ Events(t) = G[Len(t)]
  BY EventsFirst
<1>c. PICK H : IsFirst(H, u) /\ Events(u) = H[Len(u)]
  BY <1>0, EventsFirst
<1>1. \A n \in 0 .. Len(s) : F[n] \in Seq(Nat) /\ F[n] = Step(F, s, n)
  BY <1>a, FirstFacts
<1>2. \A n \in 0 .. Len(t) : G[n] \in Seq(Nat) /\ G[n] = Step(G, t, n)
  BY <1>b, FirstFacts
<1>3. \A n \in 0 .. Len(u) : H[n] \in Seq(Nat) /\ H[n] = Step(H, u, n)
  BY <1>0, <1>c, FirstFacts
<1>4. \A n \in 0 .. Len(s) : H[n] = F[n]
  <2> DEFINE T == {n \in Nat : n <= Len(s) => H[n] = F[n]}
  <2>1. 0 \in T
    BY <1>0, <1>1, <1>3 DEF Step
  <2>2. ASSUME NEW n \in Nat, n \in T PROVE n + 1 \in T
    <3> SUFFICES ASSUME n + 1 <= Len(s) PROVE H[n + 1] = F[n + 1]
      OBVIOUS
    <3>1. H[n] = F[n] /\ u[n + 1] = s[n + 1] /\ n + 1 # 0 /\ (n + 1) - 1 = n
      BY <1>0, <2>2
    <3>2. Step(H, u, n + 1) = Step(F, s, n + 1)
      BY <3>1 DEF Step
    <3>3. n + 1 \in 0 .. Len(s) /\ n + 1 \in 0 .. Len(u)
      BY <1>0
    <3> QED
      BY <1>1, <1>3, <3>2, <3>3
  <2> HIDE DEF T
  <2>3. \A n \in Nat : n \in T
    BY <2>1, <2>2, NatInd
  <2> QED
    BY <1>0, <2>3 DEF T
<1>5. \A n \in 0 .. Len(t) : H[Len(s) + n] = F[Len(s)] \o G[n]
  <2> DEFINE f == F[Len(s)]
             T == {n \in Nat : n <= Len(t) => H[Len(s) + n] = f \o G[n]}
  <2>0. f \in Seq(Nat)
    BY <1>0, <1>1
  <2>1. 0 \in T
    <3>1. G[0] = <<>> /\ H[Len(s)] = f
      BY <1>0, <1>2, <1>4 DEF Step
    <3>2. f \o <<>> = f
      BY <2>0, ConcatEmptySeq
    <3>3. Len(s) + 0 = Len(s)
      BY <1>0
    <3>4. H[Len(s) + 0] = f \o G[0]
      BY <3>1, <3>2, <3>3
    <3> HIDE DEF f
    <3> QED
      BY <3>4
  <2> HIDE DEF f
  <2>2. ASSUME NEW n \in Nat, n \in T PROVE n + 1 \in T
    <3> SUFFICES ASSUME n + 1 <= Len(t) PROVE H[Len(s) + (n + 1)] = f \o G[n + 1]
      OBVIOUS
    <3> DEFINE m == Len(s) + (n + 1)
    <3>1. /\ H[Len(s) + n] = f \o G[n] /\ u[m] = t[n + 1] /\ G[n] \in Seq(Nat)
          /\ n + 1 # 0 /\ (n + 1) - 1 = n /\ m # 0 /\ m - 1 = Len(s) + n
          /\ m \in 0 .. Len(u) /\ n + 1 \in 0 .. Len(t) /\ t[n + 1] \in RecordSet
      <4>1. Len(s) \in Nat /\ Len(t) \in Nat /\ Len(u) = Len(s) + Len(t)
        BY <1>0
      <4>2. n <= Len(t) /\ n \in 0 .. Len(t) /\ n + 1 \in 1 .. Len(t)
        BY <4>1
      <4>3. H[Len(s) + n] = f \o G[n]
        BY <2>2, <4>2
      <4>4. u[m] = t[n + 1] /\ t[n + 1] \in RecordSet
        BY <1>0, <4>2
      <4>5. G[n] \in Seq(Nat)
        BY <1>2, <4>2
      <4>6. /\ n + 1 # 0 /\ (n + 1) - 1 = n /\ m # 0 /\ m - 1 = Len(s) + n
            /\ m \in 0 .. Len(u) /\ n + 1 \in 0 .. Len(t)
        BY <4>1, <4>2
      <4> QED
        BY <4>3, <4>4, <4>5, <4>6
    <3> HIDE DEF m
    <3>2. H[m] = IF IsEvent(t[n + 1]) THEN Append(f \o G[n], t[n + 1].event) ELSE f \o G[n]
      BY <1>3, <3>1 DEF Step
    <3>3. G[n + 1] = IF IsEvent(t[n + 1]) THEN Append(G[n], t[n + 1].event) ELSE G[n]
      BY <1>2, <3>1 DEF Step
    <3>4. ASSUME NEW e \in Nat PROVE Append(f \o G[n], e) = f \o Append(G[n], e)
      BY <2>0, <3>1, ConcatAppend
    <3>5. H[m] = f \o G[n + 1]
      BY <3>1, <3>2, <3>3, <3>4, RecordFacts
    <3> QED
      BY <3>5 DEF m
  <2> HIDE DEF T
  <2>3. \A n \in Nat : n \in T
    BY <2>1, <2>2, NatInd
  <2>4. ASSUME NEW n \in 0 .. Len(t) PROVE H[Len(s) + n] = f \o G[n]
    <3>1. n \in Nat /\ n <= Len(t)
      BY <1>0
    <3>2. n \in T
      BY <2>3, <3>1
    <3> QED
      BY <3>1, <3>2 DEF T
  <2> QED
    BY <2>4 DEF f
<1>6. H[Len(s) + Len(t)] = F[Len(s)] \o G[Len(t)]
  <2>1. Len(t) \in 0 .. Len(t)
    BY <1>0
  <2> QED
    BY <1>5, <2>1
<1> QED
  BY <1>0, <1>6, <1>a, <1>b, <1>c DEF u

LEMMA EventsOne ==
  /\ Events(<<>>) = <<>>
  /\ \A n \in Nat : Events(<<[event |-> n]>>) = <<n>> /\ Events(<<[lost |-> n]>>) = <<>>
<1>1. Events(<<>>) = <<>>
  <2> DEFINE s == <<>>
  <2>1. s \in Seq(RecordSet) /\ Len(s) = 0
    OBVIOUS
  <2> HIDE DEF s
  <2>2. PICK F : IsFirst(F, s) /\ Events(s) = F[Len(s)]
    BY <2>1, EventsFirst
  <2>3. F[0] = Step(F, s, 0)
    <3>1. 0 \in 0 .. Len(s)
      BY <2>1
    <3> QED
      BY <2>1, <2>2, <3>1, FirstFacts
  <2>4. F[0] = <<>>
    BY <2>3 DEF Step
  <2> QED
    BY <2>1, <2>2, <2>4 DEF s
<1>2. ASSUME NEW n \in Nat, NEW r \in RecordSet
      PROVE  Events(<<r>>) = IF IsEvent(r) THEN <<r.event>> ELSE <<>>
  <2>1. <<r>> \in Seq(RecordSet) /\ Len(<<r>>) = 1 /\ <<r>>[1] = r
    OBVIOUS
  <2>2. PICK F : IsFirst(F, <<r>>) /\ Events(<<r>>) = F[1]
    BY <2>1, EventsFirst
  <2>3. \A m \in 0 .. 1 : F[m] = Step(F, <<r>>, m)
    BY <2>1, <2>2, FirstFacts
  <2>4. F[0] = <<>>
    BY <2>3 DEF Step
  <2>5. F[1] = IF IsEvent(r) THEN Append(F[0], r.event) ELSE F[0]
    BY <2>1, <2>3 DEF Step
  <2>6. Append(<<>>, r.event) = <<r.event>>
    OBVIOUS
  <2> QED
    BY <2>2, <2>4, <2>5, <2>6
<1>3. ASSUME NEW n \in Nat
      PROVE  Events(<<[event |-> n]>>) = <<n>> /\ Events(<<[lost |-> n]>>) = <<>>
  BY <1>2, EventRecord, LostRecord
<1> QED
  BY <1>1, <1>3

Loss(r) == IF IsEvent(r) THEN 0 ELSE r.lost
LossOf(s) == [n \in 1 .. Len(s) |-> Loss(s[n])]

LEMMA LossesSum ==
  ASSUME NEW s \in Seq(RecordSet)
  PROVE  /\ Losses(s) = Sum(LossOf(s), 1 .. Len(s))
         /\ IsNatOn(LossOf(s), 1 .. Len(s))
         /\ Losses(s) \in Nat
<1>1. Losses(s) = Sum(LossOf(s), 1 .. Len(s))
  BY DEF Losses, SumFunction, Sum, LossOf, Loss
<1>2. IsFiniteSet(1 .. Len(s))
  BY FS_Interval
<1>3. \A n \in 1 .. Len(s) : LossOf(s)[n] \in Nat
  BY RecordFacts DEF LossOf, Loss
<1>4. IsNatOn(LossOf(s), 1 .. Len(s))
  BY <1>2, <1>3 DEF IsNatOn
<1> QED
  BY <1>1, <1>4, SumNat

LEMMA LossesAppend ==
  ASSUME NEW s \in Seq(RecordSet), NEW r \in RecordSet
  PROVE  Losses(Append(s, r)) = Losses(s) + Loss(r)
<1> DEFINE u == Append(s, r)
           D == 1 .. Len(s)
           l == Len(s) + 1
<1>1. /\ u \in Seq(RecordSet) /\ Len(u) = l /\ u[l] = r /\ \A n \in D : u[n] = s[n]
      /\ Len(s) \in Nat
  OBVIOUS
<1> HIDE DEF u
<1>2. 1 .. Len(u) = D \cup {l} /\ l \notin D
  BY <1>1
<1>3. /\ Losses(s) = Sum(LossOf(s), D) /\ IsNatOn(LossOf(s), D)
      /\ Losses(u) = Sum(LossOf(u), 1 .. Len(u)) /\ IsNatOn(LossOf(u), 1 .. Len(u))
  BY <1>1, LossesSum
<1>4. /\ \A n \in D : LossOf(s)[n] = LossOf(u)[n]
      /\ LossOf(u)[l] = Loss(r)
  BY <1>1 DEF LossOf
<1> HIDE DEF D, l
<1>5. IsNatOn(LossOf(u), D) /\ LossOf(u)[l] \in Nat
  BY <1>2, <1>3, <1>4 DEF IsNatOn
<1>6. Sum(LossOf(s), D) = Sum(LossOf(u), D)
  BY <1>3, <1>4, SumEqual
<1>7. Sum(LossOf(u), D \cup {l}) = Sum(LossOf(u), D) + LossOf(u)[l]
  BY <1>2, <1>5, SumAdd
<1>8. Losses(u) = Losses(s) + Loss(r)
  BY <1>2, <1>3, <1>4, <1>6, <1>7
<1> QED
  BY <1>8 DEF u

\* The losses of a sequence that continues another.
LEMMA LossesConcat ==
  ASSUME NEW s \in Seq(RecordSet), NEW t \in Seq(RecordSet)
  PROVE  Losses(s \o t) = Losses(s) + Losses(t)
<1> DEFINE T == {n \in Nat : n <= Len(t) =>
                   Losses(s \o SubSeq(t, 1, n)) = Losses(s) + Losses(SubSeq(t, 1, n))}
<1>0. Losses(s) \in Nat /\ Len(t) \in Nat
  BY LossesSum
<1>1. 0 \in T
  <2>1. SubSeq(t, 1, 0) = <<>>
    BY SubSeqEmpty
  <2>2. s \o <<>> = s
    BY ConcatEmptySeq
  <2>3. Losses(<<>>) = 0
    <3> DEFINE e == <<>>
    <3>1. e \in Seq(RecordSet) /\ 1 .. Len(e) = {}
      OBVIOUS
    <3> HIDE DEF e
    <3>2. Losses(e) = 0
      BY <3>1, LossesSum, SumEmpty
    <3> QED
      BY <3>2 DEF e
  <2>4. Losses(s) = Losses(s) + Losses(<<>>)
    BY <1>0, <2>3
  <2>5. Losses(s \o SubSeq(t, 1, 0)) = Losses(s) + Losses(SubSeq(t, 1, 0))
    BY <2>1, <2>2, <2>4, Zenon
  <2> QED
    BY <2>5
<1>2. ASSUME NEW n \in Nat, n \in T PROVE n + 1 \in T
  <2> SUFFICES ASSUME n + 1 <= Len(t)
               PROVE  Losses(s \o SubSeq(t, 1, n + 1)) = Losses(s) + Losses(SubSeq(t, 1, n + 1))
    OBVIOUS
  <2> DEFINE q == SubSeq(t, 1, n)
             r == t[n + 1]
  <2>1. q \in Seq(RecordSet) /\ r \in RecordSet /\ s \o q \in Seq(RecordSet)
    OBVIOUS
  <2>2. Losses(s \o q) = Losses(s) + Losses(q)
    BY <1>2
  <2>3. SubSeq(t, 1, n + 1) = q \o <<r>>
    <3>1. n + 1 \in 1 .. Len(t) /\ (n + 1) - 1 = n /\ 1 \in 1 .. Len(t)
      BY <1>0
    <3> QED
      BY <3>1, SubSeqRecursiveSecond
  <2> HIDE DEF q, r
  <2>4. q \o <<r>> = Append(q, r)
    BY <2>1, AppendIsConcat
  <2>5. s \o (q \o <<r>>) = Append(s \o q, r)
    <3>1. <<r>> \in Seq(RecordSet)
      BY <2>1
    <3>2. (s \o q) \o <<r>> = s \o (q \o <<r>>)
      BY <2>1, <3>1, ConcatAssociative
    <3>3. Append(s \o q, r) = (s \o q) \o <<r>>
      BY <2>1, AppendIsConcat
    <3> QED
      BY <3>2, <3>3
  <2>6. Losses(Append(q, r)) = Losses(q) + Loss(r)
    BY <2>1, LossesAppend
  <2>7. Losses(Append(s \o q, r)) = Losses(s \o q) + Loss(r)
    BY <2>1, LossesAppend
  <2>8. Losses(q) \in Nat /\ Loss(r) \in Nat
    BY <2>1, LossesSum, RecordFacts DEF Loss
  <2>9. Losses(Append(s \o q, r)) = Losses(s) + Losses(Append(q, r))
    BY <1>0, <2>2, <2>6, <2>7, <2>8
  <2> QED
    BY <2>3, <2>4, <2>5, <2>9, Zenon
<1> HIDE DEF T
<1>3. Len(t) \in T
  BY <1>0, <1>1, <1>2, NatInd
<1>4. SubSeq(t, 1, Len(t)) = t
  BY SubSeqFull
<1>5. Losses(s \o SubSeq(t, 1, Len(t))) = Losses(s) + Losses(SubSeq(t, 1, Len(t)))
  BY <1>0, <1>3 DEF T
<1> QED
  BY <1>4, <1>5, Zenon

LEMMA LossesOne ==
  /\ Losses(<<>>) = 0
  /\ \A n \in Nat : Losses(<<[event |-> n]>>) = 0 /\ Losses(<<[lost |-> n]>>) = n
<1> DEFINE e == <<>>
<1>1. e \in Seq(RecordSet) /\ 1 .. Len(e) = {} /\ \A r : Append(e, r) = <<r>>
  OBVIOUS
<1> HIDE DEF e
<1>2. Losses(e) = 0
  BY <1>1, LossesSum, SumEmpty
<1>3. \A r \in RecordSet : Losses(<<r>>) = 0 + Loss(r)
  BY <1>1, <1>2, LossesAppend
<1>4. ASSUME NEW n \in Nat
      PROVE  Losses(<<[event |-> n]>>) = 0 /\ Losses(<<[lost |-> n]>>) = n
  BY <1>3, EventRecord, LostRecord DEF Loss
<1> QED
  BY <1>2, <1>4 DEF e

-----------------------------------------------------------------------------
(* The rings and their readers                                             *)

PipeTyped ==
  /\ made \in [Cpus -> Nat] /\ unheard \in [Cpus -> Nat]
  /\ missed \in [Cpus -> Nat] /\ told \in [Cpus -> Nat]
  /\ ring \in [Cpus -> Seq(RecordSet)]
  /\ batch \in [Cpus -> Seq(Nat)] /\ recorded \in [Cpus -> Seq(Nat)]
  /\ reader \in [Cpus -> {"none", "waiting", "called", "ended"}]

\* The events of d are in order, and none is later than top.
InOrder(d, top) ==
  /\ d \in Seq(Nat)
  /\ \A i \in 1 .. Len(d) - 1 : d[i] < d[i + 1]
  /\ \A i \in 1 .. Len(d) : d[i] <= top

Delivered(k) == recorded[k] \o batch[k] \o Events(ring[k])

\* What holds of each CPU.
PipeFine(k) ==
  /\ Len(ring[k]) <= RingSize /\ Len(batch[k]) <= BufferSize
  /\ batch[k] # <<>> => reader[k] = "called"
  /\ InOrder(Delivered(k), made[k])
  /\ made[k] = Len(Delivered(k)) + unheard[k] + told[k] + Losses(ring[k]) + missed[k]

PipeInv == PipeTyped /\ \A k \in Cpus : PipeFine(k)

\* The state of CPU k does not change.
Same(k) ==
  /\ made'[k] = made[k] /\ unheard'[k] = unheard[k] /\ ring'[k] = ring[k]
  /\ missed'[k] = missed[k] /\ reader'[k] = reader[k] /\ batch'[k] = batch[k]
  /\ told'[k] = told[k] /\ recorded'[k] = recorded[k]

LEMMA SameFine ==
  ASSUME NEW k \in Cpus, PipeFine(k), Same(k)
  PROVE  PipeFine(k)'
<1>1. Delivered(k)' = Delivered(k)
  BY DEF Delivered, Same
<1> QED
  BY <1>1 DEF PipeFine, Same

LEMMA InOrderNext ==
  ASSUME NEW d, NEW top \in Nat, InOrder(d, top)
  PROVE  /\ InOrder(d, top + 1) /\ InOrder(d \o <<top + 1>>, top + 1)
         /\ Len(d \o <<top + 1>>) = Len(d) + 1
<1> DEFINE e == d \o <<top + 1>>
<1>1. /\ d \in Seq(Nat) /\ Len(d) \in Nat
      /\ \A i \in 1 .. Len(d) - 1 : d[i] < d[i + 1]
      /\ \A i \in 1 .. Len(d) : d[i] <= top /\ d[i] \in Nat
  BY DEF InOrder
<1>2. /\ e \in Seq(Nat) /\ Len(e) = Len(d) + 1 /\ e[Len(d) + 1] = top + 1
      /\ \A i \in 1 .. Len(d) : e[i] = d[i]
  BY <1>1
<1> HIDE DEF e
<1>3. \A i \in 1 .. Len(e) - 1 : e[i] < e[i + 1]
  <2> SUFFICES ASSUME NEW i \in 1 .. Len(e) - 1 PROVE e[i] < e[i + 1]
    OBVIOUS
  <2>1. i \in 1 .. Len(d) /\ e[i] = d[i] /\ d[i] <= top /\ d[i] \in Nat
    BY <1>1, <1>2
  <2>2. CASE i = Len(d)
    BY <1>2, <2>1, <2>2
  <2>3. CASE i # Len(d)
    <3>1. i \in 1 .. Len(d) - 1 /\ i + 1 \in 1 .. Len(d)
      BY <1>1, <2>1, <2>3
    <3> QED
      BY <1>1, <1>2, <2>1, <3>1
  <2> QED
    BY <2>2, <2>3
<1>4. \A i \in 1 .. Len(e) : e[i] <= top + 1
  <2> SUFFICES ASSUME NEW i \in 1 .. Len(e) PROVE e[i] <= top + 1
    OBVIOUS
  <2>1. CASE i = Len(d) + 1
    BY <1>2, <2>1
  <2>2. CASE i # Len(d) + 1
    <3>1. i \in 1 .. Len(d)
      BY <1>1, <1>2, <2>2
    <3>2. e[i] = d[i] /\ d[i] <= top /\ d[i] \in Nat
      BY <1>1, <1>2, <3>1
    <3> QED
      BY <3>2
  <2> QED
    BY <2>1, <2>2
<1>5. InOrder(e, top + 1)
  BY <1>2, <1>3, <1>4 DEF InOrder
<1>6. InOrder(d, top + 1)
  BY <1>1 DEF InOrder
<1> QED
  BY <1>2, <1>5, <1>6 DEF e

LEMMA RecordsFacts ==
  ASSUME PipeTyped, NEW k \in Cpus
  PROVE  /\ Records(k) \in Seq(RecordSet)
         /\ Events(Records(k)) = <<made[k] + 1>>
         /\ Losses(Records(k)) = missed[k]
<1> DEFINE l == [lost |-> missed[k]]
           e == [event |-> made[k] + 1]
<1>1. missed[k] \in Nat /\ made[k] \in Nat /\ made[k] + 1 \in Nat
  BY DEF PipeTyped
<1>2. l \in RecordSet /\ e \in RecordSet
  BY <1>1, LostRecord, EventRecord
<1>3. /\ Events(<<l>>) = <<>> /\ Losses(<<l>>) = missed[k]
      /\ Events(<<e>>) = <<made[k] + 1>> /\ Losses(<<e>>) = 0
  BY <1>1, EventsOne, LossesOne
<1>4. Records(k) = (IF missed[k] > 0 THEN <<l>> ELSE <<>>) \o <<e>>
  BY DEF Records
<1> HIDE DEF l, e
<1>5. /\ <<l>> \in Seq(RecordSet) /\ <<e>> \in Seq(RecordSet) /\ <<>> \in Seq(RecordSet)
      /\ <<made[k] + 1>> \in Seq(Nat) /\ <<l>> \o <<e>> \in Seq(RecordSet)
  BY <1>1, <1>2
<1>6. <<>> \o <<e>> = <<e>> /\ <<>> \o <<made[k] + 1>> = <<made[k] + 1>>
  BY <1>5, ConcatEmptySeq
<1>7. CASE missed[k] > 0
  <2>1. Records(k) = <<l>> \o <<e>>
    BY <1>4, <1>7
  <2>2. Events(<<l>> \o <<e>>) = Events(<<l>>) \o Events(<<e>>)
    BY <1>5, EventsConcat
  <2>3. Losses(<<l>> \o <<e>>) = Losses(<<l>>) + Losses(<<e>>)
    BY <1>5, LossesConcat
  <2>4. Losses(<<l>> \o <<e>>) = missed[k]
    BY <1>1, <1>3, <2>3
  <2> QED
    BY <1>3, <1>5, <1>6, <2>1, <2>2, <2>4, Zenon
<1>8. CASE ~(missed[k] > 0)
  <2>1. Records(k) = <<e>>
    BY <1>4, <1>6, <1>8
  <2>2. missed[k] = 0
    BY <1>1, <1>8
  <2> QED
    BY <1>3, <1>5, <2>1, <2>2, Zenon
<1> QED
  BY <1>7, <1>8

\* An event that fits goes behind all that is delivered.
LEMMA DeliveredNext ==
  ASSUME NEW d \in Seq(Nat), NEW q \in Seq(RecordSet), NEW r \in Seq(RecordSet), NEW n \in Nat,
         Events(r) = <<n>>
  PROVE  d \o Events(q \o r) = (d \o Events(q)) \o <<n>>
<1>1. Events(q \o r) = Events(q) \o <<n>>
  BY EventsConcat
<1>2. Events(q) \in Seq(Nat) /\ <<n>> \in Seq(Nat)
  BY EventsSeq
<1>3. (d \o Events(q)) \o <<n>> = d \o (Events(q) \o <<n>>)
  BY <1>2, ConcatNat
<1> QED
  BY <1>1, <1>3

\* An event gets one fate.
LEMMA PipeOutput ==
  ASSUME PipeTyped, NEW k \in Cpus, PipeFine(k), Output(k)
  PROVE  PipeTyped' /\ PipeFine(k)' /\ \A j \in Cpus \ {k} : Same(j)
<1>0. /\ made[k] \in Nat /\ unheard[k] \in Nat /\ missed[k] \in Nat /\ told[k] \in Nat
      /\ ring[k] \in Seq(RecordSet) /\ batch[k] \in Seq(Nat) /\ recorded[k] \in Seq(Nat)
      /\ Losses(ring[k]) \in Nat
  BY LossesSum DEF PipeTyped
<1>1. /\ made' = [made EXCEPT ![k] = @ + 1]
      /\ UNCHANGED <<reader, batch, told, recorded>>
  BY DEF Output
<1>2. /\ InOrder(Delivered(k), made[k]) /\ Len(Delivered(k)) \in Nat
      /\ made[k] = Len(Delivered(k)) + unheard[k] + told[k] + Losses(ring[k]) + missed[k]
      /\ Len(ring[k]) <= RingSize /\ Len(batch[k]) <= BufferSize
      /\ batch[k] # <<>> => reader[k] = "called"
  BY DEF PipeFine, InOrder
<1>3. InOrder(Delivered(k), made[k] + 1)
  BY <1>0, <1>2, InOrderNext
<1>4. made'[k] = made[k] + 1 /\ \A j \in Cpus \ {k} : made'[j] = made[j]
  BY <1>1 DEF PipeTyped
<1>n. /\ made[k] \in Nat /\ unheard[k] \in Nat /\ missed[k] \in Nat /\ told[k] \in Nat
      /\ Losses(ring[k]) \in Nat /\ Len(Delivered(k)) \in Nat
  BY <1>0, <1>2
<1>s. made[k] = Len(Delivered(k)) + unheard[k] + told[k] + Losses(ring[k]) + missed[k]
  BY <1>2
<1>m. /\ made[k] + 1 = Len(Delivered(k)) + (unheard[k] + 1) + told[k] + Losses(ring[k]) + missed[k]
      /\ made[k] + 1 = Len(Delivered(k)) + unheard[k] + told[k] + Losses(ring[k]) + (missed[k] + 1)
      /\ made[k] + 1 = (Len(Delivered(k)) + 1) + unheard[k] + told[k]
                         + (Losses(ring[k]) + missed[k]) + 0
  <2> DEFINE d == Len(Delivered(k))
             l == Losses(ring[k])
             m == made[k]
             u == unheard[k]
             t == told[k]
             x == missed[k]
  <2>1. m = d + u + t + l + x /\ m \in Nat /\ d \in Nat /\ u \in Nat /\ t \in Nat /\ l \in Nat /\ x \in Nat
    BY <1>n, <1>s
  <2> HIDE DEF d, l, m, u, t, x
  <2>2. /\ m + 1 = d + (u + 1) + t + l + x
        /\ m + 1 = d + u + t + l + (x + 1)
        /\ m + 1 = (d + 1) + u + t + (l + x) + 0
    BY <2>1
  <2> QED
    BY <2>2 DEF d, l, m, u, t, x
<1>5. ASSUME unheard' = [unheard EXCEPT ![k] = @ + 1], UNCHANGED <<ring, missed>>
      PROVE  PipeTyped' /\ PipeFine(k)' /\ \A j \in Cpus \ {k} : Same(j)
  <2>1. PipeTyped'
    <3>1. unheard' \in [Cpus -> Nat]
      BY <1>5 DEF PipeTyped
    <3> QED
      BY <1>0, <1>1, <1>5, <3>1 DEF PipeTyped
  <2>2. \A j \in Cpus \ {k} : Same(j)
    BY <1>1, <1>4, <1>5 DEF PipeTyped, Same
  <2>3. Delivered(k)' = Delivered(k)
    BY <1>1, <1>5 DEF Delivered
  <2>4. unheard'[k] = unheard[k] + 1
    BY <1>5 DEF PipeTyped
  <2>5. made'[k] = Len(Delivered(k)) + unheard'[k] + told[k] + Losses(ring[k]) + missed[k]
    BY <1>m, <1>4, <2>4, Zenon
  <2> QED
    BY <1>1, <1>2, <1>3, <1>4, <1>5, <2>1, <2>2, <2>3, <2>5 DEF PipeFine
<1>6. ASSUME missed' = [missed EXCEPT ![k] = @ + 1], UNCHANGED <<unheard, ring>>
      PROVE  PipeTyped' /\ PipeFine(k)' /\ \A j \in Cpus \ {k} : Same(j)
  <2>1. PipeTyped'
    <3>1. missed' \in [Cpus -> Nat]
      BY <1>6 DEF PipeTyped
    <3> QED
      BY <1>0, <1>1, <1>6, <3>1 DEF PipeTyped
  <2>2. \A j \in Cpus \ {k} : Same(j)
    BY <1>1, <1>4, <1>6 DEF PipeTyped, Same
  <2>3. Delivered(k)' = Delivered(k)
    BY <1>1, <1>6 DEF Delivered
  <2>4. missed'[k] = missed[k] + 1
    BY <1>6 DEF PipeTyped
  <2>5. made'[k] = Len(Delivered(k)) + unheard[k] + told[k] + Losses(ring[k]) + missed'[k]
    BY <1>m, <1>4, <2>4, Zenon
  <2> QED
    BY <1>1, <1>2, <1>3, <1>4, <1>6, <2>1, <2>2, <2>3, <2>5 DEF PipeFine
<1>7. ASSUME Len(ring[k]) + Len(Records(k)) <= RingSize,
             ring' = [ring EXCEPT ![k] = @ \o Records(k)],
             missed' = [missed EXCEPT ![k] = 0], UNCHANGED unheard
      PROVE  PipeTyped' /\ PipeFine(k)' /\ \A j \in Cpus \ {k} : Same(j)
  <2> DEFINE r == Records(k)
             q == ring[k]
             d == recorded[k] \o batch[k]
  <2>0. r \in Seq(RecordSet) /\ Events(r) = <<made[k] + 1>> /\ Losses(r) = missed[k]
    BY RecordsFacts
  <2>1. ring'[k] = q \o r /\ missed'[k] = 0
    BY <1>7 DEF PipeTyped
  <2>2. q \in Seq(RecordSet) /\ q \o r \in Seq(RecordSet) /\ Len(q \o r) = Len(q) + Len(r)
        /\ d \in Seq(Nat) /\ made[k] + 1 \in Nat
    BY <1>0, <2>0
  <2>3. PipeTyped'
    BY <1>0, <1>1, <1>7, <2>2 DEF PipeTyped
  <2>4. \A j \in Cpus \ {k} : Same(j)
    BY <1>1, <1>4, <1>7 DEF PipeTyped, Same
  <2>5. Delivered(k) = d \o Events(q)
    BY DEF Delivered
  <2>6. Delivered(k)' = d \o Events(q \o r)
    BY <1>1, <2>1 DEF Delivered
  <2>7. Len(q \o r) <= RingSize
    BY <1>7, <2>2
  <2> HIDE DEF r, q, d
  <2>8. Delivered(k)' = Delivered(k) \o <<made[k] + 1>>
    <3>1. \A n \in Nat : Events(r) = <<n>> => d \o Events(q \o r) = (d \o Events(q)) \o <<n>>
      BY <2>0, <2>2, DeliveredNext, Zenon
    <3>2. d \o Events(q \o r) = (d \o Events(q)) \o <<made[k] + 1>>
      BY <2>0, <2>2, <3>1, Zenon
    <3> QED
      BY <2>5, <2>6, <3>2, Zenon
  <2>9. /\ InOrder(Delivered(k)', made[k] + 1)
        /\ Len(Delivered(k)') = Len(Delivered(k)) + 1
    BY <1>0, <1>2, <2>8, InOrderNext
  <2>10. Losses(q \o r) = Losses(q) + missed[k]
    BY <2>0, <2>2, LossesConcat
  <2>11. made'[k] = Len(Delivered(k)') + unheard[k] + told[k] + Losses(ring'[k]) + missed'[k]
    <3>1. /\ Losses(ring'[k]) = Losses(ring[k]) + missed[k]
          /\ Len(Delivered(k)') = Len(Delivered(k)) + 1 /\ missed'[k] = 0
      BY <2>1, <2>9, <2>10 DEF q
    <3> QED
      BY <1>m, <1>4, <3>1, Zenon
  <2> QED
    BY <1>1, <1>2, <1>4, <1>7, <2>1, <2>3, <2>4, <2>7, <2>9, <2>11 DEF PipeFine
<1> QED
  BY <1>5, <1>6, <1>7 DEF Output

LEMMA LenConcat ==
  ASSUME NEW f \in Seq(Nat), NEW g \in Seq(Nat), NEW n \in Nat, Len(g) = n, n <= 1
  PROVE  Len(f \o g) <= Len(f) + 1
<1>1. Len(f \o g) = Len(f) + n /\ Len(f) \in Nat
  BY ConcatProperties
<1> QED
  BY <1>1

\* A record is one event at most.
LEMMA EventsGrow ==
  ASSUME NEW q \in Seq(RecordSet), NEW r \in RecordSet
  PROVE  Len(Events(q \o <<r>>)) <= Len(Events(q)) + 1
<1>1. <<r>> \in Seq(RecordSet)
  OBVIOUS
<1>2. Events(q \o <<r>>) = Events(q) \o Events(<<r>>)
  BY <1>1, EventsConcat
<1>3. Events(q) \in Seq(Nat) /\ Events(<<r>>) \in Seq(Nat)
  BY <1>1, EventsSeq
<1>4. Len(<<>>) = 0 /\ \A m : Len(<<m>>) = 1
  OBVIOUS
<1>5. Len(Events(<<r>>)) = 0 \/ Len(Events(<<r>>)) = 1
  <2>1. (\E m : Events(<<r>>) = <<m>>) \/ Events(<<r>>) = <<>>
    <3>1. (\E n \in Nat : r = [event |-> n]) \/ (\E n \in Nat : r = [lost |-> n])
      BY DEF RecordSet
    <3>2. ASSUME NEW n \in Nat, r = [event |-> n] PROVE Events(<<r>>) = <<n>>
      BY <3>2, EventsOne, Zenon
    <3>3. ASSUME NEW n \in Nat, r = [lost |-> n] PROVE Events(<<r>>) = <<>>
      BY <3>3, EventsOne, Zenon
    <3> QED
      BY <3>1, <3>2, <3>3, Zenon
  <2> QED
    BY <1>4, <2>1, Zenon
<1>6. PICK n \in {0, 1} : Len(Events(<<r>>)) = n
  <2> DEFINE l == Len(Events(<<r>>))
  <2>1. l = 0 \/ l = 1
    BY <1>5
  <2> HIDE DEF l
  <2>2. \E n \in {0, 1} : l = n
    BY <2>1
  <2> QED
    BY <2>2 DEF l
<1>7. Len(Events(q) \o Events(<<r>>)) <= Len(Events(q)) + 1
  BY <1>3, <1>6, LenConcat
<1> QED
  BY <1>2, <1>7, Zenon

\* A read fits into the buffers: the events of the first n records grow with
\* n by one at a time, so that the first n that fills the buffers fills them
\* exactly.
LEMMA TakenFacts ==
  ASSUME PipeTyped, NEW k \in Cpus
  PROVE  /\ Taken(k) \in 0 .. Len(ring[k])
         /\ Len(Events(SubSeq(ring[k], 1, Taken(k)))) <= BufferSize
<1> DEFINE s == ring[k]
           E(n) == Len(Events(SubSeq(s, 1, n)))
           S == {Len(s)} \cup {n \in 1 .. Len(s) : E(n) = BufferSize}
<1>0. s \in Seq(RecordSet) /\ Len(s) \in Nat /\ BufferSize \in Nat /\ BufferSize > 0
  BY PipelineAssumption DEF PipeTyped
<1>1. Taken(k) = Min(S)
  BY DEF Taken
<1> HIDE DEF s
<1>2. \A n \in 0 .. Len(s) : SubSeq(s, 1, n) \in Seq(RecordSet)
  BY <1>0
<1>3. \A n \in 0 .. Len(s) : E(n) \in Nat
  BY <1>2, EventsSeq, LenProperties
<1>4. E(0) = 0
  <2>1. SubSeq(s, 1, 0) = <<>>
    BY SubSeqEmpty
  <2>2. Events(SubSeq(s, 1, 0)) = <<>>
    BY <2>1, EventsOne, Zenon
  <2>3. Len(<<>>) = 0
    OBVIOUS
  <2> QED
    BY <2>2, <2>3, Zenon
<1>5. ASSUME NEW n \in 1 .. Len(s) PROVE E(n) <= E(n - 1) + 1
  <2> DEFINE q == SubSeq(s, 1, n - 1)
             r == s[n]
  <2>1. q \in Seq(RecordSet) /\ r \in RecordSet /\ <<r>> \in Seq(RecordSet)
    BY <1>0, <1>2
  <2>2. SubSeq(s, 1, n) = q \o <<r>>
    BY <1>0, SubSeqRecursiveSecond
  <2> HIDE DEF q, r
  <2>3. Len(Events(q \o <<r>>)) <= Len(Events(q)) + 1
    BY <2>1, EventsGrow
  <2> QED
    BY <2>2, <2>3 DEF q
<1>6. S \subseteq Nat /\ S # {}
  BY <1>0
<1>7. Min(S) \in S /\ \A n \in S : Min(S) <= n
  <2> HIDE DEF S
  <2> QED
    BY <1>6, Least DEF Min
<1> HIDE DEF E
<1>8. Min(S) \in 0 .. Len(s)
  BY <1>0, <1>7
<1>9. E(Min(S)) <= BufferSize
  <2> SUFFICES ASSUME ~(E(Min(S)) <= BufferSize) PROVE FALSE
    OBVIOUS
  <2> DEFINE N == Len(s)
             U == {n \in 0 .. N : E(n) >= BufferSize}
  <2>1. Min(S) = N /\ E(N) > BufferSize
    BY <1>0, <1>3, <1>7, <1>8
  <2>2. U \subseteq Nat /\ N \in U
    BY <1>0, <1>3, <2>1
  <2>3. PICK n \in U : \A m \in U : n <= m
    <3> HIDE DEF U
    <3> QED
      BY <2>2, Least
  <2>4. n \in 0 .. N /\ E(n) >= BufferSize /\ n # 0
    BY <1>0, <1>4
  <2>5. n \in 1 .. N /\ n - 1 \in 0 .. N
    BY <1>0, <2>4
  <2>6. E(n - 1) < BufferSize
    <3>1. n - 1 \notin U
      BY <2>3, <2>4
    <3> QED
      BY <1>0, <1>3, <2>5, <3>1
  <2>7. E(n) = BufferSize
    BY <1>0, <1>3, <1>5, <2>4, <2>5, <2>6
  <2>8. n \in S
    BY <2>5, <2>7
  <2>9. n = N
    <3>1. Min(S) <= n
      BY <1>7, <2>8
    <3>2. N <= n /\ n <= N /\ n \in Nat /\ N \in Nat
      BY <1>0, <2>1, <2>5, <3>1
    <3> QED
      BY <3>2
  <2> QED
    BY <1>0, <2>1, <2>7, <2>9
<1>10. Taken(k) \in 0 .. Len(s) /\ E(Taken(k)) <= BufferSize
  BY <1>1, <1>8, <1>9
<1> QED
  BY <1>10 DEF s, E

\* A read moves events from the ring to the batch, and losses to the task.
LEMMA PipeRead ==
  ASSUME PipeTyped, NEW k \in Cpus, PipeFine(k), ReadEvents(k)
  PROVE  PipeTyped' /\ PipeFine(k)' /\ \A j \in Cpus \ {k} : Same(j)
<1> DEFINE q == ring[k]
           n == Taken(k)
           a == SubSeq(q, 1, n)
           b == SubSeq(q, n + 1, Len(q))
           d == recorded[k]
<1>0. /\ reader[k] = "waiting" /\ batch' = [batch EXCEPT ![k] = Events(a)]
      /\ told' = [told EXCEPT ![k] = @ + Losses(a)] /\ ring' = [ring EXCEPT ![k] = b]
      /\ reader' = [reader EXCEPT ![k] = "called"]
      /\ UNCHANGED <<made, unheard, missed, recorded>>
  BY DEF ReadEvents
<1>1. /\ made[k] \in Nat /\ unheard[k] \in Nat /\ missed[k] \in Nat /\ told[k] \in Nat
      /\ q \in Seq(RecordSet) /\ d \in Seq(Nat) /\ Len(q) \in Nat
  BY DEF PipeTyped
<1>2. n \in 0 .. Len(q) /\ Len(Events(a)) <= BufferSize
  BY TakenFacts
<1>3. batch[k] = <<>> /\ Len(q) <= RingSize /\ RingSize \in Nat
  BY <1>0, PipelineAssumption DEF PipeFine
<1> HIDE DEF n, q, d
<1>4. /\ a \in Seq(RecordSet) /\ b \in Seq(RecordSet)
      /\ Len(b) = Len(q) - n
  BY <1>1, <1>2
<1>5. q = a \o b
  <2>1. 1 \in 1 .. Len(q) + 1 /\ n \in 1 - 1 .. Len(q) /\ Len(q) \in n .. Len(q)
    BY <1>1, <1>2
  <2>2. SubSeq(q, 1, n) \o SubSeq(q, n + 1, Len(q)) = SubSeq(q, 1, Len(q))
    BY <1>1, <2>1, ConcatAdjacentSubSeq
  <2>3. SubSeq(q, 1, Len(q)) = q
    BY <1>1, SubSeqFull
  <2> QED
    BY <2>2, <2>3
<1>6. Len(b) <= RingSize
  BY <1>1, <1>2, <1>3, <1>4
<1> HIDE DEF a, b
<1>7. /\ Events(q) = Events(a) \o Events(b) /\ Losses(q) = Losses(a) + Losses(b)
      /\ Events(a) \in Seq(Nat) /\ Events(b) \in Seq(Nat)
      /\ Losses(a) \in Nat /\ Losses(b) \in Nat
  BY <1>4, <1>5, EventsConcat, LossesConcat, EventsSeq, LossesSum
<1>8. /\ batch'[k] = Events(a) /\ told'[k] = told[k] + Losses(a) /\ ring'[k] = b
      /\ reader'[k] = "called"
  BY <1>0 DEF PipeTyped
<1>9. PipeTyped'
  <2>1. told[k] + Losses(a) \in Nat
    BY <1>1, <1>7
  <2>2. told' \in [Cpus -> Nat] /\ ring' \in [Cpus -> Seq(RecordSet)]
    BY <1>0, <1>4, <2>1 DEF PipeTyped
  <2>3. batch' \in [Cpus -> Seq(Nat)]
    BY <1>0, <1>7 DEF PipeTyped
  <2> QED
    BY <1>0, <2>2, <2>3 DEF PipeTyped
<1>10. \A j \in Cpus \ {k} : Same(j)
  BY <1>0 DEF PipeTyped, Same
<1>11. Delivered(k)' = Delivered(k)
  <2>1. Delivered(k)' = (d \o Events(a)) \o Events(b)
    BY <1>0, <1>8 DEF Delivered, d
  <2>2. (d \o Events(a)) \o Events(b) = d \o (Events(a) \o Events(b))
    <3>1. d \in Seq(Nat) /\ Events(a) \in Seq(Nat) /\ Events(b) \in Seq(Nat)
      BY <1>1, <1>7
    <3> QED
      BY <3>1, ConcatNat
  <2>3. d \o <<>> = d
    BY <1>1, ConcatEmptySeq
  <2>4. Delivered(k) = (d \o <<>>) \o Events(q)
    BY <1>3 DEF Delivered, d, q
  <2> QED
    BY <1>7, <2>1, <2>2, <2>3, <2>4, Zenon
<1>12. made[k] = Len(Delivered(k)) + unheard[k] + (told[k] + Losses(a)) + Losses(b) + missed[k]
  <2> DEFINE x == Len(Delivered(k))
             l == Losses(a)
             m == Losses(b)
  <2>1. made[k] = x + unheard[k] + told[k] + (l + m) + missed[k] /\ x \in Nat
    BY <1>7 DEF PipeFine, InOrder, q
  <2>2. l \in Nat /\ m \in Nat
    BY <1>7
  <2> HIDE DEF x, l, m
  <2>3. made[k] = x + unheard[k] + (told[k] + l) + m + missed[k]
    BY <1>1, <2>1, <2>2
  <2> QED
    BY <2>3 DEF x, l, m
<1>13. InOrder(Delivered(k), made[k])
  BY DEF PipeFine
<1>14. PipeFine(k)'
  BY <1>0, <1>2, <1>6, <1>8, <1>11, <1>12, <1>13 DEF PipeFine, a
<1> QED
  BY <1>9, <1>10, <1>14

\* f moves the batch to the store.
LEMMA PipeCallback ==
  ASSUME PipeTyped, NEW k \in Cpus, PipeFine(k), Callback(k)
  PROVE  PipeTyped' /\ PipeFine(k)' /\ \A j \in Cpus \ {k} : Same(j)
<1>0. /\ recorded' = [recorded EXCEPT ![k] = @ \o batch[k]]
      /\ batch' = [batch EXCEPT ![k] = <<>>] /\ reader' = [reader EXCEPT ![k] = "waiting"]
      /\ UNCHANGED <<made, unheard, ring, missed, told>>
  BY DEF Callback
<1>1. recorded[k] \in Seq(Nat) /\ batch[k] \in Seq(Nat) /\ recorded[k] \o batch[k] \in Seq(Nat)
  BY DEF PipeTyped
<1>2. recorded'[k] = recorded[k] \o batch[k] /\ batch'[k] = <<>> /\ reader'[k] = "waiting"
  BY <1>0 DEF PipeTyped
<1>3. PipeTyped'
  BY <1>0, <1>1 DEF PipeTyped
<1>4. \A j \in Cpus \ {k} : Same(j)
  BY <1>0 DEF PipeTyped, Same
<1>5. (recorded[k] \o batch[k]) \o <<>> = recorded[k] \o batch[k]
  BY <1>1, ConcatEmptySeq
<1>6. Delivered(k)' = Delivered(k)
  BY <1>0, <1>2, <1>5 DEF Delivered
<1>7. Len(batch'[k]) <= BufferSize
  BY <1>2, PipelineAssumption
<1>8. PipeFine(k)'
  BY <1>0, <1>2, <1>6, <1>7 DEF PipeFine
<1> QED
  BY <1>3, <1>4, <1>8

\* A task begins or ends with no batch.
LEMMA PipeTask ==
  ASSUME PipeTyped, NEW k \in Cpus, PipeFine(k), OpenRing(k) \/ EndReader(k)
  PROVE  PipeTyped' /\ PipeFine(k)' /\ \A j \in Cpus \ {k} : Same(j)
<1>0. /\ reader[k] # "called"
      /\ reader' = [reader EXCEPT ![k] = "waiting"] \/ reader' = [reader EXCEPT ![k] = "ended"]
      /\ UNCHANGED <<made, unheard, ring, missed, batch, told, recorded>>
  BY DEF OpenRing, EndReader
<1>1. PipeTyped'
  BY <1>0 DEF PipeTyped
<1>2. \A j \in Cpus \ {k} : Same(j)
  BY <1>0 DEF PipeTyped, Same
<1>3. Delivered(k)' = Delivered(k)
  BY <1>0 DEF Delivered
<1>4. PipeFine(k)'
  BY <1>0, <1>3 DEF PipeFine
<1> QED
  BY <1>1, <1>2, <1>4

PipeStep(k) ==
  Output(k) \/ OpenRing(k) \/ ReadEvents(k) \/ Callback(k) \/ EndReader(k)

LEMMA PipeStepInv ==
  ASSUME PipeInv, NEW k \in Cpus, PipeStep(k)
  PROVE  PipeInv'
<1>1. PipeTyped /\ \A j \in Cpus : PipeFine(j)
  BY DEF PipeInv
<1>2. PipeTyped' /\ PipeFine(k)' /\ \A j \in Cpus \ {k} : Same(j)
  BY <1>1, PipeOutput, PipeRead, PipeCallback, PipeTask DEF PipeStep
<1>3. ASSUME NEW j \in Cpus \ {k} PROVE PipeFine(j)'
  BY <1>1, <1>2, SameFine
<1> QED
  BY <1>2, <1>3 DEF PipeInv

LEMMA PipeBegins ==
  ASSUME Init
  PROVE  PipeInv
<1>1. /\ made = [k \in Cpus |-> 0] /\ unheard = [k \in Cpus |-> 0]
      /\ ring = [k \in Cpus |-> <<>>] /\ missed = [k \in Cpus |-> 0]
      /\ reader = [k \in Cpus |-> "none"] /\ batch = [k \in Cpus |-> <<>>]
      /\ told = [k \in Cpus |-> 0] /\ recorded = [k \in Cpus |-> <<>>]
  BY DEF Init, PipeInit
<1>2. PipeTyped
  BY <1>1, EmptySeq DEF PipeTyped
<1>3. ASSUME NEW k \in Cpus PROVE PipeFine(k)
  <2>1. /\ made[k] = 0 /\ unheard[k] = 0 /\ ring[k] = <<>> /\ missed[k] = 0
        /\ batch[k] = <<>> /\ told[k] = 0 /\ recorded[k] = <<>>
    BY <1>1
  <2>2. Len(<<>>) = 0 /\ <<>> \in Seq(Nat) /\ <<>> \o <<>> = <<>>
    BY ConcatEmptySeq, EmptySeq
  <2>3. Delivered(k) = <<>>
    BY <2>1, <2>2, EventsOne DEF Delivered
  <2>4. Len(Delivered(k)) = 0
    BY <2>2, <2>3, Zenon
  <2>5. InOrder(Delivered(k), 0)
    <3> DEFINE d == Delivered(k)
    <3>1. d \in Seq(Nat) /\ Len(d) = 0
      BY <2>2, <2>3, <2>4
    <3> HIDE DEF d
    <3>2. InOrder(d, 0)
      BY <3>1 DEF InOrder
    <3> QED
      BY <3>2 DEF d
  <2>6. Len(ring[k]) <= RingSize /\ Len(batch[k]) <= BufferSize
    BY <2>1, <2>2, PipelineAssumption
  <2>7. Losses(ring[k]) = 0
    BY <2>1, LossesOne, Zenon
  <2>8. made[k] = Len(Delivered(k)) + unheard[k] + told[k] + Losses(ring[k]) + missed[k]
    BY <2>1, <2>4, <2>7
  <2> QED
    BY <2>1, <2>5, <2>6, <2>8 DEF PipeFine
<1> QED
  BY <1>2, <1>3 DEF PipeInv

LEMMA PipeKept ==
  ASSUME PipeInv, UNCHANGED pipeVars
  PROVE  PipeInv'
<1>1. PipeTyped' /\ \A k \in Cpus : Same(k)
  BY DEF PipeInv, PipeTyped, pipeVars, Same
<1> QED
  BY <1>1, SameFine DEF PipeInv

LEMMA PipeNext ==
  ASSUME PipeInv, [Next]_vars
  PROVE  PipeInv'
<1>1. ASSUME NEW k \in Cpus, Open(k) \/ AbortReader(k) \/ ReaderStep(k) \/ ReaderFails(k) \/ Produce(k)
      PROVE  PipeStep(k)
  BY <1>1 DEF Open, AbortReader, ReaderStep, Read, Apply, ReaderFails, Produce, PipeStep
<1>2. CASE MainStep
  BY <1>1, <1>2, PipeStepInv, PipeKept
  DEF MainStep, Load, LoadFails, Opened, OpenFails, Joined, ReaderEnded, UiEnded, DropUi,
      DropLookup, Exit
<1>3. CASE UiStep \/ Tick \/ KeyOpen \/ KeyBack \/ KeyQuit \/ CtrlC
  <2>1. UNCHANGED pipeVars
    BY <1>3
    DEF UiStep, EnableRawMode, EnterAlternateScreen, NewTerminal, DrawFrame, DrawFails,
        DrawPanics, DisableRawMode, LeaveAlternateScreen, Tick, KeyOpen, KeyBack, Wake,
        KeyQuit, CtrlC
  <2> QED
    BY <2>1, PipeKept
<1>4. ASSUME NEW n, LookupStep(n) PROVE UNCHANGED pipeVars
  BY <1>4 DEF LookupStep, Start, Finish
<1>5. CASE UNCHANGED vars
  BY <1>5, PipeKept DEF vars
<1> QED
  BY <1>1, <1>2, <1>3, <1>4, <1>5, PipeStepInv, PipeKept DEF Next, Ended

\* Accounted always holds: whatever the load, the sizes of the rings and the
\* moment a reader starts or is stopped, each event that the probes make is
\* delivered in order, counted as lost, or made when nobody listened.
THEOREM LifecycleAccounted == Spec => []Accounted
<1>1. PipeInv => Accounted
  BY DEF PipeInv, PipeFine, InOrder, Delivered, Accounted
<1> QED
  BY <1>1, PipeBegins, PipeNext, PTL DEF Spec

-----------------------------------------------------------------------------
(* The lookups                                                             *)

LookupStates == {"queued", "running", "sent", "died", "gone"}

PromiseInv ==
  /\ lookups \in Seq(LookupStates)
  /\ view \in 0 .. Len(lookups)
  /\ promise \in {"pending", "resolved"}

LEMMA PromiseBegins ==
  ASSUME Init
  PROVE  PromiseInv
<1>1. lookups = <<>> /\ view = 0 /\ promise = "pending"
  BY DEF Init, PromiseInit
<1>2. <<>> \in Seq(LookupStates) /\ Len(<<>>) = 0
  BY EmptySeq
<1> QED
  BY <1>1, <1>2 DEF PromiseInv

LEMMA WithoutViewFacts ==
  ASSUME PromiseInv
  PROVE  WithoutView \in Seq(LookupStates) /\ Len(WithoutView) = Len(lookups)
<1>1. lookups \in Seq(LookupStates) /\ Len(lookups) \in Nat /\ DOMAIN lookups = 1 .. Len(lookups)
  BY DEF PromiseInv
<1>2. WithoutView \in [1 .. Len(lookups) -> LookupStates]
  BY <1>1 DEF WithoutView, LookupStates
<1> QED
  BY <1>1, <1>2, IsASeq, LenProperties

LEMMA PromiseKept ==
  ASSUME PromiseInv, UNCHANGED promiseVars
  PROVE  PromiseInv'
BY DEF PromiseInv, promiseVars

\* A lookup changes its state.
LEMMA PromiseChange ==
  ASSUME PromiseInv, NEW n \in 1 .. Len(lookups), NEW state \in LookupStates,
         lookups' = [lookups EXCEPT ![n] = state], UNCHANGED <<view, promise>>
  PROVE  PromiseInv'
<1>1. lookups \in Seq(LookupStates)
  BY DEF PromiseInv
<1>2. lookups' \in Seq(LookupStates) /\ Len(lookups') = Len(lookups)
  BY <1>1, ExceptSeq
<1> QED
  BY <1>2 DEF PromiseInv

LEMMA PromiseNext ==
  ASSUME PromiseInv, [Next]_vars
  PROVE  PromiseInv'
<1>0. lookups \in Seq(LookupStates) /\ Len(lookups) \in Nat
  BY DEF PromiseInv
<1>1. ASSUME NEW n \in 1 .. Len(lookups), DropLookup(n) PROVE PromiseInv'
  BY <1>1, PromiseChange DEF DropLookup, LookupStates
<1>2. ASSUME NEW n \in 1 .. MaxLookups, LookupStep(n) PROVE PromiseInv'
  <2>1. n \in 1 .. Len(lookups)
    BY <1>0, <1>2, PromiseAssumption DEF LookupStep
  <2>2. PICK state \in LookupStates :
          lookups' = [lookups EXCEPT ![n] = state] /\ UNCHANGED <<view, promise>>
    BY <1>2 DEF LookupStep, Start, StartLookup, Finish, EndLookup, LookupStates
  <2> QED
    BY <2>1, <2>2, PromiseChange
<1>3. CASE KeyOpen
  <2>1. /\ lookups' = Append(WithoutView, "queued") /\ view' = Len(lookups) + 1
        /\ promise' = "pending"
    BY <1>3 DEF KeyOpen, OpenView
  <2>2. WithoutView \in Seq(LookupStates) /\ Len(WithoutView) = Len(lookups)
    BY WithoutViewFacts
  <2>3. "queued" \in LookupStates
    BY DEF LookupStates
  <2>4. lookups' \in Seq(LookupStates) /\ Len(lookups') = Len(lookups) + 1
    BY <2>1, <2>2, <2>3, AppendProperties
  <2> QED
    BY <1>0, <2>1, <2>4 DEF PromiseInv
<1>4. CASE KeyBack
  <2>1. lookups' = WithoutView /\ view' = 0 /\ promise' = "pending"
    BY <1>4 DEF KeyBack, CloseView
  <2>2. WithoutView \in Seq(LookupStates) /\ Len(WithoutView) = Len(lookups)
    BY WithoutViewFacts
  <2> QED
    BY <1>0, <2>1, <2>2 DEF PromiseInv
<1>5. CASE DrawFrame
  BY <1>5 DEF DrawFrame, Value, PromiseInv
<1>6. CASE UNCHANGED promiseVars
  BY <1>6, PromiseKept
<1>7. CASE MainStep /\ ~\E n \in 1 .. Len(lookups) : DropLookup(n)
  BY <1>6, <1>7
  DEF MainStep, Load, LoadFails, Open, Opened, OpenFails, Joined, ReaderEnded, UiEnded,
      AbortReader, DropUi, Exit
<1>8. CASE UiStep /\ ~DrawFrame
  BY <1>6, <1>8
  DEF UiStep, EnableRawMode, EnterAlternateScreen, NewTerminal, DrawFails, DrawPanics,
      DisableRawMode, LeaveAlternateScreen
<1>9. ASSUME NEW k \in Cpus, ReaderStep(k) \/ ReaderFails(k) \/ Produce(k)
      PROVE  UNCHANGED promiseVars
  BY <1>9 DEF ReaderStep, Read, Apply, ReaderFails, Produce
<1>10. CASE Tick \/ KeyQuit \/ CtrlC \/ UNCHANGED vars
  BY <1>6, <1>10 DEF Tick, KeyQuit, CtrlC, vars
<1> QED
  BY <1>1, <1>2, <1>3, <1>4, <1>5, <1>6, <1>7, <1>8, <1>9, <1>10 DEF Next, Ended

\* TypeOK always holds: a read never takes more than its buffers, the rings
\* never hold more than they can, and no task ends with a batch in its hands.
THEOREM LifecycleTypeOK == Spec => []TypeOK
<1>1. UiInv /\ PipeInv /\ PromiseInv => TypeOK
  BY DEF UiInv, UiTyped, Mains, Uis, PipeInv, PipeTyped, PipeFine, PromiseInv, TypeOK
<1> QED
  BY <1>1, UiInit, UiNext, PipeBegins, PipeNext, PromiseBegins, PromiseNext, PTL DEF Spec

=============================================================================
