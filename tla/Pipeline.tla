------------------------------ MODULE Pipeline ------------------------------
(***************************************************************************)
(* From EVENTS.output (ptraf-ebpf.rs) to Store::batch_update: a perf ring  *)
(* per CPU and the task that reads it (ProbeProgram::events, probe.rs).    *)
(*                                                                         *)
(* The ring is external.  It keeps RingSize records.  What does not fit is *)
(* counted, and the count goes into the ring as a record of its own ahead  *)
(* of the next event that fits.  Before the ring is opened, and after its  *)
(* reader has gone, an event vanishes without a count: notify ignores what *)
(* output returns.                                                         *)
(*                                                                         *)
(* The events of a CPU are numbered, whether a call or the tracepoint      *)
(* sock_set_state made them.                                               *)
(***************************************************************************)
EXTENDS Integers, SequencesExt

CONSTANTS
  Cpus,        \* online_cpus()
  RingSize,    \* records that a ring holds
  BufferSize,  \* msg_buffer_capacity: events read at a time
  MaxEvents    \* bound: MaxEvents[k] events on CPU k

ASSUME PipelineAssumption ==
  /\ RingSize \in Nat \ {0, 1}  \* a lost record and an event
  /\ BufferSize \in Nat \ {0}
  /\ MaxEvents \in [Cpus -> Nat]

VARIABLES
  made,      \* events that the probes have made
  unheard,   \* how many of them when there was no reader
  ring,      \* records, oldest first: [event |-> n] or [lost |-> count]
  missed,    \* events that did not fit and are not in a lost record yet
  reader,    \* the task: "none", "waiting", "called" (in f), "ended"
  batch,     \* the EventIter that f was given
  told,      \* sum of events.lost over all reads
  recorded   \* events that f has added to the store, in order

pipeVars == <<made, unheard, ring, missed, reader, batch, told, recorded>>

PipeInit ==
  /\ made = [k \in Cpus |-> 0]
  /\ unheard = [k \in Cpus |-> 0]
  /\ ring = [k \in Cpus |-> <<>>]
  /\ missed = [k \in Cpus |-> 0]
  /\ reader = [k \in Cpus |-> "none"]
  /\ batch = [k \in Cpus |-> <<>>]
  /\ told = [k \in Cpus |-> 0]
  /\ recorded = [k \in Cpus |-> <<>>]

IsEvent(record) == "event" \in DOMAIN record

\* The numbers of the events among some records, and the losses they tell of.
Events(records) ==
  LET first[n \in 0 .. Len(records)] ==
        IF n = 0 THEN <<>>
        ELSE IF IsEvent(records[n]) THEN Append(first[n - 1], records[n].event)
        ELSE first[n - 1]
  IN  first[Len(records)]
Losses(records) ==
  SumFunction([n \in 1 .. Len(records) |->
                 IF IsEvent(records[n]) THEN 0 ELSE records[n].lost])

-----------------------------------------------------------------------------

\* The records that the next event of CPU k takes.
Records(k) ==
  (IF missed[k] > 0 THEN <<[lost |-> missed[k]]>> ELSE <<>>)
    \o <<[event |-> made[k] + 1]>>

\* EVENTS.output on CPU k.
Output(k) ==
  /\ made[k] < MaxEvents[k]
  /\ made' = [made EXCEPT ![k] = @ + 1]
  /\ \/ /\ reader[k] \in {"none", "ended"}
        /\ unheard' = [unheard EXCEPT ![k] = @ + 1]
        /\ UNCHANGED <<ring, missed>>
     \/ /\ reader[k] \in {"waiting", "called"}
        /\ Len(ring[k]) + Len(Records(k)) <= RingSize
        /\ ring' = [ring EXCEPT ![k] = @ \o Records(k)]
        /\ missed' = [missed EXCEPT ![k] = 0]
        /\ UNCHANGED unheard
     \/ /\ reader[k] \in {"waiting", "called"}
        /\ Len(ring[k]) + Len(Records(k)) > RingSize
        /\ missed' = [missed EXCEPT ![k] = @ + 1]
        /\ UNCHANGED <<unheard, ring>>
  /\ UNCHANGED <<reader, batch, told, recorded>>

\* perf_array.open(cpu_id) and join_set.spawn.
OpenRing(k) ==
  /\ reader[k] = "none"
  /\ reader' = [reader EXCEPT ![k] = "waiting"]
  /\ UNCHANGED <<made, unheard, ring, missed, batch, told, recorded>>

\* How many records one read takes: all, or up to the one that fills the
\* last of the buffers.
Taken(k) ==
  Min({Len(ring[k])} \cup
      {n \in 1 .. Len(ring[k]) : Len(Events(SubSeq(ring[k], 1, n))) = BufferSize})

\* Mutant of ReadEvents: what is read into the buffers is all that is left.
ReadEventsDrains(k) ==
  /\ reader[k] = "waiting"
  /\ ring[k] # <<>>
  /\ batch' = [batch EXCEPT ![k] = Events(SubSeq(ring[k], 1, Taken(k)))]
  /\ told' = [told EXCEPT ![k] = @ + Losses(SubSeq(ring[k], 1, Taken(k)))]
  /\ ring' = [ring EXCEPT ![k] = <<>>]
  /\ reader' = [reader EXCEPT ![k] = "called"]
  /\ UNCHANGED <<made, unheard, missed, recorded>>

\* Mutant of ReadEvents: the task is woken only when the ring is full.
ReadEventsWatermark(k) ==
  /\ reader[k] = "waiting"
  /\ Len(ring[k]) = RingSize
  /\ batch' = [batch EXCEPT ![k] = Events(SubSeq(ring[k], 1, Taken(k)))]
  /\ told' = [told EXCEPT ![k] = @ + Losses(SubSeq(ring[k], 1, Taken(k)))]
  /\ ring' = [ring EXCEPT ![k] = SubSeq(@, Taken(k) + 1, Len(@))]
  /\ reader' = [reader EXCEPT ![k] = "called"]
  /\ UNCHANGED <<made, unheard, missed, recorded>>

\* buf.read_events returns once there is something; f is called with it.
ReadEvents(k) ==
  /\ reader[k] = "waiting"
  /\ ring[k] # <<>>
  /\ batch' = [batch EXCEPT ![k] = Events(SubSeq(ring[k], 1, Taken(k)))]
  /\ told' = [told EXCEPT ![k] = @ + Losses(SubSeq(ring[k], 1, Taken(k)))]
  /\ ring' = [ring EXCEPT ![k] = SubSeq(@, Taken(k) + 1, Len(@))]
  /\ reader' = [reader EXCEPT ![k] = "called"]
  /\ UNCHANGED <<made, unheard, missed, recorded>>

\* f: Store::batch_update consumes the EventIter to its end.
Callback(k) ==
  /\ reader[k] = "called"
  /\ recorded' = [recorded EXCEPT ![k] = @ \o batch[k]]
  /\ batch' = [batch EXCEPT ![k] = <<>>]
  /\ reader' = [reader EXCEPT ![k] = "waiting"]
  /\ UNCHANGED <<made, unheard, ring, missed, told>>

\* Mutant of EndReader: a task may be stopped in the middle of f.
EndReaderAnywhere(k) ==
  /\ reader[k] \in {"waiting", "called"}
  /\ reader' = [reader EXCEPT ![k] = "ended"]
  /\ UNCHANGED <<made, unheard, ring, missed, batch, told, recorded>>

\* The task ends at its await: read_events failed, or it is aborted.
EndReader(k) ==
  /\ reader[k] = "waiting"
  /\ reader' = [reader EXCEPT ![k] = "ended"]
  /\ UNCHANGED <<made, unheard, ring, missed, batch, told, recorded>>

-----------------------------------------------------------------------------
(* Properties                                                              *)

\* Every event that the probes make has exactly one fate, at any time: it is
\* in the store, in the hands of a reader or in a ring, in the order of the
\* CPU; or it was made when nobody listened; or it is counted in the losses
\* that the readers are told, now or with the next event that fits.
Accounted ==
  \A k \in Cpus :
    LET delivered == recorded[k] \o batch[k] \o Events(ring[k])
    IN  /\ \A i \in 1 .. Len(delivered) - 1 : delivered[i] < delivered[i + 1]
        /\ made[k] = Len(delivered) + unheard[k]
                       + told[k] + Losses(ring[k]) + missed[k]

=============================================================================
