------------------------------- MODULE Promise -------------------------------
(***************************************************************************)
(* ptraf/src/promise.rs, as ui/remote_ip_details.rs uses it: a view of a   *)
(* remote address spawns a blocking lookup of its name, which sends the    *)
(* name over a one-shot channel; each frame asks the promise for its       *)
(* value.  The user may leave the view, and open another, at any time.     *)
(*                                                                         *)
(* The pool of blocking threads is tokio's (external): it runs at most     *)
(* PoolSize lookups at a time, the others wait in its queue.               *)
(***************************************************************************)
EXTENDS Integers, Sequences, FiniteSets

CONSTANTS
  PoolSize,    \* threads of the blocking pool
  MaxLookups   \* bound: views of remote addresses opened

ASSUME PromiseAssumption ==
  /\ PoolSize \in Nat \ {0}
  /\ MaxLookups \in Nat

VARIABLES
  lookups,  \* the states of all lookups so far: "queued", "running"; "sent",
            \* "died" (a promise looks at it), "gone" (none does)
  view,     \* the lookup of the view that is open, or 0
  promise   \* its promise: "pending", "resolved"

promiseVars == <<lookups, view, promise>>

PromiseInit ==
  /\ lookups = <<>>
  /\ view = 0
  /\ promise = "pending"

-----------------------------------------------------------------------------

\* The lookups when the view that was open is dropped, and its receiver with it.
WithoutView ==
  [n \in DOMAIN lookups |->
     IF lookups[n] \in {"sent", "died"} THEN "gone" ELSE lookups[n]]

\* RemoteIpDetailsView::new and Promise::spawn_blocking.
OpenView ==
  /\ Len(lookups) < MaxLookups
  /\ lookups' = Append(WithoutView, "queued")
  /\ view' = Len(lookups) + 1
  /\ promise' = "pending"

CloseView ==
  /\ view # 0
  /\ view' = 0
  /\ promise' = "pending"
  /\ lookups' = WithoutView

Running == {n \in 1 .. Len(lookups) : lookups[n] = "running"}

\* A thread of the pool takes the oldest lookup of the queue.
StartLookup(n) ==
  /\ Cardinality(Running) < PoolSize
  /\ lookups[n] = "queued"
  /\ \A m \in 1 .. n - 1 : lookups[m] # "queued"
  /\ lookups' = [lookups EXCEPT ![n] = "running"]
  /\ UNCHANGED <<view, promise>>

\* It ends: tx.send(f()), or f panics and the sender is dropped.
EndLookup(n, how) ==
  /\ lookups[n] = "running"
  /\ lookups' = [lookups EXCEPT ![n] = IF n = view THEN how ELSE "gone"]
  /\ UNCHANGED <<view, promise>>

\* Mutant of Value: the channel is only looked at once it is resolved.
ValueResolved ==
  IF view # 0 /\ lookups[view] = "sent" /\ promise = "resolved"
    THEN promise' = "resolved"
    ELSE UNCHANGED promise

\* Promise::value, from RemoteIpDetailsView::render: a channel that is still
\* empty, and one that is closed for good, look the same.
Value ==
  IF view # 0 /\ lookups[view] = "sent"
    THEN promise' = "resolved"
    ELSE UNCHANGED promise

=============================================================================
