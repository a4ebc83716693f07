----------------------------- MODULE Lifecycle -----------------------------
(***************************************************************************)
(* ptraf/src/main.rs and run_ui (ui.rs): the program from its start to its *)
(* end, with the reader tasks (module Pipeline), the lookups (module       *)
(* Promise) and the terminal.                                              *)
(*                                                                         *)
(* tokio's rules (external).  A task can be dropped only where it awaits;  *)
(* what it does between two awaits is finished first.  When main returns,  *)
(* the runtime is dropped: the tasks are dropped, the lookups still queued *)
(* are forgotten, and the ones that run are waited for.                    *)
(*                                                                         *)
(*   main  load, opening (program.events), select, joining (after ctrl_c), *)
(*         dropping (the runtime), exited                                  *)
(*   ui    none, spawned, setup, entered, parked (at its select!), awake,  *)
(*         restoring, leaving, ended, dropped                              *)
(*                                                                         *)
(* The task of the UI awaits in spawned and parked only.                   *)
(***************************************************************************)
EXTENDS Pipeline, Promise

VARIABLES
  main,
  ui,
  raw,    \* is the terminal in raw mode?
  alt,    \* is the alternate screen shown?
  quit,   \* history: run_app has returned, by Quit or by an error of draw
  fault   \* history: a call on the terminal failed, or the UI task panicked

uiVars == <<ui, raw, alt, quit, fault>>
vars == <<main, uiVars, pipeVars, promiseVars>>

Init ==
  /\ main = "load"
  /\ ui = "none"
  /\ raw = FALSE
  /\ alt = FALSE
  /\ quit = FALSE
  /\ fault = FALSE
  /\ PipeInit
  /\ PromiseInit

-----------------------------------------------------------------------------
(* main                                                                    *)

\* Each part of main that waits for nothing but itself.
Main(from, to) ==
  /\ main = from
  /\ main' = to

\* ProbeProgram::load()?
LoadFails ==
  /\ Main("load", "dropping")
  /\ UNCHANGED <<uiVars, pipeVars, promiseVars>>

\* It succeeds, and tokio::spawn(run_ui(..)).
Load ==
  /\ Main("load", "opening")
  /\ ui' = "spawned"
  /\ UNCHANGED <<raw, alt, quit, fault, pipeVars, promiseVars>>

\* events() opens the ring of the next CPU.
Open(k) ==
  /\ main = "opening"
  /\ OpenRing(k)
  /\ UNCHANGED <<main, uiVars, promiseVars>>

Opened ==
  /\ \A k \in Cpus : reader[k] # "none"
  /\ Main("opening", "select")
  /\ UNCHANGED <<uiVars, pipeVars, promiseVars>>

\* events().await? fails; the JoinSet is dropped.
OpenFails ==
  /\ Main("opening", "dropping")
  /\ UNCHANGED <<uiVars, pipeVars, promiseVars>>

\* signal::ctrl_c(): abort_all, then join_next until there is none.
CtrlC ==
  /\ Main("select", "joining")
  /\ UNCHANGED <<uiVars, pipeVars, promiseVars>>

Joined ==
  /\ \A k \in Cpus : reader[k] = "ended"
  /\ Main("joining", "dropping")
  /\ UNCHANGED <<uiVars, pipeVars, promiseVars>>

\* join_set.join_next()
ReaderEnded ==
  /\ \E k \in Cpus : reader[k] = "ended"
  /\ Main("select", "dropping")
  /\ UNCHANGED <<uiVars, pipeVars, promiseVars>>

\* Mutant of UiEnded: only an error of the UI ends the program.
UiEndedFault ==
  /\ ui = "ended" /\ fault
  /\ Main("select", "dropping")
  /\ UNCHANGED <<uiVars, pipeVars, promiseVars>>

\* ui_handle
UiEnded ==
  /\ ui = "ended"
  /\ Main("select", "dropping")
  /\ UNCHANGED <<uiVars, pipeVars, promiseVars>>

\* read_events(..).await?: the task of a reader returns its error.
ReaderFails(k) ==
  /\ main \in {"opening", "select"}
  /\ EndReader(k)
  /\ UNCHANGED <<main, uiVars, promiseVars>>

\* abort_all, or the JoinSet is dropped.
AbortReader(k) ==
  /\ main \in {"joining", "dropping"}
  /\ EndReader(k)
  /\ UNCHANGED <<main, uiVars, promiseVars>>

\* Mutant of DropUi: a task that is restoring the terminal is dropped, too.
DropUiAnywhere ==
  /\ main = "dropping"
  /\ ui \in {"spawned", "parked", "restoring"}
  /\ ui' = "dropped"
  /\ UNCHANGED <<main, raw, alt, quit, fault, pipeVars, promiseVars>>

\* The runtime drops the task of the UI where it awaits.
DropUi ==
  /\ main = "dropping"
  /\ ui \in {"spawned", "parked"}
  /\ ui' = "dropped"
  /\ UNCHANGED <<main, raw, alt, quit, fault, pipeVars, promiseVars>>

\* The queue of the blocking pool is not served any more.
DropLookup(n) ==
  /\ main = "dropping"
  /\ lookups[n] = "queued"
  /\ lookups' = [lookups EXCEPT ![n] = "gone"]
  /\ UNCHANGED <<main, uiVars, pipeVars, view, promise>>

\* All threads of the runtime have ended.
Exit ==
  /\ \A k \in Cpus : reader[k] \in {"none", "ended"}
  /\ ui \in {"none", "ended", "dropped"}
  /\ \A n \in 1 .. Len(lookups) : lookups[n] \notin {"queued", "running"}
  /\ Main("dropping", "exited")
  /\ UNCHANGED <<uiVars, pipeVars, promiseVars>>

-----------------------------------------------------------------------------
(* The readers, the kernel and the pool, while the program runs            *)

\* The probes stay attached as long as events() or a reader holds the Bpf
\* object.
Attached ==
  main = "opening" \/ \E k \in Cpus : reader[k] \in {"waiting", "called"}

Produce(k) == Attached /\ Output(k) /\ UNCHANGED <<main, uiVars, promiseVars>>

\* An abort takes effect when the task has to wait: while its ring has records
\* read_events does not, and the task may go on.  (A task that already waits is
\* ended without another look at its ring; the model lets it look.)
Read(k) ==
  /\ main \in {"opening", "select", "joining", "dropping"}
  /\ ReadEvents(k)
  /\ UNCHANGED <<main, uiVars, promiseVars>>

Apply(k) == Callback(k) /\ UNCHANGED <<main, uiVars, promiseVars>>

Start(n) ==
  /\ main # "dropping"
  /\ StartLookup(n)
  /\ UNCHANGED <<main, uiVars, pipeVars>>

Finish(n, how) ==
  /\ EndLookup(n, how)
  /\ UNCHANGED <<main, uiVars, pipeVars>>

-----------------------------------------------------------------------------
(* run_ui                                                                  *)

\* enable_raw_mode()?
EnableRawMode ==
  /\ ui = "spawned" /\ main # "dropping"
  /\ \/ ui' = "setup" /\ raw' = TRUE /\ UNCHANGED fault
     \/ ui' = "ended" /\ fault' = TRUE /\ UNCHANGED raw
  /\ UNCHANGED <<main, alt, quit, pipeVars, promiseVars>>

\* execute!(stdout, EnterAlternateScreen)?
EnterAlternateScreen ==
  /\ ui = "setup"
  /\ \/ ui' = "entered" /\ alt' = TRUE /\ UNCHANGED fault
     \/ ui' = "ended" /\ fault' = TRUE /\ UNCHANGED alt
  /\ UNCHANGED <<main, raw, quit, pipeVars, promiseVars>>

\* Terminal::new(backend)? and terminal.clear()?, then run_app begins.
NewTerminal ==
  /\ ui = "entered"
  /\ \/ ui' = "awake" /\ UNCHANGED fault
     \/ ui' = "ended" /\ fault' = TRUE
  /\ UNCHANGED <<main, raw, alt, quit, pipeVars, promiseVars>>

\* terminal.draw, which asks the promise for its value, then select!.
DrawFrame ==
  /\ ui = "awake"
  /\ ui' = "parked"
  /\ Value
  /\ UNCHANGED <<main, raw, alt, quit, fault, pipeVars, lookups, view>>

\* draw fails, and run_app returns.
DrawFails ==
  /\ ui = "awake"
  /\ ui' = "restoring"
  /\ quit' = TRUE
  /\ UNCHANGED <<main, raw, alt, fault, pipeVars, promiseVars>>

\* draw panics: the task ends there.
DrawPanics ==
  /\ ui = "awake"
  /\ ui' = "ended"
  /\ fault' = TRUE
  /\ UNCHANGED <<main, raw, alt, quit, pipeVars, promiseVars>>

\* An event or the timeout wakes the loop.  A key that changes nothing while
\* no frame is due takes it back to its select! with nothing drawn: a stutter.
Wake ==
  /\ ui = "parked" /\ main # "dropping"
  /\ ui' = "awake"
  /\ UNCHANGED <<raw, alt, fault, main, pipeVars>>

Tick == Wake /\ UNCHANGED <<quit, promiseVars>>
\* 'r' in the main view or in the view of a process
KeyOpen == Wake /\ OpenView /\ UNCHANGED quit
KeyBack == Wake /\ CloseView /\ UNCHANGED quit

KeyQuit ==
  /\ ui = "parked" /\ main # "dropping"
  /\ ui' = "restoring"
  /\ quit' = TRUE
  /\ UNCHANGED <<main, raw, alt, fault, pipeVars, promiseVars>>

\* disable_raw_mode()?
DisableRawMode ==
  /\ ui = "restoring"
  /\ \/ ui' = "leaving" /\ raw' = FALSE /\ UNCHANGED fault
     \/ ui' = "ended" /\ fault' = TRUE /\ UNCHANGED raw
  /\ UNCHANGED <<main, alt, quit, pipeVars, promiseVars>>

\* execute!(.., LeaveAlternateScreen)? and show_cursor()?
LeaveAlternateScreen ==
  /\ ui = "leaving"
  /\ ui' = "ended"
  /\ \/ alt' = FALSE /\ UNCHANGED fault
     \/ fault' = TRUE /\ UNCHANGED alt
  /\ UNCHANGED <<main, raw, quit, pipeVars, promiseVars>>

-----------------------------------------------------------------------------

MainStep ==
  \/ Load \/ LoadFails
  \/ \E k \in Cpus : Open(k)
  \/ Opened \/ OpenFails
  \/ Joined \/ ReaderEnded \/ UiEnded
  \/ \E k \in Cpus : AbortReader(k)
  \/ DropUi
  \/ \E n \in 1 .. Len(lookups) : DropLookup(n)
  \/ Exit

\* What the task of the UI does between two awaits.
UiStep ==
  \/ EnableRawMode \/ EnterAlternateScreen \/ NewTerminal
  \/ DrawFrame \/ DrawFails \/ DrawPanics
  \/ DisableRawMode \/ LeaveAlternateScreen

LookupStep(n) ==
  /\ n <= Len(lookups)
  /\ \/ Start(n)
     \/ \E how \in {"sent", "died"} : Finish(n, how)

ReaderStep(k) == Read(k) \/ Apply(k)

\* The program has ended.
Ended == main = "exited" /\ UNCHANGED vars

Next ==
  \/ MainStep
  \/ UiStep
  \/ Tick \/ KeyOpen \/ KeyBack \/ KeyQuit
  \/ \E n \in 1 .. MaxLookups : LookupStep(n)
  \/ \E k \in Cpus : ReaderStep(k) \/ ReaderFails(k) \/ Produce(k)
  \/ CtrlC
  \/ Ended

\* The scheduler runs the threads, the timeout of the UI's select! elapses,
\* and a lookup ends (the resolver has a timeout).  Nothing is assumed of
\* keys, signals, traffic or faults.
Fairness ==
  /\ WF_vars(MainStep)
  /\ WF_vars(UiStep \/ Tick)
  /\ \A n \in 1 .. MaxLookups : WF_vars(LookupStep(n))
  /\ \A k \in Cpus : WF_vars(ReaderStep(k))

Spec == Init /\ [][Next]_vars /\ Fairness

-----------------------------------------------------------------------------
(* Properties                                                              *)

\* The variables keep their types; a batch is out of the ring only while f
\* works on it, so no abort and no exit drops events that a reader has taken.
TypeOK ==
  /\ main \in {"load", "opening", "select", "joining", "dropping", "exited"}
  /\ ui \in {"none", "spawned", "setup", "entered", "parked", "awake",
             "restoring", "leaving", "ended", "dropped"}
  /\ raw \in BOOLEAN /\ alt \in BOOLEAN /\ quit \in BOOLEAN /\ fault \in BOOLEAN
  /\ reader \in [Cpus -> {"none", "waiting", "called", "ended"}]
  /\ \A k \in Cpus :
       /\ Len(ring[k]) <= RingSize
       /\ Len(batch[k]) <= BufferSize
       /\ batch[k] # <<>> => reader[k] = "called"
  /\ view \in 0 .. Len(lookups)
  /\ promise \in {"pending", "resolved"}

\* "restore terminal" (run_ui): however the program ends, the terminal is not
\* left in raw mode or on the alternate screen.
TerminalRestored == main = "exited" /\ ~fault => ~raw /\ ~alt

\* Weaker: once run_app has returned, the terminal is restored before the
\* program ends, although a signal or a reader's error may end main at the
\* same time.
QuitRestores == main = "exited" /\ quit /\ ~fault => ~raw /\ ~alt

\* A program that was told to end does: after quit, an error or a panic of the
\* UI, a reader's error or a signal, no task and no lookup keeps it for ever.
\* (Traffic is finite here, MaxEvents: a ring that is never empty could keep its
\* reader from ever waiting.)
Exits == quit \/ ui = "ended" \/ main \in {"joining", "dropping"} ~> main = "exited"

\* While the program runs, an event in a ring gets to the store, whatever the
\* load: a reader that has nothing to wait for is not passed over.
Drained ==
  \A k \in Cpus : \A n \in 1 .. MaxEvents[k] :
    Contains(Events(ring[k]), n)
      ~> Contains(recorded[k], n) \/ main \notin {"opening", "select"}

\* The view of a remote address gets its name, unless the user leaves the view
\* or the UI ends first, or the lookup panics (then value says "not yet" for
\* ever): lookups for views that are gone, and lookups that have panicked, do
\* not keep the one that is waited for out of the pool.
NameShown ==
  \A n \in 1 .. MaxLookups :
    view = n ~> \/ view # n
                \/ promise = "resolved"
                \/ lookups[n] = "died"
                \/ ui \in {"ended", "dropped"}

=============================================================================
