--------------------------------- MODULE Ui ---------------------------------
(***************************************************************************)
(* ptraf/src/ui.rs, ui/filter_editor.rs and the events of ui/socktable.rs: *)
(* the loop of run_app, the three views, the filter editor, the selection. *)
(*                                                                         *)
(* Two copies of the custom filter exist: Ui::custom_filter, which the     *)
(* sparkline uses and new views start from, and FilterView's committed     *)
(* state, which the table uses.  A key goes to the filter editor first,    *)
(* then to the view, then to the Ui: each passes on what it answers with   *)
(* None, so a key that the editor refuses can still act on the view.       *)
(*                                                                         *)
(* A line of text is a member of Texts.  The table is a sequence of rows;  *)
(* what a collection finds is the environment's choice (see Segment).      *)
(***************************************************************************)
EXTENDS Integers, Sequences

CONSTANTS
  Pids, Ips,
  Valid,    \* lines that Interpretor::parse accepts
  Invalid,  \* lines that it refuses
  Blank,    \* the empty line
  MaxRows   \* bound: rows of the table

ASSUME UiAssumption ==
  /\ Valid \cap Invalid = {}
  /\ Blank \notin Valid \cup Invalid
  /\ MaxRows \in Nat

VARIABLES
  loop,      \* run_app: "top" (may draw), "select" (waits), "quit"
  due,       \* the tick has elapsed since the last frame
  paused,    \* Ui::paused
  dirty,     \* Ui::dirty
  filter,    \* Ui::filter, and with it the kind of Ui::view
  custom,    \* Ui::custom_filter
  editing,   \* FilterView::editing
  committed, \* FilterView::committed_state
  draft,     \* FilterView::draft_interpretor
  text,      \* FilterView::textarea
  dataset,   \* SocketTable::dataset
  selected,  \* TableState::selected; 0: none, else the number of the row
  screen     \* history: what the last frame showed

loopVars == <<loop, due>>
editorVars == <<editing, committed, draft, text>>
tableVars == <<dataset, selected>>
vars == <<loop, due, paused, dirty, filter, custom, editing, committed, draft,
          text, dataset, selected, screen>>

Texts == Valid \cup Invalid \cup {Blank}

NoFilter == <<"None">>
Process(p) == <<"Process", p>>
RemoteIp(ip) == <<"RemoteIp", ip>>
Filters == {NoFilter} \cup {Process(p) : p \in Pids} \cup {RemoteIp(i) : i \in Ips}

Rows == [pid : Pids, ip : Ips]

\* Option<Interpretor>: an interpretor is named after the line it was parsed
\* from.  A custom filter is that line with its interpretor.
None == <<>>
Some(x) == <<x>>
CustomFilter(content, interpretor) == [content |-> content, interpretor |-> interpretor]

\* FilterView::update: Ok(None) for an empty line, Ok(Some(..)) or Err.
Parse(line) ==
  CASE line = Blank      -> [ok |-> TRUE, int |-> None]
    [] line \in Valid    -> [ok |-> TRUE, int |-> Some(line)]
    [] line \in Invalid  -> [ok |-> FALSE, int |-> None]

NoDraft == [ok |-> TRUE, int |-> None]

Content(state) == IF state = None THEN Blank ELSE state[1].content
InterpretorOf(state) == IF state = None THEN None ELSE Some(state[1].interpretor)

\* FilterView::interpretor, what the table filters with.
Interpretor == IF editing THEN draft.int ELSE InterpretorOf(committed)

Init ==
  /\ loop = "top" /\ due = FALSE
  /\ paused = FALSE /\ dirty = TRUE
  /\ filter = NoFilter /\ custom = None
  /\ editing = FALSE /\ committed = None /\ draft = NoDraft /\ text = Blank
  /\ dataset = <<>> /\ selected = 0
  /\ screen = None

-----------------------------------------------------------------------------
(* run_app and Ui::render                                                  *)

\* The rows that a view of the filter can hold.
RowsOf(f) ==
  {r \in Rows : f = NoFilter \/ f = Process(r.pid) \/ f = RemoteIp(r.ip)}

Tables(f) == UNION {[1 .. n -> RowsOf(f)] : n \in 0 .. MaxRows}

Shown == [filter |-> filter, editing |-> editing, text |-> text, paused |-> paused,
          selected |-> selected]

\* Mutant of Draw: the frame is not drawn when only the tick has elapsed.
DrawDirtyOnly ==
  /\ loop = "top"
  /\ dirty
  /\ dirty' = FALSE /\ due' = FALSE
  /\ loop' = "select"
  /\ IF paused THEN UNCHANGED dataset ELSE dataset' \in Tables(filter)
  /\ screen' = Shown
  /\ UNCHANGED <<paused, filter, custom, selected>>
  /\ UNCHANGED editorVars

\* terminal.draw: a paused table is not collected again.
Draw ==
  /\ loop = "top"
  /\ dirty \/ due
  /\ dirty' = FALSE /\ due' = FALSE
  /\ loop' = "select"
  /\ IF paused THEN UNCHANGED dataset ELSE dataset' \in Tables(filter)
  /\ screen' = Shown
  /\ UNCHANGED <<paused, filter, custom, selected>>
  /\ UNCHANGED editorVars

SkipDraw ==
  /\ loop = "top"
  /\ ~dirty /\ ~due
  /\ loop' = "select"
  /\ UNCHANGED <<due, paused, dirty, filter, custom, screen>>
  /\ UNCHANGED editorVars
  /\ UNCHANGED tableVars

\* Time passes: last_update.elapsed() > tick_rate.
Elapse ==
  /\ loop # "quit"
  /\ ~due
  /\ due' = TRUE
  /\ UNCHANGED <<loop, paused, dirty, filter, custom, screen>>
  /\ UNCHANGED editorVars
  /\ UNCHANGED tableVars

\* The other branch of select!.
Timeout ==
  /\ loop = "select"
  /\ due
  /\ loop' = "top"
  /\ UNCHANGED <<due, paused, dirty, filter, custom, screen>>
  /\ UNCHANGED editorVars
  /\ UNCHANGED tableVars

-----------------------------------------------------------------------------
(* Keys, while the filter is being edited                                  *)

\* An event is delivered, and the loop comes round.
Event ==
  /\ loop = "select"
  /\ loop' = "top"
  /\ UNCHANGED <<due, screen>>

\* Mutant of Type: the line is not parsed again.
TypeNoUpdate(line) ==
  /\ Event
  /\ editing
  /\ text' = line
  /\ dirty' = TRUE
  /\ UNCHANGED <<paused, filter, custom, editing, committed, draft>>
  /\ UNCHANGED tableVars

\* Any other key (or event) is the text area's; some change the line.
Type(line) ==
  /\ Event
  /\ editing
  /\ text' = line
  /\ draft' = IF line # text THEN Parse(line) ELSE draft
  /\ dirty' = TRUE
  /\ UNCHANGED <<paused, filter, custom, editing, committed>>
  /\ UNCHANGED tableVars

\* Esc: abort.  The answer is None, so the Ui is not marked dirty; no view
\* listens to Esc.
Abort ==
  /\ Event
  /\ editing
  /\ editing' = FALSE
  /\ draft' = NoDraft
  /\ text' = Content(committed)
  /\ UNCHANGED <<committed, paused, dirty, filter, custom>>
  /\ UNCHANGED tableVars

\* commit: take the draft's interpretor and the line.
Committed ==
  IF draft.int = None THEN None ELSE Some(CustomFilter(text, draft.int[1]))

\* Mutant of Commit: the Ui is not told.
CommitLocally ==
  /\ Event
  /\ editing /\ draft.ok
  /\ editing' = FALSE
  /\ committed' = Committed
  /\ draft' = NoDraft
  /\ dirty' = TRUE
  /\ UNCHANGED <<text, paused, filter, custom>>
  /\ UNCHANGED tableVars

\* Enter, or Ctrl-M, on a valid line; the Ui receives SetCustomFilter.
Commit ==
  /\ Event
  /\ editing /\ draft.ok
  /\ editing' = FALSE
  /\ committed' = Committed
  /\ custom' = Committed
  /\ draft' = NoDraft
  /\ dirty' = TRUE
  /\ UNCHANGED <<text, paused, filter>>
  /\ UNCHANGED tableVars

-----------------------------------------------------------------------------
(* Keys of the views                                                       *)

\* Mutant of NewView: the rows of the old view stay.
NewViewKeepsRows(f) ==
  /\ filter' = f
  /\ committed' = custom
  /\ editing' = FALSE /\ draft' = NoDraft /\ text' = Blank
  /\ dirty' = TRUE
  /\ UNCHANGED <<paused, custom, dataset, selected>>

\* update_filter, update_view: a new view, with the Ui's custom filter but an
\* empty text area.
NewView(f) ==
  /\ filter' = f
  /\ committed' = custom
  /\ editing' = FALSE /\ draft' = NoDraft /\ text' = Blank
  /\ dataset' = <<>> /\ selected' = 0
  /\ dirty' = TRUE
  /\ UNCHANGED <<paused, custom>>

\* SocketTableView::selected: the row may be gone.
HasSelection == selected \in 1 .. Len(dataset)

\* The keys 'p' and Enter in the main and in the remote view.
OpenProcess ==
  /\ Event
  /\ ~editing
  /\ filter[1] # "Process"
  /\ HasSelection
  /\ NewView(Process(dataset[selected].pid))

\* Enter on an invalid line: the editor answers None, so the view takes the
\* key.
EnterInvalid ==
  /\ Event
  /\ editing /\ ~draft.ok
  /\ filter[1] # "Process"
  /\ HasSelection
  /\ NewView(Process(dataset[selected].pid))

\* The key 'r' in the main and in the process view.
OpenRemoteIp ==
  /\ Event
  /\ ~editing
  /\ filter[1] # "RemoteIp"
  /\ HasSelection
  /\ NewView(RemoteIp(dataset[selected].ip))

\* 'q' and Backspace in the process and in the remote view.
Back ==
  /\ Event
  /\ ~editing
  /\ filter # NoFilter
  /\ NewView(NoFilter)

\* '/': SocketTableView starts the editor.
SetEditing ==
  /\ Event
  /\ ~editing
  /\ editing' = TRUE
  /\ draft' = [ok |-> TRUE, int |-> InterpretorOf(committed)]
  /\ text' = Content(committed)
  /\ dirty' = TRUE
  /\ UNCHANGED <<paused, filter, custom, committed>>
  /\ UNCHANGED tableVars

Least(a, b) == IF a <= b THEN a ELSE b

\* Down and 'j'.  Rows are numbered from 1 here.
Down ==
  /\ Event
  /\ ~editing
  /\ selected' = IF dataset = <<>> THEN 0
                 ELSE IF selected = 0 THEN 1 ELSE Least(selected + 1, Len(dataset))
  /\ dirty' = TRUE
  /\ UNCHANGED <<paused, filter, custom, dataset>>
  /\ UNCHANGED editorVars

\* Mutant of Up: the last row is not looked at, nor the first.
UpUnclamped ==
  /\ Event
  /\ ~editing
  /\ selected' = selected - 1
  /\ dirty' = TRUE
  /\ UNCHANGED <<paused, filter, custom, dataset>>
  /\ UNCHANGED editorVars

\* Up and 'k'.
Up ==
  /\ Event
  /\ ~editing
  /\ selected' = IF dataset = <<>> \/ selected = 0 THEN 0
                 ELSE Least(IF selected = 1 THEN 1 ELSE selected - 1, Len(dataset))
  /\ dirty' = TRUE
  /\ UNCHANGED <<paused, filter, custom, dataset>>
  /\ UNCHANGED editorVars

-----------------------------------------------------------------------------
(* Keys of the Ui itself                                                   *)

\* Mutant of TogglePause: the space bar acts while a filter is typed, too.
TogglePauseAlways ==
  /\ Event
  /\ paused' = ~paused
  /\ dirty' = TRUE
  /\ UNCHANGED <<filter, custom>>
  /\ UNCHANGED editorVars
  /\ UNCHANGED tableVars

\* The space bar.
TogglePause ==
  /\ Event
  /\ ~editing
  /\ paused' = ~paused
  /\ dirty' = TRUE
  /\ UNCHANGED <<filter, custom>>
  /\ UNCHANGED editorVars
  /\ UNCHANGED tableVars

\* 'q' in the main view.
Quit ==
  /\ loop = "select"
  /\ ~editing
  /\ filter = NoFilter
  /\ loop' = "quit"
  /\ UNCHANGED <<due, paused, dirty, filter, custom, screen>>
  /\ UNCHANGED editorVars
  /\ UNCHANGED tableVars

\* An event that nobody uses: any other key outside of the editor, Ctrl-M on
\* an invalid line, Enter on one where the view has no row for it, a read
\* error.
Ignore ==
  /\ Event
  /\ UNCHANGED <<paused, dirty, filter, custom>>
  /\ UNCHANGED editorVars
  /\ UNCHANGED tableVars

\* run_ui restores the terminal and main returns.
Exited ==
  /\ loop = "quit"
  /\ UNCHANGED vars

Key ==
  \/ \E line \in Texts : Type(line)
  \/ Abort \/ Commit \/ EnterInvalid
  \/ SetEditing \/ Down \/ Up \/ OpenProcess \/ OpenRemoteIp \/ Back
  \/ TogglePause \/ Ignore \/ Quit

Next == Draw \/ SkipDraw \/ Elapse \/ Timeout \/ Key \/ Exited

Spec == Init /\ [][Next]_vars

\* The loop goes on and time passes.  Nothing is assumed of the keys: any
\* number may arrive between two ticks, and there may be none.
Fairness == WF_vars(Draw \/ SkipDraw) /\ WF_vars(Elapse) /\ WF_vars(Timeout)

FairSpec == Spec /\ Fairness

-----------------------------------------------------------------------------
(* Properties                                                              *)

\* The variables keep their types.  The selection may point behind the last
\* row, but never before the first.
TypeOK ==
  /\ loop \in {"top", "select", "quit"}
  /\ due \in BOOLEAN /\ paused \in BOOLEAN /\ dirty \in BOOLEAN /\ editing \in BOOLEAN
  /\ filter \in Filters
  /\ text \in Texts
  /\ dataset \in Tables(NoFilter)
  /\ selected \in 0 .. MaxRows

\* The two copies of the custom filter never disagree, through any sequence
\* of edits, aborts and changes of view: unless the user is typing, the table
\* and the sparkline filter with the same expression.
FilterSync ==
  /\ custom = committed
  /\ ~editing => Interpretor = InterpretorOf(custom)

\* The draft that filters while the user types is the parse of the line on
\* the screen, and the content kept with a committed filter, which the next
\* edit starts from, is the line that its interpretor was parsed from.
DraftSync ==
  /\ editing => draft = Parse(text)
  /\ committed # None =>
       Parse(committed[1].content) = [ok |-> TRUE, int |-> Some(committed[1].interpretor)]

\* Typing a filter never pauses, quits or changes the view; the one key that
\* can is Enter on a line that does not parse, and then the draft is lost and
\* the committed filter is not.
EditingIsModal ==
  [][editing =>
       /\ paused' = paused
       /\ loop' # "quit"
       /\ filter' # filter => ~draft.ok /\ committed' = committed /\ ~editing']_vars

\* A view opened from a row shows the row's process or address, and the row
\* is one that the view it was opened from could show.
OpensWhatIsSelected ==
  [][filter' # filter /\ filter' # NoFilter =>
       \E r \in RowsOf(filter) :
         /\ dataset[selected] = r
         /\ filter' \in {Process(r.pid), RemoteIp(r.ip)}]_vars

\* Whatever changed reaches the screen, the answers that do not mark the Ui
\* dirty (Esc) included, however fast keys arrive.
Redrawn == (loop # "quit" /\ screen # Shown) ~> (screen = Shown \/ loop = "quit")

=============================================================================
