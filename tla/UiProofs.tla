------------------------------ MODULE UiProofs ------------------------------
(***************************************************************************)
(* Theorems about module Ui, for every set of processes, addresses and     *)
(* lines and any number of rows: the two copies of the custom filter       *)
(* agree, the draft is the parse of what is on the screen, editing is      *)
(* modal and a view opened from a row is the row's.                        *)
(***************************************************************************)
EXTENDS Ui, TLAPS

\* The rows of the table are rows of the current view, whose filter they were
\* collected with: a change of view empties the table.
RowsInView == dataset \in Tables(filter)

\* The line that is kept with a committed filter is one the user can type.
ContentTyped == committed # None => committed[1].content \in Texts

\* The inductive invariant.
UiInv == TypeOK /\ FilterSync /\ DraftSync /\ ContentTyped /\ RowsInView

-----------------------------------------------------------------------------
(* Lines, drafts and tables                                                *)

\* What FilterView::update answers, case by case.
LEMMA ParseCases ==
  /\ Parse(Blank) = [ok |-> TRUE, int |-> None]
  /\ \A line \in Valid : Parse(line) = [ok |-> TRUE, int |-> Some(line)]
  /\ \A line \in Invalid : Parse(line) = [ok |-> FALSE, int |-> None]
BY UiAssumption DEF Parse

\* A draft with an interpretor is a valid line, and the interpretor is that
\* line's.
LEMMA ParseSome ==
  ASSUME NEW line \in Texts, Parse(line).int # None
  PROVE  Parse(line) = [ok |-> TRUE, int |-> Some(Parse(line).int[1])]
BY ParseCases DEF Texts, None, Some

\* The rows of any view are rows of the main view.
LEMMA TablesMain ==
  ASSUME NEW f, NEW t \in Tables(f)
  PROVE  t \in Tables(NoFilter)
<1>1. PICK n \in 0 .. MaxRows : t \in [1 .. n -> RowsOf(f)]
  BY DEF Tables
<1>2. RowsOf(f) \subseteq RowsOf(NoFilter)
  BY DEF RowsOf
<1>3. t \in [1 .. n -> RowsOf(NoFilter)]
  BY <1>1, <1>2
<1> QED
  BY <1>3 DEF Tables

\* A table that was just created is a table of every view.
LEMMA EmptyTable ==
  ASSUME NEW f
  PROVE  <<>> \in Tables(f)
<1>1. <<>> \in [1 .. 0 -> RowsOf(f)]
  OBVIOUS
<1>2. 0 \in 0 .. MaxRows
  BY UiAssumption
<1> QED
  BY <1>1, <1>2 DEF Tables

\* A table is a sequence of at most MaxRows rows of its view.
LEMMA TableShape ==
  ASSUME NEW f, NEW t \in Tables(f)
  PROVE  /\ Len(t) \in 0 .. MaxRows
         /\ \A i \in 1 .. Len(t) : t[i] \in RowsOf(f)
         /\ t # <<>> => Len(t) > 0
<1>1. PICK n \in 0 .. MaxRows : t \in [1 .. n -> RowsOf(f)]
  BY DEF Tables
<1>2. t \in Seq(RowsOf(f)) /\ Len(t) = n
  BY <1>1, UiAssumption
<1> QED
  BY <1>1, <1>2

\* The selected row, if there is one, is a row of the view.
LEMMA SelectedRow ==
  ASSUME RowsInView, HasSelection
  PROVE  /\ dataset[selected] \in RowsOf(filter)
         /\ dataset[selected].pid \in Pids
         /\ dataset[selected].ip \in Ips
BY TableShape DEF RowsInView, HasSelection, RowsOf, Rows

-----------------------------------------------------------------------------
(* The invariant                                                           *)

LEMMA InitUiInv ==
  ASSUME Init
  PROVE  UiInv
<1>1. TypeOK
  <2>1. dataset \in Tables(NoFilter)
    BY EmptyTable DEF Init
  <2>2. selected \in 0 .. MaxRows /\ text \in Texts /\ filter \in Filters
    BY UiAssumption DEF Init, Texts, Filters
  <2> QED
    BY <2>1, <2>2 DEF Init, TypeOK
<1>2. FilterSync
  BY DEF Init, FilterSync, Interpretor, InterpretorOf
<1>3. DraftSync /\ ContentTyped
  BY DEF Init, DraftSync, ContentTyped
<1>4. RowsInView
  BY EmptyTable DEF Init, RowsInView
<1> QED
  BY <1>1, <1>2, <1>3, <1>4 DEF UiInv

\* Opening a view: the new view starts with the Ui's copy of the filter and
\* an empty table.
LEMMA NewViewInv ==
  ASSUME UiInv, NEW f \in Filters, NewView(f), due' \in BOOLEAN,
         loop' \in {"top", "select", "quit"}
  PROVE  UiInv'
<1>1. TypeOK'
  <2>1. dataset' \in Tables(NoFilter)
    BY EmptyTable DEF NewView
  <2>2. selected' \in 0 .. MaxRows /\ text' \in Texts /\ filter' \in Filters
    BY UiAssumption DEF NewView, Texts
  <2>3. paused' \in BOOLEAN /\ dirty' \in BOOLEAN /\ editing' \in BOOLEAN
    BY DEF NewView, UiInv, TypeOK
  <2> QED
    BY <2>1, <2>2, <2>3 DEF TypeOK
<1>2. FilterSync'
  BY DEF UiInv, NewView, FilterSync, Interpretor, InterpretorOf
<1>3. DraftSync' /\ ContentTyped'
  BY DEF UiInv, NewView, FilterSync, DraftSync, ContentTyped
<1>4. RowsInView'
  BY EmptyTable DEF NewView, RowsInView
<1> QED
  BY <1>1, <1>2, <1>3, <1>4 DEF UiInv

\* A step that leaves the filters, the editor and the table alone.
LEMMA FilterUntouched ==
  ASSUME UiInv, UNCHANGED <<custom, filter>>, UNCHANGED editorVars,
         RowsInView', TypeOK'
  PROVE  UiInv'
BY DEF UiInv, FilterSync, DraftSync, ContentTyped, editorVars, Interpretor, InterpretorOf, Parse

LEMMA StepUiInv ==
  ASSUME UiInv, [Next]_vars
  PROVE  UiInv'
<1> USE UiAssumption
<1>1. CASE Draw
  <2>1. dataset' \in Tables(filter)
    BY <1>1 DEF Draw, UiInv, RowsInView
  <2>2. TypeOK'
    BY <1>1, <2>1, TablesMain DEF Draw, UiInv, TypeOK, editorVars
  <2> QED
    BY <1>1, <2>1, <2>2, FilterUntouched DEF Draw, RowsInView
<1>2. CASE SkipDraw \/ Elapse \/ Timeout \/ Quit \/ Ignore \/ UNCHANGED vars
  <2>1. /\ UNCHANGED <<paused, dirty, custom, filter>>
        /\ UNCHANGED editorVars /\ UNCHANGED tableVars
        /\ due' \in BOOLEAN /\ loop' \in {"top", "select", "quit"}
    BY <1>2 DEF SkipDraw, Elapse, Timeout, Quit, Ignore, Event, vars, editorVars, tableVars,
                UiInv, TypeOK
  <2>2. TypeOK' /\ RowsInView'
    BY <2>1 DEF UiInv, TypeOK, RowsInView, editorVars, tableVars
  <2> QED
    BY <2>1, <2>2, FilterUntouched
<1>3. ASSUME NEW line \in Texts, Type(line)
      PROVE  UiInv'
  <2>1. TypeOK' /\ RowsInView'
    BY <1>3 DEF Type, Event, tableVars, UiInv, TypeOK, RowsInView
  <2>2. FilterSync'
    BY <1>3 DEF Type, UiInv, FilterSync
  <2>3. DraftSync' /\ ContentTyped'
    BY <1>3 DEF Type, UiInv, DraftSync, ContentTyped
  <2> QED
    BY <2>1, <2>2, <2>3 DEF UiInv
<1>4. CASE Abort
  <2>1. Content(committed) \in Texts
    BY DEF UiInv, ContentTyped, Content, Texts
  <2>2. TypeOK' /\ RowsInView'
    BY <1>4, <2>1 DEF Abort, Event, tableVars, UiInv, TypeOK, RowsInView
  <2>3. FilterSync'
    BY <1>4 DEF Abort, UiInv, FilterSync, Interpretor, InterpretorOf
  <2>4. DraftSync' /\ ContentTyped'
    BY <1>4 DEF Abort, UiInv, DraftSync, ContentTyped
  <2> QED
    BY <2>2, <2>3, <2>4 DEF UiInv
<1>5. CASE Commit
  <2>1. TypeOK' /\ RowsInView'
    BY <1>5 DEF Commit, Event, tableVars, UiInv, TypeOK, RowsInView
  <2>2. FilterSync'
    BY <1>5 DEF Commit, FilterSync, Interpretor, InterpretorOf
  <2>3. draft = Parse(text) /\ text \in Texts
    BY <1>5 DEF Commit, UiInv, DraftSync, TypeOK
  <2>4. ASSUME committed' # None
        PROVE  /\ committed'[1].content \in Texts
               /\ Parse(committed'[1].content) =
                    [ok |-> TRUE, int |-> Some(committed'[1].interpretor)]
    <3>1. draft.int # None /\ committed' = Some(CustomFilter(text, draft.int[1]))
      BY <1>5, <2>4 DEF Commit, Committed
    <3>2. committed'[1].content = text /\ committed'[1].interpretor = draft.int[1]
      BY <3>1 DEF Some, CustomFilter
    <3> QED
      BY <2>3, <3>1, <3>2, ParseSome
  <2>5. DraftSync' /\ ContentTyped'
    BY <1>5, <2>4 DEF Commit, DraftSync, ContentTyped
  <2> QED
    BY <2>1, <2>2, <2>5 DEF UiInv
<1>6. CASE SetEditing
  <2>1. ASSUME committed # None
        PROVE  /\ Content(committed) \in Texts
               /\ Parse(Content(committed)) = [ok |-> TRUE, int |-> InterpretorOf(committed)]
    BY <2>1 DEF UiInv, DraftSync, ContentTyped, Content, InterpretorOf
  <2>2. /\ Content(committed) \in Texts
        /\ Parse(Content(committed)) = [ok |-> TRUE, int |-> InterpretorOf(committed)]
    BY <2>1, ParseCases DEF Content, InterpretorOf, Texts
  <2>3. TypeOK' /\ RowsInView'
    BY <1>6, <2>2 DEF SetEditing, Event, tableVars, UiInv, TypeOK, RowsInView
  <2>4. FilterSync'
    BY <1>6 DEF SetEditing, UiInv, FilterSync
  <2>5. DraftSync' /\ ContentTyped'
    BY <1>6, <2>2 DEF SetEditing, UiInv, DraftSync, ContentTyped
  <2> QED
    BY <2>3, <2>4, <2>5 DEF UiInv
<1>7. CASE OpenProcess \/ EnterInvalid
  <2>1. Process(dataset[selected].pid) \in Filters
    BY <1>7, SelectedRow DEF OpenProcess, EnterInvalid, UiInv, Filters
  <2> QED
    BY <1>7, <2>1, NewViewInv DEF OpenProcess, EnterInvalid, Event, UiInv, TypeOK
<1>8. CASE OpenRemoteIp
  <2>1. RemoteIp(dataset[selected].ip) \in Filters
    BY <1>8, SelectedRow DEF OpenRemoteIp, UiInv, Filters
  <2> QED
    BY <1>8, <2>1, NewViewInv DEF OpenRemoteIp, Event, UiInv, TypeOK
<1>9. CASE Back
  <2>1. NoFilter \in Filters
    BY DEF Filters
  <2> QED
    BY <1>9, <2>1, NewViewInv DEF Back, Event, UiInv, TypeOK
<1>10. CASE Down \/ Up
  <2>1. selected' \in 0 .. MaxRows
    BY <1>10, TableShape DEF Down, Up, Least, UiInv, TypeOK, RowsInView
  <2>2. TypeOK' /\ RowsInView'
    BY <1>10, <2>1 DEF Down, Up, Event, editorVars, UiInv, TypeOK, RowsInView
  <2> QED
    BY <1>10, <2>2, FilterUntouched DEF Down, Up
<1>11. CASE TogglePause
  <2>1. TypeOK' /\ RowsInView'
    BY <1>11 DEF TogglePause, Event, editorVars, tableVars, UiInv, TypeOK, RowsInView
  <2> QED
    BY <1>11, <2>1, FilterUntouched DEF TogglePause
<1>12. CASE Exited
  BY <1>2, <1>12 DEF Exited
<1> QED
  BY <1>1, <1>2, <1>3, <1>4, <1>5, <1>6, <1>7, <1>8, <1>9, <1>10, <1>11, <1>12
  DEF Next, Key

\* For every instance the conjunction of the safety properties of the user
\* interface is an invariant, and an inductive one.
THEOREM UiInvariant == Spec => []UiInv
<1>1. Init => UiInv
  BY InitUiInv
<1>2. UiInv /\ [Next]_vars => UiInv'
  BY StepUiInv
<1> QED
  BY <1>1, <1>2, PTL DEF Spec

-----------------------------------------------------------------------------
(* The theorems                                                            *)

\* No sequence of keys, ticks and frames takes a variable out of its type;
\* the selection never lies before the first row.
THEOREM UiTypes == Spec => []TypeOK
<1>1. UiInv => TypeOK
  BY DEF UiInv
<1> QED
  BY <1>1, UiInvariant, PTL

\* The copy of the custom filter in Ui and the one in FilterView never
\* disagree, so the sparkline and the table filter alike.
THEOREM UiFilterSync == Spec => []FilterSync
<1>1. UiInv => FilterSync
  BY DEF UiInv
<1> QED
  BY <1>1, UiInvariant, PTL

\* While a filter is being typed the draft is the parse of the line, and a
\* committed filter is the parse of the line that is kept with it.
THEOREM UiDraftSync == Spec => []DraftSync
<1>1. UiInv => DraftSync
  BY DEF UiInv
<1> QED
  BY <1>1, UiInvariant, PTL

\* No key that is typed into the filter editor pauses, quits or changes the
\* view, but Enter on a line that does not parse.
THEOREM UiEditingIsModal == Spec => EditingIsModal
<1> DEFINE Modal ==
      editing =>
        /\ paused' = paused
        /\ loop' # "quit"
        /\ filter' # filter => ~draft.ok /\ committed' = committed /\ ~editing'
<1>1. UiInv /\ [Next]_vars => [Modal]_vars
  <2> SUFFICES ASSUME UiInv, Next, editing, vars' # vars
               PROVE  Modal
    OBVIOUS
  <2>1. CASE Draw \/ SkipDraw \/ Elapse \/ Timeout \/ Abort \/ Commit \/ Ignore
             \/ \E line \in Texts : Type(line)
    <3>1. filter' = filter /\ paused' = paused
      BY <2>1 DEF Draw, SkipDraw, Elapse, Timeout, Abort, Commit, Ignore, Type
    <3>2. loop' # "quit"
      BY <2>1 DEF Draw, SkipDraw, Elapse, Timeout, Abort, Commit, Ignore, Type, Event
    <3> QED
      BY <3>1, <3>2
  <2>2. CASE EnterInvalid
    BY <2>2 DEF EnterInvalid, Event, NewView, UiInv, FilterSync
  <2>3. ~Exited
    BY DEF Exited
  <2> QED
    BY <2>1, <2>2, <2>3 DEF Next, Key, SetEditing, Down, Up, OpenProcess, OpenRemoteIp, Back,
                            TogglePause, Quit
<1> QED
  BY <1>1, UiInvariant, PTL DEF Spec, EditingIsModal

\* A view is opened for the process or the address of a row that the view it
\* was opened from shows, although the rows change between the two keys.
THEOREM UiOpensWhatIsSelected == Spec => OpensWhatIsSelected
<1> DEFINE Opens ==
      filter' # filter /\ filter' # NoFilter =>
        \E r \in RowsOf(filter) :
          /\ dataset[selected] = r
          /\ filter' \in {Process(r.pid), RemoteIp(r.ip)}
<1>1. UiInv /\ [Next]_vars => [Opens]_vars
  <2> SUFFICES ASSUME UiInv, Next, filter' # filter, filter' # NoFilter
               PROVE  Opens
    OBVIOUS
  <2>1. OpenProcess \/ EnterInvalid \/ OpenRemoteIp
    BY DEF Next, Key, Draw, SkipDraw, Elapse, Timeout, Type, Abort, Commit, SetEditing, Down,
           Up, TogglePause, Ignore, Quit, Exited, Back, NewView, vars
  <2>2. dataset[selected] \in RowsOf(filter)
    BY <2>1, SelectedRow DEF OpenProcess, EnterInvalid, OpenRemoteIp, UiInv
  <2> QED
    BY <2>1, <2>2 DEF OpenProcess, EnterInvalid, OpenRemoteIp, NewView
<1> QED
  BY <1>1, UiInvariant, PTL DEF Spec, OpensWhatIsSelected

=============================================================================
