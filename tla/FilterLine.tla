----------------------------- MODULE FilterLine -----------------------------
(***************************************************************************)
(* A custom filter from the keyboard to the socket table: the user edits a *)
(* line, which is parsed anew after each key (ui/filter_editor.rs), and    *)
(* the table asks it about the sockets that the probes have reported.      *)
(*                                                                         *)
(* Composes FilterLang, what a line means, with Wire, what a socket looks  *)
(* like when it gets there.                                                *)
(***************************************************************************)
EXTENDS FilterLang, Wire

CONSTANTS
  Leaves,     \* the expressions that an operand of a judged line may be
  KernelSocks,\* sockets, as the kernel knows them
  None,
  MaxTokens,  \* bound: tokens of a line
  MaxJudged   \* bound: tokens of a line that is asked about sockets

\* A byte, an identifier, a port and the octets of an address are what they
\* can be.
ASSUME SocksAssumption ==
  LET Address(version) == [1 .. (IF version = "V4" THEN 4 ELSE 16) -> 0 .. Base - 1]
  IN  \A k \in KernelSocks :
        /\ k.tgid \in 0 .. Word - 1 /\ k.tid \in 0 .. Word - 1
        /\ k.sk_type \in Nat /\ k.version \in {"V4", "V6"}
        /\ k.laddr \in Address(k.version) /\ k.raddr \in Address(k.version)
        /\ k.lport \in 0 .. Half - 1 /\ k.rport \in 0 .. Half - 1

\* The leaves of Expr.
ASSUME LeavesAssumption ==
  \A e \in Leaves :
    /\ e.kind \in {"Pid", "Protocol", "IpVersion", "Addr", "LocalAddr", "RemoteAddr",
                   "Port", "LocalPort", "RemotePort"}
    /\ e.kind = "Protocol" => e.arg \in {"tcp", "udp"}

VARIABLES
  line,   \* the text area, as tokens
  leaf,   \* what its operands say when it is judged
  sock,   \* the kernel's socket that the last question was about, or None
  shown   \* the answer

vars == <<line, leaf, sock, shown>>

Init ==
  /\ line = <<>>
  /\ leaf = None
  /\ sock = None
  /\ shown = FALSE

\* textarea.input and FilterView::update: the draft is now the parse of line.
Edit(s) ==
  /\ line' = s
  /\ sock' = None
  /\ leaf' = None
  /\ shown' = FALSE

Type(token) ==
  /\ Len(line) < MaxTokens
  /\ Edit(Append(line, token))

Backspace ==
  /\ line # <<>>
  /\ Edit(Front(line))

\* Interpretor::filter, for a line that parses and whose operands are e (one
\* question per edit: an answer leaves nothing behind).
Judge ==
  /\ sock = None
  /\ Len(line) <= MaxJudged
  /\ Parse(line).ok
  /\ \E k \in KernelSocks, e \in Leaves :
       /\ sock' = k
       /\ leaf' = e
       /\ shown' = Eval(Parse(line).ast,
                        [i \in 1 .. Len(line) |-> EvalLeaf(e, Socket(SockMsgEvent(k)))])
  /\ UNCHANGED line

Next ==
  \/ \E token \in Tokens : Type(token)
  \/ Backspace
  \/ Judge

Spec == Init /\ [][Next]_vars

-----------------------------------------------------------------------------
(* What a line should mean, without a parser                               *)

\* Are the words at i and j next to each other?
Adjacent(s, i, j) ==
  /\ i < j /\ s[i] # "blank" /\ s[j] # "blank"
  /\ \A k \in i + 1 .. j - 1 : s[k] = "blank"

\* Is the word at i the first one, the last one?
IsFirst(s, i) == s[i] # "blank" /\ \A k \in 1 .. i - 1 : s[k] = "blank"
IsLast(s, i) == s[i] # "blank" /\ \A k \in i + 1 .. Len(s) : s[k] = "blank"

\* May word b follow word a?
Follows(a, b) ==
  CASE a \in {"x", "close"}         -> b \in {"and", "or", "close"}
    [] a \in {"and", "or", "open"} -> b \in {"x", "not", "open"}
    [] a = "not"                   -> b \in {"x", "open"}

\* Depth(s)[i]: parentheses open after the first i tokens.
Depth(s) ==
  LET depth[i \in 0 .. Len(s)] ==
        IF i = 0 THEN 0
        ELSE IF s[i] = "open" THEN depth[i - 1] + 1
        ELSE IF s[i] = "close" THEN depth[i - 1] - 1
        ELSE depth[i - 1]
  IN  depth

\* Is n the end of a group that is negated and in no other group?
EndsNegated(s, depth, n) ==
  \E i, j \in 1 .. n :
    /\ Adjacent(s, i, j) /\ s[i] = "not" /\ s[j] = "open"
    /\ depth[i] = 0
    /\ \A k \in j .. n - 1 : depth[k] > 0

\* The lines of the language: words in an allowed order, balanced, no blank
\* in front but before an operand, none at the end but after an operand or a
\* negated group.
WellFormed(s) ==
  LET depth == Depth(s)
  IN  /\ \E i \in 1 .. Len(s) : s[i] # "blank"
      /\ \A i \in 1 .. Len(s) :
           /\ IsFirst(s, i) => Follows("open", s[i]) /\ (i > 1 => s[i] = "x")
           /\ IsLast(s, i) => /\ s[i] \in {"x", "close"}
                              /\ i < Len(s) => s[i] = "x" \/ EndsNegated(s, depth, i)
           /\ \A j \in 1 .. Len(s) : Adjacent(s, i, j) => Follows(s[i], s[j])
           /\ depth[i] >= 0
      /\ depth[Len(s)] = 0

\* The value of a line read from left to right, as on a pocket calculator:
\* "and" and "or" apply at once, "not" to the next operand or group only.  A
\* frame of the stack is what one open parenthesis waits for.
Frame(acc, op, neg) == [acc |-> acc, op |-> op, neg |-> neg]
NewFrame == Frame(FALSE, "or", FALSE)

Feed(frame, v) ==
  LET val == IF frame.neg THEN ~v ELSE v
  IN  Frame(IF frame.op = "and" THEN frame.acc /\ val ELSE frame.acc \/ val, "or", FALSE)

\* What word does to the stack, v being its value if it is an operand.
Read(stack, word, v) ==
  LET top == Last(stack)
      below == Front(stack)
  IN  CASE word = "x"             -> Append(below, Feed(top, v))
        [] word \in {"and", "or"} -> Append(below, Frame(top.acc, word, top.neg))
        [] word = "not"           -> Append(below, Frame(top.acc, top.op, TRUE))
        [] word = "open"          -> Append(stack, NewFrame)
        [] word = "close"         -> Append(Front(below), Feed(Last(below), top.acc))
        [] word = "blank"         -> stack

Reading(s, truth) ==
  LET stack[i \in 0 .. Len(s)] ==
        IF i = 0 THEN <<NewFrame>> ELSE Read(stack[i - 1], s[i], truth[i])
  IN  stack[Len(s)][1].acc

\* Is a leaf true of a socket, by what the kernel knows?
Holds(e, k) ==
  LET local == [version |-> k.version, octets |-> k.laddr]
      remote == [version |-> k.version, octets |-> k.raddr]
  IN  CASE e.kind = "Pid"        -> k.tgid = e.arg
        [] e.kind = "Protocol"   -> k.sk_type = (IF e.arg = "tcp" THEN 1 ELSE 2)
        [] e.kind = "IpVersion"  -> k.version = e.arg
        [] e.kind = "Addr"       -> e.arg \in {local, remote}
        [] e.kind = "LocalAddr"  -> e.arg = local
        [] e.kind = "RemoteAddr" -> e.arg = remote
        [] e.kind = "Port"       -> e.arg \in {k.lport, k.rport}
        [] e.kind = "LocalPort"  -> e.arg = k.lport
        [] e.kind = "RemotePort" -> e.arg = k.rport

-----------------------------------------------------------------------------
(* Properties                                                              *)

\* The PEG, which never reconsiders a choice, accepts exactly the lines of
\* the language: no ordered choice and no swallowed blank hides a valid line,
\* and no line with a dangling operator or parenthesis gets through.
ParseExact == Parse(line).ok <=> WellFormed(line)

\* A filter selects what it says when read from left to right ("pid or tcp
\* and ipv4" is "(pid or tcp) and ipv4" in the parser's tests), whatever the
\* values of its operands.
ReadsLeftToRight ==
  Parse(line).ok =>
    \A truth \in [{i \in 1 .. Len(line) : line[i] = "x"} -> BOOLEAN] :
      Eval(Parse(line).ast, truth) = Reading(line, truth)

\* From end to end: the answer of a filter about a socket, after notify has
\* packed its fields and user space has unpacked them, is what the line says
\* about the socket that the kernel knows.  (Of operands that look at neither
\* the process nor the local port: see EventAsDocumented.)
AnswerTrue ==
  sock # None =>
    shown = Reading(line, [i \in 1 .. Len(line) |-> Holds(leaf, sock)])

\* "Process ID.": an event carries the process that uses the socket, which is
\* what the store keys traffic by and what a filter pid[n] means.
PidIsProcess(k) == SockMsgEvent(k).pid = k.tgid

\* "(network endian)": the bytes of a port are in network order, which is what
\* local_sock_addr and remote_sock_addr undo.
LocalPortNetworkEndian(k) ==
  Bytes16(SockMsgEvent(k).local_port) = Reverse(Bytes16(k.lport))
RemotePortNetworkEndian(k) ==
  Bytes16(SockMsgEvent(k).remote_port) = Reverse(Bytes16(k.rport))

\* What types.rs says of the fields of a SockMsgEvent (lines 14, 16 and 20) is
\* true of the events that notify makes.
EventAsDocumented ==
  sock # None =>
    /\ PidIsProcess(sock)
    /\ LocalPortNetworkEndian(sock)
    /\ RemotePortNetworkEndian(sock)

=============================================================================
