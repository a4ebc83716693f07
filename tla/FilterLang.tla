----------------------------- MODULE FilterLang -----------------------------
(***************************************************************************)
(* ptraf-filter/src: the language of custom filters, its parser            *)
(* (frontend.rs, a rust-peg grammar) and its interpreter (interpretor.rs). *)
(*                                                                         *)
(* A line is a sequence of tokens: "x", an operand ("tcp", "rport[443]",   *)
(* ...), told apart from other operands by its position; "and", "or",      *)
(* "not", each for its two spellings; "open" and "close", the parentheses; *)
(* "blank".  No terminal of the grammar is a prefix of another one that is *)
(* allowed at the same place, and words need not be separated, so nothing  *)
(* is lost by starting from tokens.                                        *)
(*                                                                         *)
(* A PEG takes the first alternative that matches and never comes back to  *)
(* it: each rule is a function from a position to an outcome.  A rule that *)
(* calls logic() takes it as an argument, the function logic; it is called *)
(* at later positions only.  The macro precedence! has one level of infix  *)
(* operators, "or" and "and", both left associative, over two levels of    *)
(* atoms.                                                                  *)
(***************************************************************************)
EXTENDS Integers, SequencesExt

Tokens == {"x", "and", "or", "not", "open", "close", "blank"}

\* Expr: a tree, written as the sequence of its nodes, children first (which
\* determines the tree).  A node is [op, at], at the position of its token.
Node(op, i) == [op |-> op, at |-> i]
Operand(i) == <<Node("x", i)>>
Not(e, i) == e \o <<Node("not", i)>>

Fail == [ok |-> FALSE]
Match(next, ast) == [ok |-> TRUE, next |-> next, ast |-> ast]

\* The token at position p.
At(s, p) == IF p <= Len(s) THEN s[p] ELSE "end"

\* rule _(): any number of blanks.
Skip(s, p) ==
  CHOOSE q \in p .. Len(s) + 1 :
    /\ \A i \in p .. q - 1 : s[i] = "blank"
    /\ At(s, q) # "blank"

\* rule operand(): blanks around it belong to it.
OperandRule(s, p) ==
  LET q == Skip(s, p)
  IN  IF At(s, q) = "x" THEN Match(Skip(s, q + 1), Operand(q)) ELSE Fail

\* "(" _ logic() _ ")"
Group(s, logic, p) ==
  LET e == logic[Skip(s, p + 1)]
      close == Skip(s, e.next)
  IN  IF At(s, p) = "open" /\ e.ok /\ At(s, close) = "close"
        THEN Match(close + 1, e.first \o e.rest)
        ELSE Fail

\* ("not" / "!") _ operand() _   and   ("not" / "!") _ "(" _ logic() _ ")" _
Negation(s, logic, p) ==
  LET q == Skip(s, p + 1)
      operand == OperandRule(s, q)
      e == IF operand.ok THEN operand ELSE Group(s, logic, q)
  IN  IF At(s, p) = "not" /\ e.ok THEN Match(Skip(s, e.next), Not(e.ast, p)) ELSE Fail

\* The two levels of atoms of precedence!, in the order of their rules.
Atom(s, logic, p) ==
  LET negation == Negation(s, logic, p)
      operand == OperandRule(s, p)
  IN  IF negation.ok THEN negation
      ELSE IF operand.ok THEN operand
      ELSE Group(s, logic, p)

\* What logic() makes of an expression: its first atom, and the rest.
Infix(next, first, rest) == [ok |-> TRUE, next |-> next, first |-> first, rest |-> rest]

\* Mutant of Chain: right associative operators.
ChainRight(s, logic, a) ==
  LET op == Skip(s, a.next)
      right == logic[Skip(s, op + 1)]
  IN  IF At(s, op) \in {"or", "and"} /\ right.ok
        THEN Infix(right.next, a.ast,
                   right.first \o right.rest \o <<Node(At(s, op), op)>>)
        ELSE Infix(a.next, a.ast, <<>>)

\* Mutant of Chain: an operator without a right operand is forgotten.
ChainDangling(s, logic, a) ==
  LET op == Skip(s, a.next)
      right == logic[Skip(s, op + 1)]
  IN  IF At(s, op) \in {"or", "and"}
        THEN IF right.ok
               THEN Infix(right.next, a.ast,
                          right.first \o <<Node(At(s, op), op)>> \o right.rest)
               ELSE Infix(Skip(s, op + 1), a.ast, <<>>)
        ELSE Infix(a.next, a.ast, <<>>)

\* The infix level: a:(@) _ op _ b:@.  What follows op is again an atom, b, and
\* operators with their right operands, which apply to the whole, one after
\* the other.  Where no atom follows, the expression ends before op.
Chain(s, logic, a) ==
  LET op == Skip(s, a.next)
      right == logic[Skip(s, op + 1)]
  IN  IF At(s, op) \in {"or", "and"} /\ right.ok
        THEN Infix(right.next, a.ast,
                   right.first \o <<Node(At(s, op), op)>> \o right.rest)
        ELSE Infix(a.next, a.ast, <<>>)

\* rule logic()
LogicRule(s, logic, p) ==
  LET a == Atom(s, logic, p)
  IN  IF a.ok THEN Chain(s, logic, a) ELSE Fail

Logic(s) ==
  LET logic[p \in 1 .. Len(s) + 1] == LogicRule(s, logic, p)
  IN  logic

\* Interpretor::parse: the whole line is one logic().
Parse(s) ==
  LET e == Logic(s)[1]
  IN  IF e.ok /\ e.next = Len(s) + 1 THEN Match(e.next, e.first \o e.rest) ELSE Fail

\* One arm of Interpretor::eval, once the arguments of the node have been
\* evaluated: their values are on top of the stack.
Apply(node, stack, truth) ==
  LET top == Last(stack)
      below == Front(stack)
  IN  CASE node.op = "x"   -> Append(stack, truth[node.at])
        [] node.op = "not" -> Append(below, ~top)
        [] node.op = "and" -> Append(Front(below), Last(below) /\ top)
        [] node.op = "or"  -> Append(Front(below), Last(below) \/ top)

\* Interpretor::eval, where truth[i] is the value of the operand at i.
Eval(ast, truth) ==
  LET values[n \in 0 .. Len(ast)] ==
        IF n = 0 THEN <<>> ELSE Apply(ast[n], values[n - 1], truth)
  IN  values[Len(ast)][1]

=============================================================================
