---------------------------- MODULE FilterProofs ----------------------------
(***************************************************************************)
(* The parser of filters, for lines of any length: it accepts exactly the  *)
(* lines of the language, and a filter means what its line says when it is *)
(* read from left to right.  The bytes of a socket, to any base: its       *)
(* addresses and its remote port are decoded as they were sent.            *)
(***************************************************************************)
EXTENDS FilterLine, NumberProofs, SequenceTheorems

-----------------------------------------------------------------------------
(* Positions of a line                                                     *)

LEMMA LineFacts ==
  ASSUME NEW s \in Seq(Tokens)
  PROVE  /\ Len(s) \in Nat
         /\ \A p : p \in 1 .. Len(s) + 1 <=> p \in Nat /\ 1 <= p /\ p <= Len(s) + 1
         /\ \A p \in 1 .. Len(s) : s[p] \in Tokens
<1>1. Len(s) \in Nat
  OBVIOUS
<1>2. \A p \in 1 .. Len(s) : s[p] \in Tokens
  OBVIOUS
<1> QED
  BY <1>1, <1>2

\* Induction from the end of a line to its start.
LEMMA DownInd ==
  ASSUME NEW n \in Nat, NEW T,
         \A p \in 1 .. n : (\A q \in p + 1 .. n : q \in T) => p \in T
  PROVE  \A p \in 1 .. n : p \in T
<1> SUFFICES ASSUME NEW p0 \in 1 .. n, p0 \notin T PROVE FALSE
  OBVIOUS
<1> DEFINE U == {m \in Nat : m < n /\ n - m \notin T}
<1>1. n - p0 \in U
  <2>1. n - p0 \in Nat /\ n - p0 < n /\ n - (n - p0) = p0
    OBVIOUS
  <2> QED
    BY <2>1
<1>2. PICK m \in U : \A k \in U : m <= k
  <2> HIDE DEF U
  <2>1. U # {}
    BY <1>1
  <2>2. U \subseteq Nat
    BY DEF U
  <2> QED
    BY <2>1, <2>2, Least
<1>3. n - m \in 1 .. n /\ n - m \notin T
  OBVIOUS
<1>4. ASSUME NEW q \in n - m + 1 .. n PROVE q \in T
  <2>1. n - q \in Nat /\ n - q < n /\ n - (n - q) = q /\ ~(m <= n - q)
    BY <1>3
  <2> QED
    BY <1>2, <2>1
<1> QED
  BY <1>3, <1>4

\* Skip stops at the first position that holds no blank.
LEMMA SkipFacts ==
  ASSUME NEW s \in Seq(Tokens), NEW p \in 1 .. Len(s) + 1
  PROVE  /\ Skip(s, p) \in p .. Len(s) + 1
         /\ \A i \in p .. Skip(s, p) - 1 : s[i] = "blank"
         /\ At(s, Skip(s, p)) # "blank"
<1>0. Len(s) \in Nat /\ p \in Nat /\ 1 <= p /\ p <= Len(s) + 1
  BY LineFacts
<1> DEFINE U == {q \in Nat : q \in p .. Len(s) + 1 /\ At(s, q) # "blank"}
<1>1. Len(s) + 1 \in U
  BY <1>0 DEF At
<1>2. PICK q \in U : \A k \in U : q <= k
  <2> HIDE DEF U
  <2>1. U # {}
    BY <1>1
  <2>2. U \subseteq Nat
    BY DEF U
  <2> QED
    BY <2>1, <2>2, Least
<1>3. ASSUME NEW i \in p .. q - 1 PROVE s[i] = "blank"
  <2>1. i \in Nat /\ i \in p .. Len(s) + 1 /\ i <= Len(s) /\ ~(q <= i)
    BY <1>0
  <2>2. At(s, i) = "blank"
    BY <1>2, <2>1
  <2> QED
    BY <2>1, <2>2 DEF At
<1>4. \E r \in p .. Len(s) + 1 : (\A i \in p .. r - 1 : s[i] = "blank") /\ At(s, r) # "blank"
  BY <1>3
<1> QED
  BY <1>4 DEF Skip

\* Where there is no blank, nothing is skipped.
LEMMA SkipNone ==
  ASSUME NEW s \in Seq(Tokens), NEW p \in 1 .. Len(s) + 1, At(s, p) # "blank"
  PROVE  Skip(s, p) = p
<1>0. Len(s) \in Nat /\ p \in Nat /\ 1 <= p /\ p <= Len(s) + 1
  BY LineFacts
<1>1. /\ Skip(s, p) \in p .. Len(s) + 1
      /\ \A i \in p .. Skip(s, p) - 1 : s[i] = "blank"
  BY SkipFacts
<1>2. CASE Skip(s, p) # p
  <2>1. p \in p .. Skip(s, p) - 1 /\ p <= Len(s)
    BY <1>0, <1>1, <1>2
  <2>2. s[p] = "blank"
    BY <1>1, <2>1
  <2> QED
    BY <2>1, <2>2 DEF At
<1> QED
  BY <1>2

\* The end of a line is no token.
LEMMA AtFacts ==
  ASSUME NEW s \in Seq(Tokens), NEW p \in 1 .. Len(s) + 1, At(s, p) # "end"
  PROVE  p \in 1 .. Len(s) /\ s[p] = At(s, p) /\ p + 1 \in 1 .. Len(s) + 1
<1>1. Len(s) \in Nat /\ p \in Nat /\ 1 <= p /\ p <= Len(s) + 1
  BY LineFacts
<1>2. p <= Len(s)
  BY <1>1 DEF At
<1> QED
  BY <1>1, <1>2 DEF At

-----------------------------------------------------------------------------
(* What the rules match                                                    *)

\* operand() matches at p, up to n.
OperandAt(s, p, n, e) ==
  \E q \in p .. Len(s) :
    /\ q = Skip(s, p) /\ s[q] = "x"
    /\ n = Skip(s, q + 1) /\ e = Operand(q)

\* A group matches at p, up to n.
GroupAt(s, logic, p, n, e) ==
  \E q, c \in p + 1 .. Len(s) + 1 :
    /\ p <= Len(s) /\ s[p] = "open" /\ q = Skip(s, p + 1)
    /\ logic[q].ok /\ c = Skip(s, logic[q].next) /\ c <= Len(s) /\ s[c] = "close"
    /\ n = c + 1 /\ e = logic[q].first \o logic[q].rest

\* A negation matches at p, up to n.
NotAt(s, logic, p, n, e) ==
  \E q, m \in p + 1 .. Len(s) + 1 : \E f :
    /\ p <= Len(s) /\ s[p] = "not" /\ q = Skip(s, p + 1)
    /\ OperandAt(s, q, m, f) \/ GroupAt(s, logic, q, m, f)
    /\ n = Skip(s, m) /\ e = Not(f, p)

\* What logic() matches ends after it starts, and in the line.
Advances(s, logic, p) ==
  \A q \in p .. Len(s) + 1 : logic[q].ok => logic[q].next \in q + 1 .. Len(s) + 1

LEMMA OperandIs ==
  ASSUME NEW s \in Seq(Tokens), NEW p \in 1 .. Len(s) + 1
  PROVE  LET a == OperandRule(s, p)
         IN  /\ a.ok => OperandAt(s, p, a.next, a.ast) /\ a.next \in p + 1 .. Len(s) + 1
             /\ ~a.ok <=> At(s, Skip(s, p)) # "x"
             /\ ~a.ok => a = Fail
<1> DEFINE q == Skip(s, p)
<1>1. q \in p .. Len(s) + 1 /\ Len(s) \in Nat /\ p \in Nat /\ 1 <= p
  BY SkipFacts, LineFacts
<1>2. CASE At(s, q) = "x"
  <2>1. q \in 1 .. Len(s) /\ s[q] = "x" /\ q + 1 \in 1 .. Len(s) + 1
    BY <1>1, <1>2, AtFacts
  <2>2. Skip(s, q + 1) \in q + 1 .. Len(s) + 1
    BY <2>1, SkipFacts
  <2>3. OperandRule(s, p) = [ok |-> TRUE, next |-> Skip(s, q + 1), ast |-> Operand(q)]
    BY <1>2 DEF OperandRule, Match
  <2>4. q \in p .. Len(s) /\ Skip(s, q + 1) \in p + 1 .. Len(s) + 1
    BY <1>1, <2>1, <2>2
  <2> HIDE DEF q
  <2>5. OperandAt(s, p, Skip(s, q + 1), Operand(q))
    BY <2>1, <2>4 DEF OperandAt, q
  <2> QED
    BY <1>2, <2>3, <2>4, <2>5 DEF q
<1>3. CASE At(s, q) # "x"
  <2>1. OperandRule(s, p) = [ok |-> FALSE]
    BY <1>3 DEF OperandRule, Fail
  <2> QED
    BY <1>3, <2>1 DEF Fail
<1> QED
  BY <1>2, <1>3

LEMMA GroupIs ==
  ASSUME NEW s \in Seq(Tokens), NEW L, NEW p \in 1 .. Len(s) + 1, Advances(s, L, p + 1)
  PROVE  LET a == Group(s, L, p)
         IN  /\ a.ok => GroupAt(s, L, p, a.next, a.ast) /\ a.next \in p + 1 .. Len(s) + 1
             /\ ~a.ok => a = Fail
<1> DEFINE q == Skip(s, p + 1)
           c == Skip(s, L[q].next)
<1>0. Len(s) \in Nat /\ p \in Nat /\ 1 <= p
  BY LineFacts
<1>1. CASE At(s, p) = "open" /\ L[q].ok /\ At(s, c) = "close"
  <2>1. p \in 1 .. Len(s) /\ s[p] = "open" /\ p + 1 \in 1 .. Len(s) + 1
    BY <1>1, AtFacts
  <2>2. q \in p + 1 .. Len(s) + 1
    BY <2>1, SkipFacts
  <2>3. L[q].next \in q + 1 .. Len(s) + 1
    BY <1>1, <2>2 DEF Advances
  <2>4. L[q].next \in 1 .. Len(s) + 1
    BY <1>0, <2>2, <2>3
  <2>5. c \in L[q].next .. Len(s) + 1
    BY <2>4, SkipFacts
  <2>6. c \in 1 .. Len(s) + 1 /\ c \in p + 1 .. Len(s) + 1
    BY <1>0, <2>2, <2>3, <2>4, <2>5
  <2>7. c \in 1 .. Len(s) /\ s[c] = "close"
    BY <1>1, <2>6, AtFacts
  <2>8. Group(s, L, p) = [ok |-> TRUE, next |-> c + 1, ast |-> L[q].first \o L[q].rest]
    BY <1>1 DEF Group, Match
  <2>9. GroupAt(s, L, p, c + 1, L[q].first \o L[q].rest)
    <3> HIDE DEF q, c
    <3>1. q = Skip(s, p + 1) /\ c = Skip(s, L[q].next)
      BY DEF q, c
    <3>2. p <= Len(s) /\ c <= Len(s) /\ s[p] = "open" /\ s[c] = "close"
      BY <1>0, <2>1, <2>7
    <3>3. L[q].ok
      BY <1>1
    <3> QED
      BY <2>2, <2>6, <3>1, <3>2, <3>3, Zenon DEF GroupAt
  <2>10. c + 1 \in p + 1 .. Len(s) + 1
    BY <1>0, <2>6, <2>7
  <2> HIDE DEF q, c
  <2> QED
    BY <2>8, <2>9, <2>10
<1>2. CASE ~(At(s, p) = "open" /\ L[q].ok /\ At(s, c) = "close")
  <2>1. Group(s, L, p) = [ok |-> FALSE]
    BY <1>2 DEF Group, Fail
  <2> QED
    BY <2>1 DEF Fail
<1> QED
  BY <1>1, <1>2

LEMMA NegationIs ==
  ASSUME NEW s \in Seq(Tokens), NEW L, NEW p \in 1 .. Len(s) + 1, Advances(s, L, p + 1)
  PROVE  LET a == Negation(s, L, p)
         IN  /\ a.ok => NotAt(s, L, p, a.next, a.ast) /\ a.next \in p + 1 .. Len(s) + 1
             /\ ~a.ok => a = Fail
<1> DEFINE q == Skip(s, p + 1)
           operand == OperandRule(s, q)
           e == IF operand.ok THEN operand ELSE Group(s, L, q)
<1>0. Len(s) \in Nat /\ p \in Nat /\ 1 <= p
  BY LineFacts
<1>1. CASE At(s, p) = "not" /\ e.ok
  <2>1. p \in 1 .. Len(s) /\ s[p] = "not" /\ p + 1 \in 1 .. Len(s) + 1
    BY <1>1, AtFacts
  <2>2. q \in p + 1 .. Len(s) + 1
    BY <2>1, SkipFacts
  <2>3. q \in 1 .. Len(s) + 1 /\ Advances(s, L, q + 1)
    BY <1>0, <2>2 DEF Advances
  <2>4. OperandAt(s, q, e.next, e.ast) \/ GroupAt(s, L, q, e.next, e.ast)
    <3> HIDE DEF q
    <3> QED
      BY <1>1, <2>3, OperandIs, GroupIs
  <2>5. e.next \in q + 1 .. Len(s) + 1
    <3> HIDE DEF q
    <3> QED
      BY <1>1, <2>3, OperandIs, GroupIs
  <2>6. e.next \in p + 1 .. Len(s) + 1 /\ e.next \in 1 .. Len(s) + 1
    BY <1>0, <2>2, <2>5
  <2>7. Skip(s, e.next) \in e.next .. Len(s) + 1
    BY <2>6, SkipFacts
  <2>8. Skip(s, e.next) \in p + 1 .. Len(s) + 1
    BY <1>0, <2>6, <2>7
  <2>9. Negation(s, L, p) = [ok |-> TRUE, next |-> Skip(s, e.next), ast |-> Not(e.ast, p)]
    BY <1>1 DEF Negation, Match
  <2>10. NotAt(s, L, p, Skip(s, e.next), Not(e.ast, p))
    <3> HIDE DEF q, e
    <3>1. q = Skip(s, p + 1) /\ p <= Len(s)
      BY <1>0, <2>1 DEF q
    <3> QED
      BY <2>1, <2>2, <2>4, <2>6, <3>1, Zenon DEF NotAt
  <2> HIDE DEF q, e
  <2> QED
    BY <2>8, <2>9, <2>10
<1>2. CASE ~(At(s, p) = "not" /\ e.ok)
  <2>1. Negation(s, L, p) = [ok |-> FALSE]
    BY <1>2 DEF Negation, Fail
  <2> QED
    BY <2>1 DEF Fail
<1> QED
  BY <1>1, <1>2

\* The atom at p, by its rule.
AtomAt(s, logic, p, n, e) ==
  NotAt(s, logic, p, n, e) \/ OperandAt(s, p, n, e) \/ GroupAt(s, logic, p, n, e)

LEMMA AtomIs ==
  ASSUME NEW s \in Seq(Tokens), NEW L, NEW p \in 1 .. Len(s) + 1, Advances(s, L, p + 1)
  PROVE  LET a == Atom(s, L, p)
         IN  /\ a.ok => AtomAt(s, L, p, a.next, a.ast) /\ a.next \in p + 1 .. Len(s) + 1
             /\ ~a.ok => a = Fail
<1> DEFINE neg == Negation(s, L, p)
           operand == OperandRule(s, p)
           group == Group(s, L, p)
<1>1. CASE neg.ok
  <2>1. Atom(s, L, p) = neg
    BY <1>1 DEF Atom
  <2> HIDE DEF neg
  <2> QED
    BY <1>1, <2>1, NegationIs DEF AtomAt, neg
<1>2. CASE ~neg.ok /\ operand.ok
  <2>1. Atom(s, L, p) = operand
    BY <1>2 DEF Atom
  <2> QED
    BY <1>2, <2>1, OperandIs DEF AtomAt
<1>3. CASE ~neg.ok /\ ~operand.ok
  <2>1. Atom(s, L, p) = group
    BY <1>3 DEF Atom
  <2> QED
    BY <1>3, <2>1, GroupIs DEF AtomAt
<1> QED
  BY <1>1, <1>2, <1>3

\* An operator and its right operand follow at n.
ChainAt(s, logic, n, m, r) ==
  \E o, q \in n .. Len(s) + 1 :
    /\ o = Skip(s, n) /\ o <= Len(s) /\ s[o] \in {"or", "and"}
    /\ q = Skip(s, o + 1) /\ o < q
    /\ logic[q].ok /\ m = logic[q].next
    /\ r = logic[q].first \o <<Node(s[o], o)>> \o logic[q].rest

\* No operator with a right operand follows at n.
EndsAt(s, logic, n) ==
  LET o == Skip(s, n)
  IN  ~(At(s, o) \in {"or", "and"} /\ logic[Skip(s, o + 1)].ok)

LEMMA ChainIs ==
  ASSUME NEW s \in Seq(Tokens), NEW L, NEW p \in 1 .. Len(s) + 1, Advances(s, L, p + 1),
         NEW a, a.next \in p + 1 .. Len(s) + 1
  PROVE  LET e == Chain(s, L, a)
         IN  /\ e.ok /\ e.first = a.ast /\ e.next \in p + 1 .. Len(s) + 1
             /\ \/ ChainAt(s, L, a.next, e.next, e.rest)
                \/ EndsAt(s, L, a.next) /\ e.next = a.next /\ e.rest = <<>>
<1> DEFINE n == a.next
           o == Skip(s, n)
           q == Skip(s, o + 1)
<1>0. Len(s) \in Nat /\ p \in Nat /\ 1 <= p /\ n \in 1 .. Len(s) + 1
  BY LineFacts
<1>1. CASE At(s, o) \in {"or", "and"} /\ L[q].ok
  <2>1. o \in n .. Len(s) + 1
    BY <1>0, SkipFacts
  <2>2. o \in 1 .. Len(s) + 1
    BY <1>0, <2>1
  <2>3. o \in 1 .. Len(s) /\ s[o] = At(s, o) /\ o + 1 \in 1 .. Len(s) + 1
    BY <1>1, <2>2, AtFacts
  <2>4. q \in o + 1 .. Len(s) + 1
    BY <2>3, SkipFacts
  <2> HIDE DEF n, o, q
  <2>5. q \in n .. Len(s) + 1 /\ o < q /\ o <= Len(s) /\ q \in p + 1 .. Len(s) + 1
    BY <1>0, <2>1, <2>3, <2>4 DEF n
  <2>6. L[q].next \in q + 1 .. Len(s) + 1
    BY <1>1, <2>5 DEF Advances
  <2>7. L[q].next \in p + 1 .. Len(s) + 1
    BY <1>0, <2>5, <2>6
  <2>8. Chain(s, L, a) = [ok |-> TRUE, next |-> L[q].next, first |-> a.ast,
                          rest |-> L[q].first \o <<Node(s[o], o)>> \o L[q].rest]
    BY <1>1, <2>3 DEF Chain, Infix, n, o, q
  <2>9. ChainAt(s, L, n, L[q].next, L[q].first \o <<Node(s[o], o)>> \o L[q].rest)
    <3>1. o = Skip(s, n) /\ q = Skip(s, o + 1) /\ s[o] \in {"or", "and"} /\ L[q].ok
      BY <1>1, <2>3 DEF o, q
    <3> QED
      BY <2>1, <2>5, <3>1, Zenon DEF ChainAt
  <2>10. a.next = n
    BY DEF n
  <2> QED
    BY <2>7, <2>8, <2>9, <2>10
<1>2. CASE ~(At(s, o) \in {"or", "and"} /\ L[q].ok)
  <2>1. Chain(s, L, a) = [ok |-> TRUE, next |-> a.next, first |-> a.ast, rest |-> <<>>]
    BY <1>2 DEF Chain, Infix
  <2>2. EndsAt(s, L, a.next)
    BY <1>2 DEF EndsAt
  <2> QED
    BY <2>1, <2>2
<1> QED
  BY <1>1, <1>2

LEMMA LogicIs ==
  ASSUME NEW s \in Seq(Tokens), NEW L, NEW p \in 1 .. Len(s) + 1, Advances(s, L, p + 1)
  PROVE  LET a == Atom(s, L, p)
             e == LogicRule(s, L, p)
         IN  /\ a.ok => /\ e.ok /\ e.first = a.ast /\ e.next \in p + 1 .. Len(s) + 1
                        /\ \/ ChainAt(s, L, a.next, e.next, e.rest)
                           \/ EndsAt(s, L, a.next) /\ e.next = a.next /\ e.rest = <<>>
             /\ ~a.ok => ~e.ok /\ e = Fail
<1> DEFINE a == Atom(s, L, p)
<1>1. CASE a.ok
  <2>1. a.next \in p + 1 .. Len(s) + 1
    BY <1>1, AtomIs
  <2>2. LogicRule(s, L, p) = Chain(s, L, a)
    BY <1>1 DEF LogicRule
  <2> HIDE DEF a
  <2> QED
    BY <1>1, <2>1, <2>2, ChainIs DEF a
<1>2. CASE ~a.ok
  <2>1. LogicRule(s, L, p) = [ok |-> FALSE]
    BY <1>2 DEF LogicRule, Fail
  <2> QED
    BY <1>2, <2>1 DEF Fail
<1> QED
  BY <1>1, <1>2

\* A rule calls logic() at later positions only.
LEMMA GroupLater ==
  ASSUME NEW s \in Seq(Tokens), NEW F, NEW G, NEW p \in 1 .. Len(s) + 1,
         \A q \in p + 1 .. Len(s) + 1 : F[q] = G[q]
  PROVE  Group(s, F, p) = Group(s, G, p)
<1>1. CASE At(s, p) = "open"
  <2>1. p + 1 \in 1 .. Len(s) + 1
    BY <1>1, AtFacts
  <2>2. Skip(s, p + 1) \in p + 1 .. Len(s) + 1
    BY <2>1, SkipFacts
  <2>3. F[Skip(s, p + 1)] = G[Skip(s, p + 1)]
    BY <2>2
  <2> QED
    BY <2>3 DEF Group
<1>2. CASE At(s, p) # "open"
  BY <1>2 DEF Group
<1> QED
  BY <1>1, <1>2

LEMMA AtomLater ==
  ASSUME NEW s \in Seq(Tokens), NEW F, NEW G, NEW p \in 1 .. Len(s) + 1,
         \A q \in p + 1 .. Len(s) + 1 : F[q] = G[q]
  PROVE  Atom(s, F, p) = Atom(s, G, p)
<1>1. Negation(s, F, p) = Negation(s, G, p)
  <2>1. CASE At(s, p) = "not"
    <3> DEFINE q == Skip(s, p + 1)
    <3>0. Len(s) \in Nat /\ p \in Nat /\ 1 <= p
      BY LineFacts
    <3>1. p + 1 \in 1 .. Len(s) + 1
      BY <2>1, AtFacts
    <3>2. q \in p + 1 .. Len(s) + 1
      BY <3>1, SkipFacts
    <3> HIDE DEF q
    <3>3. q \in 1 .. Len(s) + 1 /\ \A r \in q + 1 .. Len(s) + 1 : F[r] = G[r]
      BY <3>0, <3>2
    <3>4. Group(s, F, q) = Group(s, G, q)
      BY <3>3, GroupLater
    <3> QED
      BY <3>4 DEF Negation, q
  <2>2. CASE At(s, p) # "not"
    BY <2>2 DEF Negation
  <2> QED
    BY <2>1, <2>2
<1>2. Group(s, F, p) = Group(s, G, p)
  BY GroupLater
<1> QED
  BY <1>1, <1>2 DEF Atom

LEMMA LogicLater ==
  ASSUME NEW s \in Seq(Tokens), NEW F, NEW G, NEW p \in 1 .. Len(s) + 1,
         \A q \in p + 1 .. Len(s) + 1 : F[q] = G[q], Advances(s, F, p + 1)
  PROVE  LogicRule(s, F, p) = LogicRule(s, G, p)
<1> DEFINE a == Atom(s, F, p)
           o == Skip(s, a.next)
           q == Skip(s, o + 1)
<1>0. Len(s) \in Nat /\ p \in Nat /\ 1 <= p
  BY LineFacts
<1>1. Atom(s, G, p) = a
  BY AtomLater
<1>2. ASSUME a.ok PROVE Chain(s, F, a) = Chain(s, G, a)
  <2>1. a.next \in p + 1 .. Len(s) + 1
    BY <1>2, AtomIs
  <2>2. a.next \in 1 .. Len(s) + 1
    BY <1>0, <2>1
  <2>3. o \in a.next .. Len(s) + 1
    BY <2>2, SkipFacts
  <2>4. o \in 1 .. Len(s) + 1
    BY <2>2, <2>3
  <2>5. CASE At(s, o) \in {"or", "and"}
    <3>1. o + 1 \in 1 .. Len(s) + 1
      BY <2>4, <2>5, AtFacts
    <3>2. q \in o + 1 .. Len(s) + 1
      BY <3>1, SkipFacts
    <3> HIDE DEF a, o, q
    <3>3. q \in p + 1 .. Len(s) + 1
      BY <1>0, <2>1, <2>3, <3>2
    <3>4. F[q] = G[q]
      BY <3>3
    <3> QED
      BY <3>4 DEF Chain, o, q
  <2>6. CASE At(s, o) \notin {"or", "and"}
    BY <2>6 DEF Chain
  <2> QED
    BY <2>5, <2>6
<1> QED
  BY <1>1, <1>2 DEF LogicRule

-----------------------------------------------------------------------------
(* logic() terminates                                                      *)

IsTable(s, logic) == logic = [p \in 1 .. Len(s) + 1 |-> LogicRule(s, logic, p)]

\* The table is filled from the end of the line, one position after the other.
LEMMA TableExists ==
  ASSUME NEW s \in Seq(Tokens)
  PROVE  \E L : IsTable(s, L)
<1> DEFINE N == Len(s) + 1
           From(F, k) == /\ F = [q \in 1 .. N |-> F[q]]
                         /\ Advances(s, F, k)
                         /\ \A q \in k .. N : F[q] = LogicRule(s, F, q)
           T == {m \in Nat : m <= N => \E F : From(F, N + 1 - m)}
<1>0. N \in Nat /\ Len(s) \in Nat
  BY LineFacts
<1>1. 0 \in T
  <2> DEFINE F == [q \in 1 .. N |-> 0]
  <2>1. From(F, N + 1)
    BY <1>0 DEF Advances
  <2>2. N + 1 - 0 = N + 1
    BY <1>0
  <2> HIDE DEF F, From, N
  <2> QED
    BY <2>1, <2>2
<1>2. ASSUME NEW m \in Nat, m \in T PROVE m + 1 \in T
  <2> SUFFICES ASSUME m + 1 <= N PROVE \E G : From(G, N + 1 - (m + 1))
    OBVIOUS
  <2> DEFINE k == N - m
  <2>0. k \in 1 .. N /\ N + 1 - (m + 1) = k /\ N + 1 - m = k + 1 /\ k \in Nat
    BY <1>0
  <2>1. \E F : From(F, k + 1)
    <3>1. m <= N
      BY <1>0
    <3>2. \E F : From(F, N + 1 - m)
      BY <1>2, <3>1
    <3> QED
      BY <2>0, <3>2
  <2>2. PICK F : From(F, k + 1)
    BY <2>1
  <2> HIDE DEF k
  <2> DEFINE e == LogicRule(s, F, k)
             G == [q \in 1 .. N |-> IF q = k THEN e ELSE F[q]]
  <2>3. G[k] = e /\ \A q \in k + 1 .. N : q \in 1 .. N /\ G[q] = F[q]
    BY <1>0, <2>0
  <2>4. G = [q \in 1 .. N |-> G[q]]
    OBVIOUS
  <2> HIDE DEF G, e
  <2>5. ASSUME NEW q \in k .. N
        PROVE  LogicRule(s, F, q) = LogicRule(s, G, q)
    <3>1. q \in 1 .. Len(s) + 1 /\ \A r \in q + 1 .. N : r \in k + 1 .. N
      BY <1>0, <2>0
    <3>2. \A r \in q + 1 .. Len(s) + 1 : F[r] = G[r]
      BY <2>3, <3>1
    <3>3. Advances(s, F, q + 1)
      BY <2>2, <3>1 DEF Advances
    <3> QED
      BY <3>1, <3>2, <3>3, LogicLater
  <2>6. \A q \in k .. N : q = k \/ q \in k + 1 .. N
    BY <1>0, <2>0
  <2>7. \A q \in k .. N : G[q] = LogicRule(s, G, q)
    <3>1. ASSUME NEW q \in k .. N PROVE G[q] = LogicRule(s, G, q)
      <4>1. CASE q = k
        BY <2>3, <2>5, <4>1 DEF e
      <4>2. CASE q \in k + 1 .. N
        <5>1. F[q] = LogicRule(s, F, q) /\ G[q] = F[q]
          BY <2>2, <2>3, <4>2
        <5> QED
          BY <2>5, <5>1
      <4> QED
        BY <2>6, <4>1, <4>2
    <3> QED
      BY <3>1
  <2>8. Advances(s, G, k)
    <3>1. e.ok => e.next \in k + 1 .. Len(s) + 1
      <4>1. Advances(s, F, k + 1) /\ k \in 1 .. Len(s) + 1
        BY <2>0, <2>2
      <4> QED
        BY <4>1, LogicIs DEF e
    <3>2. ASSUME NEW q \in k .. Len(s) + 1, G[q].ok PROVE G[q].next \in q + 1 .. Len(s) + 1
      <4>1. CASE q = k
        BY <2>3, <3>1, <3>2, <4>1
      <4>2. CASE q \in k + 1 .. N
        BY <2>2, <2>3, <3>2, <4>2 DEF Advances
      <4> QED
        BY <2>6, <4>1, <4>2
    <3> QED
      BY <3>2 DEF Advances
  <2>9. From(G, k)
    BY <2>4, <2>7, <2>8
  <2> HIDE DEF From
  <2> QED
    BY <2>0, <2>9
<1>3. N \in T
  <2> HIDE DEF T, N
  <2> QED
    BY <1>0, <1>1, <1>2, NatInd
<1>4. \E F : From(F, 1)
  <2>1. N <= N /\ N + 1 - N = 1
    BY <1>0
  <2> HIDE DEF From, N
  <2> QED
    BY <1>3, <2>1
<1>5. PICK F : From(F, 1)
  BY <1>4
<1>6. IsTable(s, F)
  BY <1>5 DEF IsTable
<1> QED
  BY <1>6

LEMMA TableFacts ==
  ASSUME NEW s \in Seq(Tokens), NEW L, IsTable(s, L)
  PROVE  /\ \A p \in 1 .. Len(s) + 1 : L[p] = LogicRule(s, L, p)
         /\ \A p \in 1 .. Len(s) + 1 : Advances(s, L, p)
         /\ \A p \in 1 .. Len(s) + 1 : Advances(s, L, p + 1)
<1>0. Len(s) \in Nat /\ Len(s) + 1 \in Nat
  BY LineFacts
<1>1. \A p \in 1 .. Len(s) + 1 : L[p] = LogicRule(s, L, p)
  BY DEF IsTable
<1> DEFINE T == {p \in 1 .. Len(s) + 1 : L[p].ok => L[p].next \in p + 1 .. Len(s) + 1}
<1>2. ASSUME NEW p \in 1 .. Len(s) + 1, \A q \in p + 1 .. Len(s) + 1 : q \in T
      PROVE  p \in T
  <2>1. Advances(s, L, p + 1)
    BY <1>2 DEF Advances
  <2> QED
    BY <1>1, <2>1, LogicIs
<1>3. \A p \in 1 .. Len(s) + 1 : p \in T
  <2> HIDE DEF T
  <2> QED
    BY <1>0, <1>2, DownInd
<1>4. \A p \in 1 .. Len(s) + 1 : \A q \in p .. Len(s) + 1 : q \in 1 .. Len(s) + 1
  BY <1>0
<1>5. \A p \in 1 .. Len(s) + 1 : Advances(s, L, p)
  BY <1>3, <1>4 DEF Advances
<1>6. \A p \in 1 .. Len(s) + 1 : \A q \in p + 1 .. Len(s) + 1 : q \in 1 .. Len(s) + 1
  BY <1>0
<1>7. \A p \in 1 .. Len(s) + 1 : Advances(s, L, p + 1)
  BY <1>3, <1>6 DEF Advances
<1> QED
  BY <1>1, <1>5, <1>7

LEMMA LogicTable ==
  ASSUME NEW s \in Seq(Tokens)
  PROVE  IsTable(s, Logic(s))
<1>1. Logic(s) = CHOOSE L : IsTable(s, L)
  BY DEF Logic, IsTable
<1> QED
  BY <1>1, TableExists

-----------------------------------------------------------------------------
(* What the nodes of an expression do to the stack of Interpretor::eval    *)

Nodes == [op : {"x", "and", "or", "not"}, at : Nat]

LEMMA FrontLast ==
  ASSUME NEW S, NEW st \in Seq(S), NEW v \in S
  PROVE  Append(st, v) \in Seq(S) /\ Front(Append(st, v)) = st /\ Last(Append(st, v)) = v
<1> DEFINE t == Append(st, v)
           u == SubSeq(t, 1, Len(t) - 1)
<1>1. t \in Seq(S) /\ Len(t) = Len(st) + 1 /\ t[Len(st) + 1] = v /\ Len(st) \in Nat
  OBVIOUS
<1>2. \A i \in 1 .. Len(st) : t[i] = st[i]
  OBVIOUS
<1> HIDE DEF t
<1>3. u \in Seq(S) /\ Len(u) = Len(st) /\ \A i \in 1 .. Len(st) : u[i] = t[i]
  BY <1>1
<1>4. u = st
  <2> HIDE DEF u
  <2> QED
    BY <1>2, <1>3, SeqEqual
<1> QED
  BY <1>1, <1>4 DEF Front, Last, t

\* V[i] is the stack before e, V[i + k] the one after its first k nodes.
Runs(V, i, e, truth) == \A k \in 1 .. Len(e) : V[i + k] = Apply(e[k], V[i + k - 1], truth)

\* e leaves its value on the stack.
Pushes(e, truth, v) ==
  \A V : \A i \in Nat :
    V[i] \in Seq(BOOLEAN) /\ Runs(V, i, e, truth) => V[i + Len(e)] = Append(V[i], v)

\* r replaces the top of the stack.
Maps(r, truth, m) ==
  \A V : \A i \in Nat, st \in Seq(BOOLEAN), b \in BOOLEAN :
    V[i] = Append(st, b) /\ Runs(V, i, r, truth) => V[i + Len(r)] = Append(st, m[b])

LEMMA RunsConcat ==
  ASSUME NEW e \in Seq(Nodes), NEW f \in Seq(Nodes), NEW V, NEW i \in Nat, NEW truth,
         Runs(V, i, e \o f, truth)
  PROVE  /\ Runs(V, i, e, truth) /\ Runs(V, i + Len(e), f, truth)
         /\ i + Len(e) \in Nat /\ i + Len(e \o f) = (i + Len(e)) + Len(f)
<1>1. Len(e) \in Nat /\ Len(f) \in Nat /\ Len(e \o f) = Len(e) + Len(f)
  BY ConcatProperties
<1>2. ASSUME NEW k \in 1 .. Len(e) PROVE V[i + k] = Apply(e[k], V[i + k - 1], truth)
  <2>1. k \in 1 .. Len(e \o f) /\ (e \o f)[k] = e[k]
    BY <1>1, ConcatProperties
  <2> QED
    BY <2>1 DEF Runs
<1>3. ASSUME NEW k \in 1 .. Len(f)
      PROVE  V[(i + Len(e)) + k] = Apply(f[k], V[(i + Len(e)) + k - 1], truth)
  <2> DEFINE j == Len(e) + k
  <2>1. j \in 1 .. Len(e \o f) /\ (e \o f)[j] = f[k]
    BY <1>1, ConcatProperties
  <2>2. i + j = (i + Len(e)) + k /\ i + j - 1 = (i + Len(e)) + k - 1
    BY <1>1
  <2>3. V[i + j] = Apply((e \o f)[j], V[i + j - 1], truth)
    BY <2>1 DEF Runs
  <2> QED
    BY <2>1, <2>2, <2>3
<1> QED
  BY <1>1, <1>2, <1>3 DEF Runs

\* A node on its own.
LEMMA RunsOne ==
  ASSUME NEW V, NEW i \in Nat, NEW truth, NEW node, Runs(V, i, <<node>>, truth)
  PROVE  V[i + Len(<<node>>)] = Apply(node, V[i], truth)
<1>1. Len(<<node>>) = 1 /\ <<node>>[1] = node /\ i + 1 - 1 = i /\ 1 \in 1 .. Len(<<node>>)
  OBVIOUS
<1>2. V[i + 1] = Apply(<<node>>[1], V[i + 1 - 1], truth)
  BY <1>1 DEF Runs
<1> QED
  BY <1>1, <1>2

LEMMA NodeFacts ==
  ASSUME NEW i \in Nat, NEW op \in {"x", "and", "or", "not"}
  PROVE  Node(op, i) \in Nodes /\ Node(op, i).op = op /\ Node(op, i).at = i
         /\ <<Node(op, i)>> \in Seq(Nodes)
BY DEF Node, Nodes

LEMMA OperandPushes ==
  ASSUME NEW i \in Nat, NEW truth
  PROVE  Operand(i) \in Seq(Nodes) /\ Pushes(Operand(i), truth, truth[i])
<1> DEFINE node == Node("x", i)
<1>1. node.op = "x" /\ node.at = i /\ <<node>> \in Seq(Nodes)
  BY NodeFacts
<1> HIDE DEF node
<1>2. ASSUME NEW V, NEW j \in Nat, Runs(V, j, <<node>>, truth)
      PROVE  V[j + Len(<<node>>)] = Append(V[j], truth[i])
  <2>1. V[j + Len(<<node>>)] = Apply(node, V[j], truth)
    BY <1>2, RunsOne
  <2> QED
    BY <1>1, <2>1 DEF Apply
<1>3. Pushes(<<node>>, truth, truth[i])
  BY <1>2 DEF Pushes
<1> QED
  BY <1>1, <1>3 DEF Operand, node

LEMMA NotPushes ==
  ASSUME NEW e \in Seq(Nodes), NEW i \in Nat, NEW truth, NEW v \in BOOLEAN, Pushes(e, truth, v)
  PROVE  Not(e, i) \in Seq(Nodes) /\ Pushes(Not(e, i), truth, ~v)
<1> DEFINE node == Node("not", i)
           one == <<node>>
<1>1. node.op = "not" /\ one \in Seq(Nodes)
  BY NodeFacts
<1> HIDE DEF node, one
<1>2. ASSUME NEW V, NEW j \in Nat, V[j] \in Seq(BOOLEAN), Runs(V, j, e \o one, truth)
      PROVE  V[j + Len(e \o one)] = Append(V[j], ~v)
  <2> DEFINE k == j + Len(e)
  <2>1. /\ Runs(V, j, e, truth) /\ Runs(V, k, one, truth)
        /\ k \in Nat /\ j + Len(e \o one) = k + Len(one)
    BY <1>1, <1>2, RunsConcat
  <2>2. V[k] = Append(V[j], v)
    BY <1>2, <2>1 DEF Pushes
  <2> HIDE DEF k
  <2>3. V[k + Len(one)] = Apply(node, V[k], truth)
    BY <2>1, RunsOne DEF one
  <2>4. Front(V[k]) = V[j] /\ Last(V[k]) = v
    BY <1>2, <2>2, FrontLast
  <2>5. Apply(node, V[k], truth) = Append(V[j], ~v)
    BY <1>1, <2>4 DEF Apply
  <2> QED
    BY <2>1, <2>3, <2>5
<1>3. Pushes(e \o one, truth, ~v)
  BY <1>2 DEF Pushes
<1>4. e \o one \in Seq(Nodes)
  BY <1>1, ConcatProperties
<1> QED
  BY <1>3, <1>4 DEF Not, node, one

\* The value of a binary operator.
Join(op, a, b) == IF op = "and" THEN a /\ b ELSE a \/ b

LEMMA JoinFacts ==
  ASSUME NEW op \in {"or", "and"}, NEW a \in BOOLEAN, NEW b \in BOOLEAN
  PROVE  Join(op, a, b) \in BOOLEAN
BY DEF Join

LEMMA JoinApplies ==
  ASSUME NEW op \in {"or", "and"}, NEW i \in Nat, NEW truth, NEW st \in Seq(BOOLEAN),
         NEW a \in BOOLEAN, NEW b \in BOOLEAN
  PROVE  Apply(Node(op, i), Append(Append(st, a), b), truth) = Append(st, Join(op, a, b))
<1> DEFINE node == Node(op, i)
           below == Append(st, a)
           stack == Append(below, b)
<1>1. node.op = op
  BY NodeFacts
<1>2. below \in Seq(BOOLEAN) /\ Front(below) = st /\ Last(below) = a
  BY FrontLast
<1> HIDE DEF below
<1>3. Front(stack) = below /\ Last(stack) = b
  BY <1>2, FrontLast
<1> HIDE DEF stack, node
<1>6. Apply(node, stack, truth) = Append(st, Join(op, a, b))
  <2>1. CASE op = "and"
    <3>1. Apply(node, stack, truth) = Append(st, a /\ b)
      BY <1>1, <1>2, <1>3, <2>1 DEF Apply
    <3> QED
      BY <2>1, <3>1 DEF Join
  <2>2. CASE op = "or"
    <3>1. Apply(node, stack, truth) = Append(st, a \/ b)
      BY <1>1, <1>2, <1>3, <2>2 DEF Apply
    <3> QED
      BY <2>2, <3>1 DEF Join
  <2> QED
    BY <2>1, <2>2
<1> QED
  BY <1>6 DEF node, stack, below

\* An operator and its right operand.
JoinMap(op, v, m) == [b \in BOOLEAN |-> m[Join(op, b, v)]]

LEMMA ChainMaps ==
  ASSUME NEW f \in Seq(Nodes), NEW r \in Seq(Nodes), NEW truth, NEW v \in BOOLEAN,
         NEW m \in [BOOLEAN -> BOOLEAN], Pushes(f, truth, v), Maps(r, truth, m),
         NEW op \in {"or", "and"}, NEW o \in Nat
  PROVE  /\ f \o <<Node(op, o)>> \o r \in Seq(Nodes)
         /\ Maps(f \o <<Node(op, o)>> \o r, truth, JoinMap(op, v, m))
<1> DEFINE node == Node(op, o)
           one == <<node>>
           h == f \o one
<1>0. one \in Seq(Nodes)
  BY NodeFacts
<1> HIDE DEF one
<1>1. h \in Seq(Nodes) /\ h \o r \in Seq(Nodes)
  BY <1>0, ConcatProperties
<1> HIDE DEF h
<1>2. ASSUME NEW V, NEW i \in Nat, NEW st \in Seq(BOOLEAN), NEW b \in BOOLEAN,
             V[i] = Append(st, b), Runs(V, i, h \o r, truth)
      PROVE  V[i + Len(h \o r)] = Append(st, JoinMap(op, v, m)[b])
  <2> DEFINE k == i + Len(h)
             j == i + Len(f)
  <2>1. /\ Runs(V, i, h, truth) /\ Runs(V, k, r, truth)
        /\ k \in Nat /\ i + Len(h \o r) = k + Len(r)
    BY <1>1, <1>2, RunsConcat
  <2>2. /\ Runs(V, i, f, truth) /\ Runs(V, j, one, truth)
        /\ j \in Nat /\ k = j + Len(one)
    BY <1>0, <2>1, RunsConcat DEF h
  <2>3. V[i] \in Seq(BOOLEAN)
    BY <1>2, FrontLast
  <2>4. V[j] = Append(Append(st, b), v)
    <3>1. V[j] = Append(V[i], v)
      BY <2>2, <2>3 DEF Pushes
    <3> QED
      BY <1>2, <3>1
  <2> HIDE DEF j, k, node
  <2>5. V[k] = Apply(node, V[j], truth)
    BY <2>2, RunsOne DEF one
  <2>6. V[k] = Append(st, Join(op, b, v)) /\ Join(op, b, v) \in BOOLEAN
    <3>1. Apply(node, Append(Append(st, b), v), truth) = Append(st, Join(op, b, v))
      BY JoinApplies DEF node
    <3> QED
      BY <2>4, <2>5, <3>1, JoinFacts
  <2>7. V[k + Len(r)] = Append(st, m[Join(op, b, v)])
    BY <2>1, <2>6 DEF Maps
  <2> QED
    BY <2>1, <2>7 DEF JoinMap
<1>3. Maps(h \o r, truth, JoinMap(op, v, m))
  BY <1>2 DEF Maps
<1> QED
  BY <1>1, <1>3 DEF h, one

LEMMA JoinMapFacts ==
  ASSUME NEW op \in {"or", "and"}, NEW v \in BOOLEAN, NEW m \in [BOOLEAN -> BOOLEAN]
  PROVE  /\ JoinMap(op, v, m) \in [BOOLEAN -> BOOLEAN]
         /\ \A b \in BOOLEAN : JoinMap(op, v, m)[b] = m[Join(op, b, v)]
<1>1. \A b \in BOOLEAN : m[Join(op, b, v)] \in BOOLEAN
  BY JoinFacts
<1> QED
  BY <1>1 DEF JoinMap

\* No operator follows.
Same == [b \in BOOLEAN |-> b]

LEMMA EmptyMaps ==
  ASSUME NEW truth
  PROVE  <<>> \in Seq(Nodes) /\ Same \in [BOOLEAN -> BOOLEAN] /\ Maps(<<>>, truth, Same)
<1>1. Len(<<>>) = 0 /\ \A i \in Nat : i + 0 = i
  OBVIOUS
<1>2. Maps(<<>>, truth, Same)
  BY <1>1 DEF Maps, Same
<1> QED
  BY <1>2, EmptySeq DEF Same

\* An expression is its first atom and the rest.
LEMMA WholePushes ==
  ASSUME NEW f \in Seq(Nodes), NEW r \in Seq(Nodes), NEW truth, NEW v \in BOOLEAN,
         NEW m \in [BOOLEAN -> BOOLEAN], Pushes(f, truth, v), Maps(r, truth, m)
  PROVE  f \o r \in Seq(Nodes) /\ Pushes(f \o r, truth, m[v])
<1>1. ASSUME NEW V, NEW i \in Nat, V[i] \in Seq(BOOLEAN), Runs(V, i, f \o r, truth)
      PROVE  V[i + Len(f \o r)] = Append(V[i], m[v])
  <2> DEFINE k == i + Len(f)
  <2>1. /\ Runs(V, i, f, truth) /\ Runs(V, k, r, truth)
        /\ k \in Nat /\ i + Len(f \o r) = k + Len(r)
    BY <1>1, RunsConcat
  <2>2. V[k] = Append(V[i], v)
    BY <1>1, <2>1 DEF Pushes
  <2> HIDE DEF k
  <2>a. \A st \in Seq(BOOLEAN), b \in BOOLEAN :
          V[k] = Append(st, b) => V[k + Len(r)] = Append(st, m[b])
    BY <2>1, Zenon DEF Maps
  <2>3. V[k + Len(r)] = Append(V[i], m[v])
    BY <1>1, <2>2, <2>a
  <2> QED
    BY <2>1, <2>3
<1>2. f \o r \in Seq(Nodes)
  BY ConcatProperties
<1> QED
  BY <1>1, <1>2 DEF Pushes

\* Interpretor::eval visits one node after the other.
ValuesStep(F, e, truth, n) == IF n = 0 THEN <<>> ELSE Apply(e[n], F[n - 1], truth)
IsValues(F, e, truth) == F = [n \in 0 .. Len(e) |-> ValuesStep(F, e, truth, n)]

LEMMA ValuesExists ==
  ASSUME NEW e \in Seq(Nodes), NEW truth
  PROVE  \E F : IsValues(F, e, truth)
<1> DEFINE Upto(F, m) ==
             F = [n \in 0 .. Len(e) |-> IF n <= m THEN ValuesStep(F, e, truth, n) ELSE 0]
           T == {m \in Nat : \E F : Upto(F, m)}
<1>0. Len(e) \in Nat
  OBVIOUS
<1>1. 0 \in T
  <2> DEFINE F == [n \in 0 .. Len(e) |-> IF n = 0 THEN <<>> ELSE 0]
  <2>1. \A n \in 0 .. Len(e) : F[n] = IF n <= 0 THEN ValuesStep(F, e, truth, n) ELSE 0
    BY <1>0 DEF ValuesStep
  <2>2. Upto(F, 0)
    BY <2>1
  <2> HIDE DEF F
  <2> QED
    BY <2>2
<1>2. ASSUME NEW m \in Nat, m \in T PROVE m + 1 \in T
  <2>1. PICK F : Upto(F, m)
    BY <1>2
  <2> DEFINE G == [n \in 0 .. Len(e) |-> IF n = m + 1 THEN ValuesStep(F, e, truth, n) ELSE F[n]]
  <2>2. ASSUME NEW n \in 0 .. Len(e), n <= m + 1
        PROVE  ValuesStep(G, e, truth, n) = ValuesStep(F, e, truth, n)
    <3>1. CASE n = 0
      BY <3>1 DEF ValuesStep
    <3>2. CASE n # 0
      <4>1. n - 1 \in 0 .. Len(e) /\ n - 1 # m + 1
        BY <1>0, <2>2, <3>2
      <4>2. G[n - 1] = F[n - 1]
        BY <4>1
      <4> QED
        BY <4>2 DEF ValuesStep
    <3> QED
      BY <3>1, <3>2
  <2>3. ASSUME NEW n \in 0 .. Len(e)
        PROVE  G[n] = IF n <= m + 1 THEN ValuesStep(G, e, truth, n) ELSE 0
    <3>1. CASE n > m + 1
      <4>1. F[n] = 0
        BY <2>1, <3>1
      <4> QED
        BY <3>1, <4>1
    <3>2. CASE n = m + 1
      <4>1. G[n] = ValuesStep(F, e, truth, n)
        BY <3>2
      <4> HIDE DEF G
      <4> QED
        BY <2>2, <3>2, <4>1
    <3>3. CASE n <= m
      <4>1. F[n] = ValuesStep(F, e, truth, n) /\ G[n] = F[n]
        BY <2>1, <3>3
      <4>2. n <= m + 1
        BY <3>3
      <4> HIDE DEF G
      <4> QED
        BY <2>2, <4>1, <4>2
    <3> QED
      BY <3>1, <3>2, <3>3
  <2>4. Upto(G, m + 1)
    BY <2>3
  <2> HIDE DEF G
  <2> QED
    BY <2>4
<1>3. Len(e) \in T
  <2> HIDE DEF T
  <2> QED
    BY <1>0, <1>1, <1>2, NatInd
<1>4. PICK F : Upto(F, Len(e))
  BY <1>3
<1>5. IsValues(F, e, truth)
  BY <1>0, <1>4 DEF IsValues
<1> QED
  BY <1>5

\* What an expression leaves on the stack is its value.
LEMMA EvalIs ==
  ASSUME NEW e \in Seq(Nodes), NEW truth, NEW v, Pushes(e, truth, v)
  PROVE  Eval(e, truth) = v
<1>1. Eval(e, truth) = (CHOOSE F : IsValues(F, e, truth))[Len(e)][1]
  BY DEF Eval, IsValues, ValuesStep
<1>2. PICK F : IsValues(F, e, truth) /\ Eval(e, truth) = F[Len(e)][1]
  BY <1>1, ValuesExists
<1>3. Len(e) \in Nat /\ \A n \in 0 .. Len(e) : F[n] = ValuesStep(F, e, truth, n)
  BY <1>2 DEF IsValues
<1>4. F[0] = <<>> /\ <<>> \in Seq(BOOLEAN) /\ 0 + Len(e) = Len(e)
  BY <1>3, EmptySeq DEF ValuesStep
<1>5. Runs(F, 0, e, truth)
  <2>1. ASSUME NEW k \in 1 .. Len(e) PROVE F[0 + k] = Apply(e[k], F[0 + k - 1], truth)
    <3>1. k \in 0 .. Len(e) /\ k # 0 /\ 0 + k = k /\ 0 + k - 1 = k - 1
      BY <1>3
    <3>2. F[k] = Apply(e[k], F[k - 1], truth)
      BY <1>3, <3>1 DEF ValuesStep
    <3> QED
      BY <3>1, <3>2
  <2> QED
    BY <2>1 DEF Runs
<1>6. F[Len(e)] = Append(<<>>, v)
  <2>1. F[0 + Len(e)] = Append(F[0], v)
    BY <1>4, <1>5 DEF Pushes
  <2> QED
    BY <1>4, <2>1
<1> QED
  BY <1>2, <1>6

-----------------------------------------------------------------------------
(* Depth and Reading, token by token                                       *)

DepthStep(F, s, n) ==
  IF n = 0 THEN 0
  ELSE IF s[n] = "open" THEN F[n - 1] + 1
  ELSE IF s[n] = "close" THEN F[n - 1] - 1
  ELSE F[n - 1]
IsDepth(F, s) == F = [n \in 0 .. Len(s) |-> DepthStep(F, s, n)]

LEMMA DepthExists ==
  ASSUME NEW s \in Seq(Tokens)
  PROVE  \E F : IsDepth(F, s)
<1> DEFINE Upto(F, m) ==
             F = [n \in 0 .. Len(s) |-> IF n <= m THEN DepthStep(F, s, n) ELSE 0]
           T == {m \in Nat : \E F : Upto(F, m)}
<1>0. Len(s) \in Nat
  OBVIOUS
<1>1. 0 \in T
  <2> DEFINE F == [n \in 0 .. Len(s) |-> IF n = 0 THEN 0 ELSE 0]
  <2>1. \A n \in 0 .. Len(s) : F[n] = IF n <= 0 THEN DepthStep(F, s, n) ELSE 0
    BY <1>0 DEF DepthStep
  <2>2. Upto(F, 0)
    BY <2>1
  <2> HIDE DEF F
  <2> QED
    BY <2>2
<1>2. ASSUME NEW m \in Nat, m \in T PROVE m + 1 \in T
  <2>1. PICK F : Upto(F, m)
    BY <1>2
  <2> DEFINE G == [n \in 0 .. Len(s) |-> IF n = m + 1 THEN DepthStep(F, s, n) ELSE F[n]]
  <2>2. ASSUME NEW n \in 0 .. Len(s), n <= m + 1
        PROVE  DepthStep(G, s, n) = DepthStep(F, s, n)
    <3>1. CASE n = 0
      BY <3>1 DEF DepthStep
    <3>2. CASE n # 0
      <4>1. n - 1 \in 0 .. Len(s) /\ n - 1 # m + 1
        BY <1>0, <2>2, <3>2
      <4>2. G[n - 1] = F[n - 1]
        BY <4>1
      <4> QED
        BY <4>2 DEF DepthStep
    <3> QED
      BY <3>1, <3>2
  <2>3. ASSUME NEW n \in 0 .. Len(s)
        PROVE  G[n] = IF n <= m + 1 THEN DepthStep(G, s, n) ELSE 0
    <3>1. CASE n > m + 1
      <4>1. F[n] = 0
        BY <2>1, <3>1
      <4> QED
        BY <3>1, <4>1
    <3>2. CASE n = m + 1
      <4>1. G[n] = DepthStep(F, s, n)
        BY <3>2
      <4> HIDE DEF G
      <4> QED
        BY <2>2, <3>2, <4>1
    <3>3. CASE n <= m
      <4>1. F[n] = DepthStep(F, s, n) /\ G[n] = F[n]
        BY <2>1, <3>3
      <4>2. n <= m + 1
        BY <3>3
      <4> HIDE DEF G
      <4> QED
        BY <2>2, <4>1, <4>2
    <3> QED
      BY <3>1, <3>2, <3>3
  <2>4. Upto(G, m + 1)
    BY <2>3
  <2> HIDE DEF G
  <2> QED
    BY <2>4
<1>3. Len(s) \in T
  <2> HIDE DEF T
  <2> QED
    BY <1>0, <1>1, <1>2, NatInd
<1>4. PICK F : Upto(F, Len(s))
  BY <1>3
<1>5. IsDepth(F, s)
  BY <1>0, <1>4 DEF IsDepth
<1> QED
  BY <1>5

\* Each token changes the depth by one at most.
LEMMA DepthFacts ==
  ASSUME NEW s \in Seq(Tokens)
  PROVE  LET d == Depth(s)
         IN  /\ d[0] = 0 /\ \A i \in 0 .. Len(s) : d[i] \in Int
             /\ \A i \in 1 .. Len(s) :
                  /\ s[i] = "open" => d[i] = d[i - 1] + 1
                  /\ s[i] = "close" => d[i] = d[i - 1] - 1
                  /\ s[i] \notin {"open", "close"} => d[i] = d[i - 1]
<1> DEFINE d == Depth(s)
<1>1. d = CHOOSE F : IsDepth(F, s)
  BY DEF Depth, IsDepth, DepthStep
<1>2. IsDepth(d, s)
  BY <1>1, DepthExists
<1> HIDE DEF d
<1>3. Len(s) \in Nat /\ \A n \in 0 .. Len(s) : d[n] = DepthStep(d, s, n)
  BY <1>2 DEF IsDepth
<1>4. d[0] = 0
  BY <1>3 DEF DepthStep
<1>5. ASSUME NEW i \in 1 .. Len(s)
      PROVE  d[i] = IF s[i] = "open" THEN d[i - 1] + 1
                    ELSE IF s[i] = "close" THEN d[i - 1] - 1 ELSE d[i - 1]
  <2>1. i \in 0 .. Len(s) /\ i # 0
    BY <1>3
  <2> QED
    BY <1>3, <2>1 DEF DepthStep
<1> DEFINE T == {n \in Nat : n <= Len(s) => d[n] \in Int}
<1>6. 0 \in T
  BY <1>4
<1>7. ASSUME NEW n \in Nat, n \in T PROVE n + 1 \in T
  <2> SUFFICES ASSUME n + 1 <= Len(s) PROVE d[n + 1] \in Int
    OBVIOUS
  <2>1. n + 1 \in 1 .. Len(s) /\ n + 1 - 1 = n /\ d[n] \in Int
    BY <1>3, <1>7
  <2> QED
    BY <1>5, <2>1
<1>8. \A n \in Nat : n \in T
  <2> HIDE DEF T
  <2> QED
    BY <1>6, <1>7, NatInd
<1>9. \A i \in 0 .. Len(s) : d[i] \in Int
  BY <1>3, <1>8
<1> QED
  BY <1>4, <1>5, <1>9 DEF d

StackStep(F, s, truth, n) ==
  IF n = 0 THEN <<NewFrame>> ELSE Read(F[n - 1], s[n], truth[n])
IsStack(F, s, truth) == F = [n \in 0 .. Len(s) |-> StackStep(F, s, truth, n)]

LEMMA StackExists ==
  ASSUME NEW s \in Seq(Tokens), NEW truth
  PROVE  \E F : IsStack(F, s, truth)
<1> DEFINE Upto(F, m) ==
             F = [n \in 0 .. Len(s) |-> IF n <= m THEN StackStep(F, s, truth, n) ELSE 0]
           T == {m \in Nat : \E F : Upto(F, m)}
<1>0. Len(s) \in Nat
  OBVIOUS
<1>1. 0 \in T
  <2> DEFINE F == [n \in 0 .. Len(s) |-> IF n = 0 THEN <<NewFrame>> ELSE 0]
  <2>1. \A n \in 0 .. Len(s) : F[n] = IF n <= 0 THEN StackStep(F, s, truth, n) ELSE 0
    BY <1>0 DEF StackStep
  <2>2. Upto(F, 0)
    BY <2>1
  <2> HIDE DEF F
  <2> QED
    BY <2>2
<1>2. ASSUME NEW m \in Nat, m \in T PROVE m + 1 \in T
  <2>1. PICK F : Upto(F, m)
    BY <1>2
  <2> DEFINE G == [n \in 0 .. Len(s) |-> IF n = m + 1 THEN StackStep(F, s, truth, n) ELSE F[n]]
  <2>2. ASSUME NEW n \in 0 .. Len(s), n <= m + 1
        PROVE  StackStep(G, s, truth, n) = StackStep(F, s, truth, n)
    <3>1. CASE n = 0
      BY <3>1 DEF StackStep
    <3>2. CASE n # 0
      <4>1. n - 1 \in 0 .. Len(s) /\ n - 1 # m + 1
        BY <1>0, <2>2, <3>2
      <4>2. G[n - 1] = F[n - 1]
        BY <4>1
      <4> QED
        BY <4>2 DEF StackStep
    <3> QED
      BY <3>1, <3>2
  <2>3. ASSUME NEW n \in 0 .. Len(s)
        PROVE  G[n] = IF n <= m + 1 THEN StackStep(G, s, truth, n) ELSE 0
    <3>1. CASE n > m + 1
      <4>1. F[n] = 0
        BY <2>1, <3>1
      <4> QED
        BY <3>1, <4>1
    <3>2. CASE n = m + 1
      <4>1. G[n] = StackStep(F, s, truth, n)
        BY <3>2
      <4> HIDE DEF G
      <4> QED
        BY <2>2, <3>2, <4>1
    <3>3. CASE n <= m
      <4>1. F[n] = StackStep(F, s, truth, n) /\ G[n] = F[n]
        BY <2>1, <3>3
      <4>2. n <= m + 1
        BY <3>3
      <4> HIDE DEF G
      <4> QED
        BY <2>2, <4>1, <4>2
    <3> QED
      BY <3>1, <3>2, <3>3
  <2>4. Upto(G, m + 1)
    BY <2>3
  <2> HIDE DEF G
  <2> QED
    BY <2>4
<1>3. Len(s) \in T
  <2> HIDE DEF T
  <2> QED
    BY <1>0, <1>1, <1>2, NatInd
<1>4. PICK F : Upto(F, Len(s))
  BY <1>3
<1>5. IsStack(F, s, truth)
  BY <1>0, <1>4 DEF IsStack
<1> QED
  BY <1>5

LEMMA ReadingIs ==
  ASSUME NEW s \in Seq(Tokens), NEW truth
  PROVE  \E R : /\ R[0] = <<NewFrame>>
                /\ \A i \in 1 .. Len(s) : R[i] = Read(R[i - 1], s[i], truth[i])
                /\ Reading(s, truth) = R[Len(s)][1].acc
<1>1. Reading(s, truth) = (CHOOSE F : IsStack(F, s, truth))[Len(s)][1].acc
  BY DEF Reading, IsStack, StackStep
<1>2. PICK R : IsStack(R, s, truth) /\ Reading(s, truth) = R[Len(s)][1].acc
  BY <1>1, StackExists
<1>3. Len(s) \in Nat /\ \A n \in 0 .. Len(s) : R[n] = StackStep(R, s, truth, n)
  BY <1>2 DEF IsStack
<1>4. R[0] = <<NewFrame>>
  BY <1>3 DEF StackStep
<1>5. ASSUME NEW i \in 1 .. Len(s) PROVE R[i] = Read(R[i - 1], s[i], truth[i])
  <2>1. i \in 0 .. Len(s) /\ i # 0
    BY <1>3
  <2> QED
    BY <1>3, <2>1 DEF StackStep
<1> QED
  BY <1>2, <1>4, <1>5

-----------------------------------------------------------------------------
(* The meaning of a filter                                                 *)

Frames == [acc : BOOLEAN, op : {"or", "and"}, neg : BOOLEAN]

\* What is left alone by each of a number of steps is the same after them.
LEMMA Unmoved ==
  ASSUME NEW F, NEW a \in Nat, NEW b \in Nat, a <= b, \A i \in a + 1 .. b : F[i] = F[i - 1]
  PROVE  \A i \in a .. b : F[i] = F[a]
<1> DEFINE T == {k \in Nat : a + k <= b => F[a + k] = F[a]}
<1>1. 0 \in T
  OBVIOUS
<1>2. ASSUME NEW k \in Nat, k \in T PROVE k + 1 \in T
  <2> SUFFICES ASSUME a + (k + 1) <= b PROVE F[a + (k + 1)] = F[a]
    OBVIOUS
  <2>1. a + (k + 1) \in a + 1 .. b /\ a + (k + 1) - 1 = a + k /\ a + k <= b
    OBVIOUS
  <2> QED
    BY <1>2, <2>1
<1>3. \A k \in Nat : k \in T
  <2> HIDE DEF T
  <2> QED
    BY <1>1, <1>2, NatInd
<1>4. ASSUME NEW i \in a .. b PROVE F[i] = F[a]
  <2>1. i - a \in Nat /\ a + (i - a) = i /\ i <= b
    OBVIOUS
  <2> QED
    BY <1>3, <2>1
<1> QED
  BY <1>4

LEMMA FrameFacts ==
  /\ \A acc \in BOOLEAN, op \in {"or", "and"}, neg \in BOOLEAN :
       /\ Frame(acc, op, neg) \in Frames /\ Frame(acc, op, neg).acc = acc
       /\ Frame(acc, op, neg).op = op /\ Frame(acc, op, neg).neg = neg
  /\ NewFrame \in Frames /\ NewFrame.acc = FALSE /\ NewFrame.op = "or" /\ NewFrame.neg = FALSE
BY DEF Frame, Frames, NewFrame

LEMMA FeedFacts ==
  ASSUME NEW fr \in Frames, NEW v \in BOOLEAN
  PROVE  /\ fr.acc \in BOOLEAN /\ fr.op \in {"or", "and"} /\ fr.neg \in BOOLEAN
         /\ fr.neg = FALSE => Feed(fr, v) = Frame(Join(fr.op, fr.acc, v), "or", FALSE)
         /\ fr.neg = TRUE => Feed(fr, v) = Frame(Join(fr.op, fr.acc, ~v), "or", FALSE)
         /\ Feed(fr, v) \in Frames /\ Feed(fr, v).neg = FALSE
<1>1. fr.acc \in BOOLEAN /\ fr.op \in {"or", "and"} /\ fr.neg \in BOOLEAN
  BY DEF Frames
<1>2. fr.neg = FALSE => Feed(fr, v) = Frame(Join(fr.op, fr.acc, v), "or", FALSE)
  BY DEF Feed, Join
<1>3. fr.neg = TRUE => Feed(fr, v) = Frame(Join(fr.op, fr.acc, ~v), "or", FALSE)
  BY DEF Feed, Join
<1>4. Join(fr.op, fr.acc, v) \in BOOLEAN /\ Join(fr.op, fr.acc, ~v) \in BOOLEAN
  BY <1>1, JoinFacts
<1>5. Frame(Join(fr.op, fr.acc, v), "or", FALSE) \in Frames
      /\ Frame(Join(fr.op, fr.acc, v), "or", FALSE).neg = FALSE
  BY <1>4, FrameFacts
<1>6. Frame(Join(fr.op, fr.acc, ~v), "or", FALSE) \in Frames
      /\ Frame(Join(fr.op, fr.acc, ~v), "or", FALSE).neg = FALSE
  BY <1>4, FrameFacts
<1>7. fr.neg = TRUE \/ fr.neg = FALSE
  BY <1>1
<1> QED
  BY <1>1, <1>2, <1>3, <1>5, <1>6, <1>7, Zenon

LEMMA FeedNew ==
  ASSUME NEW v \in BOOLEAN
  PROVE  Feed(NewFrame, v).acc = v /\ NewFrame \in Frames /\ NewFrame.neg = FALSE
<1>1. /\ NewFrame \in Frames /\ NewFrame.acc = FALSE
      /\ NewFrame.op = "or" /\ NewFrame.neg = FALSE
  BY FrameFacts
<1>2. Feed(NewFrame, v) = Frame(Join("or", FALSE, v), "or", FALSE)
  BY <1>1, FeedFacts
<1>3. Join("or", FALSE, v) = v
  BY DEF Join
<1>4. Frame(v, "or", FALSE).acc = v
  BY FrameFacts
<1> QED
  BY <1>1, <1>2, <1>3, <1>4

\* What each word does to a stack.
LEMMA ReadWord ==
  ASSUME NEW st \in Seq(Frames), NEW fr \in Frames, NEW u
  PROVE  /\ Read(Append(st, fr), "x", u) = Append(st, Feed(fr, u))
         /\ Read(Append(st, fr), "and", u) = Append(st, Frame(fr.acc, "and", fr.neg))
         /\ Read(Append(st, fr), "or", u) = Append(st, Frame(fr.acc, "or", fr.neg))
         /\ Read(Append(st, fr), "not", u) = Append(st, Frame(fr.acc, fr.op, TRUE))
<1> DEFINE stack == Append(st, fr)
<1>1. Front(stack) = st /\ Last(stack) = fr
  BY FrontLast
<1> HIDE DEF stack
<1>2. Read(stack, "x", u) = Append(st, Feed(fr, u))
  BY <1>1 DEF Read
<1>3. /\ Read(stack, "and", u) = Append(st, Frame(fr.acc, "and", fr.neg))
      /\ Read(stack, "or", u) = Append(st, Frame(fr.acc, "or", fr.neg))
  BY <1>1 DEF Read
<1>4. Read(stack, "not", u) = Append(st, Frame(fr.acc, fr.op, TRUE))
  BY <1>1 DEF Read
<1> QED
  BY <1>2, <1>3, <1>4 DEF stack

LEMMA ReadOpen ==
  ASSUME NEW stack, NEW u
  PROVE  Read(stack, "open", u) = Append(stack, NewFrame)
BY DEF Read

LEMMA ReadClose ==
  ASSUME NEW st \in Seq(Frames), NEW fr \in Frames, NEW top \in Frames, NEW u
  PROVE  Read(Append(Append(st, fr), top), "close", u) = Append(st, Feed(fr, top.acc))
<1> DEFINE stack == Append(st, fr)
           whole == Append(stack, top)
<1>1. stack \in Seq(Frames) /\ Front(stack) = st /\ Last(stack) = fr
  BY FrontLast
<1> HIDE DEF stack
<1>2. Front(whole) = stack /\ Last(whole) = top
  BY <1>1, FrontLast
<1> HIDE DEF whole
<1>3. Read(whole, "close", u) = Append(st, Feed(fr, top.acc))
  BY <1>1, <1>2 DEF Read
<1> QED
  BY <1>3 DEF whole, stack

\* R[i] is the stack after i tokens.
IsReading(R, s, truth) == \A i \in 1 .. Len(s) : R[i] = Read(R[i - 1], s[i], truth[i])

\* The tokens from p to n - 1 feed v to the frame on top, for some values of its neg.
Reads(R, p, n, v, negs) ==
  \A st \in Seq(Frames), fr \in Frames :
    fr.neg \in negs /\ R[p - 1] = Append(st, fr) => R[n - 1] = Append(st, Feed(fr, v))

\* They mean the same as e.
Means(R, truth, p, n, e, negs) ==
  /\ e \in Seq(Nodes)
  /\ \E v \in BOOLEAN : Pushes(e, truth, v) /\ Reads(R, p, n, v, negs)

\* What logic() makes of them means the same: the first atom, and the rest.
LogicReads(R, p, n, v, m) ==
  \A st \in Seq(Frames), fr \in Frames :
    fr.neg = FALSE /\ R[p - 1] = Append(st, fr) =>
      R[n - 1] = Append(st, Frame(m[Feed(fr, v).acc], "or", FALSE))
LogicMeans(R, truth, p, e) ==
  /\ e.first \in Seq(Nodes) /\ e.rest \in Seq(Nodes)
  /\ \E v \in BOOLEAN, m \in [BOOLEAN -> BOOLEAN] :
       /\ Pushes(e.first, truth, v) /\ Maps(e.rest, truth, m)
       /\ LogicReads(R, p, e.next, v, m)

\* Blanks are not read.
LEMMA SkipReads ==
  ASSUME NEW s \in Seq(Tokens), NEW truth, NEW R, IsReading(R, s, truth),
         NEW p \in 1 .. Len(s) + 1
  PROVE  R[Skip(s, p) - 1] = R[p - 1]
<1> DEFINE q == Skip(s, p)
<1>0. Len(s) \in Nat /\ p \in Nat /\ 1 <= p
  BY LineFacts
<1>1. q \in p .. Len(s) + 1 /\ \A i \in p .. q - 1 : s[i] = "blank"
  BY SkipFacts
<1> HIDE DEF q
<1>2. p - 1 \in Nat /\ q - 1 \in Nat /\ p - 1 <= q - 1 /\ q - 1 \in p - 1 .. q - 1
  BY <1>0, <1>1
<1>3. ASSUME NEW i \in p - 1 + 1 .. q - 1 PROVE R[i] = R[i - 1]
  <2>1. i \in p .. q - 1 /\ i \in 1 .. Len(s)
    BY <1>0, <1>1
  <2>2. R[i] = Read(R[i - 1], "blank", truth[i])
    BY <1>1, <2>1 DEF IsReading
  <2> QED
    BY <2>2 DEF Read
<1>4. R[q - 1] = R[p - 1]
  BY <1>2, <1>3, Unmoved
<1> QED
  BY <1>4 DEF q

\* The operands of s have values.
Valued(s, truth) == \A i \in 1 .. Len(s) : s[i] = "x" => truth[i] \in BOOLEAN

LEMMA OperandMeans ==
  ASSUME NEW s \in Seq(Tokens), NEW truth, Valued(s, truth), NEW R, IsReading(R, s, truth),
         NEW p \in 1 .. Len(s) + 1, NEW n, NEW e, OperandAt(s, p, n, e)
  PROVE  Means(R, truth, p, n, e, BOOLEAN)
<1>0. Len(s) \in Nat /\ p \in Nat /\ 1 <= p
  BY LineFacts
<1>1. PICK q \in p .. Len(s) : /\ q = Skip(s, p) /\ s[q] = "x"
                               /\ n = Skip(s, q + 1) /\ e = Operand(q)
  BY DEF OperandAt
<1>2. q \in 1 .. Len(s) /\ q + 1 \in 1 .. Len(s) + 1 /\ q \in Nat /\ q + 1 - 1 = q
  BY <1>0, <1>1
<1>3. truth[q] \in BOOLEAN
  BY <1>1, <1>2 DEF Valued
<1>4. e \in Seq(Nodes) /\ Pushes(e, truth, truth[q])
  BY <1>1, <1>2, OperandPushes
<1>5. R[q - 1] = R[p - 1] /\ R[n - 1] = R[q]
  <2>1. R[Skip(s, p) - 1] = R[p - 1]
    BY SkipReads
  <2>2. R[Skip(s, q + 1) - 1] = R[q + 1 - 1]
    BY <1>2, SkipReads
  <2> QED
    BY <1>1, <1>2, <2>1, <2>2
<1>6. R[q] = Read(R[q - 1], "x", truth[q])
  BY <1>1, <1>2 DEF IsReading
<1>7. Reads(R, p, n, truth[q], BOOLEAN)
  <2> SUFFICES ASSUME NEW st \in Seq(Frames), NEW fr \in Frames, R[p - 1] = Append(st, fr)
               PROVE  R[n - 1] = Append(st, Feed(fr, truth[q]))
    BY DEF Reads
  <2>1. Read(Append(st, fr), "x", truth[q]) = Append(st, Feed(fr, truth[q]))
    BY ReadWord
  <2> QED
    BY <1>5, <1>6, <2>1
<1> QED
  BY <1>3, <1>4, <1>7 DEF Means

LEMMA GroupMeans ==
  ASSUME NEW s \in Seq(Tokens), NEW truth, NEW R, IsReading(R, s, truth),
         NEW L, NEW p \in 1 .. Len(s) + 1, Advances(s, L, p + 1),
         \A q \in p + 1 .. Len(s) + 1 : L[q].ok => LogicMeans(R, truth, q, L[q]),
         NEW n, NEW e, GroupAt(s, L, p, n, e)
  PROVE  Means(R, truth, p, n, e, BOOLEAN)
<1>0. Len(s) \in Nat /\ p \in Nat /\ 1 <= p
  BY LineFacts
<1>1. PICK q \in p + 1 .. Len(s) + 1, c \in p + 1 .. Len(s) + 1 :
        /\ p <= Len(s) /\ s[p] = "open" /\ q = Skip(s, p + 1)
        /\ L[q].ok /\ c = Skip(s, L[q].next) /\ c <= Len(s) /\ s[c] = "close"
        /\ n = c + 1 /\ e = L[q].first \o L[q].rest
  BY DEF GroupAt
<1>2. /\ p \in 1 .. Len(s) /\ c \in 1 .. Len(s) /\ p + 1 \in 1 .. Len(s) + 1
      /\ p + 1 - 1 = p /\ n - 1 = c
  BY <1>0, <1>1
<1>3. L[q].next \in 1 .. Len(s) + 1
  <2>1. L[q].next \in q + 1 .. Len(s) + 1
    BY <1>1 DEF Advances
  <2> QED
    BY <1>0, <1>1, <2>1
<1>4. /\ L[q].first \in Seq(Nodes) /\ L[q].rest \in Seq(Nodes)
      /\ \E v \in BOOLEAN, m \in [BOOLEAN -> BOOLEAN] :
           /\ Pushes(L[q].first, truth, v) /\ Maps(L[q].rest, truth, m)
           /\ LogicReads(R, q, L[q].next, v, m)
  BY <1>1 DEF LogicMeans
<1>5. PICK v \in BOOLEAN, m \in [BOOLEAN -> BOOLEAN] :
        /\ Pushes(L[q].first, truth, v) /\ Maps(L[q].rest, truth, m)
        /\ LogicReads(R, q, L[q].next, v, m)
  BY <1>4
<1>6. e \in Seq(Nodes) /\ Pushes(e, truth, m[v]) /\ m[v] \in BOOLEAN
  <2>1. /\ L[q].first \o L[q].rest \in Seq(Nodes)
        /\ Pushes(L[q].first \o L[q].rest, truth, m[v])
    BY <1>4, <1>5, WholePushes
  <2>2. m[v] \in BOOLEAN
    OBVIOUS
  <2> QED
    BY <1>1, <2>1, <2>2
<1>7. R[q - 1] = R[p] /\ R[c - 1] = R[L[q].next - 1]
  <2>1. R[Skip(s, p + 1) - 1] = R[p + 1 - 1]
    BY <1>2, SkipReads
  <2>2. R[Skip(s, L[q].next) - 1] = R[L[q].next - 1]
    BY <1>3, SkipReads
  <2> QED
    BY <1>1, <1>2, <2>1, <2>2
<1>8. R[p] = Read(R[p - 1], "open", truth[p]) /\ R[c] = Read(R[c - 1], "close", truth[c])
  BY <1>1, <1>2 DEF IsReading
<1>9. Feed(NewFrame, v).acc = v /\ NewFrame \in Frames /\ NewFrame.neg = FALSE
  BY FeedNew
<1>10. Reads(R, p, n, m[v], BOOLEAN)
  <2> SUFFICES ASSUME NEW st \in Seq(Frames), NEW fr \in Frames, R[p - 1] = Append(st, fr)
               PROVE  R[n - 1] = Append(st, Feed(fr, m[v]))
    BY DEF Reads
  <2> DEFINE stack == Append(st, fr)
             top == Frame(m[v], "or", FALSE)
  <2>1. stack \in Seq(Frames) /\ R[p] = Append(stack, NewFrame)
    <3>1. R[p] = Read(stack, "open", truth[p])
      BY <1>8
    <3>2. stack \in Seq(Frames)
      BY FrontLast
    <3> QED
      BY <3>1, <3>2, ReadOpen
  <2>2. R[q - 1] = Append(stack, NewFrame)
    BY <1>7, <2>1
  <2>3. top \in Frames /\ top.acc = m[v]
    BY <1>6, FrameFacts
  <2> HIDE DEF stack
  <2>4. R[L[q].next - 1] = Append(stack, top)
    BY <1>5, <1>9, <2>1, <2>2 DEF LogicReads
  <2>5. R[c] = Read(Append(stack, top), "close", truth[c])
    BY <1>7, <1>8, <2>4
  <2> HIDE DEF top
  <2>6. Read(Append(stack, top), "close", truth[c]) = Append(st, Feed(fr, top.acc))
    BY <2>3, ReadClose DEF stack
  <2> QED
    BY <1>2, <2>3, <2>5, <2>6
<1> QED
  BY <1>6, <1>10 DEF Means

LEMMA NotMeans ==
  ASSUME NEW s \in Seq(Tokens), NEW truth, Valued(s, truth), NEW R, IsReading(R, s, truth),
         NEW L, NEW p \in 1 .. Len(s) + 1, Advances(s, L, p + 1),
         \A q \in p + 1 .. Len(s) + 1 : L[q].ok => LogicMeans(R, truth, q, L[q]),
         NEW n, NEW e, NotAt(s, L, p, n, e)
  PROVE  Means(R, truth, p, n, e, {FALSE})
<1>0. Len(s) \in Nat /\ p \in Nat /\ 1 <= p
  BY LineFacts
<1>1. PICK q \in p + 1 .. Len(s) + 1, k \in p + 1 .. Len(s) + 1 : \E f :
        /\ p <= Len(s) /\ s[p] = "not" /\ q = Skip(s, p + 1)
        /\ OperandAt(s, q, k, f) \/ GroupAt(s, L, q, k, f)
        /\ n = Skip(s, k) /\ e = Not(f, p)
  BY DEF NotAt
<1>2. PICK f :
        /\ p <= Len(s) /\ s[p] = "not" /\ q = Skip(s, p + 1)
        /\ OperandAt(s, q, k, f) \/ GroupAt(s, L, q, k, f)
        /\ n = Skip(s, k) /\ e = Not(f, p)
  BY <1>1
<1>3. /\ p \in 1 .. Len(s) /\ p + 1 \in 1 .. Len(s) + 1 /\ p + 1 - 1 = p
      /\ q \in 1 .. Len(s) + 1 /\ k \in 1 .. Len(s) + 1
      /\ \A r \in q + 1 .. Len(s) + 1 : r \in p + 1 .. Len(s) + 1
  BY <1>0, <1>2
<1>4. Means(R, truth, q, k, f, BOOLEAN)
  <2>1. CASE OperandAt(s, q, k, f)
    BY <1>3, <2>1, OperandMeans
  <2>2. CASE GroupAt(s, L, q, k, f)
    <3>1. Advances(s, L, q + 1)
      BY <1>3 DEF Advances
    <3>2. \A r \in q + 1 .. Len(s) + 1 : L[r].ok => LogicMeans(R, truth, r, L[r])
      BY <1>3
    <3> QED
      BY <1>3, <2>2, <3>1, <3>2, GroupMeans
  <2> QED
    BY <1>2, <2>1, <2>2
<1>5. PICK v \in BOOLEAN : Pushes(f, truth, v) /\ Reads(R, q, k, v, BOOLEAN)
  BY <1>4 DEF Means
<1>6. e \in Seq(Nodes) /\ Pushes(e, truth, ~v)
  BY <1>0, <1>2, <1>4, <1>5, NotPushes DEF Means
<1>7. R[q - 1] = R[p] /\ R[n - 1] = R[k - 1]
  <2>1. R[Skip(s, p + 1) - 1] = R[p + 1 - 1]
    BY <1>3, SkipReads
  <2>2. R[Skip(s, k) - 1] = R[k - 1]
    BY <1>3, SkipReads
  <2> QED
    BY <1>2, <1>3, <2>1, <2>2
<1>8. R[p] = Read(R[p - 1], "not", truth[p])
  BY <1>2, <1>3 DEF IsReading
<1>9. Reads(R, p, n, ~v, {FALSE})
  <2> SUFFICES ASSUME NEW st \in Seq(Frames), NEW fr \in Frames,
                      fr.neg = FALSE, R[p - 1] = Append(st, fr)
               PROVE  R[n - 1] = Append(st, Feed(fr, ~v))
    BY DEF Reads
  <2> DEFINE g == Frame(fr.acc, fr.op, TRUE)
  <2>1. fr.acc \in BOOLEAN /\ fr.op \in {"or", "and"} /\ (~v) \in BOOLEAN
    BY FeedFacts
  <2>2. g \in Frames /\ g.acc = fr.acc /\ g.op = fr.op /\ g.neg = TRUE
    BY <2>1 DEF Frame, Frames
  <2>3. R[q - 1] = Append(st, g)
    <3>1. Read(Append(st, fr), "not", truth[p]) = Append(st, g)
      BY ReadWord
    <3> QED
      BY <1>7, <1>8, <3>1
  <2> HIDE DEF g
  <2>4. R[k - 1] = Append(st, Feed(g, v))
    BY <1>5, <2>2, <2>3 DEF Reads
  <2>5. Feed(g, v) = Frame(Join(fr.op, fr.acc, ~v), "or", FALSE)
    BY <2>2, FeedFacts
  <2>6. Feed(fr, ~v) = Frame(Join(fr.op, fr.acc, ~v), "or", FALSE)
    BY <2>1, FeedFacts
  <2> QED
    BY <1>7, <2>4, <2>5, <2>6
<1>10. (~v) \in BOOLEAN
  OBVIOUS
<1> QED
  BY <1>6, <1>9, <1>10 DEF Means

LEMMA AtomMeans ==
  ASSUME NEW s \in Seq(Tokens), NEW truth, Valued(s, truth), NEW R, IsReading(R, s, truth),
         NEW L, NEW p \in 1 .. Len(s) + 1, Advances(s, L, p + 1),
         \A q \in p + 1 .. Len(s) + 1 : L[q].ok => LogicMeans(R, truth, q, L[q]),
         NEW n, NEW e, AtomAt(s, L, p, n, e)
  PROVE  Means(R, truth, p, n, e, {FALSE})
<1>1. Means(R, truth, p, n, e, BOOLEAN) => Means(R, truth, p, n, e, {FALSE})
  BY DEF Means, Reads
<1>2. CASE NotAt(s, L, p, n, e)
  BY <1>2, NotMeans
<1>3. CASE OperandAt(s, p, n, e)
  BY <1>1, <1>3, OperandMeans
<1>4. CASE GroupAt(s, L, p, n, e)
  BY <1>1, <1>4, GroupMeans
<1> QED
  BY <1>2, <1>3, <1>4 DEF AtomAt

\* After an atom, the frame on top is Frame(acc, "or", FALSE).
LEMMA FedFrame ==
  ASSUME NEW fr \in Frames, NEW v \in BOOLEAN
  PROVE  /\ Feed(fr, v).acc \in BOOLEAN
         /\ Feed(fr, v) = Frame(Feed(fr, v).acc, "or", FALSE)
<1>1. fr.acc \in BOOLEAN /\ fr.op \in {"or", "and"} /\ fr.neg \in BOOLEAN
  BY FeedFacts
<1>2. PICK u \in BOOLEAN : Feed(fr, v) = Frame(Join(fr.op, fr.acc, u), "or", FALSE)
  <2>1. (~v) \in BOOLEAN
    OBVIOUS
  <2>2. fr.neg = TRUE \/ fr.neg = FALSE
    BY <1>1
  <2> QED
    BY <2>1, <2>2, FeedFacts
<1>3. Join(fr.op, fr.acc, u) \in BOOLEAN
  BY <1>1, JoinFacts
<1>4. Frame(Join(fr.op, fr.acc, u), "or", FALSE).acc = Join(fr.op, fr.acc, u)
  BY <1>3, FrameFacts
<1> QED
  BY <1>2, <1>3, <1>4

LEMMA EndMeans ==
  ASSUME NEW R, NEW truth, NEW p \in Nat, NEW e, e.rest = <<>>,
         Means(R, truth, p, e.next, e.first, {FALSE})
  PROVE  LogicMeans(R, truth, p, e)
<1>1. PICK v \in BOOLEAN :
        Pushes(e.first, truth, v) /\ Reads(R, p, e.next, v, {FALSE})
  BY DEF Means
<1>2. /\ <<>> \in Seq(Nodes) /\ Same \in [BOOLEAN -> BOOLEAN]
      /\ Maps(<<>>, truth, Same) /\ \A b \in BOOLEAN : Same[b] = b
  BY EmptyMaps DEF Same
<1>3. LogicReads(R, p, e.next, v, Same)
  <2> SUFFICES ASSUME NEW st \in Seq(Frames), NEW fr \in Frames,
                      fr.neg = FALSE, R[p - 1] = Append(st, fr)
               PROVE  R[e.next - 1] = Append(st, Frame(Same[Feed(fr, v).acc], "or", FALSE))
    BY DEF LogicReads
  <2>1. R[e.next - 1] = Append(st, Feed(fr, v))
    BY <1>1 DEF Reads
  <2>2. Feed(fr, v) = Frame(Same[Feed(fr, v).acc], "or", FALSE)
    BY <1>2, FedFrame
  <2> QED
    BY <2>1, <2>2
<1>4. e.first \in Seq(Nodes)
  BY DEF Means
<1> QED
  BY <1>1, <1>2, <1>3, <1>4 DEF LogicMeans

LEMMA ChainMeans ==
  ASSUME NEW s \in Seq(Tokens), NEW truth, NEW R, IsReading(R, s, truth),
         NEW L, NEW p \in 1 .. Len(s) + 1, Advances(s, L, p + 1),
         \A q \in p + 1 .. Len(s) + 1 : L[q].ok => LogicMeans(R, truth, q, L[q]),
         NEW n \in p + 1 .. Len(s) + 1, NEW e, Means(R, truth, p, n, e.first, {FALSE}),
         ChainAt(s, L, n, e.next, e.rest)
  PROVE  LogicMeans(R, truth, p, e)
<1>0. Len(s) \in Nat /\ p \in Nat /\ 1 <= p /\ n \in 1 .. Len(s) + 1
  BY LineFacts
<1>1. PICK v \in BOOLEAN : Pushes(e.first, truth, v) /\ Reads(R, p, n, v, {FALSE})
  BY DEF Means
<1>2. PICK o \in n .. Len(s) + 1, q \in n .. Len(s) + 1 :
        /\ o = Skip(s, n) /\ o <= Len(s) /\ s[o] \in {"or", "and"}
        /\ q = Skip(s, o + 1) /\ o < q
        /\ L[q].ok /\ e.next = L[q].next
        /\ e.rest = L[q].first \o <<Node(s[o], o)>> \o L[q].rest
  BY DEF ChainAt
<1>3. /\ o \in 1 .. Len(s) /\ o \in Nat /\ o + 1 \in 1 .. Len(s) + 1 /\ o + 1 - 1 = o
      /\ q \in p + 1 .. Len(s) + 1
  BY <1>0, <1>2
<1>4. /\ L[q].first \in Seq(Nodes) /\ L[q].rest \in Seq(Nodes)
      /\ \E w \in BOOLEAN, h \in [BOOLEAN -> BOOLEAN] :
           /\ Pushes(L[q].first, truth, w) /\ Maps(L[q].rest, truth, h)
           /\ LogicReads(R, q, L[q].next, w, h)
  BY <1>2, <1>3 DEF LogicMeans
<1>5. PICK w \in BOOLEAN, h \in [BOOLEAN -> BOOLEAN] :
        /\ Pushes(L[q].first, truth, w) /\ Maps(L[q].rest, truth, h)
        /\ LogicReads(R, q, L[q].next, w, h)
  BY <1>4
<1> DEFINE op == s[o]
           m == JoinMap(op, w, h)
<1>a. op \in {"or", "and"} /\ e.rest = L[q].first \o <<Node(op, o)>> \o L[q].rest
  BY <1>2
<1> HIDE DEF op
<1>6. e.rest \in Seq(Nodes) /\ Maps(e.rest, truth, m)
  <2> DEFINE f == L[q].first
             r == L[q].rest
  <2>1. f \in Seq(Nodes) /\ r \in Seq(Nodes) /\ Pushes(f, truth, w) /\ Maps(r, truth, h)
    BY <1>4, <1>5
  <2> HIDE DEF f, r
  <2>2. /\ f \o <<Node(op, o)>> \o r \in Seq(Nodes)
        /\ Maps(f \o <<Node(op, o)>> \o r, truth, JoinMap(op, w, h))
    BY <1>a, <1>3, <2>1, ChainMaps
  <2> QED
    BY <1>a, <2>2 DEF f, r
<1>7. m \in [BOOLEAN -> BOOLEAN] /\ \A b \in BOOLEAN : m[b] = h[Join(op, b, w)]
  BY <1>a, JoinMapFacts
<1> HIDE DEF m
<1>8. R[o - 1] = R[n - 1] /\ R[q - 1] = R[o]
  <2>1. R[Skip(s, n) - 1] = R[n - 1]
    BY <1>0, SkipReads
  <2>2. R[Skip(s, o + 1) - 1] = R[o + 1 - 1]
    BY <1>3, SkipReads
  <2> QED
    BY <1>2, <1>3, <2>1, <2>2
<1>9. R[o] = Read(R[o - 1], op, truth[o])
  BY <1>3 DEF IsReading, op
<1>10. LogicReads(R, p, e.next, v, m)
  <2> SUFFICES ASSUME NEW st \in Seq(Frames), NEW fr \in Frames,
                      fr.neg = FALSE, R[p - 1] = Append(st, fr)
               PROVE  R[e.next - 1] = Append(st, Frame(m[Feed(fr, v).acc], "or", FALSE))
    BY DEF LogicReads
  <2> DEFINE b == Feed(fr, v).acc
             f == Frame(b, "or", FALSE)
             g == Frame(b, op, FALSE)
  <2>1. R[n - 1] = Append(st, Feed(fr, v))
    BY <1>1 DEF Reads
  <2>2. b \in BOOLEAN /\ Feed(fr, v) = f
    BY FedFrame
  <2> HIDE DEF b
  <2>3. f \in Frames /\ f.acc = b /\ f.neg = FALSE
    BY <2>2, FrameFacts
  <2>a. g \in Frames /\ g.acc = b /\ g.op = op /\ g.neg = FALSE
    BY <1>a, <2>2, FrameFacts
  <2> HIDE DEF f
  <2>4. Read(Append(st, f), op, truth[o]) = Append(st, g)
    <3>1. CASE op = "and"
      <4>1. Read(Append(st, f), "and", truth[o]) = Append(st, Frame(f.acc, "and", f.neg))
        BY <2>3, ReadWord
      <4> QED
        BY <2>3, <3>1, <4>1
    <3>2. CASE op = "or"
      <4>1. Read(Append(st, f), "or", truth[o]) = Append(st, Frame(f.acc, "or", f.neg))
        BY <2>3, ReadWord
      <4> QED
        BY <2>3, <3>2, <4>1
    <3> QED
      BY <1>a, <3>1, <3>2
  <2>5. R[q - 1] = Append(st, g)
    BY <1>8, <1>9, <2>1, <2>2, <2>4
  <2> HIDE DEF g
  <2>6. R[L[q].next - 1] = Append(st, Frame(h[Feed(g, w).acc], "or", FALSE))
    BY <1>5, <2>a, <2>5 DEF LogicReads
  <2>7. Feed(g, w) = Frame(Join(op, b, w), "or", FALSE)
    BY <2>a, FeedFacts
  <2>8. Join(op, b, w) \in BOOLEAN
    BY <1>a, <2>2, JoinFacts
  <2>9. Frame(Join(op, b, w), "or", FALSE).acc = Join(op, b, w)
    BY <2>8, FrameFacts
  <2>10. h[Feed(g, w).acc] = m[b]
    BY <1>7, <2>2, <2>7, <2>9
  <2> QED
    BY <1>2, <2>6, <2>10 DEF b
<1>11. e.first \in Seq(Nodes)
  BY DEF Means
<1> QED
  BY <1>1, <1>6, <1>7, <1>10, <1>11 DEF LogicMeans

LEMMA AllMean ==
  ASSUME NEW s \in Seq(Tokens), NEW truth, Valued(s, truth), NEW R, IsReading(R, s, truth),
         NEW L, IsTable(s, L)
  PROVE  \A p \in 1 .. Len(s) + 1 : L[p].ok => LogicMeans(R, truth, p, L[p])
<1> DEFINE T == {p \in 1 .. Len(s) + 1 : L[p].ok => LogicMeans(R, truth, p, L[p])}
<1>0. Len(s) + 1 \in Nat
  BY LineFacts
<1>1. ASSUME NEW p \in 1 .. Len(s) + 1, \A q \in p + 1 .. Len(s) + 1 : q \in T
      PROVE  p \in T
  <2> SUFFICES ASSUME L[p].ok PROVE LogicMeans(R, truth, p, L[p])
    OBVIOUS
  <2> DEFINE a == Atom(s, L, p)
             e == L[p]
  <2>1. \A q \in p + 1 .. Len(s) + 1 : L[q].ok => LogicMeans(R, truth, q, L[q])
    BY <1>1
  <2>2. Advances(s, L, p + 1) /\ e = LogicRule(s, L, p) /\ p \in Nat
    BY TableFacts, LineFacts
  <2> HIDE DEF e
  <2>3. e.ok
    BY DEF e
  <2>4. /\ a.ok /\ e.first = a.ast
        /\ \/ ChainAt(s, L, a.next, e.next, e.rest)
           \/ e.next = a.next /\ e.rest = <<>>
    BY <2>2, <2>3, LogicIs
  <2>5. AtomAt(s, L, p, a.next, a.ast) /\ a.next \in p + 1 .. Len(s) + 1
    BY <2>2, <2>4, AtomIs
  <2> HIDE DEF a
  <2>6. Means(R, truth, p, a.next, e.first, {FALSE})
    BY <2>1, <2>2, <2>4, <2>5, AtomMeans
  <2>7. CASE ChainAt(s, L, a.next, e.next, e.rest)
    <3>1. LogicMeans(R, truth, p, e)
      BY <2>1, <2>2, <2>5, <2>6, <2>7, ChainMeans
    <3> QED
      BY <3>1 DEF e
  <2>8. CASE e.next = a.next /\ e.rest = <<>>
    <3>1. LogicMeans(R, truth, p, e)
      BY <2>2, <2>6, <2>8, EndMeans
    <3> QED
      BY <3>1 DEF e
  <2> QED
    BY <2>4, <2>7, <2>8
<1>2. \A p \in 1 .. Len(s) + 1 : p \in T
  <2> HIDE DEF T
  <2> QED
    BY <1>0, <1>1, DownInd
<1> QED
  BY <1>2

\* A filter means what its line says when it is read from left to right, for a
\* line of any length.
LEMMA ParseMeans ==
  ASSUME NEW s \in Seq(Tokens), NEW truth, Valued(s, truth), Parse(s).ok
  PROVE  Eval(Parse(s).ast, truth) = Reading(s, truth)
<1> DEFINE L == Logic(s)
           e == L[1]
<1>1. IsTable(s, L)
  BY LogicTable
<1>2. PICK R : /\ R[0] = <<NewFrame>> /\ IsReading(R, s, truth)
               /\ Reading(s, truth) = R[Len(s)][1].acc
  BY ReadingIs DEF IsReading
<1>3. e.ok /\ e.next = Len(s) + 1 /\ Parse(s).ast = e.first \o e.rest
  <2>1. e.ok /\ e.next = Len(s) + 1
    BY DEF Parse, Fail
  <2> QED
    BY <2>1 DEF Parse, Match
<1>4. Len(s) \in Nat /\ 1 \in 1 .. Len(s) + 1
  BY LineFacts
<1> HIDE DEF L
<1>5. LogicMeans(R, truth, 1, e)
  BY <1>1, <1>2, <1>3, <1>4, AllMean
<1> HIDE DEF e
<1>6. PICK v \in BOOLEAN, m \in [BOOLEAN -> BOOLEAN] :
        /\ Pushes(e.first, truth, v) /\ Maps(e.rest, truth, m)
        /\ LogicReads(R, 1, e.next, v, m)
  BY <1>5 DEF LogicMeans
<1>7. e.first \o e.rest \in Seq(Nodes) /\ Pushes(e.first \o e.rest, truth, m[v])
  BY <1>5, <1>6, WholePushes DEF LogicMeans
<1>8. Eval(e.first \o e.rest, truth) = m[v]
  BY <1>7, EvalIs
<1>9. Feed(NewFrame, v).acc = v /\ NewFrame \in Frames /\ NewFrame.neg = FALSE
  BY FeedNew
<1>10. R[Len(s)] = Append(<<>>, Frame(m[v], "or", FALSE))
  <2>1. R[1 - 1] = Append(<<>>, NewFrame) /\ <<>> \in Seq(Frames)
    BY <1>2, EmptySeq
  <2>2. e.next - 1 = Len(s)
    BY <1>3, <1>4
  <2> QED
    BY <1>6, <1>9, <2>1, <2>2 DEF LogicReads
<1>11. R[Len(s)][1].acc = m[v]
  <2>1. m[v] \in BOOLEAN
    OBVIOUS
  <2>2. Frame(m[v], "or", FALSE).acc = m[v]
    BY <2>1, FrameFacts
  <2>3. Append(<<>>, Frame(m[v], "or", FALSE))[1] = Frame(m[v], "or", FALSE)
    OBVIOUS
  <2> QED
    BY <1>10, <2>2, <2>3
<1> QED
  BY <1>2, <1>3, <1>8, <1>11

-----------------------------------------------------------------------------
(* Words in an allowed order                                               *)

Blanks(s, p, n) == \A k \in p .. n - 1 : s[k] = "blank"

\* From p to n - 1, i is the first word and j the last one, and the words are
\* in an allowed order.
Chunk(s, p, n, i, j) ==
  /\ i \in p .. n - 1 /\ j \in p .. n - 1 /\ s[i] # "blank" /\ s[j] # "blank"
  /\ Blanks(s, p, i) /\ Blanks(s, j + 1, n)
  /\ \A a, b \in p .. n - 1 : Adjacent(s, a, b) => Follows(s[a], s[b])

LEMMA ChunkOne ==
  ASSUME NEW s, NEW p \in Nat, s[p] # "blank"
  PROVE  Chunk(s, p, p + 1, p, p)
<1>1. \A a \in p .. p + 1 - 1 : a = p
  OBVIOUS
<1>2. p \in p .. p + 1 - 1 /\ p .. p - 1 = {} /\ p + 1 .. p + 1 - 1 = {}
  OBVIOUS
<1>3. \A a, b \in p .. p + 1 - 1 : ~Adjacent(s, a, b)
  BY <1>1 DEF Adjacent
<1> QED
  BY <1>2, <1>3 DEF Chunk, Blanks

LEMMA ChunkJoin ==
  ASSUME NEW s, NEW p \in Nat, NEW n \in Nat, NEW q \in Nat, NEW m \in Nat, n <= q,
         NEW i, NEW j, NEW k, NEW l, Chunk(s, p, n, i, j), Chunk(s, q, m, k, l),
         Blanks(s, n, q), Follows(s[j], s[k])
  PROVE  Chunk(s, p, m, i, l)
<1>1. /\ i \in p .. n - 1 /\ j \in p .. n - 1 /\ s[i] # "blank" /\ s[j] # "blank"
      /\ k \in q .. m - 1 /\ l \in q .. m - 1 /\ s[k] # "blank" /\ s[l] # "blank"
      /\ Blanks(s, p, i) /\ Blanks(s, l + 1, m)
  BY DEF Chunk
<1>2. i \in Nat /\ j \in Nat /\ k \in Nat /\ l \in Nat /\ i \in p .. m - 1 /\ l \in p .. m - 1
  BY <1>1
<1>3. ASSUME NEW x \in p .. m - 1, s[x] # "blank"
      PROVE  x \in Nat /\ (x \in p .. j \/ x \in k .. m - 1)
  <2>1. x \notin j + 1 .. n - 1
    BY <1>3 DEF Chunk, Blanks
  <2>2. x \notin n .. q - 1
    BY <1>3 DEF Blanks
  <2>3. x \notin q .. k - 1
    BY <1>3 DEF Chunk, Blanks
  <2> QED
    BY <1>1, <1>2, <2>1, <2>2, <2>3
<1>4. ASSUME NEW a \in p .. m - 1, NEW b \in p .. m - 1, Adjacent(s, a, b)
      PROVE  Follows(s[a], s[b])
  <2>1. /\ a < b /\ s[a] # "blank" /\ s[b] # "blank"
        /\ \A x \in a + 1 .. b - 1 : s[x] = "blank"
    BY <1>4 DEF Adjacent
  <2>2. /\ a \in Nat /\ b \in Nat
        /\ a \in p .. j \/ a \in k .. m - 1
        /\ b \in p .. j \/ b \in k .. m - 1
    BY <1>3, <2>1
  <2>3. CASE b \in p .. j
    <3>1. a \in p .. n - 1 /\ b \in p .. n - 1
      BY <1>1, <1>2, <2>1, <2>2, <2>3
    <3> QED
      BY <1>4, <3>1 DEF Chunk
  <2>4. CASE a \in k .. m - 1
    <3>1. a \in q .. m - 1 /\ b \in q .. m - 1
      BY <1>1, <1>2, <2>1, <2>2, <2>4
    <3> QED
      BY <1>4, <3>1 DEF Chunk
  <2>5. CASE a \in p .. j /\ b \in k .. m - 1
    <3>1. j \notin a + 1 .. b - 1 /\ k \notin a + 1 .. b - 1
      BY <1>1, <2>1
    <3>2. a = j /\ b = k
      BY <1>1, <1>2, <2>2, <2>5, <3>1
    <3> QED
      BY <3>2
  <2> QED
    BY <2>2, <2>3, <2>4, <2>5
<1> QED
  BY <1>1, <1>2, <1>4 DEF Chunk

\* Blanks behind and in front change nothing.
LEMMA ChunkBlanks ==
  ASSUME NEW s, NEW o \in Nat, NEW p \in Nat, NEW n \in Nat, NEW m \in Nat, o <= p, n <= m,
         NEW i, NEW j, Chunk(s, p, n, i, j), Blanks(s, o, p), Blanks(s, n, m)
  PROVE  Chunk(s, o, m, i, j)
<1>1. /\ i \in p .. n - 1 /\ j \in p .. n - 1 /\ s[i] # "blank" /\ s[j] # "blank"
      /\ Blanks(s, p, i) /\ Blanks(s, j + 1, n)
  BY DEF Chunk
<1>2. i \in o .. m - 1 /\ j \in o .. m - 1
  BY <1>1
<1>3. Blanks(s, o, i) /\ Blanks(s, j + 1, m)
  <2>1. \A k \in o .. i - 1 : k \in o .. p - 1 \/ k \in p .. i - 1
    BY <1>1
  <2>2. \A k \in j + 1 .. m - 1 : k \in j + 1 .. n - 1 \/ k \in n .. m - 1
    BY <1>1
  <2> QED
    BY <1>1, <2>1, <2>2 DEF Blanks
<1>4. ASSUME NEW a \in o .. m - 1, NEW b \in o .. m - 1, Adjacent(s, a, b)
      PROVE  Follows(s[a], s[b])
  <2>1. s[a] # "blank" /\ s[b] # "blank"
    BY <1>4 DEF Adjacent
  <2>2. a \notin o .. p - 1 /\ a \notin n .. m - 1 /\ b \notin o .. p - 1 /\ b \notin n .. m - 1
    BY <2>1 DEF Blanks
  <2>3. a \in p .. n - 1 /\ b \in p .. n - 1
    BY <2>2
  <2> QED
    BY <1>4, <2>3 DEF Chunk
<1> QED
  BY <1>1, <1>2, <1>3, <1>4 DEF Chunk

\* From p to n - 1, every parenthesis that is closed is open, and conversely.
Level(d, p, n) == d[n - 1] = d[p - 1] /\ \A k \in p .. n - 1 : d[k] >= d[p - 1]

LEMMA LevelJoin ==
  ASSUME NEW d, NEW p \in Nat, NEW n \in Nat, NEW m \in Nat, p <= n, n <= m,
         Level(d, p, n), Level(d, n, m)
  PROVE  Level(d, p, m)
<1>1. \A k \in p .. m - 1 : k \in p .. n - 1 \/ k \in n .. m - 1
  OBVIOUS
<1> QED
  BY <1>1 DEF Level

\* Tokens that are no parentheses.
LEMMA LevelFlat ==
  ASSUME NEW s \in Seq(Tokens), NEW p \in 1 .. Len(s) + 1, NEW n \in p .. Len(s) + 1,
         \A k \in p .. n - 1 : s[k] \notin {"open", "close"}
  PROVE  Level(Depth(s), p, n) /\ \A k \in p - 1 .. n - 1 : Depth(s)[k] = Depth(s)[p - 1]
<1> DEFINE d == Depth(s)
<1>0. Len(s) \in Nat /\ p \in Nat /\ 1 <= p /\ n \in Nat /\ p <= n
  BY LineFacts
<1>1. /\ \A i \in 0 .. Len(s) : d[i] \in Int
      /\ \A i \in 1 .. Len(s) : s[i] \notin {"open", "close"} => d[i] = d[i - 1]
  BY DepthFacts
<1> HIDE DEF d
<1>2. ASSUME NEW i \in p - 1 + 1 .. n - 1 PROVE d[i] = d[i - 1]
  <2>1. i \in p .. n - 1 /\ i \in 1 .. Len(s)
    BY <1>0
  <2> QED
    BY <1>1, <2>1
<1>3. p - 1 \in Nat /\ n - 1 \in Nat /\ p - 1 <= n - 1
  BY <1>0
<1>4. \A k \in p - 1 .. n - 1 : d[k] = d[p - 1]
  BY <1>2, <1>3, Unmoved
<1>5. d[p - 1] \in Int /\ n - 1 \in p - 1 .. n - 1 /\ \A k \in p .. n - 1 : k \in p - 1 .. n - 1
  BY <1>0, <1>1
<1>6. Level(d, p, n)
  BY <1>4, <1>5 DEF Level
<1> QED
  BY <1>4, <1>6 DEF d

-----------------------------------------------------------------------------
(* What the parser accepts is in the language                              *)

Starters == {"x", "not", "open"}

LEMMA MayFollow ==
  /\ \A a \in {"x", "close"} : \A b \in {"and", "or", "close"} : Follows(a, b)
  /\ \A a \in {"and", "or", "open"} : \A b \in Starters : Follows(a, b)
  /\ \A b \in {"x", "open"} : Follows("not", b)
<1>1. \A a \in {"x", "close"} : \A b \in {"and", "or", "close"} : Follows(a, b)
  BY DEF Follows
<1>2. \A a \in {"and", "or", "open"} : \A b \in Starters : Follows(a, b)
  BY DEF Follows, Starters
<1>3. \A b \in {"x", "open"} : Follows("not", b)
  BY DEF Follows
<1> QED
  BY <1>1, <1>2, <1>3

\* Skipped blanks.
LEMMA SkipBlanks ==
  ASSUME NEW s \in Seq(Tokens), NEW p \in 1 .. Len(s) + 1
  PROVE  /\ Skip(s, p) \in p .. Len(s) + 1 /\ Blanks(s, p, Skip(s, p))
         /\ Level(Depth(s), p, Skip(s, p))
<1> DEFINE q == Skip(s, p)
<1>1. q \in p .. Len(s) + 1 /\ \A k \in p .. q - 1 : s[k] = "blank"
  BY SkipFacts
<1> HIDE DEF q
<1>2. \A k \in p .. q - 1 : s[k] \notin {"open", "close"}
  BY <1>1
<1>3. Level(Depth(s), p, q)
  BY <1>1, <1>2, LevelFlat
<1> QED
  BY <1>1, <1>3 DEF Blanks, q

\* j is the end of a negated group, at the level of what starts at p.
NegEnd(s, d, p, j) ==
  \E u, v \in p .. j :
    /\ Adjacent(s, u, v) /\ s[u] = "not" /\ s[v] = "open" /\ d[u] = d[p - 1]
    /\ \A k \in v .. j - 1 : d[k] > d[p - 1]

\* What an expression looks like, from p to n - 1: a first word, a last one,
\* and blanks in front or behind where a rule takes them.
Phrase(s, d, p, n, i, j) ==
  /\ Chunk(s, p, n, i, j) /\ Level(d, p, n)
  /\ s[i] \in Starters /\ (i > p => s[i] = "x")
  /\ s[j] \in {"x", "close"} /\ (j < n - 1 => s[j] = "x" \/ NegEnd(s, d, p, j))

LEMMA OperandPhrase ==
  ASSUME NEW s \in Seq(Tokens), NEW p \in 1 .. Len(s) + 1, NEW n, NEW e,
         OperandAt(s, p, n, e)
  PROVE  \E i \in p .. n - 1 : Phrase(s, Depth(s), p, n, i, i) /\ s[i] = "x"
<1> DEFINE d == Depth(s)
<1>1. PICK q \in p .. Len(s) : q = Skip(s, p) /\ s[q] = "x" /\ n = Skip(s, q + 1)
  BY DEF OperandAt
<1>2. Len(s) \in Nat /\ p \in Nat /\ q \in Nat /\ 1 <= p /\ p <= q /\ q <= Len(s)
  BY LineFacts
<1>3. n \in q + 1 .. Len(s) + 1 /\ Blanks(s, q + 1, n) /\ Blanks(s, p, q)
  BY <1>1, <1>2, SkipBlanks
<1>4. Chunk(s, q, q + 1, q, q)
  BY <1>1, <1>2, ChunkOne
<1>5. n \in Nat /\ q + 1 \in Nat /\ q + 1 <= n /\ n \in p .. Len(s) + 1 /\ q \in p .. n - 1
  BY <1>2, <1>3
<1>6. Chunk(s, p, n, q, q)
  BY <1>2, <1>3, <1>4, <1>5, ChunkBlanks
<1>7. \A k \in p .. n - 1 : s[k] \notin {"open", "close"}
  <2>1. \A k \in p .. n - 1 : k \in p .. q - 1 \/ k = q \/ k \in q + 1 .. n - 1
    BY <1>2, <1>5
  <2> QED
    BY <1>1, <1>3, <2>1 DEF Blanks
<1>8. Level(d, p, n)
  BY <1>5, <1>7, LevelFlat
<1> QED
  BY <1>1, <1>5, <1>6, <1>8 DEF Phrase, Starters

\* Every later expression is a phrase.
Phrases(s, logic, p) ==
  \A q \in p .. Len(s) + 1 :
    logic[q].ok =>
      \E i, j \in q .. logic[q].next - 1 : Phrase(s, Depth(s), q, logic[q].next, i, j)

LEMMA Above ==
  ASSUME NEW x \in Int, NEW y \in Int, x >= y + 1
  PROVE  x > y
OBVIOUS

LEMMA GroupPhrase ==
  ASSUME NEW s \in Seq(Tokens), NEW L, NEW p \in 1 .. Len(s) + 1, Advances(s, L, p + 1),
         Phrases(s, L, p + 1), NEW n \in p + 1 .. Len(s) + 1, NEW e, GroupAt(s, L, p, n, e)
  PROVE  /\ Phrase(s, Depth(s), p, n, p, n - 1) /\ s[p] = "open" /\ s[n - 1] = "close"
         /\ \A k \in p .. n - 2 : Depth(s)[k] > Depth(s)[p - 1]
<1> DEFINE d == Depth(s)
<1>1. PICK q, c \in p + 1 .. Len(s) + 1 :
        /\ p <= Len(s) /\ s[p] = "open" /\ q = Skip(s, p + 1)
        /\ L[q].ok /\ c = Skip(s, L[q].next) /\ c <= Len(s) /\ s[c] = "close"
        /\ n = c + 1
  BY DEF GroupAt
<1>2. /\ Len(s) \in Nat /\ p \in Nat /\ 1 <= p /\ q \in Nat /\ c \in Nat
      /\ p + 1 \in 1 .. Len(s) + 1 /\ p \in 1 .. Len(s) /\ c \in 1 .. Len(s)
  BY <1>1, LineFacts
<1> DEFINE m == L[q].next
<1>3. m \in q + 1 .. Len(s) + 1
  BY <1>1 DEF Advances
<1>4. PICK i, j \in q .. m - 1 : Phrase(s, d, q, m, i, j)
  BY <1>1 DEF Phrases
<1> HIDE DEF m, d
<1>5. m \in 1 .. Len(s) + 1 /\ m \in Nat /\ i \in Nat /\ j \in Nat
  BY <1>2, <1>3
<1>6. /\ q \in p + 1 .. Len(s) + 1 /\ Blanks(s, p + 1, q) /\ Level(d, p + 1, q)
      /\ c \in m .. Len(s) + 1 /\ Blanks(s, m, c) /\ Level(d, m, c)
  <2>1. q = Skip(s, p + 1) /\ c = Skip(s, m)
    BY <1>1 DEF m
  <2> QED
    BY <1>2, <1>5, <2>1, SkipBlanks DEF d
<1>7. /\ Chunk(s, q, m, i, j) /\ Level(d, q, m)
      /\ Follows(s[p], s[i]) /\ Follows(s[j], s[c])
  <2>1. s[i] \in Starters /\ s[j] \in {"x", "close"}
    BY <1>4 DEF Phrase
  <2>2. Follows(s[p], s[i]) /\ Follows(s[j], s[c])
    BY <1>1, <2>1, MayFollow
  <2> QED
    BY <1>4, <2>2 DEF Phrase
<1>8. Chunk(s, p, p + 1, p, p) /\ Chunk(s, c, c + 1, c, c)
  BY <1>1, <1>2, ChunkOne
<1>9. Chunk(s, p, m, p, j)
  <2>1. p + 1 \in Nat /\ p + 1 <= q
    BY <1>2, <1>6
  <2> QED
    BY <1>2, <1>5, <1>6, <1>7, <1>8, <2>1, ChunkJoin
<1>10. Chunk(s, p, c + 1, p, c)
  <2>1. c + 1 \in Nat /\ m <= c
    BY <1>2, <1>5, <1>6
  <2> QED
    BY <1>2, <1>5, <1>6, <1>7, <1>8, <1>9, <2>1, ChunkJoin
<1>11. Level(d, p + 1, c)
  <2>1. p + 1 \in Nat /\ p + 1 <= q /\ q <= m /\ p + 1 <= m /\ m <= c
    BY <1>2, <1>3, <1>5, <1>6
  <2>2. Level(d, p + 1, m)
    BY <1>2, <1>5, <1>6, <1>7, <2>1, LevelJoin
  <2> QED
    BY <1>2, <1>5, <1>6, <2>1, <2>2, LevelJoin
<1>12. d[p] = d[p - 1] + 1 /\ d[c] = d[c - 1] - 1 /\ \A k \in 0 .. Len(s) : d[k] \in Int
  BY <1>1, <1>2, DepthFacts DEF d
<1>a. d[p] = d[p - 1] + 1
  BY <1>12
<1>13. d[c - 1] = d[p] /\ \A k \in p + 1 .. c - 1 : d[k] >= d[p]
  <2>1. p + 1 - 1 = p
    BY <1>2
  <2> QED
    BY <1>11, <2>1 DEF Level
<1>14. d[p - 1] \in Int /\ d[p] \in Int
  BY <1>2, <1>12
<1>15. ASSUME NEW k \in p .. c - 1 PROVE d[k] > d[p - 1]
  <2>1. k = p \/ k \in p + 1 .. c - 1
    BY <1>2
  <2>2. d[k] \in Int
    BY <1>2, <1>12
  <2>3. d[k] >= d[p]
    BY <1>13, <1>14, <2>1
  <2>4. d[k] >= d[p - 1] + 1
    BY <1>a, <2>3
  <2> QED
    BY <1>14, <2>2, <2>4, Above
<1>16. d[c] = d[p - 1]
  BY <1>12, <1>13, <1>14
<1>17. Level(d, p, c + 1)
  <2>1. c + 1 - 1 = c /\ \A k \in p .. c : k \in p .. c - 1 \/ k = c
    BY <1>2
  <2>2. \A k \in p .. c : d[k] \in Int
    BY <1>2, <1>12
  <2> QED
    BY <1>14, <1>15, <1>16, <2>1, <2>2 DEF Level
<1>b. n = c + 1
  BY <1>1
<1>18. n - 1 = c /\ n - 2 = c - 1 /\ ~(c < c) /\ ~(p > p)
  BY <1>b, <1>2
<1>19. Phrase(s, d, p, n, p, n - 1)
  BY <1>1, <1>10, <1>17, <1>18 DEF Phrase, Starters
<1> QED
  BY <1>1, <1>15, <1>18, <1>19 DEF d

LEMMA GroupEnds ==
  ASSUME NEW s \in Seq(Tokens), NEW L, NEW p \in 1 .. Len(s) + 1, Advances(s, L, p + 1),
         NEW n, NEW e, GroupAt(s, L, p, n, e)
  PROVE  n \in p + 1 .. Len(s) + 1
<1>1. PICK c \in p + 1 .. Len(s) + 1 : c <= Len(s) /\ n = c + 1
  BY DEF GroupAt
<1> QED
  BY <1>1, LineFacts

LEMMA NotPhrase ==
  ASSUME NEW s \in Seq(Tokens), NEW L, NEW p \in 1 .. Len(s) + 1, Advances(s, L, p + 1),
         Phrases(s, L, p + 1), NEW n, NEW e, NotAt(s, L, p, n, e)
  PROVE  \E j \in p .. n - 1 : Phrase(s, Depth(s), p, n, p, j)
<1> DEFINE d == Depth(s)
<1>1. PICK q, m \in p + 1 .. Len(s) + 1 : \E f :
        /\ p <= Len(s) /\ s[p] = "not" /\ q = Skip(s, p + 1)
        /\ OperandAt(s, q, m, f) \/ GroupAt(s, L, q, m, f)
        /\ n = Skip(s, m)
  BY DEF NotAt
<1>2. PICK f : OperandAt(s, q, m, f) \/ GroupAt(s, L, q, m, f)
  BY <1>1
<1>3. /\ Len(s) \in Nat /\ p \in Nat /\ 1 <= p /\ p <= Len(s) /\ q \in Nat /\ m \in Nat
      /\ p + 1 \in 1 .. Len(s) + 1 /\ p \in 1 .. Len(s)
      /\ q \in 1 .. Len(s) + 1 /\ m \in 1 .. Len(s) + 1
  BY <1>1, LineFacts
<1>4. /\ q \in p + 1 .. Len(s) + 1 /\ Blanks(s, p + 1, q) /\ Level(d, p + 1, q)
      /\ n \in m .. Len(s) + 1 /\ Blanks(s, m, n) /\ Level(d, m, n)
  BY <1>1, <1>3, SkipBlanks
<1>5. n \in Nat /\ m <= n /\ p + 1 <= q /\ p + 1 \in Nat
  BY <1>3, <1>4
\* The depth does not change before the operand.
<1>6. d[p] = d[p - 1] /\ d[q - 1] = d[p] /\ \A k \in 0 .. Len(s) : d[k] \in Int
  <2>1. d[p] = d[p - 1] /\ \A k \in 0 .. Len(s) : d[k] \in Int
    BY <1>1, <1>3, DepthFacts
  <2>2. p + 1 - 1 = p
    BY <1>3
  <2> QED
    BY <1>4, <2>1, <2>2 DEF Level
<1>7. Level(d, p, q)
  <2>1. Level(d, p, p + 1)
    <3>1. p + 1 - 1 = p /\ \A k \in p .. p : k = p
      BY <1>3
    <3>2. d[p] \in Int
      BY <1>3, <1>6
    <3> QED
      BY <1>6, <3>1, <3>2 DEF Level
  <2>2. p <= p + 1
    BY <1>3
  <2> QED
    BY <1>3, <1>4, <1>5, <2>1, <2>2, LevelJoin
<1> HIDE DEF d
\* The operand, i its first word and j its last one.
<1>8. \E i, j \in q .. m - 1 :
        /\ Chunk(s, q, m, i, j) /\ Level(d, q, m) /\ s[i] \in {"x", "open"}
        /\ s[j] = "x" \/ (s[j] = "close" /\ NegEnd(s, d, p, j))
  <2>1. CASE OperandAt(s, q, m, f)
    <3>1. PICK i \in q .. m - 1 : Phrase(s, d, q, m, i, i) /\ s[i] = "x"
      BY <1>3, <2>1, OperandPhrase DEF d
    <3>2. Chunk(s, q, m, i, i) /\ Level(d, q, m) /\ s[i] \in {"x", "open"} /\ s[i] = "x"
      BY <3>1 DEF Phrase
    <3> QED
      BY <3>2
  <2>2. CASE GroupAt(s, L, q, m, f)
    <3>1. Advances(s, L, q + 1) /\ Phrases(s, L, q + 1)
      <4>1. \A r \in q + 1 .. Len(s) + 1 : r \in p + 1 .. Len(s) + 1
        BY <1>3, <1>5
      <4> QED
        BY <4>1 DEF Advances, Phrases
    <3>2. m \in q + 1 .. Len(s) + 1
      BY <1>3, <2>2, <3>1, GroupEnds
    <3>3. /\ Phrase(s, d, q, m, q, m - 1) /\ s[q] = "open" /\ s[m - 1] = "close"
          /\ \A k \in q .. m - 2 : d[k] > d[q - 1]
      BY <1>3, <2>2, <3>1, <3>2, GroupPhrase DEF d
    <3>4. q \in q .. m - 1 /\ m - 1 \in q .. m - 1 /\ p \in p .. m - 1 /\ q \in p .. m - 1
      BY <1>3, <1>5, <3>2
    <3>5. Adjacent(s, p, q)
      BY <1>1, <1>3, <1>4, <1>5, <3>3 DEF Adjacent, Blanks
    <3>6. NegEnd(s, d, p, m - 1)
      <4>1. m - 1 - 1 = m - 2
        BY <1>3
      <4> QED
        BY <1>1, <1>6, <3>3, <3>4, <3>5, <4>1 DEF NegEnd
    <3> QED
      BY <3>3, <3>4, <3>6 DEF Phrase
  <2> QED
    BY <1>2, <2>1, <2>2
<1>9. PICK i, j \in q .. m - 1 :
        /\ Chunk(s, q, m, i, j) /\ Level(d, q, m) /\ s[i] \in {"x", "open"}
        /\ s[j] = "x" \/ (s[j] = "close" /\ NegEnd(s, d, p, j))
  BY <1>8
<1>10. Follows(s[p], s[i]) /\ Chunk(s, p, p + 1, p, p)
  BY <1>1, <1>3, <1>9, MayFollow, ChunkOne
<1>11. Chunk(s, p, m, p, j)
  BY <1>3, <1>4, <1>5, <1>9, <1>10, ChunkJoin
<1>12. Chunk(s, p, n, p, j)
  <2>1. p <= p /\ Blanks(s, p, p)
    BY <1>3 DEF Blanks
  <2> QED
    BY <1>3, <1>4, <1>5, <1>11, <2>1, ChunkBlanks
<1>13. Level(d, p, n)
  <2>1. p <= q /\ q <= m /\ p <= m
    BY <1>3, <1>5, <1>9
  <2>2. Level(d, p, m)
    BY <1>3, <1>7, <1>9, <2>1, LevelJoin
  <2> QED
    BY <1>3, <1>4, <1>5, <2>1, <2>2, LevelJoin
<1>14. j \in p .. n - 1 /\ ~(p > p)
  BY <1>3, <1>4, <1>5
<1> QED
  BY <1>1, <1>9, <1>12, <1>13, <1>14 DEF Phrase, Starters, d

LEMMA ChainPhrase ==
  ASSUME NEW s \in Seq(Tokens), NEW L, NEW p \in 1 .. Len(s) + 1, Advances(s, L, p + 1),
         Phrases(s, L, p + 1), NEW n \in p + 1 .. Len(s) + 1, NEW i, NEW j,
         Phrase(s, Depth(s), p, n, i, j), NEW z, NEW r, ChainAt(s, L, n, z, r)
  PROVE  \E l \in p .. z - 1 : Phrase(s, Depth(s), p, z, i, l)
<1> DEFINE d == Depth(s)
<1>1. PICK o, q \in n .. Len(s) + 1 :
        /\ o = Skip(s, n) /\ o <= Len(s) /\ s[o] \in {"or", "and"}
        /\ q = Skip(s, o + 1) /\ o < q /\ L[q].ok /\ z = L[q].next
  BY DEF ChainAt
<1>2. /\ Len(s) \in Nat /\ p \in Nat /\ 1 <= p /\ p < n /\ n \in Nat /\ o \in Nat /\ q \in Nat
      /\ n \in 1 .. Len(s) + 1 /\ o + 1 \in 1 .. Len(s) + 1 /\ o \in 1 .. Len(s)
      /\ q \in p + 1 .. Len(s) + 1
  BY <1>1, LineFacts
<1>3. z \in q + 1 .. Len(s) + 1
  BY <1>1, <1>2 DEF Advances
<1>4. PICK k, l \in q .. z - 1 : Phrase(s, d, q, z, k, l)
  <2>1. \E k, l \in q .. L[q].next - 1 : Phrase(s, Depth(s), q, L[q].next, k, l)
    BY <1>1, <1>2, Zenon DEF Phrases
  <2> QED
    BY <1>1, <2>1
<1>5. /\ o \in n .. Len(s) + 1 /\ Blanks(s, n, o) /\ Level(d, n, o)
      /\ q \in o + 1 .. Len(s) + 1 /\ Blanks(s, o + 1, q) /\ Level(d, o + 1, q)
  BY <1>1, <1>2, SkipBlanks
<1> HIDE DEF d
<1>6. /\ Chunk(s, p, n, i, j) /\ Level(d, p, n) /\ s[j] \in {"x", "close"}
      /\ Chunk(s, q, z, k, l) /\ Level(d, q, z) /\ s[k] \in Starters
      /\ s[l] \in {"x", "close"} /\ (l < z - 1 => s[l] = "x" \/ NegEnd(s, d, q, l))
      /\ s[i] \in Starters /\ (i > p => s[i] = "x")
  BY <1>4 DEF Phrase, d
<1>7. Follows(s[j], s[o]) /\ Follows(s[o], s[k]) /\ Chunk(s, o, o + 1, o, o)
  BY <1>1, <1>2, <1>6, MayFollow, ChunkOne
<1>8. /\ o + 1 \in Nat /\ z \in Nat /\ n <= o /\ o + 1 <= q /\ q <= z /\ o <= o + 1 /\ p <= n
      /\ p <= o /\ p <= o + 1 /\ p <= q
  BY <1>2, <1>3, <1>5
<1>9. Chunk(s, p, o + 1, i, o)
  BY <1>2, <1>5, <1>6, <1>7, <1>8, ChunkJoin
<1>10. Chunk(s, p, z, i, l)
  BY <1>2, <1>5, <1>6, <1>7, <1>8, <1>9, ChunkJoin
<1>11. Level(d, o, o + 1)
  <2>1. d[o] = d[o - 1] /\ d[o] \in Int
    <3>1. o \in 0 .. Len(s)
      BY <1>2
    <3> QED
      BY <1>1, <1>2, <3>1, DepthFacts DEF d
  <2>2. o + 1 - 1 = o /\ \A x \in o .. o : x = o
    BY <1>2
  <2> QED
    BY <2>1, <2>2 DEF Level
<1>12. Level(d, p, q)
  <2>1. Level(d, p, o)
    BY <1>2, <1>5, <1>6, <1>8, LevelJoin
  <2>2. Level(d, p, o + 1)
    BY <1>2, <1>8, <1>11, <2>1, LevelJoin
  <2> QED
    BY <1>2, <1>5, <1>8, <2>2, LevelJoin
<1>13. Level(d, p, z)
  BY <1>2, <1>6, <1>8, <1>12, LevelJoin
<1>14. NegEnd(s, d, q, l) => NegEnd(s, d, p, l)
  <2>1. d[q - 1] = d[p - 1]
    BY <1>12 DEF Level
  <2>2. \A u \in q .. l : u \in p .. l
    BY <1>2, <1>8
  <2> QED
    BY <2>1, <2>2 DEF NegEnd
<1>15. l \in p .. z - 1
  BY <1>2, <1>8
<1>16. Phrase(s, d, p, z, i, l)
  BY <1>6, <1>10, <1>13, <1>14 DEF Phrase
<1> QED
  BY <1>15, <1>16 DEF d

LEMMA AtomPhrase ==
  ASSUME NEW s \in Seq(Tokens), NEW L, NEW p \in 1 .. Len(s) + 1, Advances(s, L, p + 1),
         Phrases(s, L, p + 1), NEW n \in p + 1 .. Len(s) + 1, NEW e, AtomAt(s, L, p, n, e)
  PROVE  \E i, j \in p .. n - 1 : Phrase(s, Depth(s), p, n, i, j)
<1>1. p \in Nat /\ n \in Nat /\ p < n /\ p \in p .. n - 1 /\ n - 1 \in p .. n - 1
  BY LineFacts
<1>2. CASE NotAt(s, L, p, n, e)
  BY <1>1, <1>2, NotPhrase
<1>3. CASE OperandAt(s, p, n, e)
  BY <1>3, OperandPhrase
<1>4. CASE GroupAt(s, L, p, n, e)
  <2>1. Phrase(s, Depth(s), p, n, p, n - 1)
    BY <1>4, GroupPhrase
  <2> QED
    BY <1>1, <2>1
<1> QED
  BY <1>2, <1>3, <1>4 DEF AtomAt

LEMMA AllPhrases ==
  ASSUME NEW s \in Seq(Tokens), NEW L, IsTable(s, L)
  PROVE  Phrases(s, L, 1)
<1> DEFINE T == {p \in 1 .. Len(s) + 1 : L[p].ok =>
                   \E i, j \in p .. L[p].next - 1 : Phrase(s, Depth(s), p, L[p].next, i, j)}
<1>0. Len(s) + 1 \in Nat
  BY LineFacts
<1>1. ASSUME NEW p \in 1 .. Len(s) + 1, \A q \in p + 1 .. Len(s) + 1 : q \in T
      PROVE  p \in T
  <2> SUFFICES ASSUME L[p].ok
               PROVE  \E i, j \in p .. L[p].next - 1 : Phrase(s, Depth(s), p, L[p].next, i, j)
    OBVIOUS
  <2> DEFINE a == Atom(s, L, p)
             e == L[p]
  <2>1. Phrases(s, L, p + 1)
    BY <1>1 DEF Phrases
  <2>2. Advances(s, L, p + 1) /\ e = LogicRule(s, L, p) /\ p \in Nat
    BY TableFacts, LineFacts
  <2> HIDE DEF T, e
  <2>3. e.ok
    BY DEF e
  <2>4. a.ok /\ (ChainAt(s, L, a.next, e.next, e.rest) \/ e.next = a.next)
    BY <2>2, <2>3, LogicIs
  <2>5. AtomAt(s, L, p, a.next, a.ast) /\ a.next \in p + 1 .. Len(s) + 1
    BY <2>2, <2>4, AtomIs
  <2> HIDE DEF a
  <2>6. \E i, j \in p .. a.next - 1 : Phrase(s, Depth(s), p, a.next, i, j)
    BY <2>1, <2>2, <2>5, AtomPhrase
  <2>7. PICK i, j \in p .. a.next - 1 : Phrase(s, Depth(s), p, a.next, i, j)
    BY <2>6
  <2>8. CASE ChainAt(s, L, a.next, e.next, e.rest)
    <3>1. PICK l \in p .. e.next - 1 : Phrase(s, Depth(s), p, e.next, i, l)
      BY <2>1, <2>2, <2>5, <2>7, <2>8, ChainPhrase
    <3>2. i \in p .. e.next - 1
      BY <3>1 DEF Phrase, Chunk
    <3> QED
      BY <3>1, <3>2 DEF e
  <2>9. CASE e.next = a.next
    BY <2>7, <2>9 DEF e
  <2> QED
    BY <2>4, <2>8, <2>9
<1>2. \A p \in 1 .. Len(s) + 1 : p \in T
  <2> HIDE DEF T
  <2> QED
    BY <1>0, <1>1, DownInd
<1> QED
  BY <1>2 DEF Phrases

\* What the parser accepts is a line of the language.
LEMMA ParseSound ==
  ASSUME NEW s \in Seq(Tokens), Parse(s).ok
  PROVE  WellFormed(s)
<1> DEFINE L == Logic(s)
           d == Depth(s)
           N == Len(s)
<1>0. N \in Nat /\ 1 \in 1 .. N + 1
  BY LineFacts
<1>1. L[1].ok /\ L[1].next = N + 1
  BY DEF Parse, Fail
<1>2. PICK i, j \in 1 .. N : Phrase(s, d, 1, N + 1, i, j)
  <2>1. Phrases(s, L, 1)
    BY LogicTable, AllPhrases
  <2> HIDE DEF L
  <2>2. PICK i, j \in 1 .. L[1].next - 1 : Phrase(s, d, 1, L[1].next, i, j)
    BY <1>0, <1>1, <2>1 DEF Phrases
  <2>3. N + 1 - 1 = N
    BY <1>0
  <2> QED
    BY <1>1, <2>2, <2>3
<1> HIDE DEF L, d
<1>3. /\ s[i] # "blank" /\ s[j] # "blank" /\ Blanks(s, 1, i) /\ Blanks(s, j + 1, N + 1)
      /\ \A a, b \in 1 .. N : Adjacent(s, a, b) => Follows(s[a], s[b])
      /\ s[i] \in Starters /\ (i > 1 => s[i] = "x")
      /\ s[j] \in {"x", "close"} /\ (j < N => s[j] = "x" \/ NegEnd(s, d, 1, j))
      /\ d[N] = d[0] /\ \A k \in 1 .. N : d[k] >= d[0]
  <2>1. N + 1 - 1 = N /\ 1 - 1 = 0
    BY <1>0
  <2>2. Chunk(s, 1, N + 1, i, j) /\ Level(d, 1, N + 1)
    BY <1>2 DEF Phrase
  <2>3. /\ s[i] \in Starters /\ (i > 1 => s[i] = "x")
        /\ s[j] \in {"x", "close"} /\ (j < N => s[j] = "x" \/ NegEnd(s, d, 1, j))
    BY <1>2, <2>1 DEF Phrase
  <2>4. d[N] = d[0] /\ \A k \in 1 .. N : d[k] >= d[0]
    BY <2>1, <2>2 DEF Level
  <2>5. /\ s[i] # "blank" /\ s[j] # "blank" /\ Blanks(s, 1, i) /\ Blanks(s, j + 1, N + 1)
        /\ \A a, b \in 1 .. N + 1 - 1 : Adjacent(s, a, b) => Follows(s[a], s[b])
    BY <2>2 DEF Chunk
  <2> QED
    BY <2>1, <2>3, <2>4, <2>5
<1>4. d[0] = 0
  BY DepthFacts DEF d
<1>5. ASSUME NEW k \in 1 .. N, IsFirst(s, k)
      PROVE  Follows("open", s[k]) /\ (k > 1 => s[k] = "x")
  <2>1. k \notin 1 .. i - 1 /\ i \notin 1 .. k - 1
    BY <1>3, <1>5 DEF IsFirst, Blanks
  <2>2. k = i
    BY <1>0, <2>1
  <2> QED
    BY <1>3, <2>2, MayFollow
<1>6. ASSUME NEW k \in 1 .. N, IsLast(s, k)
      PROVE  s[k] \in {"x", "close"} /\ (k < N => s[k] = "x" \/ EndsNegated(s, d, k))
  <2>1. k \notin j + 1 .. N /\ j \notin k + 1 .. N
    BY <1>0, <1>3, <1>6 DEF IsLast, Blanks
  <2>2. k = j
    BY <1>0, <2>1
  <2>3. NegEnd(s, d, 1, j) => EndsNegated(s, d, j)
    <3>1. 1 - 1 = 0
      OBVIOUS
    <3> QED
      BY <1>4, <3>1 DEF NegEnd, EndsNegated
  <2> QED
    BY <1>3, <2>2, <2>3
<1> QED
  BY <1>3, <1>4, <1>5, <1>6 DEF WellFormed, d

-----------------------------------------------------------------------------
(* Every line of the language is accepted                                  *)

LEMMA MustFollow ==
  ASSUME NEW a, NEW b, Follows(a, b)
  PROVE  /\ a \in {"x", "close"} => b \in {"and", "or", "close"}
         /\ a \in {"and", "or", "open"} => b \in Starters
         /\ a = "not" => b \in {"x", "open"}
<1>1. a \in {"x", "close"} => b \in {"and", "or", "close"}
  BY DEF Follows
<1>2. a \in {"and", "or", "open"} => b \in Starters
  BY DEF Follows, Starters
<1>3. a = "not" => b \in {"x", "open"}
  BY DEF Follows
<1> QED
  BY <1>1, <1>2, <1>3

LEMMA Formed ==
  ASSUME NEW s \in Seq(Tokens), WellFormed(s)
  PROVE  LET d == Depth(s)
         IN  /\ \E i \in 1 .. Len(s) : s[i] # "blank"
             /\ \A i \in 1 .. Len(s) : IsFirst(s, i) =>
                  s[i] \in Starters /\ (i > 1 => s[i] = "x")
             /\ \A i \in 1 .. Len(s) : IsLast(s, i) =>
                  s[i] \in {"x", "close"} /\ (i < Len(s) => s[i] = "x" \/ EndsNegated(s, d, i))
             /\ \A i, j \in 1 .. Len(s) : Adjacent(s, i, j) => Follows(s[i], s[j])
             /\ \A i \in 0 .. Len(s) : d[i] >= 0
             /\ d[0] = 0 /\ d[Len(s)] = 0
<1> DEFINE d == Depth(s)
<1>1. d[0] = 0
  BY DepthFacts
<1> HIDE DEF d
<1>2. /\ \E i \in 1 .. Len(s) : s[i] # "blank"
      /\ \A i \in 1 .. Len(s) :
           /\ IsFirst(s, i) => Follows("open", s[i]) /\ (i > 1 => s[i] = "x")
           /\ IsLast(s, i) => /\ s[i] \in {"x", "close"}
                              /\ i < Len(s) => s[i] = "x" \/ EndsNegated(s, d, i)
           /\ \A j \in 1 .. Len(s) : Adjacent(s, i, j) => Follows(s[i], s[j])
           /\ d[i] >= 0
      /\ d[Len(s)] = 0
  BY DEF WellFormed, d
<1>3. \A i \in 1 .. Len(s) : IsFirst(s, i) => s[i] \in Starters
  BY <1>2, MustFollow
<1>4. \A i \in 0 .. Len(s) : d[i] >= 0
  <2>1. \A i \in 0 .. Len(s) : i = 0 \/ i \in 1 .. Len(s)
    BY LineFacts
  <2> QED
    BY <1>1, <1>2, <2>1
<1> QED
  BY <1>1, <1>2, <1>3, <1>4 DEF d

\* The word that follows, where there is one.
LEMMA NextAdjacent ==
  ASSUME NEW s \in Seq(Tokens), NEW i \in 1 .. Len(s), s[i] # "blank",
         NEW n \in i + 1 .. Len(s) + 1, Blanks(s, i + 1, n)
  PROVE  LET q == Skip(s, n)
         IN  /\ q \in n .. Len(s) + 1
             /\ At(s, q) # "end" => q \in 1 .. Len(s) /\ s[q] = At(s, q) /\ Adjacent(s, i, q)
             /\ At(s, q) = "end" => IsLast(s, i) /\ q = Len(s) + 1
<1> DEFINE q == Skip(s, n)
<1>0. Len(s) \in Nat /\ i \in Nat /\ n \in Nat /\ n \in 1 .. Len(s) + 1
  BY LineFacts
<1>1. q \in n .. Len(s) + 1 /\ Blanks(s, n, q) /\ At(s, q) # "blank"
  BY <1>0, SkipBlanks, SkipFacts
<1> HIDE DEF q
<1>2. q \in 1 .. Len(s) + 1 /\ i < q
  BY <1>0, <1>1
<1>3. \A k \in i + 1 .. q - 1 : s[k] = "blank"
  <2>1. \A k \in i + 1 .. q - 1 : k \in i + 1 .. n - 1 \/ k \in n .. q - 1
    BY <1>0, <1>1
  <2> QED
    BY <1>1, <2>1 DEF Blanks
<1>4. CASE At(s, q) # "end"
  <2>1. q \in 1 .. Len(s) /\ s[q] = At(s, q)
    BY <1>2, <1>4, AtFacts
  <2> QED
    BY <1>1, <1>2, <1>3, <1>4, <2>1 DEF Adjacent, q
<1>5. CASE At(s, q) = "end"
  <2>1. q = Len(s) + 1
    <3>1. CASE q <= Len(s)
      <4>1. s[q] = "end" /\ s[q] \in Tokens
        BY <1>0, <1>2, <1>5, <3>1, LineFacts DEF At
      <4> QED
        BY <4>1 DEF Tokens
    <3> QED
      BY <1>0, <1>2, <3>1
  <2>2. q - 1 = Len(s)
    BY <1>0, <2>1
  <2> QED
    BY <1>1, <1>3, <1>5, <2>1, <2>2 DEF IsLast, q
<1> QED
  BY <1>4, <1>5 DEF q

\* A word that is not the last one.
LEMMA NextWord ==
  ASSUME NEW s \in Seq(Tokens), WellFormed(s), NEW i \in 1 .. Len(s),
         s[i] \in {"and", "or", "open", "not"}
  PROVE  LET q == Skip(s, i + 1)
         IN  /\ q \in i + 1 .. Len(s) /\ q \in 1 .. Len(s) /\ At(s, q) = s[q]
             /\ Follows(s[i], s[q]) /\ Skip(s, q) = q
<1> DEFINE q == Skip(s, i + 1)
<1>0. Len(s) \in Nat /\ i \in Nat /\ i + 1 \in i + 1 .. Len(s) + 1 /\ Blanks(s, i + 1, i + 1)
      /\ i + 1 \in 1 .. Len(s) + 1
  BY LineFacts DEF Blanks
<1>1. /\ q \in i + 1 .. Len(s) + 1
      /\ At(s, q) # "end" => q \in 1 .. Len(s) /\ s[q] = At(s, q) /\ Adjacent(s, i, q)
      /\ At(s, q) = "end" => IsLast(s, i)
  BY <1>0, NextAdjacent
<1>2. At(s, q) # "blank"
  BY <1>0, SkipFacts
<1> HIDE DEF q
<1>3. ~IsLast(s, i)
  BY Formed
<1>4. q \in 1 .. Len(s) /\ s[q] = At(s, q) /\ Follows(s[i], s[q])
  BY <1>1, <1>3, Formed
<1>5. q \in i + 1 .. Len(s)
  BY <1>0, <1>1, <1>4
<1>6. Skip(s, q) = q
  <2>1. q \in 1 .. Len(s) + 1
    BY <1>0, <1>4
  <2> QED
    BY <1>2, <2>1, SkipNone
<1> QED
  BY <1>4, <1>5, <1>6 DEF q

\* An expression may start at p.
Starts(s, p) ==
  LET q == Skip(s, p)
  IN  At(s, q) \in Starters /\ (q # p => At(s, q) = "x")

\* From p on, an expression is found where one may start, and it ends before
\* a parenthesis or at the end of the line.
Found(s, logic, p) ==
  \A q \in p .. Len(s) + 1 :
    /\ Starts(s, q) => logic[q].ok
    /\ logic[q].ok => At(s, Skip(s, logic[q].next)) \in {"close", "end"}

LEMMA GroupFound ==
  ASSUME NEW s \in Seq(Tokens), WellFormed(s), NEW L, IsTable(s, L),
         NEW p \in 1 .. Len(s), s[p] = "open", Found(s, L, p + 1)
  PROVE  Group(s, L, p).ok
<1> DEFINE d == Depth(s)
           q == Skip(s, p + 1)
           m == L[q].next
           c == Skip(s, m)
<1>0. Len(s) \in Nat /\ p \in Nat /\ 1 <= p /\ p <= Len(s) /\ p \in 1 .. Len(s) + 1
      /\ p + 1 \in 1 .. Len(s) + 1
  BY LineFacts
<1>1. /\ q \in p + 1 .. Len(s) /\ q \in 1 .. Len(s) /\ At(s, q) = s[q]
      /\ s[q] \in Starters /\ Skip(s, q) = q
  BY NextWord, MustFollow
<1>2. Blanks(s, p + 1, q) /\ Level(d, p + 1, q)
  BY <1>0, SkipBlanks
<1> HIDE DEF q, d
<1>3. L[q].ok /\ At(s, c) \in {"close", "end"}
  <2>1. Starts(s, q) /\ q \in p + 1 .. Len(s) + 1
    BY <1>0, <1>1 DEF Starts
  <2> QED
    BY <2>1 DEF Found
<1>4. m \in q + 1 .. Len(s) + 1 /\ \E i, j : Phrase(s, d, q, m, i, j)
  <2>1. q \in p + 1 .. Len(s) + 1 /\ q \in 1 .. Len(s) + 1
    BY <1>0, <1>1
  <2> QED
    BY <1>0, <1>3, <2>1, TableFacts, AllPhrases DEF Advances, Phrases, d
<1> HIDE DEF m
<1>5. m \in 1 .. Len(s) + 1 /\ m \in Nat /\ q \in Nat
  BY <1>0, <1>1, <1>4
<1>6. c \in m .. Len(s) + 1 /\ Level(d, m, c)
  BY <1>5, SkipBlanks DEF d
<1>7. Level(d, q, m)
  BY <1>4 DEF Phrase
<1> HIDE DEF c
<1>8. CASE At(s, c) = "end"
  <2>1. c = Len(s) + 1
    <3>1. CASE c <= Len(s)
      <4>1. s[c] = "end" /\ c \in 1 .. Len(s)
        BY <1>0, <1>5, <1>6, <1>8, <3>1 DEF At
      <4>2. s[c] \in Tokens
        BY <4>1, LineFacts
      <4> QED
        BY <4>1, <4>2 DEF Tokens
    <3> QED
      BY <1>0, <1>5, <1>6, <3>1
  <2>2. c - 1 = Len(s) /\ p + 1 - 1 = p
    BY <1>0, <2>1
  <2>3. d[Len(s)] = d[p]
    BY <1>2, <1>6, <1>7, <2>2 DEF Level
  <2>4. d[p] = d[p - 1] + 1 /\ d[p - 1] \in Int /\ d[p - 1] >= 0 /\ d[Len(s)] = 0
    <3>1. p - 1 \in 0 .. Len(s)
      BY <1>0
    <3> QED
      BY <3>1, DepthFacts, Formed DEF d
  <2> QED
    BY <2>3, <2>4
<1>9. CASE At(s, c) = "close"
  <2>1. At(s, p) = "open"
    BY <1>0 DEF At
  <2>2. Group(s, L, p) = Match(c + 1, L[q].first \o L[q].rest)
    BY <1>3, <1>9, <2>1 DEF Group, q, c, m
  <2> QED
    BY <2>2 DEF Match
<1> QED
  BY <1>3, <1>8, <1>9

\* Where an expression may start, its first atom is found.
LEMMA AtomFound ==
  ASSUME NEW s \in Seq(Tokens), WellFormed(s), NEW L, IsTable(s, L),
         NEW p \in 1 .. Len(s) + 1, Starts(s, p), Found(s, L, p + 1)
  PROVE  Atom(s, L, p).ok
<1> DEFINE q == Skip(s, p)
           neg == Negation(s, L, p)
           operand == OperandRule(s, p)
<1>0. Len(s) \in Nat /\ p \in Nat /\ 1 <= p
  BY LineFacts
<1>1. Atom(s, L, p) = IF neg.ok THEN neg
                      ELSE IF operand.ok THEN operand ELSE Group(s, L, p)
  BY DEF Atom
<1>2. CASE At(s, q) = "x"
  <2>1. operand.ok
    BY <1>2, OperandIs
  <2> HIDE DEF neg, operand
  <2> QED
    BY <1>1, <2>1
<1>3. CASE q = p /\ At(s, q) = "open"
  <2>1. p \in 1 .. Len(s) /\ s[p] = "open"
    BY <1>3, AtFacts
  <2>2. Group(s, L, p).ok
    BY <2>1, GroupFound
  <2> HIDE DEF neg, operand
  <2> QED
    BY <1>1, <2>2
<1>4. CASE q = p /\ At(s, q) = "not"
  <2> DEFINE r == Skip(s, p + 1)
             op == OperandRule(s, r)
             e == IF op.ok THEN op ELSE Group(s, L, r)
  <2>1. p \in 1 .. Len(s) /\ s[p] = "not" /\ At(s, p) = "not"
    BY <1>4, AtFacts
  <2>2. /\ r \in p + 1 .. Len(s) /\ r \in 1 .. Len(s) /\ At(s, r) = s[r]
        /\ s[r] \in {"x", "open"} /\ Skip(s, r) = r
    BY <2>1, NextWord, MustFollow
  <2> HIDE DEF r
  <2>3. r \in 1 .. Len(s) + 1 /\ Found(s, L, r + 1)
    <3>1. \A x \in r + 1 .. Len(s) + 1 : x \in p + 1 .. Len(s) + 1
      BY <1>0, <2>2
    <3>2. r \in 1 .. Len(s) + 1
      BY <1>0, <2>2
    <3> QED
      BY <3>1, <3>2 DEF Found
  <2>4. ASSUME s[r] = "x" PROVE op.ok
    BY <2>2, <2>3, <2>4, OperandIs
  <2>5. ASSUME s[r] = "open" PROVE Group(s, L, r).ok
    BY <2>2, <2>3, <2>5, GroupFound
  <2>6. op.ok \/ Group(s, L, r).ok
    BY <2>2, <2>4, <2>5
  <2>7. e.ok
    BY <2>6
  <2>8. neg = Match(Skip(s, e.next), Not(e.ast, p))
    BY <2>1, <2>7 DEF Negation, r
  <2>9. neg.ok
    BY <2>8 DEF Match
  <2> HIDE DEF neg, operand
  <2> QED
    BY <1>1, <2>9
<1> QED
  BY <1>2, <1>3, <1>4 DEF Starts, Starters

\* What follows an atom: an operator, a parenthesis, or nothing.
LEMMA AtomFollowed ==
  ASSUME NEW s \in Seq(Tokens), WellFormed(s), NEW p \in 1 .. Len(s) + 1,
         NEW n \in p + 1 .. Len(s) + 1, NEW i, NEW j, Phrase(s, Depth(s), p, n, i, j)
  PROVE  At(s, Skip(s, n)) \in {"and", "or", "close", "end"}
<1>0. Len(s) \in Nat /\ p \in Nat /\ 1 <= p /\ n \in Nat /\ n <= Len(s) + 1
  BY LineFacts
<1>1. /\ j \in p .. n - 1 /\ s[j] \in {"x", "close"} /\ s[j] # "blank" /\ Blanks(s, j + 1, n)
  BY DEF Phrase, Chunk
<1>2. j \in 1 .. Len(s) /\ n \in j + 1 .. Len(s) + 1
  BY <1>0, <1>1
<1> DEFINE o == Skip(s, n)
<1>3. At(s, o) # "end" => o \in 1 .. Len(s) /\ s[o] = At(s, o) /\ Adjacent(s, j, o)
  BY <1>1, <1>2, NextAdjacent
<1> HIDE DEF o
<1>4. CASE At(s, o) # "end"
  <2>1. Follows(s[j], s[o])
    BY <1>2, <1>3, <1>4, Formed
  <2>2. s[o] \in {"and", "or", "close"}
    BY <1>1, <2>1, MustFollow
  <2> QED
    BY <1>3, <1>4, <2>2 DEF o
<1> QED
  BY <1>4 DEF o

LEMMA AllFound ==
  ASSUME NEW s \in Seq(Tokens), WellFormed(s), NEW L, IsTable(s, L)
  PROVE  Found(s, L, 1)
<1> DEFINE T == {p \in 1 .. Len(s) + 1 :
                   /\ Starts(s, p) => L[p].ok
                   /\ L[p].ok => At(s, Skip(s, L[p].next)) \in {"close", "end"}}
<1>0. Len(s) \in Nat /\ Len(s) + 1 \in Nat
  BY LineFacts
<1>1. ASSUME NEW p \in 1 .. Len(s) + 1, \A q \in p + 1 .. Len(s) + 1 : q \in T
      PROVE  p \in T
  <2> DEFINE a == Atom(s, L, p)
             e == L[p]
  <2>1. Found(s, L, p + 1)
    BY <1>1 DEF Found
  <2>2. Advances(s, L, p + 1) /\ e = LogicRule(s, L, p) /\ p \in Nat /\ 1 <= p
    BY TableFacts, LineFacts
  <2> HIDE DEF e
  <2>3. ASSUME Starts(s, p) PROVE e.ok
    <3>1. a.ok
      BY <2>1, <2>3, AtomFound
    <3> QED
      BY <2>2, <3>1, LogicIs
  <2>4. ASSUME e.ok PROVE At(s, Skip(s, e.next)) \in {"close", "end"}
    <3>1. /\ a.ok
          /\ \/ ChainAt(s, L, a.next, e.next, e.rest)
             \/ EndsAt(s, L, a.next) /\ e.next = a.next
      BY <2>2, <2>4, LogicIs
    <3>2. AtomAt(s, L, p, a.next, a.ast) /\ a.next \in p + 1 .. Len(s) + 1
      BY <2>2, <3>1, AtomIs
    <3> HIDE DEF a, T
    <3>3. CASE ChainAt(s, L, a.next, e.next, e.rest)
      <4>1. PICK q \in a.next .. Len(s) + 1 : L[q].ok /\ e.next = L[q].next
        BY <3>3 DEF ChainAt
      <4>2. q \in p + 1 .. Len(s) + 1
        BY <1>0, <2>2, <3>2
      <4> QED
        BY <2>1, <4>1, <4>2 DEF Found
    <3>4. CASE EndsAt(s, L, a.next) /\ e.next = a.next
      <4> DEFINE n == a.next
                 o == Skip(s, n)
      <4>1. Phrases(s, L, p + 1)
        <5>1. \A q \in p + 1 .. Len(s) + 1 : q \in 1 .. Len(s) + 1
          BY <1>0, <2>2
        <5> QED
          BY <5>1, AllPhrases DEF Phrases
      <4>2. \E i, j : Phrase(s, Depth(s), p, n, i, j)
        BY <2>2, <3>2, <4>1, AtomPhrase
      <4>3. At(s, o) \in {"and", "or", "close", "end"}
        BY <3>2, <4>2, AtomFollowed
      <4>4. n \in 1 .. Len(s) + 1
        BY <1>0, <2>2, <3>2
      <4>5. o \in n .. Len(s) + 1
        BY <4>4, SkipFacts
      <4> HIDE DEF n, o
      <4>6. ASSUME At(s, o) \in {"and", "or"} PROVE L[Skip(s, o + 1)].ok
        <5> DEFINE q == Skip(s, o + 1)
        <5>1. o \in 1 .. Len(s) + 1 /\ p < o /\ o \in Nat
          BY <1>0, <2>2, <3>2, <4>4, <4>5 DEF n
        <5>2. o \in 1 .. Len(s) /\ s[o] = At(s, o)
          BY <4>6, <5>1, AtFacts
        <5>3. /\ q \in o + 1 .. Len(s) /\ At(s, q) = s[q]
              /\ s[q] \in Starters /\ Skip(s, q) = q
          BY <4>6, <5>2, NextWord, MustFollow
        <5> HIDE DEF q
        <5>4. Starts(s, q) /\ q \in p + 1 .. Len(s) + 1
          BY <1>0, <2>2, <5>1, <5>3 DEF Starts
        <5>5. L[q].ok
          BY <2>1, <5>4 DEF Found
        <5> QED
          BY <5>5 DEF q
      <4>7. At(s, o) \notin {"and", "or"}
        <5>1. ~(At(s, o) \in {"or", "and"} /\ L[Skip(s, o + 1)].ok)
          BY <3>4 DEF EndsAt, o, n
        <5> QED
          BY <4>6, <5>1
      <4> QED
        BY <3>4, <4>3, <4>7 DEF n, o
    <3> QED
      BY <3>1, <3>3, <3>4
  <2> QED
    BY <2>3, <2>4 DEF e
<1>2. \A p \in 1 .. Len(s) + 1 : p \in T
  <2> HIDE DEF T
  <2> QED
    BY <1>0, <1>1, DownInd
<1> QED
  BY <1>2 DEF Found

\* Blanks are left over after a group that is not negated.
PlainEnd(s, d, p, n) ==
  /\ s[n - 1] = "close"
  /\ \E j \in p .. n - 2 :
       /\ s[j] = "open" /\ d[j - 1] = d[p - 1] /\ \A k \in j .. n - 2 : d[k] > d[p - 1]
       /\ j = p \/ \E i \in p .. j - 1 : Adjacent(s, i, j) /\ s[i] # "not"

\* The expression that follows an operator is at the level of the atom before.
LEMMA ChainLevel ==
  ASSUME NEW s \in Seq(Tokens), NEW L, NEW p \in 1 .. Len(s) + 1,
         NEW n \in p + 1 .. Len(s) + 1, Level(Depth(s), p, n),
         NEW z, NEW r, ChainAt(s, L, n, z, r)
  PROVE  \E o, q \in p + 1 .. Len(s) + 1 :
           /\ o < q /\ s[o] \in {"or", "and"} /\ Blanks(s, o + 1, q)
           /\ Depth(s)[q - 1] = Depth(s)[p - 1] /\ L[q].ok /\ z = L[q].next
<1> DEFINE d == Depth(s)
<1>1. PICK o, q \in n .. Len(s) + 1 :
        /\ o = Skip(s, n) /\ o <= Len(s) /\ s[o] \in {"or", "and"}
        /\ q = Skip(s, o + 1) /\ o < q /\ L[q].ok /\ z = L[q].next
  BY DEF ChainAt
<1>2. /\ Len(s) \in Nat /\ p \in Nat /\ 1 <= p /\ p < n /\ n \in Nat /\ o \in Nat /\ q \in Nat
      /\ n \in 1 .. Len(s) + 1 /\ o + 1 \in 1 .. Len(s) + 1 /\ o \in 1 .. Len(s)
      /\ q \in p + 1 .. Len(s) + 1 /\ o \in p + 1 .. Len(s) + 1 /\ o + 1 - 1 = o
  BY <1>1, LineFacts
<1>3. Level(d, n, o) /\ Blanks(s, o + 1, q) /\ Level(d, o + 1, q)
  BY <1>1, <1>2, SkipBlanks
<1>4. d[o] = d[o - 1]
  BY <1>1, <1>2, DepthFacts
<1> HIDE DEF d
<1>5. d[q - 1] = d[p - 1]
  BY <1>2, <1>3, <1>4 DEF Level, d
<1> QED
  BY <1>1, <1>2, <1>3, <1>5 DEF d

\* An expression leaves blanks behind only if it ends with such a group.
LEMMA BlanksLeft ==
  ASSUME NEW s \in Seq(Tokens), NEW L, IsTable(s, L)
  PROVE  \A p \in 1 .. Len(s) + 1 : L[p].ok =>
           At(s, L[p].next) # "blank" \/ PlainEnd(s, Depth(s), p, L[p].next)
<1> DEFINE d == Depth(s)
           T == {p \in 1 .. Len(s) + 1 : L[p].ok =>
                   At(s, L[p].next) # "blank" \/ PlainEnd(s, d, p, L[p].next)}
<1>0. Len(s) \in Nat /\ Len(s) + 1 \in Nat
  BY LineFacts
<1>1. ASSUME NEW p \in 1 .. Len(s) + 1, \A q \in p + 1 .. Len(s) + 1 : q \in T
      PROVE  p \in T
  <2> SUFFICES ASSUME L[p].ok
               PROVE  At(s, L[p].next) # "blank" \/ PlainEnd(s, d, p, L[p].next)
    OBVIOUS
  <2> DEFINE a == Atom(s, L, p)
             e == L[p]
             n == a.next
  <2>1. \A q \in p + 1 .. Len(s) + 1 :
          L[q].ok => At(s, L[q].next) # "blank" \/ PlainEnd(s, d, q, L[q].next)
    BY <1>1
  <2>2. Advances(s, L, p + 1) /\ e = LogicRule(s, L, p) /\ p \in Nat /\ 1 <= p
    BY TableFacts, LineFacts
  <2> HIDE DEF T, e
  <2>3. e.ok
    BY DEF e
  <2>4. a.ok /\ (ChainAt(s, L, n, e.next, e.rest) \/ e.next = n)
    BY <2>2, <2>3, LogicIs
  <2>5. AtomAt(s, L, p, n, a.ast) /\ n \in p + 1 .. Len(s) + 1
    BY <2>2, <2>4, AtomIs
  <2>6. Phrases(s, L, p + 1)
    <3>1. \A q \in p + 1 .. Len(s) + 1 : q \in 1 .. Len(s) + 1
      BY <1>0, <2>2
    <3> QED
      BY <3>1, AllPhrases DEF Phrases
  <2> HIDE DEF a, n
  <2>7. \E i, j : Phrase(s, d, p, n, i, j)
    BY <2>2, <2>5, <2>6, AtomPhrase
  <2>8. CASE ChainAt(s, L, n, e.next, e.rest)
    <3>1. Level(d, p, n)
      BY <2>7 DEF Phrase
    <3>2. PICK o, q \in p + 1 .. Len(s) + 1 :
            /\ o < q /\ s[o] \in {"or", "and"} /\ Blanks(s, o + 1, q)
            /\ d[q - 1] = d[p - 1] /\ L[q].ok /\ e.next = L[q].next
      BY <2>5, <2>8, <3>1, ChainLevel
    <3> DEFINE m == e.next
    <3>3. At(s, m) # "blank" \/ PlainEnd(s, d, q, m)
      BY <2>1, <3>2
    <3> HIDE DEF m, d
    <3>4. ASSUME PlainEnd(s, d, q, m) PROVE PlainEnd(s, d, p, m)
      <4>1. PICK j \in q .. m - 2 :
              /\ s[j] = "open" /\ d[j - 1] = d[q - 1] /\ \A k \in j .. m - 2 : d[k] > d[q - 1]
              /\ j = q \/ \E i \in q .. j - 1 : Adjacent(s, i, j) /\ s[i] # "not"
        BY <3>4 DEF PlainEnd
      <4>2. q \in Nat /\ o \in Nat /\ j \in Int
        BY <2>2
      <4>3. j \in p .. m - 2 /\ \A i \in q .. j - 1 : i \in p .. j - 1
        BY <2>2, <4>2
      <4>4. \E i \in p .. j - 1 : Adjacent(s, i, j) /\ s[i] # "not"
        <5>1. CASE j = q
          <6>1. Adjacent(s, o, j)
            BY <3>2, <4>1, <5>1 DEF Adjacent, Blanks
          <6>2. o \in p .. j - 1
            BY <2>2, <3>2, <4>2, <5>1
          <6> QED
            BY <3>2, <6>1, <6>2
        <5>2. CASE j # q
          BY <4>1, <4>3, <5>2
        <5> QED
          BY <5>1, <5>2
      <4>5. s[m - 1] = "close"
        BY <3>4 DEF PlainEnd
      <4> QED
        BY <3>2, <4>1, <4>3, <4>4, <4>5 DEF PlainEnd
    <3> QED
      BY <3>3, <3>4 DEF m, e
  <2>9. CASE e.next = n
    <3>1. ASSUME NotAt(s, L, p, n, a.ast) PROVE At(s, n) # "blank"
      <4>1. PICK m \in p + 1 .. Len(s) + 1 : n = Skip(s, m)
        BY <3>1 DEF NotAt
      <4>2. m \in 1 .. Len(s) + 1
        BY <1>0, <2>2
      <4> QED
        BY <4>1, <4>2, SkipFacts
    <3>2. ASSUME OperandAt(s, p, n, a.ast) PROVE At(s, n) # "blank"
      <4>1. PICK q \in p .. Len(s) : n = Skip(s, q + 1)
        BY <3>2 DEF OperandAt
      <4>2. q + 1 \in 1 .. Len(s) + 1
        BY <1>0, <2>2
      <4> QED
        BY <4>1, <4>2, SkipFacts
    <3>3. ASSUME GroupAt(s, L, p, n, a.ast) PROVE PlainEnd(s, d, p, n)
      <4>1. /\ s[p] = "open" /\ s[n - 1] = "close"
            /\ \A k \in p .. n - 2 : d[k] > d[p - 1]
        BY <2>2, <2>5, <2>6, <3>3, GroupPhrase
      <4>2. p \in p .. n - 2
        <5>1. PICK c \in p + 1 .. Len(s) + 1 : n = c + 1
          BY <3>3 DEF GroupAt
        <5> QED
          BY <1>0, <2>2, <5>1
      <4> HIDE DEF d
      <4> QED
        BY <4>1, <4>2 DEF PlainEnd
    <3>4. At(s, n) # "blank" \/ PlainEnd(s, d, p, n)
      BY <2>5, <3>1, <3>2, <3>3 DEF AtomAt
    <3> QED
      BY <2>9, <3>4 DEF e
  <2> QED
    BY <2>4, <2>8, <2>9
<1>2. \A p \in 1 .. Len(s) + 1 : p \in T
  <2> HIDE DEF T
  <2> QED
    BY <1>0, <1>1, DownInd
<1> QED
  BY <1>2

\* A group at the outermost level is negated or it is not.
LEMMA NotBoth ==
  ASSUME NEW s, NEW d, d[0] = 0, NEW n \in Nat, PlainEnd(s, d, 1, n), EndsNegated(s, d, n - 1)
  PROVE  FALSE
<1>1. PICK j \in 1 .. n - 2 :
        /\ s[j] = "open" /\ d[j - 1] = d[0] /\ \A k \in j .. n - 2 : d[k] > d[0]
        /\ j = 1 \/ \E i \in 1 .. j - 1 : Adjacent(s, i, j) /\ s[i] # "not"
  <2>1. 1 - 1 = 0
    OBVIOUS
  <2> QED
    BY <2>1 DEF PlainEnd
<1>2. PICK u, v \in 1 .. n - 1 :
        /\ Adjacent(s, u, v) /\ s[u] = "not" /\ s[v] = "open" /\ d[u] = 0
        /\ \A k \in v .. n - 1 - 1 : d[k] > 0
  BY DEF EndsNegated
<1>3. n - 1 - 1 = n - 2 /\ j \in Nat /\ u \in Nat /\ v \in Nat
  OBVIOUS
<1>4. u < v /\ \A k \in u + 1 .. v - 1 : s[k] = "blank"
  BY <1>2 DEF Adjacent
<1>5. CASE v < j
  <2>1. j - 1 \in v .. n - 2
    BY <1>3, <1>5
  <2>2. d[j - 1] > 0 /\ d[j - 1] = 0
    BY <1>1, <1>2, <1>3, <2>1
  <2> QED
    BY <2>2
<1>6. CASE j < v
  <2>1. j \notin u + 1 .. v - 1
    BY <1>1, <1>4
  <2>2. u \in j .. n - 2
    BY <1>3, <1>4, <1>6, <2>1
  <2>3. d[u] > 0
    BY <1>1, <2>2
  <2> QED
    BY <1>2, <2>3
<1>7. CASE v = j
  <2>1. j # 1
    BY <1>3, <1>4, <1>7
  <2>2. PICK i \in 1 .. j - 1 : Adjacent(s, i, j) /\ s[i] # "not"
    BY <1>1, <2>1
  <2>3. i < j /\ s[i] # "blank" /\ \A k \in i + 1 .. j - 1 : s[k] = "blank"
    BY <2>2 DEF Adjacent
  <2>4. i \notin u + 1 .. v - 1 /\ u \notin i + 1 .. j - 1
    BY <1>2, <1>4, <2>3
  <2>5. i = u
    BY <1>3, <1>4, <1>7, <2>3, <2>4
  <2> QED
    BY <1>2, <2>2, <2>5
<1> QED
  BY <1>3, <1>5, <1>6, <1>7

\* Every line of the language is accepted.
LEMMA ParseComplete ==
  ASSUME NEW s \in Seq(Tokens), WellFormed(s)
  PROVE  Parse(s).ok
<1> DEFINE L == Logic(s)
           d == Depth(s)
           N == Len(s)
           q == Skip(s, 1)
           m == L[1].next
           c == Skip(s, m)
<1>0. N \in Nat /\ 1 \in 1 .. N + 1 /\ IsTable(s, L)
  BY LineFacts, LogicTable
<1>1. Starts(s, 1)
  <2>1. q \in 1 .. N + 1 /\ Blanks(s, 1, q) /\ At(s, q) # "blank"
    BY <1>0, SkipBlanks, SkipFacts
  <2> HIDE DEF q
  <2>2. PICK i \in 1 .. N : s[i] # "blank"
    BY Formed
  <2>3. i \notin 1 .. q - 1
    BY <2>1, <2>2 DEF Blanks
  <2>4. q \in 1 .. N
    BY <1>0, <2>1, <2>3
  <2>5. At(s, q) = s[q]
    BY <1>0, <2>4 DEF At
  <2>6. IsFirst(s, q)
    BY <2>1, <2>5 DEF IsFirst, Blanks
  <2>7. s[q] \in Starters /\ (q > 1 => s[q] = "x")
    BY <2>4, <2>6, Formed
  <2>8. q # 1 => q > 1
    BY <2>4
  <2> QED
    BY <2>5, <2>7, <2>8 DEF Starts, q
<1> HIDE DEF L
<1>2. L[1].ok /\ At(s, c) \in {"close", "end"}
  BY <1>0, <1>1, AllFound DEF Found
<1>3. m \in 2 .. N + 1 /\ \E i, j : Phrase(s, d, 1, m, i, j)
  <2>1. 1 + 1 = 2
    OBVIOUS
  <2> QED
    BY <1>0, <1>2, <2>1, TableFacts, AllPhrases DEF Advances, Phrases
<1>4. At(s, m) # "blank" \/ PlainEnd(s, d, 1, m)
  BY <1>0, <1>2, BlanksLeft
<1>5. m \in 1 .. N + 1 /\ m \in Nat
  BY <1>0, <1>3
<1>6. c \in m .. N + 1 /\ Blanks(s, m, c) /\ Level(d, m, c)
  BY <1>5, SkipBlanks
<1> HIDE DEF d, c
<1>7. d[c - 1] = 0
  <2>1. d[m - 1] = d[1 - 1] /\ d[c - 1] = d[m - 1]
    BY <1>3, <1>6 DEF Phrase, Level
  <2>2. d[0] = 0 /\ 1 - 1 = 0
    BY DepthFacts DEF d
  <2> QED
    BY <2>1, <2>2
<1> HIDE DEF m
<1>8. At(s, c) = "end"
  <2>1. CASE At(s, c) = "close"
    <3>1. c \in 1 .. N + 1
      BY <1>0, <1>5, <1>6
    <3>2. c \in 1 .. N /\ s[c] = "close"
      BY <2>1, <3>1, AtFacts
    <3>3. d[c] = d[c - 1] - 1 /\ d[c] >= 0
      <4>1. c \in 0 .. N
        BY <3>2
      <4> QED
        BY <3>2, <4>1, DepthFacts, Formed DEF d
    <3> QED
      BY <1>7, <3>3
  <2> QED
    BY <1>2, <2>1
<1>9. c = N + 1
  <2>1. CASE c \in 1 .. N
    <3>1. s[c] = "end" /\ s[c] \in Tokens
      BY <1>0, <1>8, <2>1, LineFacts DEF At
    <3> QED
      BY <3>1 DEF Tokens
  <2> QED
    BY <1>0, <1>5, <1>6, <2>1
<1>10. m = N + 1
  <2>1. CASE m <= N
    <3>1. m \in m .. c - 1 /\ m \in 1 .. N
      BY <1>0, <1>5, <1>9, <2>1
    <3>2. s[m] = "blank"
      BY <1>6, <3>1 DEF Blanks
    <3>3. PlainEnd(s, d, 1, m)
      BY <1>4, <2>1, <3>2 DEF At
    <3>4. s[m - 1] = "close"
      BY <3>3 DEF PlainEnd
    <3>5. m - 1 \in 1 .. N /\ m - 1 < N /\ m - 1 + 1 = m /\ c - 1 = N
      BY <1>0, <1>3, <1>9, <3>1 DEF m
    <3>6. IsLast(s, m - 1)
      BY <1>6, <3>4, <3>5 DEF IsLast, Blanks
    <3>7. EndsNegated(s, d, m - 1)
      BY <3>4, <3>5, <3>6, Formed DEF d
    <3>8. d[0] = 0
      BY DepthFacts DEF d
    <3> QED
      BY <1>5, <3>3, <3>7, <3>8, NotBoth
  <2> QED
    BY <1>0, <1>5, <2>1
<1> QED
  BY <1>2, <1>10 DEF Parse, Match, m, L

\* The parser accepts exactly the lines of the language.
LEMMA ParseIs ==
  ASSUME NEW s \in Seq(Tokens)
  PROVE  Parse(s).ok <=> WellFormed(s)
<1>1. Parse(s).ok \in BOOLEAN
  BY DEF Parse, Match, Fail
<1>2. WellFormed(s) \in BOOLEAN
  BY DEF WellFormed
<1> QED
  BY <1>1, <1>2, ParseSound, ParseComplete

-----------------------------------------------------------------------------
(* The line that the user edits                                            *)

LineTyped == line \in Seq(Tokens)

LEMMA FrontTyped ==
  ASSUME NEW S, NEW s \in Seq(S), s # <<>>
  PROVE  Front(s) \in Seq(S)
<1>1. Len(s) \in Nat /\ Len(s) # 0
  BY EmptySeq
<1>2. 1 \in 1 .. Len(s) + 1 /\ Len(s) - 1 \in 1 - 1 .. Len(s)
  BY <1>1
<1>3. SubSeq(s, 1, Len(s) - 1) \in Seq(S)
  BY <1>1, <1>2
<1> QED
  BY <1>3 DEF Front

LEMMA LineStep ==
  ASSUME LineTyped, [Next]_vars
  PROVE  LineTyped'
<1>1. ASSUME NEW token \in Tokens, Type(token) PROVE LineTyped'
  BY <1>1 DEF Type, Edit, LineTyped
<1>2. CASE Backspace
  BY <1>2, FrontTyped DEF Backspace, Edit, LineTyped
<1>3. CASE Judge
  BY <1>3 DEF Judge, LineTyped
<1>4. CASE UNCHANGED vars
  BY <1>4 DEF vars, LineTyped
<1> QED
  BY <1>1, <1>2, <1>3, <1>4 DEF Next

LEMMA LineInvariant == Spec => []LineTyped
<1>1. Init => LineTyped
  BY EmptySeq DEF Init, LineTyped
<1>2. LineTyped /\ [Next]_vars => LineTyped'
  BY LineStep
<1> QED
  BY <1>1, <1>2, PTL DEF Spec

\* Whatever the user types, the parser (frontend.rs, logic) accepts the line
\* if and only if it is one of the language: for lines of any length.
THEOREM FilterParseExact == Spec => []ParseExact
<1>1. LineTyped => ParseExact
  BY ParseIs DEF LineTyped, ParseExact
<1> QED
  BY <1>1, LineInvariant, PTL

\* Whatever the user types, a filter that parses is evaluated as the line
\* reads from left to right: for lines of any length and any values of the
\* operands.
THEOREM FilterReadsLeftToRight == Spec => []ReadsLeftToRight
<1>1. LineTyped => ReadsLeftToRight
  <2> SUFFICES ASSUME LineTyped, Parse(line).ok,
                      NEW truth \in [{i \in 1 .. Len(line) : line[i] = "x"} -> BOOLEAN]
               PROVE  Eval(Parse(line).ast, truth) = Reading(line, truth)
    BY DEF ReadsLeftToRight
  <2>1. Valued(line, truth)
    BY DEF Valued
  <2> QED
    BY <2>1, ParseMeans DEF LineTyped
<1> QED
  BY <1>1, LineInvariant, PTL

-----------------------------------------------------------------------------
(* Bytes on the wire                                                       *)

Digits == 0 .. Base - 1

LEMMA BaseFacts ==
  /\ Base \in Nat \ {0} /\ Half \in Nat \ {0} /\ Half = Base * Base
  /\ \A b \in Digits : b \in Int
<1>1. Base \in Nat /\ Base >= 2
  BY BaseAssumption
<1>2. Base * Base \in Nat /\ Base * Base # 0
  BY <1>1
<1> QED
  BY <1>1, <1>2 DEF Half, Digits

\* A number and its digits, to any base.
LEMMA Digit ==
  ASSUME NEW w \in Nat \ {0}, NEW r \in 0 .. w - 1, NEW q \in Int
  PROVE  (r + w * q) % w = r /\ (r + w * q) \div w = q
<1>1. r + w * q \in Int /\ w * q \in Int /\ q * w \in Int /\ w * q = q * w
  OBVIOUS
<1> DEFINE t == r + w * q
<1>2. t = q * w + r
  BY <1>1
<1>3. t % w = r
  BY <1>2, Remainder
<1>4. t \div w \in Int /\ t = (t \div w) * w + (t % w)
  BY <1>1, Division
<1> HIDE DEF t
<1> DEFINE x == t \div w
<1>5. x \in Int /\ x * w + r = q * w + r /\ x * w \in Int
  BY <1>2, <1>3, <1>4
<1> HIDE DEF x
<1>6. x * w = q * w
  BY <1>1, <1>5
<1>7. x = q
  BY <1>5, <1>6
<1> QED
  BY <1>3, <1>7 DEF t, x

\* A u16 and its two bytes.
LEMMA Load16Bytes ==
  ASSUME NEW a \in Digits, NEW b \in Digits
  PROVE  /\ Bytes16(Load16(<<a, b>>)) = <<a, b>>
         /\ Load16(<<a, b>>) = a + Base * b /\ Load16(<<a, b>>) \in 0 .. Half - 1
<1>1. Load16(<<a, b>>) = a + Base * b
  BY DEF Load16
<1>2. (a + Base * b) % Base = a /\ (a + Base * b) \div Base = b
  BY BaseFacts, Digit DEF Digits
<1>3. a + Base * b \in 0 .. Half - 1
  <2>1. /\ Base \in Nat /\ a \in Nat /\ b \in Nat /\ a <= Base - 1 /\ b <= Base - 1
        /\ Half = Base * Base /\ Half \in Nat
    BY BaseFacts DEF Digits
  <2>2. Base * b <= Base * (Base - 1) /\ Base * b \in Nat
    BY <2>1
  <2>3. Base * (Base - 1) = Base * Base - Base
    BY <2>1
  <2> QED
    BY <2>1, <2>2, <2>3
<1> QED
  BY <1>1, <1>2, <1>3 DEF Bytes16

LEMMA Bytes16Load ==
  ASSUME NEW n \in 0 .. Half - 1
  PROVE  /\ n % Base \in Digits /\ n \div Base \in Digits
         /\ Bytes16(n) = <<n % Base, n \div Base>> /\ Load16(Bytes16(n)) = n
<1> DEFINE r == n % Base
           q == n \div Base
<1>1. r \in 0 .. Base - 1 /\ q \in Int /\ n = q * Base + r /\ n \in Int
  BY BaseFacts, Division
<1> HIDE DEF r, q
<1>2. q >= 0
  <2>1. CASE q <= 0 - 1
    <3>1. q * Base <= 0 - Base
      BY <1>1, <2>1, BaseFacts
    <3> QED
      BY <1>1, <3>1, BaseFacts
  <2> QED
    BY <1>1, <2>1
<1>3. q < Base
  <2>1. CASE q >= Base
    <3>1. q * Base >= Base * Base
      BY <1>1, <2>1, BaseFacts
    <3> QED
      BY <1>1, <3>1, BaseFacts
  <2> QED
    BY <1>1, <2>1, BaseFacts
<1>4. q \in Digits /\ r \in Digits
  BY <1>1, <1>2, <1>3, BaseFacts DEF Digits
<1>5. Bytes16(n) = <<r, q>>
  BY DEF Bytes16, r, q
<1>6. Load16(<<r, q>>) = r + Base * q
  BY DEF Load16
<1>7. r + Base * q = n
  BY <1>1, BaseFacts
<1> QED
  BY <1>4, <1>5, <1>6, <1>7 DEF r, q

LEMMA PairJoin ==
  ASSUME NEW S, NEW a \in S, NEW b \in S, NEW c \in S, NEW e \in S
  PROVE  <<a, b>> \o <<c, e>> = <<a, b, c, e>>
<1> DEFINE s == <<a, b>>
           t == <<c, e>>
           u == <<a, b, c, e>>
<1>1. /\ s \in Seq(S) /\ Len(s) = 2 /\ s[1] = a /\ s[2] = b
      /\ t \in Seq(S) /\ Len(t) = 2 /\ t[1] = c /\ t[2] = e
      /\ u \in Seq(S) /\ Len(u) = 4 /\ u[1] = a /\ u[2] = b /\ u[3] = c /\ u[4] = e
  OBVIOUS
<1> HIDE DEF s, t, u
<1>2. /\ s \o t \in Seq(S) /\ Len(s \o t) = 2 + 2
      /\ \A i \in 1 .. 2 + 2 : (s \o t)[i] = IF i <= 2 THEN s[i] ELSE t[i - 2]
  <2>1. /\ s \o t \in Seq(S) /\ Len(s \o t) = Len(s) + Len(t)
        /\ \A i \in 1 .. Len(s) + Len(t) :
             (s \o t)[i] = IF i <= Len(s) THEN s[i] ELSE t[i - Len(s)]
    BY <1>1, ConcatProperties
  <2> QED
    BY <1>1, <2>1
<1>3. 2 + 2 = 4 /\ \A i \in 1 .. 4 : i = 1 \/ i = 2 \/ i = 3 \/ i = 4
  OBVIOUS
<1>4. /\ (s \o t)[1] = s[1] /\ (s \o t)[2] = s[2]
      /\ (s \o t)[3] = t[1] /\ (s \o t)[4] = t[2]
  BY <1>2
<1>5. \A i \in 1 .. 4 : (s \o t)[i] = u[i]
  BY <1>1, <1>3, <1>4
<1>6. s \o t = u
  BY <1>1, <1>2, <1>3, <1>5, SeqEqual
<1> QED
  BY <1>6 DEF s, t, u

\* A u32 and its four bytes.
LEMMA Load32Bytes ==
  ASSUME NEW a \in Digits, NEW b \in Digits, NEW c \in Digits, NEW e \in Digits
  PROVE  /\ Load32(<<a, b, c, e>>) % Half = Load16(<<a, b>>)
         /\ Load32(<<a, b, c, e>>) \div Half = Load16(<<c, e>>)
         /\ Load32(<<a, b, c, e>>) \in Int
         /\ Bytes32(Load32(<<a, b, c, e>>)) = <<a, b, c, e>>
<1> DEFINE l == Load16(<<a, b>>)
           h == Load16(<<c, e>>)
           n == Load32(<<a, b, c, e>>)
<1>1. /\ l \in 0 .. Half - 1 /\ Bytes16(l) = <<a, b>>
      /\ h \in 0 .. Half - 1 /\ Bytes16(h) = <<c, e>>
  BY Load16Bytes
<1>2. n = l + Half * h
  BY DEF Load32
<1> HIDE DEF l, h, n
<1>3. n \in Int /\ h \in Int
  BY <1>1, <1>2, BaseFacts
<1>4. n % Half = l /\ n \div Half = h
  BY <1>1, <1>2, <1>3, BaseFacts, Digit
<1>5. Bytes32(n) = <<a, b>> \o <<c, e>>
  BY <1>1, <1>4 DEF Bytes32
<1>6. <<a, b>> \o <<c, e>> = <<a, b, c, e>>
  BY PairJoin
<1> QED
  BY <1>3, <1>4, <1>5, <1>6 DEF n, l, h

LEMMA Bytes32Load ==
  \A a, b, c, e \in Digits : Bytes32(Load32(<<a, b, c, e>>)) = <<a, b, c, e>>
<1> SUFFICES ASSUME NEW a \in Digits, NEW b \in Digits, NEW c \in Digits, NEW e \in Digits
             PROVE  Bytes32(Load32(<<a, b, c, e>>)) = <<a, b, c, e>>
  OBVIOUS
<1> QED
  BY Load32Bytes

LEMMA ReverseTuple ==
  /\ \A a, b : Reverse(<<a, b>>) = <<b, a>>
  /\ \A a, b, c, e : Reverse(<<a, b, c, e>>) = <<e, c, b, a>>
<1>1. ASSUME NEW a, NEW b PROVE Reverse(<<a, b>>) = <<b, a>>
  BY DEF Reverse
<1>2. ASSUME NEW a, NEW b, NEW c, NEW e PROVE Reverse(<<a, b, c, e>>) = <<e, c, b, a>>
  BY DEF Reverse
<1> QED
  BY <1>1, <1>2

\* from_be undoes network order.
LEMMA FromBe16Is ==
  ASSUME NEW a \in Digits, NEW b \in Digits
  PROVE  FromBe16(Load16(<<a, b>>)) = Load16(<<b, a>>)
BY Load16Bytes, ReverseTuple DEF FromBe16

LEMMA FromBe32Is ==
  ASSUME NEW a \in Digits, NEW b \in Digits, NEW c \in Digits, NEW e \in Digits
  PROVE  FromBe32(Load32(<<a, b, c, e>>)) = Load32(<<e, c, b, a>>)
<1>1. Bytes32(Load32(<<a, b, c, e>>)) = <<a, b, c, e>>
  BY Bytes32Load
<1>2. Reverse(<<a, b, c, e>>) = <<e, c, b, a>>
  BY ReverseTuple
<1> QED
  BY <1>1, <1>2 DEF FromBe32

\* An IPv4 address arrives as it was sent.
LEMMA AddressV4 ==
  ASSUME NEW o \in [1 .. 4 -> Digits]
  PROVE  StdIpAddr(IpV4(Load32(o))) = [version |-> "V4", octets |-> o]
<1> DEFINE a == o[1]
           b == o[2]
           c == o[3]
           e == o[4]
           x == Load32(<<a, b, c, e>>)
           ip == IpV4(x)
<1>1. a \in Digits /\ b \in Digits /\ c \in Digits /\ e \in Digits
  OBVIOUS
<1>2. Load32(o) = x
  BY DEF Load32
<1>3. o = <<a, b, c, e>>
  OBVIOUS
<1> HIDE DEF a, b, c, e
<1>4. x \in Int /\ x = (x \div Half) * Half + (x % Half)
  BY <1>1, Load32Bytes, BaseFacts, Division
<1>5. FromBe32(x) = Load32(<<e, c, b, a>>)
  BY <1>1, FromBe32Is
<1>6. Reverse(Bytes32(Load32(<<e, c, b, a>>))) = <<a, b, c, e>>
  <2>1. Bytes32(Load32(<<e, c, b, a>>)) = <<e, c, b, a>>
    BY <1>1, Bytes32Load
  <2>2. Reverse(<<e, c, b, a>>) = <<a, b, c, e>>
    BY ReverseTuple
  <2> QED
    BY <2>1, <2>2
<1> HIDE DEF x
<1>7. ip.version = "V4" /\ ip.addr[7] = x \div Half /\ ip.addr[8] = x % Half
  BY DEF IpV4
<1> HIDE DEF ip
<1>8. ip.addr[7] * Half + ip.addr[8] = x
  BY <1>4, <1>7
<1>9. StdIpAddr(ip) = [version |-> "V4", octets |-> Reverse(Bytes32(FromBe32(x)))]
  BY <1>7, <1>8 DEF StdIpAddr
<1> QED
  BY <1>2, <1>3, <1>5, <1>6, <1>9 DEF ip

LEMMA OctetsLen ==
  ASSUME NEW o \in [1 .. 16 -> Digits]
  PROVE  Len(o) \div 2 = 8
<1>1. o \in Seq(Digits) /\ Len(o) = 16
  <2>1. o \in Seq(Digits)
    BY SeqDef
  <2>2. DOMAIN o = 1 .. Len(o) /\ Len(o) \in Nat
    BY <2>1, LenProperties
  <2>3. DOMAIN o = 1 .. 16
    OBVIOUS
  <2>4. Len(o) = 16
    <3>1. \A i \in 1 .. 16 : i \in 1 .. Len(o)
      BY <2>2, <2>3
    <3>2. \A i \in 1 .. Len(o) : i \in 1 .. 16
      BY <2>2, <2>3
    <3>3. 16 \in 1 .. 16 /\ (Len(o) # 0 => Len(o) \in 1 .. Len(o))
      BY <2>2
    <3>4. 16 <= Len(o)
      BY <2>2, <3>1, <3>3
    <3>5. Len(o) <= 16
      BY <2>2, <3>2, <3>3, <3>4
    <3> QED
      BY <2>2, <3>4, <3>5
  <2> QED
    BY <2>1, <2>4
<1>2. 16 \div 2 = 8
  OBVIOUS
<1> QED
  BY <1>1, <1>2

\* An IPv6 address arrives as it was sent.
LEMMA AddressV6 ==
  ASSUME NEW o \in [1 .. 16 -> Digits]
  PROVE  StdIpAddr(IpV6([i \in 1 .. Len(o) \div 2 |-> Load16(<<o[2 * i - 1], o[2 * i]>>)]))
           = [version |-> "V6", octets |-> o]
<1> DEFINE w == [i \in 1 .. 8 |-> Load16(<<o[2 * i - 1], o[2 * i]>>)]
           seg(i) == Reverse(Bytes16(FromBe16(w[i])))
           ip == IpV6(w)
<1>1. IpV6([i \in 1 .. Len(o) \div 2 |-> Load16(<<o[2 * i - 1], o[2 * i]>>)]) = ip
  BY OctetsLen
<1>2. ASSUME NEW i \in 1 .. 8 PROVE seg(i) = <<o[2 * i - 1], o[2 * i]>>
  <2> DEFINE a == o[2 * i - 1]
             b == o[2 * i]
  <2>1. 2 * i - 1 \in 1 .. 16 /\ 2 * i \in 1 .. 16
    OBVIOUS
  <2>2. a \in Digits /\ b \in Digits
    BY <2>1
  <2>3. w[i] = Load16(<<a, b>>)
    OBVIOUS
  <2> HIDE DEF a, b, w
  <2>4. FromBe16(w[i]) = Load16(<<b, a>>)
    BY <2>2, <2>3, FromBe16Is
  <2>5. Bytes16(Load16(<<b, a>>)) = <<b, a>>
    BY <2>2, Load16Bytes
  <2>6. Reverse(<<b, a>>) = <<a, b>>
    BY ReverseTuple
  <2> QED
    BY <2>4, <2>5, <2>6 DEF a, b
<1>3. ip.version = "V6" /\ ip.addr = w
  BY DEF IpV6
<1> HIDE DEF ip, w
<1>4. StdIpAddr(ip) = [version |-> "V6",
                       octets |-> [j \in 1 .. 16 |-> seg((j + 1) \div 2)[2 - (j % 2)]]]
  BY <1>3 DEF StdIpAddr
<1>5. ASSUME NEW j \in 1 .. 16 PROVE seg((j + 1) \div 2)[2 - (j % 2)] = o[j]
  <2> DEFINE i == (j + 1) \div 2
             r == j % 2
  <2>1. /\ i \in 1 .. 8
        /\ (r = 1 /\ 2 * i - 1 = j) \/ (r = 0 /\ 2 * i = j)
    <3>1. /\ r \in 0 .. 1 /\ (j \div 2) \in Int /\ j = (j \div 2) * 2 + r
          /\ (j + 1) % 2 \in 0 .. 1 /\ i \in Int /\ j + 1 = i * 2 + ((j + 1) % 2)
      OBVIOUS
    <3> QED
      BY <3>1
  <2>2. seg(i) = <<o[2 * i - 1], o[2 * i]>>
    BY <1>2, <2>1
  <2> HIDE DEF i, r, seg
  <2>3. CASE r = 1 /\ 2 * i - 1 = j
    <3>1. 2 - r = 1
      BY <2>3
    <3> QED
      BY <2>2, <2>3, <3>1 DEF i, r
  <2>4. CASE r = 0 /\ 2 * i = j
    <3>1. 2 - r = 2
      BY <2>4
    <3> QED
      BY <2>2, <2>4, <3>1 DEF i, r
  <2> QED
    BY <2>1, <2>3, <2>4
<1> HIDE DEF seg
<1>6. [j \in 1 .. 16 |-> seg((j + 1) \div 2)[2 - (j % 2)]] = o
  BY <1>5
<1> QED
  BY <1>1, <1>4, <1>6

\* So does the remote port, which the kernel keeps in network order.
LEMMA RemotePort ==
  ASSUME NEW l \in 0 .. Half - 1, NEW r \in 0 .. Half - 1
  PROVE  FromBe16(Load32(Reverse(Bytes16(r)) \o Bytes16(l)) % Half) = r
<1> DEFINE a == r % Base
           b == r \div Base
           c == l % Base
           e == l \div Base
<1>1. /\ a \in Digits /\ b \in Digits /\ Bytes16(r) = <<a, b>> /\ Load16(<<a, b>>) = r
      /\ c \in Digits /\ e \in Digits /\ Bytes16(l) = <<c, e>>
  BY Bytes16Load
<1> HIDE DEF a, b, c, e
<1>2. Reverse(Bytes16(r)) \o Bytes16(l) = <<b, a, c, e>>
  <2>1. Reverse(Bytes16(r)) = <<b, a>>
    BY <1>1, ReverseTuple
  <2>2. <<b, a>> \o <<c, e>> = <<b, a, c, e>>
    BY <1>1, PairJoin
  <2> QED
    BY <1>1, <2>1, <2>2
<1>3. Load32(<<b, a, c, e>>) % Half = Load16(<<b, a>>)
  BY <1>1, Load32Bytes
<1>4. FromBe16(Load16(<<b, a>>)) = Load16(<<a, b>>)
  BY <1>1, FromBe16Is
<1> QED
  BY <1>1, <1>2, <1>3, <1>4

\* The lower half of pid_tgid is the thread.
LEMMA CtxPidIs ==
  ASSUME NEW k \in KernelSocks
  PROVE  CtxPid(k) = k.tid
<1>1. k.tgid \in 0 .. Word - 1 /\ k.tid \in 0 .. Word - 1
  BY SocksAssumption
<1> DEFINE w == Word
           t == k.tid
           g == k.tgid
<1>2. w \in Nat \ {0}
  BY BaseFacts DEF Word
<1>3. CtxPid(k) = (g * w + t) % w
  BY DEF CtxPid, PidTgid
<1> HIDE DEF w, t, g
<1>4. t \in 0 .. w - 1 /\ g \in Int
  BY <1>1, <1>2 DEF w, t, g
<1>5. g * w + t = t + w * g
  BY <1>2, <1>4
<1>6. (t + w * g) % w = t
  BY <1>2, <1>4, Digit
<1> QED
  BY <1>3, <1>5, <1>6 DEF t

\* What user space makes of a socket of the kernel.  Its pid is the thread, and
\* the local port is left out: the kernel keeps it as a plain number, and
\* from_be swaps it.
LEMMA SocketIs ==
  ASSUME NEW k \in KernelSocks
  PROVE  LET s == Socket(SockMsgEvent(k))
         IN  /\ s.pid = k.tid /\ s.sock_type = SockType(k.sk_type)
             /\ s.local.ip = [version |-> k.version, octets |-> k.laddr]
             /\ s.remote.ip = [version |-> k.version, octets |-> k.raddr]
             /\ s.remote.port = k.rport
<1> DEFINE words(o) == [i \in 1 .. Len(o) \div 2 |-> Load16(<<o[2 * i - 1], o[2 * i]>>)]
           pair == Load32(Reverse(Bytes16(k.rport)) \o Bytes16(k.lport))
           msg == SockMsgEvent(k)
           s == Socket(msg)
<1>1. /\ k.version \in {"V4", "V6"}
      /\ k.version = "V4" => k.laddr \in [1 .. 4 -> Digits] /\ k.raddr \in [1 .. 4 -> Digits]
      /\ k.version = "V6" => k.laddr \in [1 .. 16 -> Digits] /\ k.raddr \in [1 .. 16 -> Digits]
      /\ k.lport \in 0 .. Half - 1 /\ k.rport \in 0 .. Half - 1
  BY SocksAssumption DEF Digits
<1>2. /\ msg.sock_type = SockType(k.sk_type) /\ msg.pid = k.tid
      /\ msg.local_addr = IF k.version = "V4" THEN IpV4(Load32(k.laddr))
                                              ELSE IpV6(words(k.laddr))
      /\ msg.remote_addr = IF k.version = "V4" THEN IpV4(Load32(k.raddr))
                                               ELSE IpV6(words(k.raddr))
      /\ msg.remote_port = pair % Half
  BY CtxPidIs DEF SockMsgEvent, SockCommon
<1> HIDE DEF msg
<1>3. /\ s.pid = msg.pid /\ s.sock_type = msg.sock_type
      /\ s.local.ip = StdIpAddr(msg.local_addr) /\ s.remote.ip = StdIpAddr(msg.remote_addr)
      /\ s.remote.port = FromBe16(msg.remote_port)
  BY DEF Socket
<1> HIDE DEF s
<1>4. s.remote.port = k.rport
  <2>1. FromBe16(pair % Half) = k.rport
    BY <1>1, RemotePort
  <2> QED
    BY <1>2, <1>3, <2>1
<1> HIDE DEF pair
<1>5. /\ StdIpAddr(msg.local_addr) = [version |-> k.version, octets |-> k.laddr]
      /\ StdIpAddr(msg.remote_addr) = [version |-> k.version, octets |-> k.raddr]
  <2>1. CASE k.version = "V4"
    <3>1. /\ StdIpAddr(IpV4(Load32(k.laddr))) = [version |-> "V4", octets |-> k.laddr]
          /\ StdIpAddr(IpV4(Load32(k.raddr))) = [version |-> "V4", octets |-> k.raddr]
      BY <1>1, <2>1, AddressV4
    <3> HIDE DEF words
    <3> QED
      BY <1>2, <2>1, <3>1
  <2>2. CASE k.version = "V6"
    <3>1. /\ StdIpAddr(IpV6(words(k.laddr))) = [version |-> "V6", octets |-> k.laddr]
          /\ StdIpAddr(IpV6(words(k.raddr))) = [version |-> "V6", octets |-> k.raddr]
      BY <1>1, <2>2, AddressV6
    <3> HIDE DEF words
    <3> QED
      BY <1>2, <2>2, <3>1
  <2> QED
    BY <1>1, <2>1, <2>2
<1> HIDE DEF words
<1> QED
  BY <1>2, <1>3, <1>4, <1>5 DEF s, msg

\* An operand that does not look at the local port is true of the decoded
\* socket if it is true of the kernel's, and one that looks at the process is
\* if the thread is the main one.
LEMMA LeafTrue ==
  ASSUME NEW k \in KernelSocks, NEW e \in Leaves, e.kind \notin {"Port", "LocalPort"},
         e.kind = "Pid" => k.tid = k.tgid
  PROVE  /\ EvalLeaf(e, Socket(SockMsgEvent(k))) = Holds(e, k)
         /\ EvalLeaf(e, Socket(SockMsgEvent(k))) \in BOOLEAN
<1> DEFINE s == Socket(SockMsgEvent(k))
           local == [version |-> k.version, octets |-> k.laddr]
           remote == [version |-> k.version, octets |-> k.raddr]
<1>1. /\ s.pid = k.tid /\ s.sock_type = SockType(k.sk_type)
      /\ s.local.ip = local /\ s.remote.ip = remote /\ s.remote.port = k.rport
  BY SocketIs
<1> HIDE DEF s
<1>2. CASE e.kind = "Pid"
  <2>1. EvalLeaf(e, s) = (s.pid = e.arg) /\ Holds(e, k) = (k.tgid = e.arg)
    BY <1>2 DEF EvalLeaf, Holds
  <2> QED
    BY <1>1, <1>2, <2>1 DEF s
<1>3. CASE e.kind = "Protocol"
  <2>1. /\ EvalLeaf(e, s) = (Protocol(s) = e.arg)
        /\ Holds(e, k) = (k.sk_type = (IF e.arg = "tcp" THEN 1 ELSE 2))
    BY <1>3 DEF EvalLeaf, Holds
  <2>2. e.arg \in {"tcp", "udp"} /\ k.sk_type \in Nat
    BY <1>3, LeavesAssumption, SocksAssumption
  <2>3. /\ SockType(k.sk_type) = 1 <=> k.sk_type = 1
        /\ SockType(k.sk_type) = 2 <=> k.sk_type = 2
    BY <2>2 DEF SockType
  <2>4. /\ s.sock_type = 1 => Protocol(s) = "tcp"
        /\ s.sock_type = 2 => Protocol(s) = "udp"
        /\ s.sock_type # 1 /\ s.sock_type # 2 => Protocol(s) = "none"
    BY DEF Protocol
  <2>5. (Protocol(s) = e.arg) <=> (k.sk_type = (IF e.arg = "tcp" THEN 1 ELSE 2))
    BY <1>1, <2>2, <2>3, <2>4
  <2> QED
    BY <2>1, <2>5 DEF s
<1>4. CASE e.kind = "IpVersion"
  <2>1. EvalLeaf(e, s) = (s.local.ip.version = e.arg) /\ Holds(e, k) = (k.version = e.arg)
    BY <1>4 DEF EvalLeaf, Holds
  <2>2. s.local.ip.version = k.version
    BY <1>1
  <2> QED
    BY <2>1, <2>2 DEF s
<1>5. CASE e.kind = "Addr"
  <2>1. /\ EvalLeaf(e, s) = (e.arg \in {s.local.ip, s.remote.ip})
        /\ Holds(e, k) = (e.arg \in {local, remote})
    BY <1>5 DEF EvalLeaf, Holds
  <2> HIDE DEF local, remote
  <2> QED
    BY <1>1, <2>1 DEF s
<1>6. CASE e.kind = "LocalAddr"
  <2>1. EvalLeaf(e, s) = (s.local.ip = e.arg) /\ Holds(e, k) = (e.arg = local)
    BY <1>6 DEF EvalLeaf, Holds
  <2> HIDE DEF local, remote
  <2> QED
    BY <1>1, <2>1 DEF s
<1>7. CASE e.kind = "RemoteAddr"
  <2>1. EvalLeaf(e, s) = (s.remote.ip = e.arg) /\ Holds(e, k) = (e.arg = remote)
    BY <1>7 DEF EvalLeaf, Holds
  <2> HIDE DEF local, remote
  <2> QED
    BY <1>1, <2>1 DEF s
<1>8. CASE e.kind = "RemotePort"
  <2>1. EvalLeaf(e, s) = (s.remote.port = e.arg) /\ Holds(e, k) = (e.arg = k.rport)
    BY <1>8 DEF EvalLeaf, Holds
  <2> HIDE DEF local, remote
  <2> QED
    BY <1>1, <2>1 DEF s
<1> QED
  BY <1>2, <1>3, <1>4, <1>5, <1>6, <1>7, <1>8, LeavesAssumption

LEMMA AnswerStep ==
  ASSUME \A e \in Leaves : e.kind \notin {"Port", "LocalPort"},
         \A e \in Leaves, k \in KernelSocks : e.kind = "Pid" => k.tid = k.tgid,
         LineTyped, AnswerTrue, [Next]_vars
  PROVE  AnswerTrue'
<1>1. ASSUME NEW token \in Tokens, Type(token) PROVE AnswerTrue'
  BY <1>1 DEF Type, Edit, AnswerTrue
<1>2. CASE Backspace
  BY <1>2 DEF Backspace, Edit, AnswerTrue
<1>3. CASE Judge
  <2>1. PICK k \in KernelSocks, e \in Leaves :
          /\ sock' = k /\ leaf' = e
          /\ shown' = Eval(Parse(line).ast,
                           [i \in 1 .. Len(line) |-> EvalLeaf(e, Socket(SockMsgEvent(k)))])
    BY <1>3 DEF Judge
  <2> DEFINE truth == [i \in 1 .. Len(line) |-> EvalLeaf(e, Socket(SockMsgEvent(k)))]
             facts == [i \in 1 .. Len(line) |-> Holds(e, k)]
  <2>2. /\ EvalLeaf(e, Socket(SockMsgEvent(k))) = Holds(e, k)
        /\ EvalLeaf(e, Socket(SockMsgEvent(k))) \in BOOLEAN
    BY LeafTrue
  <2>3. truth = facts /\ Valued(line, truth)
    BY <2>2 DEF Valued
  <2> HIDE DEF truth
  <2>4. Parse(line).ok /\ line' = line
    BY <1>3 DEF Judge
  <2>5. Eval(Parse(line).ast, truth) = Reading(line, truth)
    BY <2>3, <2>4, ParseMeans DEF LineTyped
  <2>6. shown' = Reading(line, facts)
    BY <2>1, <2>3, <2>5 DEF truth
  <2> QED
    BY <2>1, <2>4, <2>6 DEF AnswerTrue
<1>4. CASE UNCHANGED vars
  BY <1>4 DEF vars, AnswerTrue
<1> QED
  BY <1>1, <1>2, <1>3, <1>4 DEF Next

\* As long as no operand looks at the local port, and none looks at the process
\* unless all sockets are used by main threads, the answer of a filter about a
\* socket that notify has packed and user space has unpacked is what the line
\* says of the socket in the kernel: for lines of any length, bytes of any
\* width and all the sockets.
THEOREM FilterAnswerTrue ==
  ASSUME \A e \in Leaves : e.kind \notin {"Port", "LocalPort"},
         \A e \in Leaves, k \in KernelSocks : e.kind = "Pid" => k.tid = k.tgid
  PROVE  Spec => []AnswerTrue
<1>1. Init => AnswerTrue
  BY DEF Init, AnswerTrue
<1>2. LineTyped /\ AnswerTrue /\ [Next]_vars => AnswerTrue'
  BY AnswerStep
<1> QED
  BY <1>1, <1>2, LineInvariant, PTL DEF Spec

=============================================================================
