---------------------------- MODULE MaterialLines ----------------------------
(* The name of a material as a person reads it: its brackets, its letters   *)
(* and its delimiters, by definitions that do not use those of the parser.  *)
EXTENDS MaterialParser

Brackets(line) == {i \in DOMAIN line : line[i] \in OpenBrackets \cup CloseBrackets}
Matching(line) ==
    {p \in Brackets(line) \X Brackets(line) : p[1] < p[2] /\ SameKind(line[p[1]], line[p[2]])}
Crossing(p, q) == p[1] < q[1] /\ q[1] < p[2] /\ p[2] < q[2]

\* Each bracket has one partner of its kind, and no two pairs cross.
Paired(line, pairs) ==
    /\ pairs \subseteq Matching(line)
    /\ \A i \in Brackets(line) : \E p \in pairs : i \in {p[1], p[2]}
    /\ \A p, q \in pairs : p # q => {p[1], p[2]} \cap {q[1], q[2]} = {} /\ ~Crossing(p, q)
Balanced(line) == \E pairs \in SUBSET Matching(line) : Paired(line, pairs)

LettersOf(line) ==
    FlattenSeq([i \in DOMAIN line |-> IF line[i] \in Letters THEN <<line[i]>> ELSE <<>>])

\* A delimiter with no part before it.
NoPartBefore(line, i) ==
    /\ line[i] \in Delims
    /\ LET before == Strip(SubSeq(line, 1, i - 1))
       IN  before = <<>> \/ Last(before) \in OpenBrackets \cup {line[i]}
=============================================================================
