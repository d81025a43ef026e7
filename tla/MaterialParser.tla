--------------------------- MODULE MaterialParser ---------------------------
(***************************************************************************)
(* processors/materials/parser.py: how ParserV2 splits the name of a       *)
(* material, such as "4M1 - 16 (a+b) - 4K", into the parts the dictionary  *)
(* knows.  A line is a sequence of symbols: brackets, delimiters, blanks   *)
(* and letters.                                                            *)
(***************************************************************************)
EXTENDS Naturals, Sequences, SequencesExt, SortedSets

CONSTANTS
    Delims,   \* DELIMETERS
    Letters   \* every other symbol that is neither a bracket nor a blank

Blank == " "
OpenBrackets == {"(", "[", "{"}
CloseBrackets == {")", "]", "}"}
Symbols == Delims \cup Letters \cup {Blank} \cup OpenBrackets \cup CloseBrackets

ASSUME SymbolAssumption ==
    /\ Delims \cap Letters = {}
    /\ (Delims \cup Letters) \cap ({Blank} \cup OpenBrackets \cup CloseBrackets) = {}

\* _check_breket: two brackets are of one kind.
SameKind(open, close) ==
    <<open, close>> \in {<<"(", ")">>, <<"[", "]">>, <<"{", "}">>}

\* str.strip
Strip(line) ==
    LET kept == {i \in DOMAIN line : line[i] # Blank}
    IN  IF kept = {} THEN <<>> ELSE SubSeq(line, Min(kept), Max(kept))

-----------------------------------------------------------------------------
(* _symbols_tree.  The stack holds the positions of the brackets that are   *)
(* open; a block is named by the position of its opening bracket, the whole *)
(* line (general_block) by 0.  marks are the delimiters with their block.   *)

EmptyTree == [stack |-> <<>>, blocks |-> {}, marks |-> {}, wrong |-> FALSE]

OutermostBlock(tree) == 0
Innermost(tree) == IF tree.stack = <<>> THEN 0 ELSE Last(tree.stack)

\* A closing bracket on an empty stack raises as well (stack[-1] of an empty list).
ClosesAny(line, tree, i) == tree.stack # <<>>
Closes(line, tree, i) ==
    /\ tree.stack # <<>>
    /\ SameKind(line[Last(tree.stack)], line[i])

Scan(line, tree, i) ==
    IF tree.wrong THEN tree
    ELSE CASE line[i] \in OpenBrackets -> [tree EXCEPT !.stack = Append(@, i)]
           [] line[i] \in CloseBrackets ->
                IF Closes(line, tree, i)
                THEN [tree EXCEPT !.stack = Front(@),
                                  !.blocks = @ \cup {[start |-> Last(tree.stack), end |-> i,
                                                      level |-> Len(tree.stack)]}]
                ELSE [tree EXCEPT !.wrong = TRUE]
           [] line[i] \in Delims ->
                [tree EXCEPT !.marks = @ \cup {[block |-> Innermost(tree), at |-> i]}]
           [] OTHER -> tree

Scanned(line) ==
    LET upTo[i \in 0..Len(line)] ==
            IF i = 0 THEN EmptyTree ELSE Scan(line, upTo[i - 1], i)
    IN  upTo

\* `if stack` after the loop: a bracket was never closed.
Tree(line) ==
    LET tree == Scanned(line)[Len(line)]
    IN  [tree EXCEPT !.wrong = @ \/ tree.stack # <<>>]

-----------------------------------------------------------------------------
(* Block: the delimiter it has most of, and what it is split into by it.    *)

Cuts(line, tree, block, delim) ==
    {m.at : m \in {x \in tree.marks : x.block = block /\ line[x.at] = delim}}

DelimCount(line, tree, block) ==
    Max({0} \cup {Cardinality(Cuts(line, tree, block, d)) : d \in Delims})

\* add_delim replaces max_delimeter only by a strictly larger count: of two equal
\* ones it is that which reached the count first.
MaxDelimiter(line, tree, block) ==
    LET most == {d \in Delims : /\ Cuts(line, tree, block, d) # {}
                                /\ Cardinality(Cuts(line, tree, block, d))
                                      = DelimCount(line, tree, block)}
    IN  CHOOSE d \in most : \A e \in most :
            Max(Cuts(line, tree, block, d)) <= Max(Cuts(line, tree, block, e))

\* split_by_delim: the pieces of line[first..last] between the cuts.
SplitSkipping(line, first, last, cuts) ==
    LET bounds == Ascending(cuts \cup {first - 1, last + 1}, last + 1)
    IN  [k \in 1..Len(bounds) - 1 |-> SubSeq(line, bounds[k] + 1, bounds[k + 1] - 2)]
Split(line, first, last, cuts) ==
    LET bounds == Ascending(cuts \cup {first - 1, last + 1}, last + 1)
    IN  [k \in 1..Len(bounds) - 1 |-> SubSeq(line, bounds[k] + 1, bounds[k + 1] - 1)]

SplitBlock(line, tree, block, first, last) ==
    Split(line, first, last, Cuts(line, tree, block, MaxDelimiter(line, tree, block)))

-----------------------------------------------------------------------------
(* ParserV2                                                                 *)

Result(prefix, parts, postfix) == [prefix |-> prefix, parts |-> parts, postfix |-> postfix]

FirstLevel(tree) == {b \in tree.blocks : b.level = 1}

\* _find_candidates
Candidates(line, tree) ==
    {b \in FirstLevel(tree) :
        /\ DelimCount(line, tree, b.start) > DelimCount(line, tree, 0)
        /\ DelimCount(line, tree, b.start) > 1}

\* _no_brekets_rule and _parse
Parse0(raw) ==
    LET line == Strip(raw)
        tree == Tree(line)
        count == DelimCount(line, tree, 0)
        whole == SplitBlock(line, tree, 0, 1, Len(line))
    IN  CASE count > 1 -> Result(<<>>, whole, <<>>)
          [] FirstLevel(tree) = {} /\ count = 1 -> Result(<<>>, <<whole[1]>>, whole[2])
          [] FirstLevel(tree) = {} /\ count = 0 -> Result(<<>>, <<line>>, <<>>)
          [] /\ FirstLevel(tree) # {}
             /\ count <= 1
             /\ Cardinality(Candidates(line, tree)) = 1 ->
                LET b == CHOOSE c \in Candidates(line, tree) : TRUE
                IN  Result(SubSeq(line, 1, b.start - 1),
                           SplitBlock(line, tree, b.start, b.start + 1, b.end - 1),
                           SubSeq(line, b.end + 1, Len(line)))
          [] OTHER -> Result(<<>>, <<raw>>, <<>>)

\* _clean_last_p: what follows a ")" that comes before any "(" or "[" is a postfix.
LoneClose(part) ==
    {i \in DOMAIN part : /\ part[i] = ")"
                         /\ \A j \in 1..i - 1 : part[j] \notin {"(", "[", ")"}}

\* parse: the last part is cleaned, dropped if nothing is left, and all are stripped.
Cleaned(res) ==
    LET last == Last(res.parts)
        cut == LoneClose(last)
        part == IF cut = {} THEN Strip(last) ELSE Strip(SubSeq(last, 1, Min(cut) - 1))
        tail == IF cut = {} THEN <<>> ELSE Strip(SubSeq(last, Min(cut) + 1, Len(last)))
        parts == Front(res.parts) \o (IF part = <<>> THEN <<>> ELSE <<part>>)
    IN  Result(Strip(res.prefix), [k \in DOMAIN parts |-> Strip(parts[k])],
               Strip(IF tail = <<>> THEN res.postfix ELSE tail))

Raises(raw) == Tree(Strip(raw)).wrong
Parse(raw) == Cleaned(Parse0(raw))
=============================================================================
