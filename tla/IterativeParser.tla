---------------------------- MODULE IterativeParser ----------------------------
(***************************************************************************)
(* The Earley parser: language/grammar/parser/iterative_parser.py with     *)
(* column.py and parse_state.py.                                           *)
(*                                                                         *)
(* A client feeds the input in pieces; each consume() is a generator that  *)
(* yields trees and can be abandoned at a yield.  The table has a column   *)
(* for every bit, eight to a character.  A column is a list that its own   *)
(* loop, and the loops of complete(), go through while it grows: an action *)
(* is one iteration of a loop.                                             *)
(*                                                                         *)
(* States are compared by what __hash__ and __eq__ look at together, that  *)
(* is without is_incomplete and incomplete_idx.  Python goes through the   *)
(* set of a symbol's rules in an order of its own: any.  find_dot() lists  *)
(* the states of a column in the order they were added; in the code one    *)
(* that was replaced moves to the end.                                     *)
(*                                                                         *)
(* Left out: bounds computed from the tree, regular expressions, the       *)
(* statistics (spectra, _max_position), senders and recipients.  Grammars  *)
(* are assumed to have literals only where a character begins: after a     *)
(* single bit the code would look for a column that does not exist.        *)
(***************************************************************************)
EXTENDS GrammarRules, Functions

CONSTANTS Use,             \* grammars, and how clients parse with them, see UseType
          Chunk,           \* what clients pass to consume()
          LiteralText      \* what a literal stands for, a sequence of characters

\* mode is the parsing mode, bit the starter_bit, that is where in the first
\* character the input begins (-1 is the same as 7, the highest bit), and
\* length a bound on the characters of one input.
UseType(u) ==
    /\ GrammarType(u.grammar, DOMAIN LiteralText)
    /\ u.mode \in {"COMPLETE", "INCOMPLETE"}
    /\ u.bit \in -1..7
    /\ u.length \in Nat

ASSUME UseAssumption == \A u \in Use : UseType(u)
ASSUME ChunkAssumption ==
    /\ Chunk \subseteq Seq(0..255)
    /\ \A l \in DOMAIN LiteralText : LiteralText[l] \in Seq(0..255) \ {<< >>}

VARIABLES
    use,          \* grammar_rules, _parsing_mode, starter_bit
    text,         \* all that was consumed
    table,        \* the columns of the current consume()
    last,         \* _table[-1]: the last column before it was worked on
    column,       \* curr_table_idx
    phase,        \* which of the two loops over the column: "main" or "incomplete"
    at,           \* the position in that loop
    waiting,      \* the position in the loop of complete(), in the column of the origin
    rest,         \* what the loops over a set have left
    moved,        \* new_state of place_repetition_shortcut(), and where it is to go
    pc,           \* "idle", "step", "predict", "complete", "shortcut", "trace", "yielded"
    yielded,      \* what was yielded for the text so far: trees and is_complete
    incomplete    \* _incomplete

vars == <<use, text, table, last, column, phase, at, waiting, rest, moved, pc,
          yielded, incomplete>>
input == <<use, text, last>>

grammar == use.grammar
mode == use.mode
starter == (7 - use.bit) % 8      \* the column that the first consume() begins with

(***************************************************************************)
(* Trees and states                                                        *)
(***************************************************************************)
Leaf(word) == [symbol |-> <<"leaf", 0, 0>>, text |-> word, kids |-> << >>]
Tree(symbol, kids) == [symbol |-> symbol, text |-> << >>, kids |-> kids]

ParseState(nonterminal, position, symbols, dot, kids) ==
    [nonterminal |-> nonterminal, position |-> position, symbols |-> symbols,
     dot |-> dot, kids |-> kids, partial |-> FALSE, matched |-> 0]

StartState == ParseState(ImplicitStart, 0, <<NonTerminal(grammar.start)>>, 1, << >>)

\* the dot is before symbols[dot]
AtEnd(s) == s.dot > Len(s.symbols)
Finished(s) == AtEnd(s) /\ ~s.partial
Dot(s) == s.symbols[s.dot]
WaitsFor(s, symbol) == ~AtEnd(s) /\ Dot(s) = symbol

\* mutant: __eq__() alone
SameWithoutChildren(s, t) ==
    /\ s.nonterminal = t.nonterminal /\ s.position = t.position
    /\ s.symbols = t.symbols /\ s.dot = t.dot

Same(s, t) == /\ s.nonterminal = t.nonterminal /\ s.position = t.position
              /\ s.symbols = t.symbols /\ s.dot = t.dot /\ s.kids = t.kids

\* Column.add(), and the positions of the states that Column.find_dot() lists
Add(col, s) == IF \E i \in DOMAIN col : Same(col[i], s) THEN col ELSE Append(col, s)
FindDot(col, symbol) == {i \in DOMAIN col : WaitsFor(col[i], symbol)}

NoMove == [index |-> 0, state |-> StartState]
Current == table[column][at]
Length == Len(text)
LastColumn == 8 * Length
TableIdx == IF Length = 0 THEN starter ELSE LastColumn     \* between two consume()
TextAtEnd == column \div 8 >= Length       \* at_end
Working == pc = "step" /\ at \in DOMAIN table[column]

(***************************************************************************)
(* new_parse() and consume()                                               *)
(***************************************************************************)
Init ==
    /\ use \in Use
    /\ text = << >>
    /\ table = [k \in {0} |-> << >>] /\ last = <<StartState>>
    /\ column = starter /\ phase = "main" /\ at = 1 /\ waiting = 1
    /\ rest = {} /\ moved = NoMove
    /\ pc = "idle" /\ yielded = << >> /\ incomplete = {}

NewParse ==
    /\ pc \in {"idle", "yielded"}
    /\ use' \in {u \in Use : u.grammar = grammar}
    /\ text' = << >>
    /\ table' = [k \in {0} |-> << >>] /\ last' = <<StartState>>
    /\ column' = starter' /\ phase' = "main" /\ at' = 1 /\ waiting' = 1
    /\ rest' = {} /\ moved' = NoMove
    /\ pc' = "idle" /\ yielded' = << >> /\ incomplete' = {}

\* The generator of an earlier call is exhausted or abandoned.
Consume(chunk) ==
    /\ pc \in {"idle", "yielded"}
    /\ Length + Len(chunk) <= use.length
    /\ text' = text \o chunk
    /\ starter = 0 \/ text' # << >>
    /\ table' = [k \in 0..(8 * Len(text')) |->
                   CASE k < TableIdx /\ k \in DOMAIN table -> table[k]
                     [] k = TableIdx -> last
                     [] OTHER -> << >>]
    /\ column' = TableIdx /\ phase' = "main" /\ at' = 1 /\ pc' = "step"
    /\ yielded' = << >>
    /\ UNCHANGED <<use, last, waiting, rest, moved, incomplete>>

(***************************************************************************)
(* One state of the column                                                 *)
(***************************************************************************)
YieldChild(isComplete) ==
    /\ yielded' = Append(yielded, <<Current.kids[1], isComplete>>)
    /\ pc' = "yielded"
    /\ UNCHANGED <<input, table, column, phase, at, waiting, rest, moved>>

\* The implicit start is finished: its child is yielded at the end of the input.
FinishStart ==
    /\ Working /\ phase = "main" /\ Finished(Current)
    /\ Current.nonterminal = ImplicitStart
    /\ IF TextAtEnd
       THEN YieldChild(TRUE) /\ UNCHANGED incomplete
       ELSE /\ at' = at + 1
            /\ UNCHANGED <<input, table, column, phase, waiting, rest, moved, pc, yielded, incomplete>>

\* After the yield nobody waits for the implicit start.
Resume ==
    /\ pc = "yielded"
    /\ pc' = "step" /\ at' = at + 1
    /\ UNCHANGED <<input, table, column, phase, waiting, rest, moved, yielded, incomplete>>

Complete ==
    /\ Working /\ phase = "main" /\ Finished(Current)
    /\ Current.nonterminal # ImplicitStart
    /\ pc' = "complete" /\ waiting' = 1
    /\ UNCHANGED <<input, table, column, phase, at, rest, moved, yielded, incomplete>>

\* What a waiting state gets: the completed nonterminal as a child, or the
\* children of an implicit one.
Advance(s, kids) == [s EXCEPT !.dot = @ + 1, !.kids = @ \o kids]
Completed(s) == IF InRules(s.nonterminal) THEN <<Tree(s.nonterminal, s.kids)>> ELSE s.kids

\* The list of find_dot() may grow in this loop.
CompleteNext ==
    /\ pc = "complete"
    /\ LET origins == table[Current.position]
           found == {i \in FindDot(origins, Current.nonterminal) : i >= waiting}
       IN  \/ \E i \in found :
                /\ \A j \in found : i <= j
                /\ table' = [table EXCEPT
                     ![column] = Add(@, Advance(origins[i], Completed(Current)))]
                /\ waiting' = i + 1
                /\ UNCHANGED <<at, pc>>
           \/ /\ found = {}
              /\ pc' = "step" /\ at' = at + 1
              /\ UNCHANGED <<table, waiting>>
    /\ UNCHANGED <<input, column, phase, rest, moved, yielded, incomplete>>

NextState(tbl) ==
    /\ table' = tbl /\ at' = at + 1
    /\ UNCHANGED <<input, column, phase, waiting, rest, moved, pc, yielded, incomplete>>

Predict ==
    /\ Working /\ phase = "main"
    /\ ~AtEnd(Current) /\ ~IsTerminal(Dot(Current))
    /\ pc' = "predict" /\ rest' = Rules(grammar, Dot(Current))
    /\ UNCHANGED <<input, table, column, phase, at, waiting, moved, yielded, incomplete>>

PredictNext ==
    /\ pc = "predict"
    /\ \/ \E rule \in rest :
            /\ table' = [table EXCEPT ![column] =
                            Add(@, ParseState(Dot(Current), column, rule, 1, << >>))]
            /\ rest' = rest \ {rule}
            /\ UNCHANGED <<at, pc>>
       \/ /\ rest = {}
          /\ pc' = "step" /\ at' = at + 1
          /\ UNCHANGED <<table, rest>>
    /\ UNCHANGED <<input, column, phase, waiting, moved, yielded, incomplete>>

\* the bit of the input that the column stands for, from the highest
InputBit == (text[column \div 8 + 1] \div (2 ^ (7 - (column % 8)))) % 2

ScanBit ==
    /\ Working /\ phase = "main"
    /\ ~AtEnd(Current) /\ Dot(Current)[1] = "bit"
    /\ LET s == Current
       IN  IF ~TextAtEnd /\ InputBit = Dot(s)[2]
           THEN NextState([table EXCEPT ![column + 1] =
                             Add(@, Advance(s, <<Leaf(<<InputBit>>)>>))])
           ELSE NextState(table)

(***************************************************************************)
(* scan_bytes(): a literal may go beyond the end of the chunk.  Then the   *)
(* state is put into the last column with what matched so far, and the     *)
(* next consume() goes on from there.                                      *)
(***************************************************************************)
Before(s) == IF s.partial THEN s.kids[Len(s.kids)].text ELSE << >>
CheckWord(s) == Before(s) \o SubSeq(text, column \div 8 + 1, Length)

\* the leaf of a partial match is replaced by the longer one
WithLeaf(s, word) ==
    IF s.partial THEN [s.kids EXCEPT ![Len(s.kids)] = Leaf(word)]
                 ELSE Append(s.kids, Leaf(word))

StartsWith(word, prefix) ==
    Len(prefix) <= Len(word) /\ SubSeq(word, 1, Len(prefix)) = prefix

Scanned(s, word, isPartial) ==
    [s EXCEPT !.dot = IF isPartial THEN @ ELSE @ + 1, !.kids = WithLeaf(s, word),
              !.partial = isPartial, !.matched = IF isPartial THEN Len(word) ELSE 0]

ScanTo(s, word, isPartial) ==
    LET k == column + 8 * (Len(word) - s.matched)
    IN  NextState([table EXCEPT ![k] = Add(@, Scanned(s, word, isPartial))])

ScanBytes ==
    /\ Working /\ phase = "main"
    /\ ~AtEnd(Current) /\ Dot(Current)[1] = "literal"
    /\ LET s == Current
           literal == LiteralText[Dot(s)[2]]
           word == CheckWord(s)
           inside == column \div 8 + Len(literal) - s.matched < Length
       IN  CASE StartsWith(word, literal) -> ScanTo(s, literal, FALSE)
             [] ~StartsWith(word, literal) /\ ~inside /\ word # << >>
                  /\ StartsWith(literal, word) -> ScanTo(s, word, TRUE)
             [] OTHER -> NextState(table)

(***************************************************************************)
(* ParsingMode.INCOMPLETE: at the end of the input every state with        *)
(* children is completed as if it were finished                            *)
(***************************************************************************)
StartIncomplete ==
    /\ pc = "step" /\ phase = "main" /\ at \notin DOMAIN table[column]
    /\ mode = "INCOMPLETE" /\ TextAtEnd
    /\ phase' = "incomplete" /\ at' = 1
    /\ UNCHANGED <<input, table, column, waiting, rest, moved, pc, yielded, incomplete>>

\* mutant: the leaf of an unfinished literal is overlooked
HasChildrenBeforeDot(s) == s.dot > 1

HasChildren(s) == s.kids # << >>

CompleteIncomplete ==
    /\ Working /\ phase = "incomplete"
    /\ LET s == Current
       IN  IF HasChildren(s) /\ s.nonterminal # ImplicitStart
           THEN /\ pc' = "complete" /\ waiting' = 1
                /\ UNCHANGED <<input, table, column, phase, at, rest, moved, yielded, incomplete>>
           ELSE IF HasChildren(s) /\ s.kids[1] \notin incomplete
           THEN YieldChild(FALSE) /\ incomplete' = incomplete \cup {s.kids[1]}
           ELSE NextState(table)

(***************************************************************************)
(* place_repetition_shortcut(): the state that continues a repetition, if  *)
(* it is the only one to do so, takes the place of those it would complete *)
(* up to the start of the repetition                                       *)
(***************************************************************************)
BeginsLoop(symbol) ==
    symbol[1] = "node" /\ grammar.node[symbol[2]].type \in {"plus", "star"}

LoopDone == pc = "step" /\ at \notin DOMAIN table[column]
               /\ (mode = "INCOMPLETE" /\ TextAtEnd => phase = "incomplete")

\* found_beginners
Beginners == {table[column][i].symbols[1] :
                i \in {j \in DOMAIN table[column] : BeginsLoop(table[column][j].nonterminal)}}

StartShortcuts ==
    /\ LoopDone /\ Beginners # {}
    /\ pc' = "shortcut" /\ rest' = Beginners
    /\ UNCHANGED <<input, table, column, phase, at, waiting, moved, yielded, incomplete>>

Continues(s, beginner) ==
    s.nonterminal = beginner /\ Len(s.symbols) = 2 /\ WaitsFor(s, beginner)

\* current_col_state is the first of the column that continues the repetition.
ShortcutNext ==
    /\ pc = "shortcut"
    /\ \E beginner \in rest :
         LET found == {i \in DOMAIN table[column] : Continues(table[column][i], beginner)}
         IN  /\ rest' = rest \ {beginner}
             /\ \/ \E i \in found :
                     /\ \A j \in found : i <= j
                     /\ moved' = [index |-> i, state |-> table[column][i]]
                     /\ pc' = "trace"
                \/ found = {} /\ UNCHANGED <<moved, pc>>
    /\ UNCHANGED <<input, table, column, phase, at, waiting, yielded, incomplete>>

\* One round of the loop that goes back to the start of the repetition, and
\* Column.replace() when it is reached.
Trace ==
    /\ pc = "trace"
    /\ LET s == moved.state
           origins == table[s.position]
           found == FindDot(origins, Dot(s))
       IN  \/ \E i \in found :
                /\ found = {i}
                /\ \/ /\ BeginsLoop(origins[i].nonterminal)
                      /\ table' = [table EXCEPT ![column] = [@ EXCEPT ![moved.index] = s]]
                      /\ pc' = "shortcut" /\ moved' = NoMove
                   \/ /\ ~BeginsLoop(origins[i].nonterminal)
                      /\ moved' = [moved EXCEPT !.state =
                            [s EXCEPT !.position = origins[i].position,
                                      !.kids = origins[i].kids \o s.kids]]
                      /\ UNCHANGED <<table, pc>>
           \/ /\ \A i \in found : found # {i}
              /\ pc' = "shortcut" /\ moved' = NoMove
              /\ UNCHANGED table
    /\ UNCHANGED <<input, column, phase, at, waiting, rest, yielded, incomplete>>

\* The end of the loops over a column.  When the last one is reached, it is
\* kept as it is before its own loop.
NextColumn ==
    /\ (LoopDone /\ Beginners = {}) \/ (pc = "shortcut" /\ rest = {})
    /\ IF column < LastColumn
       THEN /\ column' = column + 1 /\ at' = 1 /\ pc' = "step"
            /\ last' = IF column' = LastColumn THEN table[column'] ELSE last
       ELSE pc' = "idle" /\ UNCHANGED <<column, at, last>>
    /\ phase' = "main"
    /\ UNCHANGED <<use, text, table, waiting, rest, moved, yielded, incomplete>>

ParseStep ==
    \/ FinishStart \/ Resume \/ Complete \/ CompleteNext \/ Predict \/ PredictNext
    \/ ScanBit \/ ScanBytes \/ StartIncomplete \/ CompleteIncomplete
    \/ StartShortcuts \/ ShortcutNext \/ Trace \/ NextColumn

Next ==
    \/ NewParse
    \/ \E chunk \in Chunk : Consume(chunk)
    \/ ParseStep

Spec == Init /\ [][Next]_vars

(***************************************************************************)
(* Types                                                                   *)
(***************************************************************************)
\* An unfinished literal has left what it matched as the last leaf.
StateType(g, s, k) ==
    /\ s = [ParseState(s.nonterminal, s.position, s.symbols, s.dot, s.kids)
              EXCEPT !.partial = s.partial, !.matched = s.matched]
    /\ IsSymbol(g, DOMAIN LiteralText, s.nonterminal)
    /\ s.symbols \in Rules(g, s.nonterminal)
    /\ s.position \in 0..k /\ s.dot \in 1..(Len(s.symbols) + 1)
    /\ s.kids \in Seq(Range(s.kids))
    /\ s.partial \in BOOLEAN /\ s.matched \in Nat
    /\ s.partial => /\ ~AtEnd(s) /\ Dot(s)[1] = "literal"
                    /\ s.kids # << >> /\ s.matched = Len(s.kids[Len(s.kids)].text)
    /\ ~s.partial => s.matched = 0

ColumnType(g, col, k) ==
    /\ col \in Seq(Range(col))
    /\ \A i \in DOMAIN col : StateType(g, col[i], k)

TypeOK ==
    /\ use \in Use
    /\ text \in Seq(0..255)
    /\ DOMAIN table = 0..LastColumn
    /\ \A k \in 0..LastColumn : ColumnType(grammar, table[k], k)
    /\ ColumnType(grammar, last, TableIdx)
    /\ column \in Nat /\ (pc # "idle" => column \in 0..LastColumn)
    /\ phase \in {"main", "incomplete"}
    /\ at \in Nat \ {0} /\ waiting \in Nat \ {0}
    /\ pc \in {"idle", "step", "predict", "complete", "shortcut", "trace", "yielded"}
    /\ pc \in {"predict", "complete", "yielded"} => at \in DOMAIN table[column]
    /\ yielded \in Seq(Range(yielded))
    /\ \A i \in DOMAIN yielded : yielded[i][2] \in BOOLEAN

(***************************************************************************)
(* can_continue(): completes the finished states of the last column and    *)
(* asks whether any state of it is unfinished.                             *)
(***************************************************************************)
Core(s) == <<s.nonterminal, s.position, s.symbols, s.dot, s.partial>>
AdvancedCore(s) == <<s.nonterminal, s.position, s.symbols, s.dot + 1, s.partial>>
FinishedCore(c) == c[4] > Len(c[3]) /\ ~c[5]

\* the states of the last column and what they complete, column by column
CompletedCores ==
    LET older == {<<p, s>> \in (0..(LastColumn - 1)) \X
                               UNION {Range(table[p]) : p \in 0..(LastColumn - 1)} :
                    ~AtEnd(s) /\ s \in Range(table[p])}
        first == {Core(s) : s \in Range(last)}
        Grow(cores) ==
            cores \cup {AdvancedCore(w[2]) : w \in {v \in older : \E c \in cores :
                            FinishedCore(c) /\ c[1] = Dot(v[2]) /\ c[2] = v[1]}}
        grown[cores \in SUBSET (first \cup {AdvancedCore(w[2]) : w \in older})] ==
            IF Grow(cores) = cores THEN cores ELSE grown[Grow(cores)]
    IN  grown[first]

\* mutant: the finished states are not completed
CanContinueUncompleted ==
    LastColumn = 0 \/ \E i \in DOMAIN last : ~Finished(last[i])

CanContinue == \/ LastColumn = 0
               \/ \E c \in CompletedCores : ~FinishedCore(c)
================================================================================
