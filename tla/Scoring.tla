-------------------------------- MODULE Scoring --------------------------------
(***************************************************************************)
(* The floating-point arithmetic by which evaluate_individual()            *)
(* (src/fandango/evolution/evaluation.py) decides whether a tree is a      *)
(* solution, for a tree that satisfies every constraint: the share of the  *)
(* hard constraints and the share of the repetition bounds are computed    *)
(* apart, added, and compared with the expected fitness 1.0.               *)
(*                                                                         *)
(* A number is a fixed-point binary fraction, a function from positions to *)
(* bits: bit p counts 2^p.  An operation on floats is the exact operation  *)
(* followed by Rounded(), to nearest, ties to even, as IEEE 754 double.    *)
(***************************************************************************)
EXTENDS Integers, FiniteSets

CONSTANTS MaxHard,         \* bound on the hard constraints
          MaxRepetition    \* bound on the repetition bounds

\* 53 significant bits; the positions leave room for quotients to be rounded properly:
\* a remainder below 128 leaves at most six zeros in a row.
Precision == 53
Lowest == -72
Highest == 8
Position == Lowest..Highest

VARIABLES hard,            \* len(self._hard_constraints)
          repetition,      \* len(self._repetition_bounds_constraints)
          fitness,         \* the fitness so far
          pc,              \* "hard", "repetition", "compare", "done"
          solution         \* the tree was yielded as a solution

vars == <<hard, repetition, fitness, pc, solution>>

Zero == [p \in Position |-> 0]
One == [Zero EXCEPT ![0] = 1]

\* The bits of a number given by a digit of any size at each position.
Carried(digits) ==
    LET carry[p \in Position] ==
            IF p = Lowest THEN 0 ELSE (digits[p - 1] + carry[p - 1]) \div 2
    IN  [p \in Position |-> (digits[p] + carry[p]) % 2]

Sum(x, y) == Carried([p \in Position |-> x[p] + y[p]])
Times(x, n) == Carried([p \in Position |-> x[p] * n])

\* 1 / n by long division, cut off at the lowest position.
OneOver(n) ==
    LET remainder[p \in Lowest..0] == IF p = 0 THEN 1 % n ELSE (2 * remainder[p + 1]) % n
    IN  [p \in Position |-> IF p > 0 THEN 0 ELSE IF p = 0 THEN 1 \div n
                                             ELSE (2 * remainder[p + 1]) \div n]

\* The nearest double.
Rounded(x) ==
    IF x = Zero THEN Zero
    ELSE LET top == CHOOSE p \in Position : x[p] = 1 /\ \A q \in Position : x[q] = 1 => q <= p
             last == top - Precision + 1
             kept == [p \in Position |-> IF p < last THEN 0 ELSE x[p]]
             up == /\ x[last - 1] = 1
                   /\ x[last] = 1 \/ \E p \in Position : p < last - 1 /\ x[p] = 1
         IN  IF up THEN Sum(kept, [Zero EXCEPT ![last] = 1]) ELSE kept

\* 1.0 / total * count, the share of constraints that are all satisfied
Share(count, total) == Rounded(Times(Rounded(OneOver(total)), count))

-------------------------------------------------------------------------------
Init ==
    /\ hard \in 0..MaxHard /\ repetition \in 0..MaxRepetition
    /\ hard + repetition \in 1..127    \* what the positions have room for
    /\ fitness = Zero /\ pc = "hard" /\ solution = FALSE

EvaluateHard ==
    /\ pc = "hard" /\ pc' = "repetition"
    /\ fitness' = Share(hard, hard + repetition)
    /\ UNCHANGED <<hard, repetition, solution>>

EvaluateRepetition ==
    /\ pc = "repetition" /\ pc' = "compare"
    /\ fitness' = IF repetition = 0 THEN fitness
                  ELSE Rounded(Sum(fitness, Share(repetition, hard + repetition)))
    /\ UNCHANGED <<hard, repetition, solution>>

\* fitness >= self._expected_fitness
Compare ==
    /\ pc = "compare" /\ pc' = "done"
    /\ solution' = \E p \in 0..Highest : fitness[p] = 1
    /\ UNCHANGED <<hard, repetition, fitness>>

Next == EvaluateHard \/ EvaluateRepetition \/ Compare

Spec == Init /\ [][Next]_vars

-------------------------------------------------------------------------------
\* A tree that satisfies every constraint is a solution: "perfect fitness, fulfilling the
\* given constraints" (docs/Constraints.md).
SatisfiedIsSolution == pc = "done" => solution
===============================================================================
