------------------------------ MODULE MCEvolution ------------------------------
(***************************************************************************)
(* Instances of Evolution for TLC.                                         *)
(***************************************************************************)
EXTENDS Evolution, TLC

CONSTANTS t1, t2, t3, t4

\* What is not given a fix stays as it is; what is no solution has failing subtrees.
problems(fitness, fix, spoilt, initial, diversity, destruction) ==
    [trees |-> DOMAIN fitness, fix |-> fix @@ [i \in Individual |-> {i}],
     fitness |-> fitness @@ [i \in Individual |-> {0}],
     failing |-> {i \in DOMAIN fitness : Expected \notin fitness[i]} \cup spoilt,
     initial |-> initial, diversity |-> diversity, destruction |-> destruction]

\* Whatever is generated is fixed to the solution t1: there are fewer trees than the
\* population should have.
FixToSolution == (t1 :> {2}) @@ (t2 :> {0}) @@ (t3 :> {1})
AllToFirst == [i \in {t1, t2, t3} |-> {t1}]

\* There are two solutions; t2 is fixed to one of them, t3 may be made the other one,
\* t4 fails and stays as it is.
TwoSolutions == (t1 :> {2}) @@ (t2 :> {0}) @@ (t3 :> {2}) @@ (t4 :> {1})
OthersToFirst == (t2 :> {t1}) @@ (t3 :> {t1, t3})

\* Only t1 is a solution; t2 and t3 fail and stay as they are.
OneSolution == (t1 :> {2}) @@ (t2 :> {1}) @@ (t3 :> {0})
NoFix == [i \in {t1, t2, t3} |-> {i}]

\* t1 and t2 satisfy the hard constraints; their soft scores vary.
SoftScores == (t1 :> {1, 2}) @@ (t2 :> {1, 2}) @@ (t3 :> {0})

\* where <a> == "1" or <b> == "2"; where <b> != "2".  t1 has a = 1, b = 3 and is the
\* solution, but b == 2 fails and is suggested: t1 is fixed to t2, a = 1, b = 2, and so
\* are t3, a = 2, b = 3, and t4, a = 2, b = 2.
Spoiling == (t1 :> {2}) @@ (t2 :> {1}) @@ (t3 :> {1}) @@ (t4 :> {1})
AllToSecond == [i \in {t1, t2, t3, t4} |-> {t2}]
SolutionSpoilt == problems(Spoiling, AllToSecond, {t1}, {t1}, FALSE, FALSE)

Problems == {problems(FixToSolution, AllToFirst, {}, {}, FALSE, FALSE),
             problems(TwoSolutions, OthersToFirst, {t3}, {t4}, FALSE, FALSE),
             problems(TwoSolutions, OthersToFirst, {t3}, {t2, t4}, FALSE, FALSE),
             problems(OneSolution, NoFix, {}, {t2, t3}, FALSE, FALSE),
             problems(OneSolution, NoFix, {}, {t2, t3}, TRUE, TRUE),
             problems(SoftScores, NoFix, {t1, t2}, {t1, t2}, FALSE, FALSE),
             SolutionSpoilt}
===============================================================================
