# Fandango: a TLA+ verification project

Fandango generates inputs from a *specification* (a grammar plus constraints) with an
evolutionary search, and tests protocol implementations by playing some of the parties of a
protocol itself, exchanging messages with the others.  This directory models the parts of
`src/src/fandango` in which order, concurrency, failure or long histories matter, checks the
models with TLC, and proves what matters most for every instance with TLAPS.

Paths below are relative to `src/src/fandango` unless they begin with `src/`.  Which lines a
definition stands for is in `PROJECT.json`, under `map`.

1. [Inventory](#1-inventory)
2. [Plan](#2-plan)
3. [Modules and the code](#3-modules-and-the-code)
4. [Runs](#4-runs)
5. [Fairness](#5-fairness)
6. [Proofs](#6-proofs)
7. [Disagreements found](#7-disagreements-found)
8. [What is not modelled](#8-what-is-not-modelled)
9. [How to run](#9-how-to-run)

## 1. Inventory

### How the parts interact

```
 .fan file ──> front end ──> Grammar, constraints ──> SimpleGeneticAlgorithm
                                                       │            │
                              _generate_simple <───────┘            └──────> _generate_io
                                     │                                         │    │
             PopulationManager, Evaluator, operators, AdaptiveTuner            │    │
                                                                               │    │
        PacketForecaster, PacketSelector, navigators <─────────────────────────┘    │
                                                                                    │
   parse_next_remote_packet (evolution thread) ── reads and clears ──> FandangoIO.receive
                                                                        ^        │
     listener threads of the parties ── FandangoParty.receive ──────────┘        │
     sockets, pipes, the program under test <────────── transmit ────────────────┘
```

There is one *evolution thread*, which runs everything except the listeners, and one
*listener thread* for each party that reads from a socket or a stream.  The two kinds share
the buffer `FandangoIO.receive` (under `receive_lock`), the registry `FandangoIO.parties`
(under no lock), and the fields of each party implementation (under no lock but `_lock`
around making a connection).  Everything the user sees comes out of Python generators, which
their consumer may abandon at any `yield`.

### Components

| component | state | operations | what is hard | what makes it correct |
|---|---|---|---|---|
| **FandangoIO** (`io/__init__.py`) | `receive`, `receive_lock`, `parties` | `add_receive`, `received_msg`, `get_received_msgs`, `get_full_fragments`, `clear_received_msg(s)`, `clear_by_party`, `reset_parties`, `transmit` | listeners append while the evolution thread clears by position; a restart stops threads, then clears | one FIFO queue per sender; nothing crosses a restart; a restart ends |
| **Parties** (`io/__init__.py`) | `_running`, `_connection`, `_sock`, `_send_thread`, `_lock` | `start`, `stop`, `send`, `_wait_accept`, `_listen`; `In`, `Out`, `StdIn`, `StdOut` | two threads and a peer on unlocked fields; refused and closed connections; stop while receiving | `stop()` returns and leaves no listener; the connection belongs to the present socket; what is delivered is in order |
| **Packet parser** (`io/packetparser.py`) | buffer positions, one incremental parser per packet type, a clock | `parse_next_remote_packet` | fragments arrive during the parse; types are prefixes of each other; timeouts race with late fragments | the longest allowed packet, consuming exactly its own fragments |
| **Protocol loop** (`evolution/algorithm/simple.py`, `_generate_io`) | history tree, past runs, the buffer | forecast, evolve, abort, transmit, wait, parse, hook in, restart | messages arrive while a packet is evolved | the history is what was said; conforming peers are not rejected |
| **Forecaster and selector** (`io/navigation/packetforecaster.py`, `packetselector.py`) | guide path, guide-to-end flag, coverage | `predict`, `next_packets`, `is_guide_to_end` | flag computed at other times than it is read | next packets are exactly those the grammar allows |
| **Navigators** (`io/navigation/grammarnavigator.py`, …) | search graph | A* to a target | – | a path found is a path of the grammar |
| **Evolutionary search** (`evolution/algorithm/simple.py`, `population.py`, `evaluation.py`, `mutation.py`, `crossover.py`, `adaptation.py`) | population, evaluation, fitness cache, solution set, adaptive limits | `generate`, `refill_population`, `fix_individual`, selection, crossover, mutation, destruction, `evaluate_*`, `flush_fitness_cache`, `update_parameters` | generators discarded or abandoned; cache and solution set of different lifetimes | each solution reaches the caller once; the ranking is current; progress is kept |
| **Havoc, profiler** (`evolution/havoc.py`, `profiler.py`) | tables | byte mutations | – | – |
| **Constraints and fitness** (`constraints/`) | per-constraint caches | `fitness`, `check`, `invert` | lazy and cached evaluation; errors in user code | fitness is perfect exactly when the constraint holds |
| **Derivation trees** (`language/tree.py`) | children, parent, cached hash and size, read-only flag | `add_child`, `set_children`, `append`, `split_end`, `prefix`, `replace`, `deepcopy`, slices | caches along the path to the root; mutators that call each other; nodes shared between trees | caches equal what they cache; both directions of the edges agree; an operation changes the place it is given and no other |
| **Tree values** (`language/tree_value.py`) | – | conversions between text, bytes, bits | – | – |
| **Earley parser** (`language/grammar/parser/`) | columns, states with half-matched literals | `new_parse`, `consume`, `can_continue`, `Parser.parse*` | columns that grow while loops go through them; input in chunks; generators abandoned and resumed; nullable symbols | yields exactly the derivations of the text; says rightly whether more input may help |
| **Grammar, nodes, visitors** (`language/grammar/`) | rules, distances, counters of repetitions, settings | `prime`, `fuzz`, k-paths | mutual recursion; a budget handed down and split at every level | a tree of the grammar, within `max_nodes`, made in finitely many steps |
| **Front end** (`language/parse/`, `convert.py`) | cache of parsed files | parse, convert, link, check | – | – |
| **Generated parsers**, **converters**, **experimental**, **language server** | – | – | – | – |
| **API, CLI, shell, logging** (`api.py`, `cli/`, `logger.py`) | session state | commands | – | – |

The hazards, that is, what is hard to test in this code, are listed with their lines in
`PROJECT.json` under `hazards`, each with the property that watches over it or a note saying
why none does.

## 2. Plan

The modules are written in the order in which a mistake in them would be hardest to find by
testing.

1. **Done.** `FandangoIO` (buffer and restart) with `PartyQueues` as its abstract
   specification; `PacketParser`, which extends it with the reader, and `PacketQueues`;
   `SocketParty`; `GenerateIo`.  Proofs: types, session isolation, both refinements, the
   reader's answers; no listener survives `stop()`, one connection, delivery in order; the
   history is what was said, only complete runs are yielded, and conforming parties are not
   rejected.
2. **Done.** `Evolution`.  Proofs: solutions yielded once, all solutions accounted for, the ranking
   current, where solutions can be lost, and that they are kept.
3. **Done.** `Constraints`: the lazy and cached evaluation of comparisons, expressions,
   conjunctions, disjunctions, implications and quantifiers; `ConstraintMeaning`: what they
   mean; `Scoring`: the arithmetic on top.  Proofs: perfect fitness is satisfaction; `check()`
   says what the constraint means.
   Left: inversion, suggestions, repetition bounds, soft values.
4. **Done.** `DerivationTree`: parents, cached hash and size, read-only flags under every
   mutator, call by call.  Proofs: types, hashes and sizes are current, edges agree, replacing
   by path is replacing by identity.
5. **Done.** `GrammarRules` and `IterativeParser`: columns, prediction, scanning, completion
   and incremental consumption against the language of small grammars.  Left: the parser as
   an implementation of what `PacketParser` assumes of one, for every grammar; computed
   repetition bounds; the cache of `Parser`.
6. **Done.** `GrammarFuzzing`: distances, budgets, marks of repetitions.  Proof: the calls of
   repetitions, and the rounds of each, can be told apart.  Left: generators and their sources,
   the repair of repetitions by `RepetitionBoundsConstraint`.
7. `PacketSelector` with the navigators (how the guide path is chosen, kept and dropped),
   `IoEvaluator` and `IoPopulationManager`.
8. Further proofs: the types of `IterativeParser`.  The type invariants that proofs start from
   (`ParserTypeOK`, `TypeOK`) are stated in the modules and hold of the instances; no run checks
   them on their own where other properties say more.

## 3. Modules and the code

### `Selections`
`Select(seq, K)` is a Python list comprehension with a condition: the members of `seq` at the
positions `K`, in order.  It is defined by ranks rather than by recursion, so that it can be
reasoned about; `SelectionsProofs` holds the facts about it.

### `FandangoIO` (abstract: `PartyQueues`)
| model | code |
|---|---|
| `receive`, `receive_lock`, `parties` | the fields of those names |
| an entry's `session` | ghost: which restart its listener belongs to |
| `Receive`, `ReceiveRaises`, `AddReceive` | `FandangoParty.receive` looks the sender up *before* `add_receive` asks for the lock: two steps, and an exception of the lookup ends the thread |
| `ClearByParty`, `ClearReceivedMsg`, `ClearReceivedMsgs` | the methods; `Kept` is the condition of the comprehension |
| `ResetParties`, `StopParty`, `ForgetParties`, `ClearForRestart`, `CreateParty`, `PartiesCreated` | `reset_parties` and `init_msg_parties`, one step per call, because listeners run in between |

An access under `receive_lock` is one step.  `StopParty` waits for a listener that is inside
`add_receive`, because `stop()` joins it.  `PartyQueues` says what clients of the buffer rely
on: a FIFO queue per sender from which the oldest fragments, one fragment, or everything is
removed.  The refinement maps the one interleaved list to `Pending(receive, s)`.

### `PacketParser` (abstract: `PacketQueues`)
Extends `FandangoIO` with the local state of `parse_next_remote_packet`.  The reader takes a
step per access to the buffer, so that listeners append between any two.  A parser is
abstracted to the language of its packet type (`Lang`, and `Derivable` for what
`populate_sources` accepts): `CanContinue` is `IterativeParser.can_continue`.  Clocks are
abstracted: where the code compares one, both outcomes are possible; `InTime`/`WaitTimesOut`
and `LookAgain`/`UnexpectedParty` are the two outcomes.  `Best` keeps the tie-break of the
loop over `complete_parses`, a dictionary in order of first insertion.

### `SocketParty`
| model | code |
|---|---|
| `running`, `sock`, `connection`, `send_thread`, `lock`, `remote_addr` | the fields `_running`, …, `current_remote_addr` of `UdpTcpProtocolImplementation` |
| `main`, `listener[n]` | where the owning thread and the *n*-th listener are |
| `Start`, `Stop`, `Joined` | `start()` makes socket and listener *n*; `stop()` clears `_running`, joins, then closes both sockets |
| `EnterAccept`, `LeaveAccept` | `_wait_accept`, as called by the listener (`ListenerWaits`, `ListenerAccepts`) and by `send()` (`SendWaits`, `SendAccepts`); over UDP the socket itself is the connection |
| `Send`, `SendAll` | `send()`: a UDP server answers whoever sent the last datagram |
| `Received` | what `recv()` and `recvfrom()` make of what has arrived: over TCP the stream is read on from where the buffer ended; of a datagram longer than `BUFFER_SIZE_UDP` (1024 bytes) the rest is lost (`Cut`) |
| `ReceiveData`, `Deliver`, `DeliverRaises`, `ReceiveClose`, `ReceiveEmpty`, `ListenerShutsDown`, `ListenerEnds` | the loop of `_listen` |
| `PeerConnects`, `PeerRefuses`, `PeerSends`, `PeerCloses`, `DatagramArrives` | the environment: TCP keeps order; a datagram of a peer may arrive never, late (after a restart, too) or again, and may be empty, which the code takes for a close |

### `GenerateIo`
`_generate_io`, one action per stage of the loop.  A search for a packet is a step, with three
outcomes: `Generate`, `FallBack` to the second search, for any packet, and, if that one has a
bound, `GenerateFails`.  Without one (`bounded` is false: `max_generations=None`) it may run for
ever (`MayRunForEver`).  Sending and recording are two steps, as in the code: `transmit()`
returns (`Transmit`) and then the history is assigned (`Record`); or it raises
(`TransmitFails`) with the packet sent or not, and the loop ends.  `RemoteSends` and `Arrive` are the remote
parties (which keep to the protocol) and the network (which keeps each party's messages in
order and nothing else).  A derivation tree stands for its packets, the grammar for the runs
it allows.  `guide_to_end` may change only where `PacketSelector` computes it
(`GuideChoices`); elsewhere it stays as stale as it is in the code.
`NeverRejectsConforming` is about protocols in which the parties take turns (`TakesTurns`): at
each point either Fandango or one remote party speaks next.

### `Evolution`
| model | code |
|---|---|
| `population`, `evaluation`, `cache`, `solution_set`, `initial_solutions`, `generation`, `limits` | the fields |
| `new_population`, `todo`, `attempts`, `found` | locals of the running loop |
| `suspended` | the generator is at a `yield`: of an evaluation (whose result is not cached yet) or of a list |
| `dropped` | ghost: solutions in `_solution_set` that no caller will see |
| `Start`, `YieldInitial`, `FillPopulation`, `YieldFound`, `Filled`, `EvaluateInitial` | `generate`, `generate_initial_population` |
| `Select`, `Crossover`, `AddChild`, `StartMutation`, `Mutate`, `Deduplicate`, `RefillPopulation`, `Refilled`, `FixIndividual`, `FlushCache`, `EvaluateGeneration` | a generation of `_generate_simple`, in its order |
| `CallAgain` | the caller abandons the generator, or it has ended, and `generate()` is called again on the same object |

A tree stands for all trees equal to it (same hash).  Fuzzing, crossover and mutation return
*any* tree of the grammar.  The `Problem` says which trees the grammar has, which are solutions,
what scores soft constraints may give, what fixing may make of a tree (`fix`, several outcomes)
and which trees have failing subtrees for mutation to replace (`failing`).  The last two say
nothing of solutions: a satisfied disjunction or `any` passes on what its failing parts suggest
and the trees they failed for, and `fix_individual()` and `mutate()` use them without asking
for the fitness.  A refill may therefore find two solutions, the tree generated and the one it
is fixed to.  Lists whose order decides nothing are bags.

### `Constraints`
| model | code |
|---|---|
| `stack` | the calls of `fitness()` under way; a frame has the arguments (`scope`, `locals`), the cache key computed on entry, and the locals of the loop (`part` or `todo`, the sums over `fitness_values`) |
| `cache` | `self.cache` of every constraint, with eviction |
| `Evaluate` | `_evaluate_constraints` asks a constraint of the specification |
| `HitCache`, `EvaluateLeaf`, `Open`, `EvaluatePart`, `EvaluateInstance`, `Close` | `fitness()` of expression, comparison, conjunction, disjunction, implication, `all` and `any`, one step per call and return |
| `Escape` | an operator raises for two values that cannot be compared; only `_evaluate_constraints` catches that, so every `fitness()` under way is left, and what was cached by then stays |
| `Find`, `TreesFound`, `Containers`, `Combinations` | `RuleSearch`, `AttributeSearch`, `DescendantAttributeSearch`, `StarSearch`, `combinations()` |
| `Key` | `get_hash()`: trees by their `Shape` |
| `Counted`, `Aware`, `Copied`, `Perfect` | the two fitness classes, their `__copy__()` and `fitness() == 1.0` |

Scope and local variables are *shared* dictionaries: a quantifier makes a new one only when it
is passed none or an empty one, and otherwise writes into its caller's.  Only the topmost
frame runs, so the model gives each frame its own copy and hands the changed dictionary back
when a call returns (`Received`).  `Outcome` is the user's Python code.  Distances of
comparisons are abstracted to whether they are 1.0, which is all that success, `Perfect` and
the cache tell apart.

`ConstraintMeaning` says what a constraint means: `Meaning` is a recursive function of the
constraint and its environment, with lexical binding, without laziness, shared dictionaries or
caches.  It also says of which constraints the code is shown to keep to that (`Scoping`,
`Legible`, `HashIsStructure`, see section 6).

### `Scoring`
How `evaluate_individual` adds up the shares of hard constraints and repetition bounds for a
tree that satisfies all, in IEEE double arithmetic: numbers are functions from positions to
bits, every operation is exact and then `Rounded`.

### `GrammarRules`, `IterativeParser`
| model | code |
|---|---|
| `GrammarRules!Rules` | the visit methods that turn grammar nodes into rules, with implicit nonterminals for repetitions |
| `table`, `last`, `column`, `at`, `phase` | `_table` and the two loops over the present column; an action is one iteration |
| `NewParse`, `Consume`, `Resume` | `new_parse()`, `consume()`, and the caller's asking the generator for the next tree; a `NewParse` or `Consume` at a yield abandons it |
| `Predict`, `PredictNext`, `ScanBit`, `ScanBytes`, `Complete`, `CompleteNext`, `FinishStart` | `predict`, `scan_bit`, `scan_bytes`, `complete` and their loops over lists and sets that other iterations extend |
| `StartIncomplete`, `CompleteIncomplete` | the second loop, of mode `INCOMPLETE` |
| `StartShortcuts`, `ShortcutNext`, `Trace` | `place_repetition_shortcut` |
| `CanContinue` | `can_continue`, on a copy of the last column |

The reference, in `MCIterativeParser`, is `Forests`: the ways in which a node of the grammar
stands for a part of the text, by recursion over the grammar, without columns.

### `DerivationTree`
`todo` is the stack of calls that the running method still has to make: `invalidate_hash`
climbs one parent at a time, `__hash__` descends, `set_children` tells every child,
`split_end`, `prefix`, `append` and `replace` go through the tree call by call, and
`call.before` keeps the children as they were for the properties.  A hash is the tuple it is
computed from, so that a collision is not a hash.  Mutators are called in any order on any
nodes that exist, with the restrictions the constructor and callers keep to (a node is given
to one parent, below nothing that is below it).  `GetItem` makes a slice; it is an action of
`SpecWithSlices` only (section 7).

### `GrammarFuzzing`
| model | code |
|---|---|
| `distance`, `queue`, `Prime` | `distance_to_completion`, and one node of the work list of `Grammar.prime()` |
| `stack` | calls of `fuzz()` under way: node, parent, `max_nodes`, and the locals of the loop |
| `Fuzz`, `FuzzTerminal`, `FuzzNonTerminal`, `FuzzAlternative`, `FuzzConcatenation`, `StartRepetition`, `FuzzRepetition`, `EndRepetition` | `Grammar.fuzz()` and the `fuzz()` of each class of nodes, one step per call or round |
| `iteration`, `Marked` | the counter of a repetition, and the entries of `origin_repetitions` that the end of a round adds |
| `tree` | the tree in preorder, which only grows at its end |

Random numbers are any; rules may be defined in any order, which decides what `prime()` finds
first.  `StandsFor`, in `MCGrammarFuzzing`, says which trees are trees of the grammar.

## 4. Runs

Deadlock is checked in `trees` only: every other model has states in which the program
legitimately rests (the caller asks for nothing, the peer is silent, the tree is made, the
bounds are used up); that something must go on is stated by liveness properties instead.

| run | what it asks | bounds, and why they are enough |
|---|---|---|
| `restart` | buffer = queues (`ImplementsQueues`), `SessionIsolation`, `ResetEnds`, `DeliveryEnds` | three parties, two listeners (one naming its sender, one having it looked up), messages of one and two fragments, buffer of 3, three protocol runs.  Two senders interleave, a message is longer than one fragment, and a third run distinguishes "the run before" from "any earlier run".  The proofs lift all of these bounds for the safety properties |
| `parse` | `ImplementsPackets`, `TakesLongest`, `FailureJustified`, `ParseEnds` | an FTP client's control and data connection, three packet types, two of them prefixes of each other, one accepting a text whose sources cannot be derived; buffer of 4 |
| `sockets` | `StopQuiesces`, `ConnectionIsCurrent`, `DeliveredInOrder`, `StopReturns`, `ServerForwards` | client and server, TCP and UDP, two starts (one restart: threads and datagrams of the first can meet fields of the second), two arrivals per socket, three messages, one of them longer than the buffer, which cuts it to another one.  The proofs lift these bounds for the safety properties |
| `loop` | `HistoryIsWhatWasSaid`, `TransmittedIsRecorded`, `YieldsCompleteRuns`, `NeverRejectsConforming`, `RunEnds` | two protocols (lock step with two connections overtaking each other; both sides may speak first), two protocol runs, the fallback search with a bound and without.  A history of two packets or more meets every stage with something before it and something in flight |
| `evolve` | `YieldedOnce`, `SolutionsAccounted`, `EvaluationIsCurrent`, `DroppedForReason`, `SolutionsKept`, `GenerationEnds` | four trees, population of 2, two generations, two calls, one attempt per slot (the code has 10); seven problems, each over three or four trees: fewer trees than the population needs; two solutions, of which one can be found together with the other by one refill, with two initial populations; no fixing; ranking by diversity with destruction; soft scores; a solution that fixing spoils.  Duplicates, refilling, a solution found at every place that evaluates, and abandonment at every `yield` all occur |
| `constraints` | `CheckIsMeaning`, `PerfectIsSatisfied` | two trees, one with two equal leaves in different places; constraints that nest quantifiers over symbols and identifiers, search under a bound symbol, raise, cannot be compared, and combine; two evaluations (the second meets the caches of the first), caches of 3 entries (evictions occur), lazy or not.  The constraints of the run are those of the theorem (two `ASSUME`s of `MCConstraints`, the second for a selection of values) |
| `earley` | `ForestIsExact`, `ContinuesExactly`, `PrefixIsParsed` | eleven grammars: ambiguous, left recursive, optional and counted parts, empty parts early enough, bits before bytes, input that starts within a byte, a literal of several characters, and four in mode `INCOMPLETE`; texts of up to three characters, in chunks `a`, `b`, `ab`, so that a literal is cut, completed and refused; abandonment at every yield.  A fourth character adds columns that are worked on like the third |
| `trees` | `HashIsCurrent`, `SizeIsCurrent`, `ParentsAgree`, `ReplacesThatNode`, `SplitsAtNode` | four nodes up to symmetry, two labels, lists of two: a node with a child, a sibling and a parent, and copies of two nodes.  `Small` leaves out instances with a second node of the other label, or with four nodes and a read-only one.  540,000 states; the proofs lift all of these bounds for the first four |
| `fuzz` | `TreeIsDerivation`, `WithinBudget`, `RepetitionsAreMarked`, `FuzzEnds` | four grammars (mutual recursion, an alternative known late, nested repetitions, counted ones), seven budgets from 0, which forces every shortest way out, to 20, which leaves every choice open at first; repetitions up to 3; every order of the rules |
| `earley_nullable`, `fuzz_budget`, `rounding` | one statement each of a doc or docstring that the code does not keep (section 7) | the smallest instance that shows it |

Every constant that bounds a counter is named and commented in its module: `MaxReceive`,
`MaxSession`, `MaxStart`, `MaxArrived`, `MaxRun`, `MaxGeneration` (a parameter of the code),
`MaxCall`, `MaxEvaluation`,
`MaxChildren`, the `length` of a `Use` of the parser, and `MAX_REPETITIONS` (of the code).  Each property of a passing run has a *mutant*: a plausible mistake in one
definition that TLC finds to violate the property under the same configuration.  The mutants
stand before the definitions they mutate, with a comment that begins "Mutant".

## 5. Fairness

- `FandangoIO!FairSpec`: weak fairness of `RestartStep` (the evolution thread, once in
  `reset_parties`, runs on) and of `AddReceive(t)` of every listener (a listener that holds a
  message waits for `receive_lock` only, which is held over finitely many steps).  No
  fairness of `Receive` (nobody has to send), of the consumers, nor of beginning a restart.
- `PacketParser!ParserFairSpec`: weak fairness of the reader's steps; weak fairness of
  `UnexpectedParty` and *strong* fairness of `WaitTimesOut`, because the clock advances: a
  wait whose condition is evaluated again and again is in the end found too long.  Strong,
  because between two looks at the clock the reader is elsewhere, so the step is not
  continuously enabled.
- `SocketParty!FairSpec`: weak fairness of the owning thread inside a call and of each listener
  (its `select` has a timeout, so it never blocks).  The peer and the caller owe nothing.
- `GenerateIo!FairSpec`: weak fairness of the loop, whose waits time out by their own clock, but
  not of the fallback search when it has no bound: that one may go on for ever ("If None, the
  generation will run indefinitely", `generate()`).  `RunEnds` says so: a run ends, or the loop
  is searching without a bound from some time on.
- `Evolution!FairSpec`: weak fairness of the generator's steps, that is, a caller that has not
  given up asks for the next element.  The loops end because they count attempts, not by
  fairness towards any choice.
- `GrammarFuzzing!FairSpec`: weak fairness of `Next`: one thread, which waits for nobody.
  Nothing is assumed of the random choices: `FuzzEnds` holds however they fall.

## 6. Proofs

Assumptions on constants are in the modules (`PartyAssumption`, `MessageAssumption`,
`ProblemAssumption`, `SizeAssumption`, …) and are evaluated by TLC in the runs.

### `PacketParserProofs`, the receive buffer
* `TypeCorrect` – `Spec => []TypeOK`.
* `SessionsIsolated` – `Spec => []SessionIsolation`.  The property is not inductive: that no
  listener of the old run survives `StopParty` depends on which parties the loop still has to
  come to.  The invariant adds `LiveAreRegistered` (outside a restart, a live listener's party
  is registered, so that the loop over `parties` will reach it), `LiveAreStillToStop` (while stopping, a live listener's party is in
  `todo`), `NoneLiveWhenClearing`, and `AnotherSession` (a restart has a session to go to).
  The `StopParty` case is where the code's `join` is used; the `ClearForRestart` case is where
  the order "stop all, then clear" is.
* `BufferIsQueues` – `Spec => ImplementsQueues`, for any parties, messages and lengths.  Each
  step of `FandangoIO` is a step of `PartyQueues` or leaves the queues alone.  The argument
  rests on how `Pending` commutes with appending (`PendingOfConcat`: only the sender's queue
  grows, at its end) and with selecting (`PendingOfSelect`: dropping positions up to *i* of
  one sender removes a prefix of that sender's queue and nothing of the others').

### `SelectionsProofs`
The theory of `Select`: ranks are a bijection between the selected positions and
`1..Cardinality`, `Nth` is the only increasing enumeration of them, and what it enumerates
when the positions are cut at a bound, lose one member, or are shifted by concatenation.
`Select` is specified without recursion for this purpose.

### `PacketParserProofs`, the reader
For any parties, packet types, languages, forecasts and fragments:
* `ParserTypeCorrect` – `ParserSpec => []ParserTypeOK`.
* `FailuresJustified` – `ParserSpec => []FailureJustified`.
* `LongestAlwaysTaken` – `ParserSpec => TakesLongest`.
* `PacketsAreTaken` – `ParserSpec => ImplementsPackets`, the refinement: many looks at a buffer
  that listeners extend meanwhile are one step that takes a packet.

The reader remembers *positions* of the buffer between two locks.  What makes that right, and
what the invariant `ParserInv` is built on, is that while the reader is at work the buffer is
only extended (`AddReceiveExtends`).  `ReadsInOrder`: the text fed to the
parsers is the beginning of the sender's queue, up to `current_fragment_idx`.  `FoundIsNext`:
the position found is that of the next fragment, not of a later one.  `ParsesAreRead`: the
position kept with a complete parse is where its tree ends.  `NoneMissed` and
`OthersCannotContinue`: a packet type is given up only if nothing it could still become is a
packet, and no shorter parse overwrites a longer one.  `CallInv` says at which steps which
results can be there.  The packet that is handed over is a step of `PacketQueues` because
clearing the positions up to that of the parse removes exactly its fragments
(`ClearByPartyShortens`).

### `GenerateIoProofs`
For any grammar of runs, any parties, and any order of arrival:
* `TypeCorrect` – `Spec => []TypeOK`.
* `HistoryAlwaysWhatWasSaid` – `Spec => []HistoryIsWhatWasSaid`.
* `TransmittedAlwaysRecorded` – `Spec => []TransmittedIsRecorded`: what `transmit()` was called
  with is what the history records, and one packet more between the call and the record, or
  when the call has raised; so nothing is sent twice, and nothing the history does not know of
  stays unknown but for an error that ends the loop.
* `OnlyRunsYielded` – `Spec => []YieldsCompleteRuns`, however old the selector's flag is.
* `NeverRejects` – `Spec => []NeverRejectsConforming`.

The first three follow from `SaidInv`, which adds where packets can come from (`Senders`), that the
packet about to be sent, recorded or hooked in was forecast, that a run counted as complete is
one, and that nothing follows an error (`ErrorIsRaised`).  The last is why a failure of
`transmit()` is harmless: the packet that may have gone out is the last one.
The argument is about what a set of parties has said in a list that is appended to, or loses
the first packet of a party (`OfAppend`, `OfWithoutFirst`).

`NeverRejects` needs another invariant, `TurnInv`: what was said begins a run of the grammar, the
history begins what was said, and while Fandango generates or transmits the two are equal.  The
heart is `NextOfSender`: if the history is shorter than what was said, the next packet is the
next one *of its sender*, so that with a single sender whose turn it can be, the first packet
of that party in the buffer is the one the history lacks.  The attempt to prove this showed that
turns between Fandango and the outside are not enough: if two remote parties may both speak, the
loop may enter their messages in an order in which the grammar does not go on.  `TakesTurns` says
so now.

### `SocketPartyProofs`
* `StopLeavesNone` – `StopsFirst /\ Spec => []StopQuiesces`.
* `ConnectionsCurrent` – `StopsFirst /\ Spec => []ConnectionIsCurrent`.
* `AllDeliveredInOrder` – `StopsFirst /\ Spec => []DeliveredInOrder`.

`StopsFirst` is the assumption on the caller that a party is stopped before it is started
again; without it the second is false (section 7).  The invariant says that the listener which
`stop()` joins is the only one that lives (`OneListener`); that whoever is past `_wait_accept`
has a connection, and whoever is in it holds the lock and has none, so that no listener can
clear `_running` meanwhile (`ConnectionPhases`); and that what was delivered, what is held and
what is in the socket make up what the buffer leaves of what has arrived (`Left`), as long as the listener is `Intact`, which it
is not any more once it has dropped something and is about to end (`NothingLost`).  Of the buffer
only `CutAssumption` is used: what it leaves of a message is a message, and fits.

### `EvolutionProofs`
* `SolutionsYieldedOnce` – `Spec => []YieldedOnce`.
* `AllAccounted` – `Spec => []SolutionsAccounted`.

Neither is inductive alone.  "Yielded once" needs that a solution about to be yielded from a
list (`initial_solutions`, `found`) has not been yielded, and that an evaluation only yields
what is not in `solution_set`; the latter needs everything yielded to be *in* it.
`EachInOnePlace` says that what was yielded, what is listed at the start and what a refill has
found are disjoint; with what was dropped they make up `solution_set` (`SolutionsAccounted`).  The flush of the cache preserves this only because it leaves `solution_set`
alone, which is what the mutant `FlushAll` breaks.

* `EvaluationAlwaysCurrent` – `Spec => []EvaluationIsCurrent`.
* `DropsHaveReasons` – `Spec => DroppedForReason`.

These need the invariant `EvolutionInv`, which adds two parts.  `RankingInv`: what is evaluated at
the end of a generation is the whole population, and everything in the cache is a value the
problem has for that tree; so the ranking, which is read from the cache, is one of the
population.  `KnownInv`: solutions wait to be yielded by a refill only while one is
under way, and without soft constraints every tree in the ranking, among the elites and the
children, and in a first population is either cached or in `solution_set`.  Hence a refill loses
a solution only if the tree it would add is in the list already (`DroppedByRefill`), and then
either the solution is another tree, the one that was generated, or the duplicate is *not*
known; the two ways in which an unknown tree gets into a population are those the property
names.  What is left is a caller who leaves at the first of two solutions of one refill.
Nothing is assumed of what fixing does.

* `SolutionsAlwaysKept` – `Spec => SolutionsKept`.

The property has a condition, `FixingKeepsSolutions`: no solution is fixed to a failure.
It holds of specifications whose disjunctions and `any` have no failing parts that suggest
something or fail for a tree in a solution, in particular of those with conjunctions and `all`
only; the code does not ensure it, and without it a solution is lost (`ElitesPreserved`, section 7).

`KeptInv` says where a solution of the ranking is until the next ranking is made: in the
population, then among the elites in the new population, then in what is left to be fixed or
what has been fixed.  It stays there because crossover, mutation and refilling only add,
removing duplicates leaves one of each, and what a solution is fixed to is a solution; and `TopHasSolution`
is why it gets there: what is cut off a ranking longer than `n` is outranked by what is kept,
which is not nothing if `n > 0`.  For that, no list holds a tree less than once (`Positive`), and
a tree has one fitness (`OneFitness`, from `~ Soft` by counting).

The type invariant of `Evolution`, with bags of any size, is not proved: `SubBag` and `BagOfAll`
are recursive sums in the library.

### `ConstraintsProofs`
* `PerfectExactly` – `Spec => []PerfectIsSatisfied`, whatever the constraints, the trees, the
  user's code and the size of the caches are.

* `TypesCorrect` – `Spec => []TypeOK`, from the same invariant.
* `ChecksMeaning` – `Spec => []CheckIsMeaning`, under the hypotheses below.

`PerfectIsSatisfied` speaks of the result of the outermost call only, and is too weak to be carried
through the aggregation.  The invariant (`IInv`) says of every fitness in a cache, and of the
last one in every frame, that it is `Sound`: `solved` never exceeds `total`, success holds
exactly when they are equal, and for a distance-aware fitness also exactly when all values are
1.0.  Of the running sums in a `Frame` it says that `every` holds exactly when they are equal.
The disjunction and the quantifiers would not need that, because they set `solved` to
`total + 1`; the conjunction does, because it adds one, and the implication adds to
the counts of a distance-aware fitness, which a later copy counts anew.  That the number of
combinations is a number needs the finiteness of all searches (`FoundAreTrees`,
`CombinationsFinite`).

`ChecksMeaning` has three hypotheses, each of which the code needs.

- `HashIsStructure`: trees with the same hash can be mapped to each other with all their
  subtrees, keeping symbols, children and hashes.  The hash is computed from the symbol and
  the children (`src/src/fandango/language/tree.py:427-440`), so this excludes collisions of
  hashes, and generated trees: their sources are searched (`find_subtrees`,
  `find_direct_trees`, `tree.py:327-370`) and not hashed.
- `Legible`: what the Python code yields depends on the values under the names that the constraint
  mentions, and on these by their hashes; section 7 has a constraint that looks further.
- `Scoping`: there are sets `free` and `binds` of names for the constraint and all its parts such
  that no part looks up a name that an earlier part binds, and the body of a quantifier binds no
  name it looks up, but the quantifier's own.  A binding that is left behind in a shared dictionary is then
  never seen.  The same name may be bound in several places.

The argument has three parts.  (1) *A key decides the meaning.*  Environments that look the same
(`Agree`) give a constraint the same meaning: searches find trees that correspond (`FoundAlike`),
so there are the same outcomes (`OutcomesAlike`), and the parts mean the same
(`MeaningAlike`).  A cache key determines an environment up to that (`KeyAgrees`, `KeyDecides`), so
`TruthOf` can speak of *the* meaning of a constraint for a key, whichever tree it was computed
for.  (2) *Dictionaries.*  What a callee changes in its caller's dictionaries are names it binds
(`SameBut`), none of which matters for the parts of the caller that are still ahead
(`PartStable`, `BodyStable`).  (3) *The stack.*  The invariant (`MeaningInv`) says that every
cached success is what its key decides, and that every frame can still report what its own
key decides: if the success of what is ahead is taken to be what it means (`Rest`).  A frame that
waits for a callee does so on the condition that the callee reports what it means (`Waits`).
Laziness is harmless because `Rest` no longer depends on what is skipped (`CloseMeans`).

The prover has no induction over data.  It is not needed here: `NestingAssumption` states that
constraints are nested finitely deep as a fact about sets (some element of any set has no part in
that set), and a lemma that fails for some constraint fails for an innermost one
(`ReadingsAgree`, `MeaningAlike`).  In the same way the recursive function is shown to exist
(`MeaningExists`, `MeaningUnfolds`), without which nothing follows from its definition.

### `DerivationTreeProofs`
* `TreesTyped` – `Spec => []TypeOK`.
* `HashesCurrent`, `SizesCurrent` – `Spec => []HashIsCurrent`, `Spec => []SizeIsCurrent`.
* `EdgesAgree` – `Spec => []ParentsAgree`.
* `ReplacedThatNode` – `Spec => []ReplacesThatNode`.

For any number of nodes, labels and hook-in paths, and every order of calls without slices.
While a method runs, hashes and sizes *are* out of date; what is invariant (`IInv`) is which
ones.  `Exact` says that every node is current but the one that the call on top of `todo` is
about to invalidate; `TodoOK` says what each pending call may rely on (its nodes exist, an
`append` is the last thing to do, what a `set_children` is given are children of that node
already).  `InvalidateStep` is the heart: the
fault moves from a node to its parent, by `ParentsAgree`, and leaves the tree at the root.
`Untouched` and `OneChanged` say that a step which changes one node puts nothing else wrong.

`replace()` compares paths, and `ReplacesThatNode` speaks of one node; that a path leads to one
node of a tree only (`PathsDiffer`) is proved upwards: two nodes with the same path have parents
with the same path, and the same place there.  That needs three more invariants (`RInv`).
`NoTwice`: no node is twice among the children of a node, which `set_children` calls still to
be made must keep (`Waiting`).  `Replacing`: what is being compared does not change meanwhile.
`Rooted`: going up ends.  This one does not hold unconditionally.  `set_children` leaves the
parent of a child that goes as it was, and a node that its old parent is then put below has
parents in a circle.  But the circle closes with a call of `invalidate_hash` for a node on it, and that
call goes round for ever (in Python, to a `RecursionError`), so no other method ever sees it;
the invariant says just this.  That going down ends too is a consequence (`Innermost`): among
finitely many nodes, if each had a child in the set, each would be one, and have its parent there.

Paths and trees are recursive definitions along parents and children.  That they have solutions is
shown once for both kinds (`SolutionExists`), from the fact that every set of nodes has an
outermost and an innermost one; `PathUnfolds`, `WantUnfolds` and `ReplacementUnfolds` are instances.

### `GrammarFuzzingProofs`
* `RepetitionsAlwaysMarked` – `Spec => []RepetitionsAreMarked`, for every grammar and budget and
  all random choices, whatever the distances are.

The property is about a finished tree; the invariant (`FuzzInv`) says it of unfinished ones
(`Marks`) and of every call of a repetition that is under way (`HasMarked`): it has marked its
nodes from the first to where its last round began (`Until`), all below its own parent and with
smaller rounds, and none after.  The calls that run in between add to the same parent, and may
be calls of the same repetition.  That the marks stay apart is `NumbersInv` and `Numbered`: no
two calls under way have the same number, and no mark has one that is still to be given out.
`RoundsInv` keeps `Until` within the tree.  `MarkedTree` is the heart: what the end of a round
marks continues the call's own nodes without a gap, and adds nothing between those of another
call.

### Only model-checked
- Liveness (`ResetEnds`, `DeliveryEnds`, `ParseEnds`, `StopReturns`, `ServerForwards`, `RunEnds`,
  `GenerationEnds`, `FuzzEnds`): beyond the prover.
- `ForestIsExact`, `ContinuesExactly`, `PrefixIsParsed`, `SplitsAtNode` and
  `TreeIsDerivation`: they compare with `RECURSIVE` definitions (`Forests`, `StandsFor`, …) in the
  MC modules, which the prover cannot expand; and the prover has no induction over data.
- `WithinBudget` of `GrammarFuzzing`: it holds of the grammars of its run and not of every
  grammar (`fuzz_budget`), and which ones are safe is itself a recursive definition.

## 7. Disagreements found

Each is a `violation` run and an entry under `findings` in `PROJECT.json`, with the quoted
line.

- **`rounding`**: with five hard constraints and one repetition bound (and with many other
  numbers, such as 1 + 5, 7 + 2, or 49 hard ones alone), the shares of satisfied constraints
  add up to 0.9999999999999999, and the search never sees a solution.
- **`earley_nullable`**: `complete()` advances the states that wait for a nonterminal once; a
  state that begins to wait in the same column after its empty derivation was completed is
  never advanced, and a word of the grammar is rejected.
- **`fuzz_budget`**: a repetition reserves nodes for its minimum but subtracts from the reserve
  in every round, so that later rounds are given more than is left; `<start> ::= "a" <start>*`
  outgrows every `max_nodes`.

Four more follow from models here by changing a configuration as described:

- *Fixing spoils solutions.*  The elites are fixed like all others, and a satisfied disjunction or
  `any` passes on the suggestions and failing trees of its failing parts
  (`constraints/disjunct.py:70`, `exists.py:82`), which `fix_individual()` applies whatever the
  fitness is.  With `where <a> == "1" or <b> == "2"` and `where <b> != "2"`, the elite with
  `a = 1`, `b = 3` is a solution and becomes `b = 2`, which is none, whereas `cli/parser.py:203`
  speaks of the "rate of individuals preserved in the next generation".  With the property
  `ElitesPreserved` added to `MCEvolution.cfg`, TLC finds it violated (the problem
  `SolutionSpoilt`).
- *Datagrams are cut.*  `_listen()` "forwards" incoming messages (`io/__init__.py:448`), but
  reads a datagram with `recvfrom(1024)`.  The end of a longer one is lost (on POSIX systems
  silently; on Windows the call may raise instead), and the party gets the beginning as if it
  were the message.  With the invariant `DeliveredWhole` added to `MCSocketParty.cfg`, TLC finds it
  violated.

- *Equal subtrees share cache entries.*  The caches of constraints are keyed by the structure
  of trees, so a quantified statement that looks at where its subtree is (`<E>.parent()`) is
  evaluated once for all equal subtrees.  With `Goal = {"position"}`, TLC finds
  `CheckIsMeaning` violated.  (It is the hypothesis `Legible` that this constraint does not meet.)
- *Slices take children away.*  `t[i:j]` makes a `SliceTree` the parent of nodes that are
  still children of `t`; `replace()` then computes their path in the slice and replaces another
  node.  With `SPECIFICATION SpecWithSlices`, TLC finds `ReplacesThatNode` violated.

Seen on the way:

- With `max_generations=None` the fallback search of the protocol loop does not end when no packet
  satisfies the constraints: the loop neither raises nor reads what arrives (`MayRunForEver`).
- `transmit()` may raise with the packet sent; the history that the caller has seen then
  lacks the last packet that the peer got (`TransmitFails`).
- The operator of a comparison is called outside the `try` of `fitness()`: for values that cannot be
  compared the exception leaves all enclosing constraints, and a disjunction with another,
  satisfied part has no fitness either (`Escape`).
- `set_children()` does not reset the parent of a child that it takes away.  If that child then
  adopts the node (or one above it), `invalidate_hash()` calls itself without end (`Rooted`,
  section 6); no caller in `src/` does this.
- `In`, `Out` and `StdIn` inherit a `stop()` that raises, so `reset_parties()` fails with them
  and `fandango talk` ends after its first run.
- The lookup of a sender runs without a lock; during a restart it may find no external party,
  or a dictionary that grows, and ends the listener (`ReceiveRaises`).
- The waiting loop of the packet parser may report a timeout although it has found the fragment
  (`WaitTimesOut`).
- A refused connect ends the listener with `_running` set; a later `send()` connects and the
  answers are never read.  When a peer closes, `_connection` survives into a `start()` without
  `stop()` (the run `sockets` assumes `StopsFirst`; with `FALSE`, `ConnectionIsCurrent` is violated).
- `stop()` does not reset `current_remote_addr`: after a restart a UDP server that speaks first
  sends to the peer of the run before (`AnswersPresentPeer` of `SocketParty` is violated).  An
  empty datagram ends a UDP party for good.
- `get_full_fragments()`, used in error messages only, splits fragments where its docstring says
  it combines them; `max_nodes` is both the first node limit and its cap, so that
  `--max-node-rate` has no effect.
- Fragments of one sender to two receivers are parsed as one stream: the receiver of an entry
  is not looked at.
- The parser does not end on cyclic grammars, repetitions of what may be empty, or left
  recursion in mode `INCOMPLETE`; a literal after a number of bits that is no multiple of eight
  raises an `IndexError`.  The key of the cache of `Parser` lacks the starting bit.
- `prime()` does not end if a symbol derives nothing; the distance of an alternative is that of
  the first child it knows, not of the nearest.
- `get_choices_path()` never extends the path when it finds a child by value; `append()` may
  raise after it has added nodes; `replace()` silently does nothing if symbols differ.

## 8. What is not modelled

- **Overflow of the fitness cache** (10000 entries): the model's cache keeps everything; an
  evicted entry is evaluated again, which `solution_set` guards against as it does for a flush.
- **`IoEvaluator`, `IoPopulationManager`**: in `GenerateIo`, evolving one packet is a step.
- **The stream parties** (`In`, `Out`, `StdIn`, `StdOut`) beyond their listener, and
  `ProcessManager`: one field under one lock; the program under test is the environment.
- **Mutation and crossover rates** of `AdaptiveTuner`: probabilities; every draw is possible.
- **How the guide path is chosen**, the A* search, k-path coverage: planned; pure search.
- **Bound symbols that are also symbols of the grammar**: a quantifier never takes its binding
  out of the shared dictionary, so a search for that symbol in the enclosing statement would
  find the last instance.  `CheckIsMeaning` is checked and proved for names that no other statement
  looks up, as in the examples of the documentation (`src/docs/DNS.md:385`): `Scoping`.
- **Suggestions, failing trees, inversion, repetition bounds and soft values** of constraints,
  and the searches `LengthSearch`, `ItemSearch` and `SelectiveSearch`; the order in which a
  quantifier takes its trees is left open.
- **Sources of trees, generators, senders and recipients** in `DerivationTree` and
  `GrammarFuzzing`: a node generated by user code has further trees as sources, whose parents
  and hashes are kept apart.
- **Regular expressions** as terminals, repetition bounds computed from the tree, cyclic
  grammars and those with bits that do not fill bytes, on which the code does not end or
  raises, and the cache of `Parser`, in `IterativeParser`.
- **The settings that make ill-formed trees**, the repair of repetitions (`override_…`) and
  k-path coverage, in `GrammarFuzzing`.
- **Composition**: `Evolution` takes the fitness of a tree as given, `Constraints` takes trees as
  unchanging, and `PacketParser` takes parsers as languages; that these assumptions hold of the
  modules for trees and parsers is what `HashIsCurrent`, `ForestIsExact` and `ContinuesExactly`
  say, each checked apart.
- **Front end, CLI, API, converters, language server, generated parsers, logging**:
  translation of text, input and output, or generated code; no protocol and no shared state.
  The lexers and parsers generated by ANTLR alone (`language/parser/`, `converters/antlr/`) are
  83,000 of the 110,000 lines of the implementation.

## 9. How to run

```
tlc -workers 2 -config MCFandangoIO.cfg MCFandangoIO      # and so on for each .cfg
tlapm SelectionsProofs.tla
tlapm PacketParserProofs.tla
tlapm GenerateIoProofs.tla
tlapm SocketPartyProofs.tla
tlapm EvolutionProofs.tla
tlapm ConstraintsProofs.tla
tlapm DerivationTreeProofs.tla
tlapm GrammarFuzzingProofs.tla
```
