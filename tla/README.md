# FoxSYN in TLA+

FoxSYN is a C++ toolset for FPGA technology mapping and for optimising netlists
that are split over several chips. It lives in `src/src/` beside a vendored copy
of Berkeley ABC (`src/src/abc`), whose network type `Abc_Ntk_t` every component
works on. This directory holds TLA+ models of its core algorithms, TLC runs that
check them on small instances, and proofs of their most important properties,
checked by TLAPS, for instances of every size.

FoxSYN is almost entirely sequential: one command runs one optimiser to its
end. What is hard is not interleaving but **incremental state**: counts, gains,
arrival times and groups that are kept by updates instead of being recomputed,
changes that are undone after a limit is exceeded, data collected once and
used after the network has changed, and limits that must hold together.

## 1. Inventory

| Component (sources) | State it keeps | Operations | What makes it correct |
|---|---|---|---|
| **fmpart engine** `fmpart/fmpart.hpp` | side, lock and fixed flag of each vertex, pins of each net per side, side weights, cut, gains, best prefix of the pass | given or random initial solution, pass, move, undo | incremental counts, cut and gains equal their definitions; undo restores the best prefix; a run never makes the result worse; fixed vertices stay |
| **fmpart buckets** `fmpart/fm_buckets.hpp` | doubly linked list per gain, lazy upper bound `top` | insert, erase, adjust, scan for the best | lists and links agree; the scan returns a vertex of the highest gain |
| **fmpart adapter** `fmpart/abc_wrapper.cpp` | none (one pass) | network to hypergraph | the cut of the hypergraph is the number of cut nets |
| **csr2 hop state** `csr2/csr2_hop.*` | hop arrival and rank of each node, undo log of a transaction | full computation, propagation from seeds with a limit, rollback | propagation agrees with a full computation; rollback is exact |
| **csr2 optimizer** `csr2/csr2*.cpp` | trajectories, node limits, growth budget, best result | resubstitution, replication by clusters, relocation, swap, balance repair | every accepted result keeps hop, balance, node and cut limits; a rejected change leaves no trace |
| **csr** `csr/csr.cpp` | part sizes, candidates of the round, arrival and slack snapshots, node budget, rounds without progress | relocation, swap, resubstitution with a sweep, replication, balance repair | functions are kept; cut edges drop; hop, balance and node limits hold; it ends |
| **csr3** `csr3/*` | line groups, reachable tuples, codec | group, count by SAT, encode, verify, insert, roll back | inserted codec is equivalent and acyclic |
| **csr4** `csr4/csr4.cpp` | boundary LUTs, groups, codes | collect, group, evaluate, rewrite | functions kept, crossing wires drop, LUT size kept |
| **cpr** `cpr/cpr.cpp` | cut nets, path delays, ledger of a round | relocate segments, replicate, revert, repair balance | reverting a round is exact; caps |
| **hive** `hive/*` | ranks of the nodes; per seed a region with the counts of its boundary, the best one so far, the candidates of the step; the reports | ranking, seeds, growth with closure, caps and pruning, selection | regions convex; counts exact; reports keep the caps and overlap little |
| **timer** `timer/*` | arrival, order | full timing, the top paths; partial timing has no caller | arrivals are the longest delays, paths the latest |
| **partition database** `abc/base/abc/abcPdb.*` | part ids, cached statistics | set, count cut nets, cut edges, hops | caches equal definitions |
| **cmfs**, **pst**, **pdecomp**, **partsyn**, **hpart** | see PROJECT.json | | |
| **mappers** `fox`, `supper`, `agdmap`, `curvemap` | cuts and costs per node | cut enumeration, covering | judged by cost; cover is legal |
| **command line**, **ABC** | | | option ranges; taken as given |

Interactions are calls and the shared network: every optimiser reads and writes
`Abc_Ntk_t` and the part ids in its partition database. csr2 is the only one
that tries several copies of a network and keeps the best; partsyn is the only
one with threads. Nothing is persisted, no messages are exchanged, so there is
no crash recovery or unreliable delivery to model. `PROJECT.json` lists every
component with its status, and the hazards found in the survey, each at its line.

## 2. Plan

| # | Modules | Status |
|---|---|---|
| 1 | `BucketOps`, `GainBuckets` refining `GainQueue` | done: checked and proved |
| 2 | `FMPart` (uses the gain queue's contract), `AbcWrapper` (its input from a network) | done: checked, every safety property proved |
| 3 | `HopState` | done: checked, every safety property proved |
| 4 | `Csr4` | done: checked, safety properties proved, a finding |
| 5 | `PartNet`, `PartMoves`, `Sweep`, `Csr`: every phase of csr with its rounds and limits | done: checked, a finding; every safety property proved but `FunctionsKept` |
| 6 | `HiveRegion`, `Hive`: closure and region growth against a definition of convexity | done: checked, every property proved |
| 7 | `PartLimits`, `Csr2Plans`, `Csr2` implementing `Optimizer`: trajectories, searches that change the network and take it back, budgets, the selection of the best | done: checked, a finding; every safety property proved that holds of all networks |
| 8 | `Csr3`: codec insertion with cycle check and rollback, SAT timeouts as choices | done: checked, every property proved |
| 9 | `Cpr`: rounds with ledgers and revert, with the timer it asks | done: checked, every property proved |

The abstract specifications are the gain queue, which the buckets implement, and
`Optimizer` ("in one step nothing, or a network with the same outputs, within
all limits"), which csr2 implements. What is proved is in section 5. What would
come next: that csr keeps the functions on networks without the inverters of section 6
(the interpolants of a resubstitution, and the sweep's merging of constants, buffers and
inverters), and the decomposition of `-X`.

## 3. Modules and the code

**`BucketOps`** has the three list operations of `GainBuckets` in
`fm_buckets.hpp` (insert at the head, erase, adjust) as operators on a record of
`head`, `next`, `prev`, `gain`, `inside`, `top`. **`GainBuckets`** makes them
actions, with `find_top`'s scan of the buckets (`max_gain`, then the list walk
with the caller's filter) as one action per step. **`GainQueue`** is the
abstract contract the engine relies on: a partial function from vertices to
gains, whose query returns an accepted vertex of the highest gain. Ties are
nondeterministic there; the code's last-in order is kept in `GainBuckets`.

**`FMPart`** is the engine of `fmpart.hpp`: one action per part of the run
(take or draw the initial solution, begin a pass, pick and move, a pass without
a move on the forced side, undo a move, end a pass, end the run). Pins of a net
are a set, as in the engine's inputs. `random_init` shuffles with a local weight
array; the model draws an order and shares `wsum` with the pass. The buckets are
used through the gain queue's contract: the held gains are the vertices' gains,
and any free vertex of the highest gain on the chosen side may be picked, which
covers every tie-break of the lists.

**`AbcWrapper`** is `AbcNtkWrapper`: the hypergraph of a network, with signals followed
through latch boundaries (the least set that the search visits), and the numbering of
its vertices and nets, which is by rank among those that get a number. It extends `FMPart`, whose
inputs are then hypergraphs of networks, and relates the engine's cut to
`Abc_NtkComputeCutSize` of the partition database. `hpart.cpp:113-235` builds its
hypergraph in the same way.

**`HopState`** is `csr2_hop.cpp`: `Initialize`'s ranks and arrivals,
`PropagateFrom`'s queue ordered by rank, popping one node per step, the hop
limit that ends it in the middle, the undo log of `BeginTransaction`, and
`Rollback`. Between calls a caller patches fanins or parts, as
`test_csr2.cpp:337-384` does, keeping the network acyclic. Ranks come from the
last `Initialize` and may be stale after a patch.

**`Csr4`** is `RunCsr4` with `-a`: `CollectLuts` the boundary LUTs of a direction,
`GroupNext` them into groups under the caps, then per group `ApplyGroup` or
`SkipGroup`, in both directions. A truth table is the set of the fanin sets for
which the LUT is true, so the order of fanin slots and duplicate slots are
abstracted; the numbering of the classes is any injective code in which one
class has the all-zero code, and encoders are new vertices in the other part.
Without `-a` csr4 only reports and changes nothing.

**`PartNet`** is what csr, csr2, csr3 and cpr share: a partitioned network with the
queries and edits they make on `Abc_Ntk_t`. Here fanins are sequences, since a
resubstitution or a merge may give a node the same fanin twice and the optimisers
count edges by slot; a local function is the set of the sets of slots that make
the node true. Object ids are numbers, as `csr.cpp` breaks ties and indexes its
snapshots by them. **`Sweep`** is `Abc_NtkSweep`, which csr calls after each round
of resubstitutions: minimum base, merging of constants, buffers and inverters
into their readers (in any order), outputs moved to their drivers, cleanup.

**`PartMoves`** has the candidates and changes that csr and csr2 have in common
(`csr2.cpp` started as a copy of `csr.cpp`): moves and swaps with the cut they
save, divisors and interpolants of a resubstitution, and the choice of nodes of
`enforce_balance`, which csr, csr2 and cpr call. **`SmallNetworks`** has
the networks that the runs of these four modules share.

**`Csr`** is `ApplyCsr`. `phase` is the phase of the call and `step` the place in
it: entering it, the head of a round, the candidates of a round, the sweep.
The candidates are collected at the head of a round, sorted by their key, and
tried one per step against the network as it is by then, so a step finds what
earlier steps made stale; equal keys come in any order (the swap phase's
order is the code's own). Four points are worth a reader's attention.

- *Resubstitution.* A window and a SAT solver answer whether a node can be
  rewritten over its other fanins and up to two divisors. The model allows every
  rewriting that keeps all outputs, with the smallest or the largest interpolant,
  and allows the solver to find none (`SkipNode`). The divisors are those of
  `Abc_MfsComputeDivisors`; the level limit on them is its effect, that the
  network does not get deeper. The hop gate is the code's: arrivals of the round's
  start, and 0 for ids past the snapshot.
- *Replication.* The hop slack is computed once for the phase. For a duplicate
  made since, `try_replicate` reads it beyond its end; the model lets such a read
  have any outcome (`MayPass`, `MayFail`). A duplicate that does not lower the
  cut is removed, but its id is used up.
- *Undone moves.* Relocation, swap and replication try a change and take it
  back. Setting a part id clears the partition database's statistics, the
  inherited balance percentage among them (`pdb' = Invalid`), also when the move
  is taken back; what a later phase resolves from the database differs then.
- *Repair* is `enforce_balance` of cpr, called without arrival times.

**`PartLimits`** is `csr2_state.cpp`'s `CaptureEntryLimits` and the test of all
limits at once. **`Csr2Plans`** has what csr2 searches among and the order it
prefers them in: sequences of relocations, clusters of nodes to duplicate with the
transaction that undoes one, pairs of nodes of which one can stand for the other,
and the predictions made of a change from its neighbourhood.

**`Csr2`** is `ApplyCsr` of csr2. `tid` counts the trajectories, each of which works
on a copy (`net`) of the frame's network through the phases of `Phases`, and is kept
in `results` if its audit passes; `Select` puts the best into `frame`. The searches
change `net` itself, as the code does: `OpenParent` applies a plan of the beam,
the plans one step longer are tried on top of it, `CloseParent` takes it back;
`BuildNext` builds a cluster, `JudgeCluster` measures and undoes it. What is applied
in the end is then checked again against the limits (`Applies`, `Accepts`), as it
is in the code, and the growth is charged. `RollRoundBack` returns to the copy
made before a round of resubstitutions, `EndRepair` to that before the repair.
Unlike csr, csr2 does not sweep, only removes what dangles, and computes hops from
nothing for every candidate; the incremental `HopState` is there but used by tests.

**`Optimizer`** is the contract of the command as its caller sees it, through the
frame. `Csr2` implements it with `busy <- phase # "done"`.

**`Csr3`** is `RunCsr3` with `-x`. For each direction `Collect` forms the groups of
crossing lines, from the network as it is at that moment. Each group is
pruned when the simulated patterns show too many tuples (`Prune`), or its tuples
are enumerated one SAT call at a time (`Enumerate`), any of which may give up
(`GiveUp`); when none is left (`Count`) the codec is checked against the cone
(`Unproved` when that call gives up), inserted (`Insert`), and kept or taken back as
`Abc_NtkIsAcyclic` says (`Accept`, `Reject`). The order of the tuples is any, and
the code of a tuple is its place, as in the code.

**`Cpr`** is `ApplyCpr` with the timer's `compute_arrival` and
`extract_top_paths(1)`. A round of relocation gives the best segment of a critical
path to the part before it, after it, or half to each; a round of replication walks
along the path (`Replicate`, `PassOver`), and at its end the whole round is
reverted from its ledger if there are too many cut nets (`RevertRound`). Then
`enforce_balance` moves nodes one at a time, those that arrive first before others.

**`HiveRegion`** has what hive computes on a set of nodes: the closure of
`convex.cpp`, the boundary counts that `Region::add` updates and
`Region::recompute` scans, the quality Q (a fraction here, a double there) and
the bound on the LUTs needed. What the code finds by a search with a stack and
marks is defined as the least set closed under the search's steps, which is the
same set in whatever order the search goes and is fit for proofs.

**`Hive`** is `RunHive`. It ranks the nodes by Kahn's algorithm, one vertex a
step in any order; refuses a loop; takes the seeds by the size of their cones;
and grows a region from each: the nodes of the cone are added one by one
(`InitAdd`), then in each step the candidates are listed (`List`, `ListExits`,
sampled by id under the fanout cap), the best few by the Q they would have alone
are kept (`StartStep`; `nth_element` may keep any of those that tie), each is
tried with what its closure adds (`TryCandidate`, `AddViolator`, `JudgeTrial`)
or refused when the closure exceeds its budget, and the best trial within the
caps becomes the region (`Grow`), until no step is found or the best Q has not
risen for `Stall` steps. `Select` then takes the reports by falling Q, leaving
out those that overlap an accepted one.

## 4. Runs

| Run | Instance | What it shows |
|---|---|---|
| `buckets` | 3 vertices, gains -1..1 | lists, links and the scan are right; `GainBuckets` implements `GainQueue` |
| `fmpart` | 84 hypergraphs of 4 vertices and 3 nets, given and random starts, fixed and heavy vertices, tight bounds; four networks, two with latches | counts, cut and gains are exact after every step; the best prefix is restored; a run improves and ends; the cut is the network's |
| `hop` | 3 networks of up to 5 nodes, two patches per transaction, two transactions | propagation agrees with a full computation, the limit's verdict is right, rollback is exact, propagation ends |
| `csr4` | all pairs of functions of a shared pair of nets, and networks where each cap, both directions, a wide sink and a crowded LUT matter | equations kept, wires drop, LUTs fit |
| `csr4_cycle` | a feedback | violated: a finding of section 7 |
| `csr` | 11 networks of 5 to 9 vertices over two or three parts, three option sets, two rounds a phase | functions and hops are kept through all phases; accepted changes lower the cut; balance and node limits hold; the call returns |
| `csr_resub_hops` | one network, resubstitution without relocation | violated: a finding of section 7 |
| `hive` | 8 networks of 3 to 6 nodes, two option sets, the constants of the search small | ranks rise along edges and only loops are refused; counts are exact after every addition; every region is convex; reports give the figures of their regions, keep the caps, are the best of their growth and overlap little |
| `csr2` | 15 networks under seven option sets, one to three trajectories | every settled change keeps all limits; a search leaves no trace; predictions are exact; what is found is what is applied, and lowers the cut; csr2 implements `Optimizer`; the call returns |
| `csr2_order` | two nodes with the same fanins in opposite order | violated: a finding of section 7 |
| `csr3` | 9 networks, two similarity bounds, groups of two or three lines | only complete lists are verified and built, complete for the network the codec goes into; outputs are kept without a cycle; a codec that closes one leaves no trace; the lines reported as saved are saved |
| `cpr` | 17 networks, 24 option sets | a round is reverted exactly or keeps the outputs, the cap and all arrivals; what a walk remembers stays true; growth is counted exactly; the repair ends balanced where it can |

Why the bounds are enough. *buckets*: three vertices give a list with a
head, a middle and a tail, every way of erasing from it, and two lists at once;
three gains give a `top` that is two lists too high. *fmpart*: critical pin
counts are 0, 1 and 2, and a net of three pins has one that is not critical;
four vertices allow two moves per side, so a pass can get worse, better and be
undone in part. *hop*: a node that is queued again after it was popped needs a
path of three and a stale rank, both present; two patches give a
node two entries in one log. *csr4*: a code is shorter than its nets from two
nets on; two LUTs per group with a third consumer fills a group and starts
another. *csr*: the networks were chosen so that each of these happens: a move
and a swap that are taken back because of hops; a move refused by the balance
limit; candidates that earlier moves or swaps of the round made worthless; a
second round that finds new ones; a candidate deleted by an earlier
resubstitution; a sweep that changes nodes; a duplicate that is duplicated; a
node budget that ends in the middle of a round; a repair that succeeds and one
that runs out of nodes. *hive*: with `TopL`, `Stall`, `ClosureBudget` and
`FanoutCap` at 2 each of these happens: a closure that adds two nodes and one that
exceeds the budget; a listing that the cap cuts; candidates that are pruned,
also among ties; a trial over the caps between trials within them; a growth that
ends by stalling, by the node cap and by having no candidate; a duplicate of a
report that is not the last one; reports that run out before the candidates and
the other way round; a loop, a dangling node and a constant. Two rounds are enough for a round to start from what
another left, and the stall count to reach its limit.

*csr2*: the code's constants are scaled to the networks. `NodePct` is 160 in place
of 102, since 2% of five nodes is no node; `SeedLimit` 4 (64), `BeamWidth` 2 (8),
`MaxDepth` 2 (3) and `MaxClusters` 3 (16) are small enough to bind; `MaxClusterNodes` and
`MaxClusterDepth` are the code's. With them each of these happens: a plan of two steps
of which the first alone is worse; plans cut from the beam; a cluster of two
nodes that beats its driver alone, one over the budget and one over a limit; a
round rolled back; a repair that is taken back; a budget used up in the middle
of a round; an entry outside its own limits; the second trajectory winning.
*csr3*: tuples one short of the cap, at it and over it; lines that are constant
(an encoder of no bits, a decoder that reads nothing), equal, or exclusive; a codec
that closes a cycle; a first direction whose codec is in the cones of the second.
*cpr*: a duplicate that a later duplicate of the round reads; a round with more cut
nets than the cap; growth used up in a walk; a path with two inner segments; a
part that the inputs alone overfill; three parts of which the first over the limit has
nothing but inputs and a later one has nodes.

Deadlock is checked in every run: specifications that end have a step that
stutters at the end.

**Fairness.** `FMPart` assumes `WF_vars(Next)` and `HopState` weak fairness of
the propagation's step: each is a loop of a single thread that nothing outside
can stop, so it takes its next step whenever it has one. Callers' choices
(patches, transactions) are not fair. `Csr` and `Csr2` assume the same of `Next`, with its
enabling condition written out (a step can be taken until the phase is "done",
as the deadlock check confirms), which spares TLC evaluating `ENABLED` of the
resubstitution. The other modules, `Hive` among them, assume none.

**Mutants.** Every property of every passing run is violated when a mapped
definition is replaced by a plausible bug in it, listed in PROJECT.json and
written beside it in the module with a `slip` comment. The type invariants of
`FMPart`, `HopState`, `Hive` and the four network optimisers are
conjuncts of a property that says more, and are checked with it.

## 5. Proofs

Each `*_proofs` module proves its facts for every value of the constants that
the module's assumptions allow: networks, hypergraphs and options of any size. The
assumptions are what ABC and the command line guarantee: inputs have their types
and are finite, the networks of `HopState`, `Cpr`, `Csr` and `Csr2`, and those `Csr3` begins with,
have no combinational cycle, numeric options are in range.

Definitions that recurse over a set or over a network are functions here, and a
recursive function is a `CHOOSE`: nothing is known of it until some function is
shown to satisfy its equation. Inductions are over finite sets (a family of
subsets that contains a set whenever it contains the set less one element contains
all of them). The lemmas of **`NetTheorems`** are general:

- *sets and recursion*: least and greatest elements, induction over finite sets, and
  sums: the recursion of `SumFunctionOnSet` has a solution, the order in which it
  takes elements makes no difference, and a sum changes by what its set and its
  summands change by. Also two kinds of recursion: equations that go from what
  lies below an element to the element have a solution where nothing goes round in a
  circle (`FlowExists`), and a growing set gets to its least fixed point
  (`GrownExists`, `GrownIs`).
- *orders*: a finite set is listed by any linear order, each element in the place that
  the number of those before it says (`ListedIs`);
- *partitioned networks*: the edits of a network (`Extended`, `Patched`, `Without`)
  field by field, and that they keep its types; that a set of vertices which has
  each vertex whose fanins it has is all of an acyclic network (`FromFanins`); that
  equations going from fanins to vertex have a solution there (`NetFlowExists`); hence
  that `TrueAt` is the one assignment of values the local functions agree with
  (`TruthIs`, `TruthOnly`).

The components:

- **`FMPart_proofs`**, for the buckets: the list operations of `BucketOps` keep "`next` and
  `prev` are inverse, every held vertex is reachable through its neighbours in the
  list of its gain, `top` bounds all gains" and act on the held vertices as the
  abstract queue's operations do. Hence `BucketsInvariant` (`ListsAndScan`) and
  `BucketsRefineQueue`: every step is a step of `GainQueue` or a stutter. The scan's
  invariant says what the buckets already passed cannot hold.
- **`FMPart_proofs`**, for the engine: the pin counts are exact (`CountsAreExact`), moves are of
  free vertices of a side that gets no overload (`MovesLegal`), undoing from the
  end of the pass restores the sides of the best prefix
  (`BestPrefixRestored`: the inductive part says that the current sides are
  those of the prefix after the moves still to be undone), and an overloaded
  side never gets heavier (`NoSideOverloaded`). With sums: `SumsAreExact`, the cut, the side weights
  and the gain of every vertex in the buckets are what a computation from the
  partition gives. The invariant has to hold between the updates of one move as
  well: a net of the moving vertex that is half-way through its two scans counts
  for nothing in the gain of its unlocked pins, and the gain of the trail is the
  cut saved so far less what the nets still to be scanned will save. And
  `RunNeverWorse`: with exact gains the prefix that is kept has the least cut of
  those allowed, so a run that begins balanced ends balanced and no worse.
  `NetworkCutAlways` is about the adapter and the engine together: ranks number the
  vertices and nets of a network without gaps (`RankOnto`), the cut nets of its
  hypergraph are those of the objects with pins on both sides (`CutCarriers`), and
  these include the drivers the partition database counts, all of them when
  there is no latch in between (`DriversAreSplit`). It assumes unit net weights
  (`abc_wrapper.hpp:24`) and natural object ids.
- **`HopState_proofs`**: whenever no propagation is running and the last one was
  not refused, arrivals satisfy the arrival equation at every node
  (`ArrivalsAgreeHolds`). The inductive invariant is that every node whose
  equation is broken is in the queue, or is a patch seed not yet queued.
  `RollbackIsExact`: the log replayed backwards over the current arrivals gives
  those of the transaction's beginning, at every moment of it. `VerdictIsRight`: on
  an acyclic network the equations have one solution, so arrivals at rest are those
  of a recomputation; an accepted network is within the limit, because an arrival over it
  ends the call at once; and a call from one start moves arrivals in one direction only
  (down, or up), so a single start is refused for an arrival that is really there.
- **`Hive_proofs`**: `RanksRightHolds`, `CountsExactHolds`, `RegionsConvexHolds`
  and `ReportsRightHolds`. Kahn's invariant (`Kahn`) is that `indeg` counts the
  predecessors not yet processed, the queue holds what has none, and ranks rise
  out of what is processed. Convexity rests on three lemmas: in a network whose
  ranks rise, a node on a path that leaves a set and comes back has a rank
  between those of the set, so the search in the band finds all of them and
  adding them opens no new detour (`ClosureConvex`); a cone is convex, as it is
  left only at its root (`MffcConvex`); and `Region::add` keeps every count
  (`AddExact`). The invariants add that what is still to be added completes a
  trial to a convex set (`Completed`) and is not in it yet (`Kept`), without
  which a second addition of a node would spoil the counts. `ReportsRightHolds` adds that
  what is reported of a region is what a scan of it finds (`ScanMeasures`), that the
  best region of a growth is one of it that keeps the caps (`GrowthInv`), that
  reports are by falling Q and overlap little (`ReportInv`), and that in a mapped network the
  bound on LUTs never exceeds the nodes there are: every input takes a fanin slot of a
  member, and so does every member that is no output.
- **`Cpr_proofs`**: `CprLimits`, `CprWalk` and `CprRounds`, all that the run `cpr`
  checks. The invariant of a round (`LedgerInv`) is that some sequence of networks
  leads from the start of the round to the present, each of which the next entry of
  the ledger, undone, gives back up to the next free id (`CopyUndone`: no node read the
  duplicate's id before); so `RoundReverted` retraces it (`RevertedSame`). The path stays a path
  (`CopyOnPath`), since the next vertex of it reads the duplicate and no vertex is on
  it twice: the network is acyclic, and stays so, as a cycle through the duplicate would be one
  through its node (`CopyAcyclic`). A duplicate arrives at most one crossing later
  than its node and its readers lose that crossing, so nobody is later
  (`CopyArrives`), and is true when its node is (`CopyTrue`); `HelpInv` carries both
  through the round. The repair always has a part to move to (`LimitAbove`: the limit is
  above the average), hence it ends as `LimitsHeld` says. The proof needs every `Timing` and trace of a
  critical path to be what its recursion says (`TimingIs`, `PathsAre`).
- **`Csr3_proofs`**, for `Csr4`: `EquationsHold`, `CutsDrop`, `LutsFit`. The argument: the
  fanins and truth tables of a group's members are still those collected, since
  groups of one direction are disjoint (`LutGroupsInv`, `SeenInv`); two assignments
  of one class are told apart by no member, and the encoders separate classes.
- **`Csr3_proofs`**, for `Csr3`: `ListsCompleteAlways`, `RollbackExactAlways`,
  `SavedExactAlways` and `FunctionsKeptAlways`, all that the run `csr3` checks.
  Groups have one to `-M` lines and no line is in two of them (`GroupsWell`: similarity buckets are the classes of an equivalence, and the windows
  that cut a bucket into chunks do not overlap). The invariant (`IInv`) says that
  the lines of the groups that are left still cross, in the network as it is now; that the tuples
  listed are different and at most `Cap` many; and that what is on trial is the
  codec of all of them. The network with a codec is described field by field
  (`CodedIs`), so taking it back gives the network before, but for the next free
  number (`RolledBackIs`), and keeping it puts the encoders in the place of the
  lines among what crosses, and adds nothing the other way (`TaggedCrossing`). The
  code is shorter than the group (`AtHand`: at most `2 ^ (lines - 1)` tuples), so a
  codec that is kept saves at least one line, and nothing saved means nothing changed.

  For the functions there are two hurdles. A network may come to have a cycle that no
  output depends on, and there `TrueAt`, a recursion over all vertices, is a `CHOOSE` of
  which nothing is known; so `FunctionsKept` speaks of what the outputs depend on
  (`Live`), which is acyclic (`LiveAcyclic`). And the values of the lines have to be
  among those a group was listed and verified with, although the network around
  is about to change: a cone takes what it reads from the other part for
  free, so any values that agree with the local functions of the lines' part
  will do (`TupleSeen`), those before the insertion and those after it. The second
  case is needed, as a decoder whose line no output depended on may bring other lines
  in. Then, from the inputs up, every node is as true as it was and every decoder as
  its line (`DecoderKeeps`, `CodecTruth`, `CodecKeeps`). The invariant (`KeptInv`) adds that each
  part by itself stays free of cycles (`TaggedGrounded`), without which a cone
  would have no value, and that the codec on trial was verified in the network before it.

- **`Csr2_proofs`**: `Csr2Limits`, `Csr2NoTrace`, `Csr2Predictions`, `Csr2Found`,
  `Csr2Drops` and `Csr2Improves`: all that the run `csr2` checks but `Finishes` and the part of
  `Promise` that is about the outputs. The invariant (`IInv`) is about the network that the settled changes
  have made, `Ground`: during a search, a round of resubstitutions and the repair that is the
  copy in `saved`, as the network itself may then be outside the limits. It has the
  limits, the growth and the cut-edges of `Ground` (`Settled`); what the candidates still to be tried
  are of the network (`Listing`: a cut candidate may have died, but a number is never used twice);
  that a plan of the beam is a log of moves that `saved` allows, with the change it
  measured (`Searched`); and that the network under a cluster's trial is `saved`, up to the next free
  number, with the duplicates of that cluster (`Found`).

  Two facts carry the proof. A log of relocations tells of every node where it began and
  where it ends (`RelocatedIs`, `RelocationUndoneIs`), so undoing it leaves no trace. And a
  cluster is built again under other numbers than those it was judged under, since a
  rollback does not give numbers back: the two networks are the same up to a renaming of
  the duplicates (`BuiltAlike`), which keeps sizes, cut-edges, cut-nets and hops (`IsoCuts`,
  `IsoSizes`, `IsoHops`); hence what was within the limits is so again. The predictions are
  counts over the slots around a node, compared with those of the whole network
  (`EdgesPredicted`, `NetsPredicted`, `JointPredicted`), and a change lowers the cut-edges
  because one slot stops crossing and none begins (`MoveLowers`, `ReplacedLowers`).

- **`Csr_proofs`**: `CsrLimits`, `CsrHops` and `CsrDrops`: all that the run `csr` checks but
  `FunctionsKept` and `Finishes`. The invariant (`IInv`) relates what the phases carry along to the
  network: `Sized`, the sizes counted move by move are those of the network, and no part
  is over the limit of the entry that was not so from the start (a pair that is
  swapped leaves them, `SwapSizes`; a move of the repair leaves the limit, `LimitMoved`);
  `Grown`, what replication has added is within the budget; `Arrived`, the hops
  are at most those the phase began with; and `Listing`, of the candidates still to be
  tried: nodes of a part stay so, and a crossing slot still crosses if its node is
  there, since numbers are not used twice.

  The types include that the network has no cycle, and this is what the sweep puts at risk:
  it rewires readers past constants, buffers and inverters and moves outputs, one node at a
  time. `SweptIs`, `AllMinimumBaseWellFormed` and `OutputsSweptIs` show that what a
  rewritten node reads lies below it in the network before, so each step keeps the
  network well formed and acyclic, and adds no node. Replication: a duplicate has
  the fanins of its node, and its readers are in its part, so they lose the crossing it may gain
  and no arrival rises (`CopyHops`, `ReplicatedIs`), which is why the stale slack of
  the phase does no harm. For the cut, a move that its gain promised lowers the count
  over the whole network (`MoveLowers`), and so does a resubstitution, though the code
  counts nothing there: one slot stops crossing, the divisors are of the node's part,
  and what is deleted takes its slots with it (`ResubIs`).

Only model-checked:

- `FunctionsKept` of `Csr`: it does not hold of every network (section 6 says of which
  it fails and why), so it has no proof without excluding those;
- the violations of section 7, and all liveness (`RunEnds`, `PropagationEnds`,
  `Finishes`), which is beyond TLAPS. Of `Promise` the step "in one step nothing, or
  a network with the same outputs" does not hold of every network (`csr2_order`), so it has no
  proof without excluding those.

## 6. Abstractions worth knowing

- `AbcWrapper`: on a network with latches the engine's cut may exceed the number of
  cut nets that the partition database counts, which looks at direct fanins and has
  no latches among its vertices, whereas `docs/fmpart-design.md:37` calls the two equal
  for two parts. `NetworkCut` claims equality for combinational networks and an
  upper bound for the others.
- `HopState`: with several seeds and stale ranks, `PropagateFrom` may refuse a
  network that is within the limit, because it may pop a node before one of its
  fanins and see an arrival that later falls. From one seed the verdict is
  exact. `VerdictRight` claims exactness only there, and in general that an
  accepted network is within the limit.
- `PropagateFrom`, `BeginTransaction` and `Rollback` are at this commit used by
  tests only; csr2's optimiser calls `Initialize` on each candidate
  (`docs/csr2.md:189` describes local propagation with the log).
- `Csr4`: networks are combinational; the SAT-free Boolean steps (restriction,
  classes) are evaluated by their definitions, not by words of truth table bits.

- `Csr`: the sweep may raise the number of cut edges, since it merges an inverter
  into readers in other parts; so the cut need not drop over a round with
  resubstitutions, and `CutDrops` speaks of accepted candidates. Replication
  cannot raise hops whatever its gate answers: the duplicate's readers lose the
  crossing from the driver that the duplicate may gain from its fanins. The gate
  saves work, and `HopsKept` shows the stale snapshot harmless there.
- `Csr`: as for `Cpr` below, the repair ends when the first part over the limit has no
  node, though a later one may; `LimitsKept` says so.
- `Csr`'s `FunctionsKept` runs on networks in which no inverter drives two
  outputs and is the only reader of its driver. On those ABC's `Abc_NtkSweep` is
  wrong: it complements the driver when it moves an output from the inverter to
  it, without asking whether the inverter drives a second output.
- `Csr4`: hops may grow. A member that did not read the deepest net of its group
  does so after the rewrite, through an encoder; `RunCsr4` only compares and warns.
- `Csr2`: the networks of the run have no dangling nodes, as `Abc_NtkCheck` and
  earlier commands leave them; and no pair as in `csr2_order`, so that the part of
  `Promise` about outputs holds there. `Abc_NtkDup` renumbers a trajectory's copy in
  the same order and only the order of ids is looked at; `VerifyAgainstFull`, an
  audit of a hop state that was initialised a moment before, is left out, and so
  is `enforce_balance`'s guard of as many steps as there are nodes, since
  `Finishes` shows the loop ends by itself.
- `Csr2`: the second check of the limits after a sequence or cluster is applied
  never fails in the run (`AppliedAsFound`): the search has checked the same.
- `Csr3`: `Abc_NtkIsAcyclic` looks only at what outputs depend on, and so does
  `FunctionsKept`: a cycle that no output depends on would stay. The networks it
  begins with are acyclic as a whole: mapping and reading make each node after its
  fanins or are followed by the same check (`abcCheck.c:198`), and nodes that feed no
  output have been removed before.
- `Cpr`: scores are exact ratios, compared up to a thousandth, where the code has
  doubles; delays are integers. Setting a part id clears the partition database's
  statistics, which nothing in the command reads afterwards.
- `Cpr`: the cut cap holds for relocations and rounds, not for the result. The
  balance repair at the end looks at sizes and arrivals only and may exceed it,
  and does in the instances of the run, though `cpr.hpp:14` speaks of the "whole cpr
  run". `LimitsHeld` therefore claims the cap up to the repair only.
- `Cpr`: `enforce_balance` takes nodes from the first part that is over the limit
  and ends when that part has none (`cpr.cpp:331-362`). With three parts or more
  another part may then still be over it although its nodes could move, and the
  network `Blocked` of the run shows it; `LimitsHeld` says so. (An earlier form of the property,
  "every part that ends over the limit has nothing but inputs", came out of two-part
  instances and was refuted when its proof was tried.)

- `Hive`'s `ReportsRight` compares the bound on LUTs with the number of nodes only
  on networks in which no node dangles or has more fanins than a LUT: elsewhere
  the bound may exceed it, as the code expects of mapped networks only. The
  parallel arrays and stamps of `CombGraph` are left out; the network is only read.

## 7. Findings

- `csr4_cycle`: `docs/csr4.md:98` says the rewrite is right by construction and
  needs no equivalence check. When a net of a group depends on a member of the
  group, in another part in between, the encoders read it and the members read
  the encoders: a combinational cycle. The code has no check for it.
- `csr_resub_hops`: `csr.cpp:255` says that divisors existed when the round began,
  and `docs/csr.md:59` that the hop gate therefore needs no rollback. A node made
  by an earlier resubstitution of the round may be a divisor too; its arrival is
  then taken for 0, and a later resubstitution may raise the hops.
- `csr2_order`: `docs/csr2.md:179` says that the fast path replaces a node by one of
  the same fanins and the same function. The fanins are compared sorted, the
  functions as stored, by position: `a AND NOT b` over `(a, b)` and over `(b, a)`
  are taken for equal, and the outputs change.

## 8. Not modelled

In `Csr` and `Csr2`, the decomposition of `-X` (off by default), the window and SAT
limits that make a resubstitution be missed (missing it is always allowed), and
reports. In `Csr3`, the mode that only measures. Of the timer,
`extract_critical_path` and `recompute_cone`, which nothing in the repository calls.
Of the partition database, statistics that no modelled code reads.

Components with status `not_modelled` in PROJECT.json: `cmfs` (its decisions are ABC's SAT answers and floating-point
arrivals); `pst`, `pdecomp` (one pass over a function or network, and over tables
private to ABC); `partsyn` (threads whose shared state lies in ABC); the mappers (heuristics judged by cost), the command line, the external partitioner
and ABC itself. Reports, logging and file formats are left out everywhere.
