# EARanges in TLA+

A formal model of the parts of EARanges (range-v3 on top of EASTL) that keep
state from one call to the next, with the TLC runs that check it and the TLAPS
proofs that generalise what TLC finds. Paths below are relative to the
repository; `include/` stands for `include/EARanges/`.

The library is header-only and sequential: there are no threads, messages or
persistent data. What is hard about it is different. Almost every object is a
small state machine driven by a client that may call its operations in any legal
order (`begin`, `++`, `--`, copy, move, assign, read), the objects share state in
ways the client cannot see (a view and the iterators into it, two cursors over
one single-pass iterator, a cache inside a view), nearly every operation runs
client code that may throw in the middle, and several loops test no bound because
an argument says they need not.

## 1. Inventory

| Component | Source | State | Operations | What makes it correct |
|---|---|---|---|---|
| `optional<T>` | `utility/optional.hpp` | a union and `engaged_` | construct, copy, move, assign, emplace, reset, swap, destroy; each may throw | the flag tells the lifetime; values are transferred, exchanged or cleared, never made up |
| `variant<Ts...>` | `detail/variant.hpp` | a union and `index_`, `npos` when valueless | construct, emplace, copy, assign, destroy, visit | the index tells which alternative lives; no visit runs off the alternatives; a variant loses its value only by a failure |
| `non_propagating_cache` | `utility/optional.hpp:953-986` | an optional | the special members | nothing is carried from one object to another |
| Views that cache an end | `view/remove_if.hpp`, `adjacent_remove_if`, `drop`, `drop_exactly`, `drop_while`, `trim`, `drop_last`, `reverse`, `chunk_by` | the base, a cached iterator (two in `trim`), the places of the iterators | `begin`, `end`, `++`, `--`, copy, move, assign | the cache is of this object's base; an iterator walks exactly the elements the view promises, in both directions; the assertions hold |
| `chunk_view`, single pass | `view/chunk.hpp` | one base iterator, `remainder_` | `begin`, outer and inner `++`, `done`, `distance_to`, `size`, copies | the chunks partition the base, however much of each is read; no read past the end |
| `sort` | `algorithm/sort.hpp` | the array, the calls of `introsort_loop`, the scans | the loops, one comparison at a time | sorted permutation; unguarded scans stay in range; the work is bounded |
| Heaps and `partial_sort` | `algorithm/heap_algorithm.hpp`, `partial_sort.hpp` | the array, the hole of a sift, the loop variables of the call | `push_heap`, `pop_heap`, `make_heap`, `sort_heap`, `partial_sort` | a heap stays a heap and is a priority queue; sorts sort; nothing is lost; every call returns |
| Sorting and merging with buffers | `algorithm/nth_element.hpp`, `stable_sort`, `inplace_merge`, `merge`, `partial_sort_copy`, `sort_n_with_buffer`, `utility/memory.hpp` | the array and a temporary buffer of a size nobody chooses | each call, on every category of iterator and with every buffer | sorted, stable, nothing lost, whatever the buffer |
| Permuting algorithms | `rotate.hpp`, `reverse`, `partition`, `stable_partition`, `remove_if`, `unstable_remove_if`, `adjacent_remove_if`, `permutation`, `unique_copy`, `shuffle`, `sample` | the array | each call, on every category | every element where the contract puts it, the returned iterator between the parts |
| Searches, set algorithms, `minmax`, heap and subrange tests | `lower_bound.hpp`, ..., `search.hpp`, `find_end`, `is_permutation`, `set_algorithm`, `includes`, `minmax`, `is_heap_until`, `starts_with`, ... | two ranges | each call, with and without a known length | the answer is that of the definition, and there is one |
| Views over positions | `view/cycle.hpp`, `stride`, `chunk` of forward ranges, `sliding`, `take`, `slice`, `concat`, `cartesian_product`, `zip_with`, `iota` (closed), `linear_distribute` | base iterators, laps, offsets, cached ends | `begin`, `end`, `++`, `--`, `+=`, `-`, `==`, copies, conversion to const | arithmetic agrees with stepping; one place has one representation; assertions hold |
| Views that keep state | `view/cache1.hpp`, `join`, `join_with`, `intersperse`, `set_algorithm`, `partial_sum`, `exclusive_scan`, `adjacent_filter`, `split`, `split_when`, `generate_n`, `sample` | inner ranges, caches, dirty flags, sums, counts, in the view or in its cursors | the same | the elements read are those promised, each computed once |
| `semiregular_box` | `utility/semiregular_box.hpp` | a union and `engaged_` | construct, copy, move, both ways of assignment | as `optional`, and a failed assignment does not leave the flag up |
| `diffmax_t`, `advance`, `counted_iterator` | `iterator/` | a sign and a magnitude; a count | arithmetic, comparison; stepping with a bound | exact wherever the magnitude can hold the result |
| Actions | `action/stride.hpp` and others | a container | the one loop of their own is `stride`'s | it keeps every step-th element |
| Forwarding views, `basic_iterator` and facades, functional, concepts, meta | | none at run time | | what they supply by default enters the views |
| `numeric/`, `range/`, `experimental/`, single-loop algorithms, EASTL | | | | not modelled |

How they interact. A view adaptor stores its base view and is walked by cursors
that `basic_iterator` wraps; a cursor either holds base iterators itself or a
pointer to its view. `non_propagating_cache` is an `optional` with other special
members, so the caches rest on what `Optional` shows; so is `semiregular_box`, whose
storage is the same. `join_with` and `concat` keep their positions in a `variant`.
`sort` falls back on `partial_sort`, which sorts by a heap; `stable_sort` and
`inplace_merge` share a merge and its buffer, which `get_temporary_buffer` sizes;
`rotate` serves `stable_partition` and the merges; distances of `closed_iota` are
computed by `diffmax_t`.

The hard behaviours, with the line each one bites at and the properties that
would notice, are listed under "hazards" in `PROJECT.json`.

## 2. Modules

| Module | Models | Abstract specification | Proofs |
|---|---|---|---|
| `Optional` | `optional<T>` and `semiregular_box` | `MaybeValue` | `OptionalProofs` |
| `Variant` | `variant` | | in the module |
| `CachedView` | the caching views | `Traversal` | `CachedViewProofs` |
| `ChunkInput` | single-pass `chunk_view` | `ChunkSequence` | in `OptionalProofs` |
| `IntroSort` | `sort` | | `IntroSortProofs` |
| `Heap` | heap algorithms, `partial_sort` | `PriorityQueue` | `HeapProofs` |
| `Positions`, with `Stepping` and one module for each view (`CycleView`, `StrideView`, `ChunkForward`, `SlidingView`, `TakeView`, `SliceView`, `ConcatView`, `CartesianView`, `ZipView`, `ClosedIotaView`, `DistributeView`, `JoinView`, `JoinWithView`, `Cache1View`, `IntersperseView`, `SetView`, `ScanView`, `AdjacentFilterView`, `SplitView`, `SplitWhenView`, `GenerateView`, `SampleView`) | 22 views under any walk of iterators | the place each iterator is at | `PositionsProofs` |
| `DiffMax` | `diffmax_t` | the integers | in `PositionsProofs` |
| `Algorithms`, with `Rearranging`, `Sorting`, `Searching` | some forty algorithms as functions | their definitions | `RearrangingProofs`, `AlgorithmsProofs` |

A run names the module and its `.cfg`; every constant is given there, so that no
module is needed for an instance.

**Optional.** `opt[c]` is the storage at place `c`: `engaged_`, `data_`, and the
number of objects alive in it, which the program does not have and which the flag
must agree with. A call is one step with one disjunct per exit: it succeeds, or it
throws at one of the places where `T` may throw, with whatever the code has done
by then. `Used` and `ThrewOn` are the contract of `T`: a moved-from or half
assigned value is `Unspecified`. `emplace` is reset, construct; `swap_` and
`assign_from` have their cases by which sides are engaged. `Boxes` are the places
that hold a `semiregular_box` instead, which is engaged from its construction on
and, where `T` cannot be assigned (`Rebuild`), assigns by destroying and building
anew, so that it may end disengaged when that throws.

**Variant.** `index_` and the objects alive in each union. The recursions of
`variant_visit_` and `variant_move_copy_` are given by their result for every
index, the one they reach when they run off the end included. `CopyValueless` and
`CopiesThrow` let a run leave out the two defects below; `tainted` remembers that
one was met. Where the program reads an `index_` that was never written the model
chooses any value, and `ended` records an assertion that failed or an object that
was destroyed without having been built.

**CachedView.** `kind` picks the view, `base[v]` is the base and the predicate of
object `v` (a set `hit` of positions that satisfy it) or the count `n`, `cache[v]`
an iterator with the object it points into. `Filled` is "return the cache, or
compute and keep it"; `BeginAt` and `EndAt` are `begin()` and `end()`, and the
client's loop compares with what those return, so a stale cache derails it.
`Copy` and `Move` replace bases and treat the caches as
`non_propagating_cache`'s members do; they invalidate the iterators into the
objects they touch. A client that holds an iterator keeps it until it has done with
it (`Discard`) or loses it so; `begin()` and `end()` of any object may be called
meanwhile and fill caches. `Promised` is the set of elements the documentation of a view
promises of a base, and `Place` where among them an iterator is; neither asks what the
view takes for its beginning or its end. `WalksItsElements` says that all this
implements `Traversal` and which step of it each call is (`CallsAreSteps`): `begin()` is
its `Begin`, `end()` its `End`, `++` its `Next`, `--` its `Prev`, and nothing else but
losing the iterator changes its place. A `++` that stays, skips or jumps to the end is
no `Next`. `CallsLandRight` says the same of what each call would return in every
state, so that an end that lies one off is seen before anything walks to it: `begin()`
is the first of what is promised, `end()` is behind the last, and an iterator equals the
end exactly when nothing promised is left.

**ChunkInput.** The base is its length; `it_cache_` the shared iterator,
`remainder_` what is left of the chunk in hand, `cursor` what the client holds.
Reading part of a chunk, abandoning it, reading none, and copying the view in the
middle may happen in any order. `ChunkSequence` is the refinement's target: a
sequence of consecutive intervals. `DistanceCountsSteps` speaks of every state with an
iterator in hand; what the code's distance is off by is `Misreported`, which section 5
explains.

**IntroSort.** `a` is the array of element names, so that losing one is visible,
`key` their keys; `frames` the active calls of `introsort_loop`; one step is one
comparison, swap or move. `HeapSort` stands for
`partial_sort(first, last, last)` by its contract: any rearrangement of the range
with ascending keys. `log2` is computed as in the code, by halving.

**Heap.** One comparison of a sift a step, with the element in hand in `val` and
its hole in the range, so that a lost or doubled element would be seen in the middle
of a call; `phase`, `middle`, `caller` and `i` are the loops of `make_heap`,
`sort_heap` and `partial_sort` around the sifts. A client calls in any order the
contracts allow: `push_heap` while the range has a further element, `pop_heap` and
`sort_heap` on the heap there is, `make_heap` and `partial_sort` at any time.
`PriorityQueue` is a set of elements, one inserted or a greatest removed.

**Positions.** One client with two iterators over one of 22 views: it may obtain
`begin()` and `end()`, copy, step, add, subtract, compare, convert to const and read,
wherever the category of the view allows it. `view` and `cursor[x]` are the members
of the view and of the iterator, given by the view's module, whose operators (`Begin`,
`End`, `Next`, `Prev`, `Advance`, `Distance`, `Equal`, `Read`) are translations of the
member functions; `pos[x]` is the place the client has reason to believe in. A cursor
that shares state with its view changes `view`, too, and a copy of the view is made
when its copy constructor may lose or keep a cache. Single-pass views have the one
iterator `First`. `Fresh` is every view of the kind up to `MaxLen`: all bases, counts,
steps, inner lengths, predicates, delimiters and random numbers, sized or not, common or
not. `ClosedIotaView` takes the number of values as a constant; `Positions` checks it
with eight and the theorems hold for every w.

**DiffMax.** The 64 bits of the magnitude become `2^w` for any w; `diffmax_t` is the
pair the code keeps and its `_check()` forbids the negative zero.

**Algorithms.** A call on a range: one step from any input to what the code leaves
and returns. The elements are named by their places before the call, so that
stability and loss are visible. What the caller does not choose is chosen by the
model: the buffer `get_temporary_buffer` grants (`TemporaryBuffers`, by halving), the
random numbers, whether the elements are trivially movable, the category of the
iterators. A moved-from element is `Hole`. `Rearranging`, `Sorting` and
`Searching` hold the algorithms as operators with the iterators of the code as indices.
A loop of the code is `Loop(S, step)`: the function that takes a state of its locals in S
to the one it leaves, made of `step`, whose domain are the states in which it goes on;
an algorithm that calls itself is a recursive function of its arguments. The sequence of calls inside a call is kept, since what goes
wrong there (a hole read, a recursion on its own arguments) shows in the result. The
module has no separate type invariant: its four properties determine every result.
`recounted` and `uncounted` are the identity on indices.

`Known`, in `Positions` and `Algorithms`, names the defects of section 5 that a run
leaves in. Each is a guard on the inputs or the calls that meet it; the passing runs
have `Known = {}`, and putting a name in makes the property named in section 5 fail.

## 3. Runs

| Run | Instance; distinct states | Shows |
|---|---|---|
| `optional` | 3 optionals, 2 boxes, 2 values; 68,501 | `FlagTellsLifetime`, `HoldsValues`: every call on every exit keeps flag and lifetime in step and implements `MaybeValue` |
| `variant` | 2 variants, 3 alternatives, copies that throw, valueless ones copied; 191 | `IndexTellsLifetime` but for the two defects; `ValuelessByFailureOnly` |
| `cached_views` | 2 objects, bases up to 3 elements, counts up to 4; 41,976 | `CacheIsOwn`, `ReverseAssertsHold`, `ChunksAreRuns`, `CallsLandRight`, and the refinement `WalksItsElements`, call by call |
| `chunk_input` | lengths 0..7, chunks 1..4, 2 copies; 1,715 | `Partition` (refinement), `InnerReadsInBounds`, `LoopTerminates`; `DistanceCountsSteps`: distances and sizes are exact but where section 5 says by how much not |
| `introsort` | length up to 7, 3 keys, threshold 2; 138,002 | `ReadsInBounds`, `NothingIsLost`, `SortedAtEnd`, `InsertsAreShort`, `CutsAreInside`, `SortReturns` |
| `heap` | length up to 5, 3 keys; 227,377 | `NothingIsLost`, `HeapIsHeap`, `SortedAtReturn`, the refinement `IsQueue`, `CallsReturn` |
| `positions` | 22 views, ranges up to 5 long, endless ones up to 8 places, 2 iterators; 25,235 | `ExpectsHold`, `ReadsThePromised`, `DistancesCountSteps`, `EqualityIsPlace`, `ComputedOnce` |
| `algorithms` | lengths up to 5 with 5 keys, up to 10 with 2; second ranges up to 3; 833,598 | `NothingIsLost`, `SortsAreSorted`, `PlacesAreRight`, `AnswersAreRight` |
| `variant_valueless_copy` | as `variant` | an assertion of the code fails |
| `chunk_whole` | as `chunk_input` | a comment says more than the code does |
| `drop_last_back` | as `cached_views`, one kind | stepping back derails `drop_last`'s probe |
| `is_permutation` | as `algorithms`, `Known = {"is_permutation"}` | a call that never returns |

Why the bounds are enough. `Optional`: a binary operation has two operands and
needs one bystander; two values tell a transfer from a mix-up. `Variant`: three
alternatives give an index below, at and above another, and two objects all pairs,
an object with itself included. `CachedView`: three elements have every shape the
scans tell apart (hit or miss before, at and behind a position), 4 exceeds every
length, and caches of two objects are all a copy can confuse. `ChunkInput`: the
chunk size divides the length, leaves a rest, equals it and exceeds it.
`IntroSort`: the code's threshold is 16; with 2, inputs of seven elements are
already partitioned three deep and one of them spends the depth limit, so that
every path is taken; the proofs hold for 16. `Heap`: five elements have a last parent with one child and with two, and three keys
have ties on every level; the proofs hold for every length. `Positions`: five elements
make a base that is shorter than, as long as and a multiple of every count and step,
with a rest; an endless view is walked past two laps. `Algorithms`: the code's cut-offs
(7, 15, 7, 256, 8) become 3, 3, 1 or 2, and 1, so that ranges of ten take the paths
behind them two levels deep, with every buffer from none to more than is needed; two
keys decide stability by the zero-one principle, and all keys up to five cover what does
not only compare. `MaxCopies`, `MaxLen`, `MaxPos`, `MaxDrop`, `Short`, `Long`,
`PatternLength` and the lengths in the `.cfg` files are the only bounds.

Deadlock is checked for `optional`, `cached_views` and `heap`. The others may stop: a
traversal ends, a sort is done, a failed assertion ends the program.

### Fairness

`LoopTerminates` assumes `WF_vars(OuterNext)`: the client runs a loop over the
chunks, and such a loop increments the outer iterator again and again until it
equals the end. Nothing is assumed of the inner loop, which the client may leave
at any point. `SortReturns` assumes `WF_vars(Next)`: a call in a sequential
program runs on until it returns. `CallsReturn` assumes `WF_vars(Step)` for the same reason: a call
in progress runs on, and nobody is assumed to make one. No other property needs
fairness.

## 4. Proofs

All proofs are checked by `tlapm` with SMT, Zenon and LS4, for every value of the
constants that satisfies the named assumptions.

- `OptionalProofs`: `TypesAreCorrect`, `FlagIsTruthful`, `ImplementsMaybeValue`.
  Invariant: type and `FlagTellsLifetime` together are inductive, cell by cell;
  the refinement maps each exit of each call to one action of `MaybeValue`. The boxes
  are cells like the optionals, with calls of their own.
- `Variant`: `TypesAreCorrect`, `IndexIsTruthful`, `OnlyFailuresEmpty`.
  `IndexTellsLifetime` needs the type invariant beside it, since a destroyed cell must
  have `npos`; the lemma about `Born` and `Dies` is the whole content of the steps.
  That nothing but a failure empties a variant rests on the types alone: a copied
  index is never `npos`.
- `OptionalProofs`, on `ChunkInput`: `ChunkTypesAreCorrect`, `InnerIsReadable`, `ChunksPartitionTheBase`,
  `DistancesCountSteps`. Reading in bounds is inductive with the types; the partition
  then follows since every step maps to a step of `ChunkSequence` or leaves it alone.
  That `distance_to` counts the steps, but for what `Misreported` adds at the end and takes
  off at a chunk read to its end, holds in every state and is a statement about a recursive function,
  `StepsToDone`: the number of chunks left satisfies the recursion, so that it has a
  solution, and a least place at which the solution were another would have a lesser one
  behind it (`StepsAreChunks`).
- `CachedViewProofs`: `CachesAreOwn`, `TypesAreCorrect`, `WalksBackStop`,
  `ChunksAreWhole`, `ImplementsTraversal`, `EveryCallLandsRight`, for any number of objects and any lengths. For the cache the
  strengthening adds only that a non-empty `end_` belongs to a `trim_view`. The other
  three share one, `Within`: a client's iterator lies between what `begin()` and `end()`
  compute from the base alone (`Front`, `Back`), the second place it holds is a probe
  ahead of it or, for `chunk_by`, the end of its run, and a view whose iterators step
  back by searching has cached the beginning they must find. The lemmas about the scans
  (`FirstMisses`, `LastsOfRuns`, `RunsEnd`, `TrimEnds`) are what each step comes to.
  The refinement and `EveryCallLandsRight` follow from the same invariant: what a view
  promises is a set of positions of its base, `Front` is the least of them and nothing
  of them lies at or behind `Back` (so that what `end()` computes agrees with what
  is promised), and each `++` and `--` goes to the nearest of them ahead or behind.
  `PlaceIsSpot` and `HereIsPlace` relate an iterator's position to its place in the
  traversal. Their hypothesis leaves out the one kind of section 5 whose `--` goes astray.
- `IntroSortProofs`: `TypesAreCorrect`, `ScansStayInBounds`, `NoElementIsLost`,
  `ResultIsSorted`, `EveryCutIsInside`, `InsertionsAreShort`, for every length, all keys and every
  threshold from two up. `IInv` says for each unguarded scan what stops it: in a
  partition, an element no less than the pivot lies ahead of the upward scan and
  one no greater ahead of the downward one (first thanks to the median of three,
  then thanks to the swaps), with one more conjunct, `lo = f`, that keeps the cut
  off the front; across the recursion, a least element stays in the front range of the
  outermost call, so that the unguarded insertion stops; in the insertion, the
  prefix is sorted and the held element not below its first. `InsertionsAreShort`, which
  bounds the final insertion sort, adds that the active calls tile the front of the array,
  each ending at a cut, and that behind them no two elements a threshold apart are out
  of order (`SegmentsInv`); the insertion then keeps that true of the whole array
  (`NearInv`), so that no element is carried as far as a threshold.
- `HeapProofs`: `TypesAreCorrect`, `NoElementIsLost`, `HeapIsAlwaysHeap`, `SortsSort`,
  `ImplementsPriorityQueue`, for every length and any integer keys. The invariant has
  one part for where control is (which sift of which loop, with which bounds), one for
  the heap with the held element put back: all of it while idle, all but at the hole
  and upward while sifting up, all but at the hole and downward while sifting down,
  and from a position on while `make_heap` builds it; and one for what the sorts leave
  behind the heap, sorted and not below it. That the root is greatest, an
  induction in a textbook, is proved from a least counterexample. A step in which a sift moves leaves the
  set of elements in the heap as it is, which makes it a stutter of `PriorityQueue`.
- `PositionsProofs`: `TypeCorrect`, `AssertionsNeverFail`, `PromisesAreKept`,
  `DistancesAreSteps`, `EqualityTellsPlaces`, `ElementsAreComputedOnce`: all six
  invariants of `Positions`, for the sixteen views whose elements are told by
  arithmetic (`Counting`: `cycle`, `stride`, forward `chunk`, `sliding`, `take`,
  `slice`, `zip`, `cache1`, `intersperse`, `closed_iota`, the scans, `generate_n`,
  `sample`, `linear_distribute`, `cartesian_product`, `concat`), any number of iterators, bases of every length and
  walks of every kind; without the defects that a name of `Known` leaves in.
  `Standing` is the inductive invariant: the view is `Sound`, and each iterator in use
  `Stands` at its place, which says what the members of a cursor at place p are, and
  what the view must know by then. It is stronger than the six together: a stride's
  offset has to be known as soon as an iterator is at the end, a cycle's end as soon as
  one is in the second lap, and a generator's calls count the value in hand.
  The argument is in two halves. `Contract` says, without naming a view, that `begin`,
  `end`, `++`, `--`, `+=`, a read and a copy lead from what stands at a place to what
  stands at the place they should lead to, and that differences, comparisons,
  assertions and reads are right for what stands; from it follow `NextKeepsStanding`
  and the theorems. One lemma for each view (`StrideKeepsContract`, ...) shows that its
  cursor keeps the contract; for `stride`, `chunk` and `cycle` they rest on lemmas about
  quotients (`QuotientIsTold`, `StepsThroughARange`). For `cartesian_product` the
  iterators are the digits of the place (`DigitsAreOrdered`), so that `advance_`, which
  carries from the last factor to the first and corrects the division everywhere but
  there, is shown to need no correction there. For `concat` one call of
  `advance_fwd_fun` or `advance_rev_fun` keeps place and rest together, and the calls
  are counted: the model's three and six are enough, whichever ranges are empty.
  `sample`'s contract is proved for any random numbers. `Fresh` bounds the bases a walk
  starts with: `MaxLen` is any number, but for `slice` the model gives four and for
  `cartesian_product` and `concat` two, which `SliceKeepsContract`,
  `CartesianKeepsContract` and `ConcatKeepsContract` do not use.
- `PositionsProofs`, on `DiffMax`: `OrderIsOrder`, `ConversionsKeepTheValue`, `SumIsSum`,
  `StepsAreSteps`: with magnitudes of any number of bits, sign and magnitude behave as the integer they
  stand for, and where they do not is said exactly.
- `PositionsProofs`, on `ClosedIotaView`: `DistanceIsPlaces`, `AdvanceReaches`, `StepsAreToNeighbours`,
  `FullRangeHasNoLength`: a closed range over any number of values, where `Positions`
  checks eight.

- `RearrangingProofs` and `AlgorithmsProofs`, on `Algorithms`: `PlacesRight` and
  `AnswersRight`, for ranges of every length, with any keys, patterns, buffers,
  numbers and categories. An algorithm is a function of its arguments, so that
  nearly all of the argument is in lemmas named for the algorithms (`RotateIs`,
  `StablePartitionIs`, `SearchIs`, `FindEndIs`, `NextPermutationIs`, ...), each of which tells in
  closed form what the operator computes; the inductive invariant, `IInv`, says only
  that the keys are keys and that nothing has moved before the call. A loop is
  `Loop(S, step)`, a recursive function on the states of its locals: it exists
  whether or not it ends (`LoopExists`), and where its steps keep an invariant and
  lower a rank it ends outside of its condition with the invariant kept
  (`LoopLeaves`), by a least counterexample (`RankInduction`). `RecursionSolved` says
  the same of `stable_partition`, which calls itself. `AnswersRight` assumes
  `Known = {}`: with the defects left in, a call may not return. What it needs of the
  constants is `BoundsAssumption`, in particular two keys at least, since patterns
  are made of two.

Only model-checked:

- `NothingIsLost` and `SortsAreSorted` of `Algorithms`: of the sorts and merges with
  buffers, the set algorithms, `shuffle` and the sampling of a stream there are no
  lemmas that tell what they compute;
- the six views of `Positions` that walk lists (`join` and `join_with`, the set views,
  `adjacent_filter`, `split`, `split_when`), whose elements are recursive functions of
  the base;
- liveness under fairness (`LoopTerminates`, `SortReturns`, `CallsReturn`).

## 5. Where the code and its documents disagree

Shown by a run that expects a violation:

- A copy of a valueless `variant` claims a value (`detail/variant.hpp:711`), and its
  destructor reaches `EARANGES_EXPECT(false)`.
- A copy of a part-read single-pass chunk view begins with a short chunk
  (`view/chunk.hpp:359`).
- `drop_last` over a base that is bidirectional but neither sized nor common
  inherits `--` and `+=` that do not move its probe (`view/drop_last.hpp:218`).
- `is_permutation` of two ranges whose lengths are known and equal calls itself with
  the arguments it was given (`algorithm/permutation.hpp:136`). The test quoted
  (`test/algorithm/is_permutation.cpp:566`) asks for an answer of ranges of equal length, but
  of unknown length, as all tests of equal lengths do.

Stated exactly by a property of a passing run, whose theorem holds for every length:

- The distance of single-pass chunks (`view/chunk.hpp:344-356`) is one more than the number of
  `++` at the end, since the early return of 1 asks only whether the base holds less than
  the rest of a chunk: an iterator at the end is at distance 1 from it, and so is the begin of
  an empty base, whose size is 0; `test/view/chunk.cpp:47` expects `(N + K - 1) / K` of both. From a chunk
  that was read to its end it is one less, so that a used-up last chunk is at distance 0
  of an end that one more `++` leads to. `Misreported` of `ChunkInput` is that difference, and
  `DistanceCountsSteps` says that there is no other.

Behind a name of `Known`. The passing runs leave these inputs and calls aside, so that,
`is_permutation` apart, no run of this project shows the defects, nor do the properties
of the passing runs say anything of those cases; a copy of the `.cfg` with the name put
in does:

| Name | What the code does | Violates |
|---|---|---|
| `cycle_back` | `advance` of a cycled iterator divides a signed position by truncation (`view/cycle.hpp:159`): moved back into the lap before it does not decrement `n_` | `EqualityIsPlace`, `DistancesCountSteps` |
| `const_iterator` | converting a cycled iterator to const leaves `n_` at zero (`view/cycle.hpp:106`); `--` across a lap then meets `n_ > 0` | `ExpectsHold`, `DistancesCountSteps`, `EqualityIsPlace` |
| `const_iterator`, too | converting an iterator of `exclusive_scan` leaves out `sum_` (`view/exclusive_scan.hpp:89-93`) | `ReadsThePromised` |
| `const_iterator`, too | converting the cursor of `set_union` leaves its state unwritten (`view/set_algorithm.hpp:524-534`) | `ReadsThePromised`, `EqualityIsPlace` |
| `zip_end` | the `end()` of a common `zip` is made of ends at different distances, and `--` from it pairs the wrong elements (`view/zip_with.hpp`) | `ReadsThePromised`, `EqualityIsPlace` |
| `sliding_empty` | over an empty bidirectional base, with windows of more than one element, `get_last` steps back from the end once before it looks at the bound (`view/sliding.hpp:239-247`, `advance` with a bound), off the front of the base | `EqualityIsPlace` |
| `cartesian_end` | with a first factor whose `end()` is no iterator, `end()` adds the factor's size to what `begin()` made of it, which is the end already if a later factor is empty (`view/cartesian_product.hpp`) | `EqualityIsPlace` |
| `split_when_equal` | after a delimiter with an empty one right behind it, the empty piece between them and the piece that follows begin at one place and compare equal (`view/split_when.hpp`) | `EqualityIsPlace` |
| `distribute_one` | `linear_distribute(2, 5, 1)` gives 2, where its documentation ends the interval at `to` (`view/linear_distribute.hpp`) | `ReadsThePromised` |
| `closed_iota_full` | the range of all values has distance zero from begin to end (`FullRangeHasNoLength`) | `DistancesCountSteps` |
| `is_permutation` | as above | `AnswersAreRight` |
| `no_place` | `get_temporary_buffer_impl` (`utility/memory.hpp:52`) halves n once more than it has been granted, so that for n = 1 it reports no place behind a pointer that is not null; `stable_sort_adaptive` then recurses on its own arguments | `AnswersAreRight` |
| `self_move` | the merge moves an element onto itself (`algorithm/inplace_merge.hpp:78`, `merge.hpp:90`); a type that such a move empties, as standard containers may be, loses it: sorting more than 256 vectors leaves one empty | `NothingIsLost` |

`cycle`'s conversion, `no_place`, `self_move` and `linear_distribute` were seen in a
compiled program as well. Observed while reading, without a run of their own:

- An alternative that throws while a variant is copied makes the base destructor clear
  by an unwritten `index_` (`detail/variant.hpp:581`; in the model, through
  `CopiesThrow` and `tainted`). Assigning a variant to itself makes it valueless
  (`:724`), the one exception `ValuelessByFailureOnly` names that is not a failure.
- Moving a `semiregular_box` of a type that cannot be assigned onto itself reads a
  destroyed object; copy-assigning one that can be copied does not compile, as
  `copy_assign(T &&, false_type)` takes no const lvalue (`utility/semiregular_box.hpp:88`).
- `--` of a zero `diffmax_t` gives the greatest value (`iterator/diffmax_t.hpp:277`).
- The converting constructor of `split_when`'s cursor passes its arguments in the wrong
  order and does not compile; the forward version of `stable_partition` is never chosen.

## 6. What is not modelled

Values and types: element types, projections, proxies and moves of elements are
abstracted to names and positions. Overload selection and concepts are
decided by the compiler; most lines of the repository are metaprogramming of that
kind, vendored EASTL, tests and examples, so that a map of the state-keeping code is a
small share of all of it. Modifying a base behind a view's back is excluded by the
semantics of views. A client's `++` that throws is modelled nowhere: what such an
iterator then holds is not said. `optional<T &>`, the read-only members, comparisons and
`size()` of most views are left out. Const overloads of the caching views over
random-access bases compute what the others cache. Of the algorithms, folds, finds,
plain copies, comparisons, `swap_ranges` and those that copy while doing one loop
(`partition_copy`, `rotate_copy`, `reverse_copy`) are left out: a property of them
would restate the loop. Views that read a stream or a regular expression are input and
output. The distribution of random numbers is out of a model checker's reach; which
numbers come is not, and any may.

## 7. Plan

Done: all components listed as modelled. What is left, in this order:

1. The contract of `Positions` for the views that walk lists, by a least
   counterexample in their recursive functions, as `StepsAreChunks` of
   `OptionalProofs` does it.
2. Lemmas for the sorts and merges of `Sorting`, on memories with a buffer, as
   `RearrangingProofs` has them for the others, and with them `NothingIsLost`.
3. `cycle` with a corrected `advance`, and the conversions to const, in the contract.
4. Const overloads and `size()` of the caching views; `common_iterator` on the
   `variant`; products and bits of `diffmax_t`.
5. `action` on a container with erasures, on top of `Algorithms`.
