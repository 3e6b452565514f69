# Verification of the limit order matching engine

TLA+ models of the engine under `include/engine/` and of the benchmark programs under
`bench/`, model-checked with TLC on small instances. The safety properties of the
engine (pool, lists, book, level arrays, id map, journal, replay) are
also proved with TLAPS for every value of the constants, and so are those of the
benchmark's clock, figures, allocation accounts and stream generator. Source paths
below are relative to the repository.

## The system

The engine is a single-threaded limit order book. Producers hand it commands
(limit, market, cancel, modify); one thread takes them one at a time and runs
each to completion (docs/spec.md S8). There is no concurrency inside the book.
What is hard is the amount of linked state that each command rewrites in several
steps, and the order of those steps.

| Part | State | Operations | Must be true |
|---|---|---|---|
| `types.hpp`, `command.hpp` | none | constructors of commands | - |
| `pool.hpp` `FixedPool` | slots (an order or a free-list link in the same memory), generations, head of the free list | `allocate`, `free`, `get`, `validate` | no slot is leaked, freed twice, or free and in use; a handle is checkable |
| `level.hpp` | `head`/`tail` per level, `next_idx`/`prev_idx` in the slots | `level_append`, `level_unlink` | the list of a price is its orders in time order |
| `price_levels.hpp` | sorted array of levels, count | `best`, `pop_best`, `by_rank`, `find`, `get_or_insert`, `erase` | a ranked map; never more than its capacity |
| `id_map.hpp` | open-addressing table | `find`, `insert`, `erase` | a dictionary; every probe ends |
| `book.hpp` `Book` | the above, `next_seq_`, `next_trade_id_` | `add_limit_order`, `add_market_order`, `modify_order`, `cancel_order`, `snapshot`, audit | price-time priority, self-trade prevention, fill-or-kill atomicity, never crossed, quantity conserved |
| `journal.hpp` | file, failed flag, read position | `append`, `open`, `next`, `load` | what was acknowledged is read back; a torn tail is cut |
| `replay.hpp` | a book and its event log | `apply`, `replay` | a replay repeats the original run |
| `tests/support` | the reference implementation (`Oracle`), the differential harness | same commands | agrees with the book |
| `bench/workload.hpp` | a book, the vector of live ids, the maps `where` and `remaining` | `generate` | the generator knows its book; the stream fits any book |
| `bench/timing.hpp`, `noise.hpp` | samples of counter and clock, ticks of empty regions | `sample_pair`, `TscClock`, `noop_run`, `stats_from` | a preemption skews nothing; figures are nearest ranks |
| `bench/runner.hpp`, `bench_*.cpp` | a book, a result and sample vectors per pass | `run` | passes agree, the programs end |
| `bench/alloc_*` | the counters of `operator new`, the profile | `alloc_snapshot`, `profile_allocs` | every allocation is charged once; a reused result stops allocating |

`Book` calls everything below it directly. It holds slots by raw index inside
the lists, by generation-checked handle in the id map, and levels by reference
into an array whose elements move.

The hard behaviours are listed, with their lines, under `hazards` in
`PROJECT.json`: several structures changed by one command with the state half
done in between; memory that changes its meaning (slot union, shifted array,
shifted hash table); limits reached (pool full, table half full, 32-bit totals);
a pre-check and a sweep that must agree; loops that end only because of an
invariant elsewhere; a process killed between the journal and the book; a
generator that predicts a book it does not look at; clock reads apart by a
preemption.

## Modules

| Module | Models | Notes |
|---|---|---|
| `EngineTypes` | `types.hpp`, `command.hpp` | ranges instead of machine integers |
| `FixedPool` | `pool.hpp` | writing one member of the slot union makes the other `Undef` |
| `Level` | `level.hpp` | |
| `Book` | `book.hpp` | all commands; `EXTENDS Level` |
| `BookProperties` | - | properties of `Book` and the inductive invariant `IndInv` |
| `PriorityBook` | - | what `Book` promises without its containers: a command as a function of a set of orders |
| `BookProofs`, `ExecutionProofs` | - | theorems about `Book`: structure, trading, and that it implements `PriorityBook` |
| `RunProofs` | - | theorems about what runs a book: `Replay` and `Bench` |
| `BookRun` | constructor and `snapshot()` of `book.hpp` | what the callers of a book need besides its commands |
| `BookLevels` | `book.hpp` over `price_levels.hpp` | `Book` composed with the arrays, references as cells |
| `Oracle` | `tests/support/oracle.hpp` | abstract specification: one step per command |
| `BookRefinement` | comparison of `diff.hpp` | `Book` implements `Oracle` |
| `Dictionary`, `IdMap` | `id_map.hpp` and its interface | `IdMap` implements `Dictionary` |
| `LevelMap`, `PriceLevels` | `price_levels.hpp` and its interface | `PriceLevels` implements `LevelMap` |
| `BookLevelsProofs`, `IdMapProofs`, `PriceLevelsProofs`, `JournalProofs` | - | theorems about the module each is named for |
| `Iteration` | - | lemmas about recursive functions, for the proofs |
| `Journal` | `journal.hpp`, the loop of `replay.hpp` | the file, its writer, its reader and what happens to it |
| `Replay` | `replay.hpp` | a live engine, its death, and the replay of its journal; `EXTENDS BookRun` |
| `Timing` | `bench/timing.hpp` | calibration of the cycle counter |
| `Noise` | `bench/noise.hpp`, statistics of `bench/runner.hpp` | |
| `Workload` | `bench/workload.hpp` | `generate()` and its own book; `EXTENDS BookRun` |
| `Bench` | `bench/runner.hpp`, `alloc_counter.*`, `alloc_profile.hpp`, `bench_w1/allocs/noise.cpp` | the programs; `EXTENDS Workload, Timing, Noise` |
| `MCBook`, `MCBookLevels`, `MCBookRefinement`, `MCIdMap`, `MCPriceLevels`, `MCJournal`, `MCReplay`, `MCBench` | - | finite sets of commands, symmetry and views for TLC |

### State and actions

*Book.* `pc` is the place in the running command. Cancels and refusals are one
action each. An accepted add goes through `"fok"` (the walk of
`available_before_self_trade`: `FokLevel`, `FokOrder`, then `FokReject` or
`FokPass`), `"cross"` (`CrossPartial`, `CrossFull`, `CrossStop`, then `CrossDone`
or `CrossResidual`), `"rest"`, `"allocate"` and `"append"`; a modify that moves its
order through `"move"` and `"append"`. The level that a full fill empties is erased
in the same step as the fill: nothing reads it in between. The two level
containers appear as the set of prices that have a level (`prices`) with one
`Level` object per price; the object of a price without a level is empty, which
is what `get_or_insert` writes (part of `QueuesInTimeOrder`). The id map
appears as a function. Both are the interfaces that `PriceLevels` and `IdMap` are
shown to implement.

*BookLevels.* Every step of `Book` is joined with what the code does to `bids_` and
`asks_` in it. A `Level&` is the number of a cell, taken by `get_or_insert` or
`best`; heads and tails are read from the cell found by the code's own search or
held in `ref`, and written there, never in the level `Book` keeps by price. What
`Book` says and what the arrays hold are two computations, and `ArraysMatchBook`
compares them. `Clean` is `invariant_violation()`, read off the arrays, the links,
the id map and the free list.

*Data.* A price is an integer in a range, a quantity a number below
`QtyModulus` (2^32 in the code), a generation a number below `GenModulus`;
sequence and trade numbers, 64-bit in the code, are naturals. Order ids and
accounts are only compared. `kNilIndex` is -1.

*Oracle.* A command and its result are one step. The history variables of
`BookRefinement` keep the book as it was when it was last idle, and the last
command: the book's answer is compared with the oracle's answer to the same
command, so a command wrongly refused is not mistaken for another one rightly
refused.

*IdMap.* One step per slot a loop looks at. The hash (the finalizer of splitmix64
and a mask) is any function from ids to slots, chosen in the initial state. The
contract of `insert` (id absent, room left) is the caller's; `IdMapExact` shows
that the book respects it, since entries are as many as slots in use.

*PriceLevels.* Insertion and removal shift cells as `copy_backward` and `copy` do;
cells past `count_` keep their old content. `std::lower_bound` is its contract.
The actions' guards are the book's use: levels are erased or popped only when
empty, and at most one level is empty.

*Journal.* A file is a sequence of units, one for the kind byte, one for each field
and one for each checksum, so a record is torn or damaged between or in any two of
its fields, and records of different kinds differ in length. `encode` lays a
command out field by field and `Decoded` reads the fields back by position. A
checksum is the sequence of units it was made for: it matches those and no others
(CRC-32 collisions are left out). A write succeeds, or hands over any part of its
units with the rest kept by the C library (`fclose` may write it later) or lost.
`Kill` loses what the library keeps, `PowerCut` also a tail of the file, since there
is no `fsync`; `Damage` turns one unit into noise or the kind byte into another
kind. A kill inside an append is `AppendFails` followed by `Kill`. The reader takes a
copy of the file at any time (`load`, in one step) and goes on in a process of its
own; it reads once. `load` returning false changes nothing and is left out, and all
`open`s are of one path. `submitted`, `acked`, `trusted` and `copied` are history:
what was given to `append`, for what it returned true, and both at the time of the
copy.

*Replay.* The engine records a command and then runs it, one step of `Book` at a
time, as `run_live` of `tests/replay/test_replay.cpp` does. `Kill(n)` may come between
any two steps and leaves the first `n` recorded commands to the reader (`Journal` shows
that the reader gets such a prefix), and `KillAgain` interrupts the replay; both deaths
are environment, and the `replay.hpp` part of them is `ReplayBegins`, a new book of the
recorded capacity. `log` has one entry per finished command: the
command, its outcome with the trades, and the book's snapshot, which is what
`append_events` and `serialize_book` print. `lived` keeps the dead engine's log.
`SeqNoIsPosition` reads the numbers off the log: a `seq_no` is the place of a command,
and the trade ids ascend from one entry to the next and are exactly 0 to
`next_trade_id_ - 1`, so none is lost or repeated, before a kill or after it.

*Timing.* Time is counted in ticks of the counter and the clock shows whole
nanoseconds, `TicksPerNs` ticks each: the counter's true rate is a whole number of ticks
per nanosecond, any one for the proofs, and other rates are left out. Between two reads
pass `Delays` ticks, few or many (a preemption), within a try and before it. A try
of `sample_pair` is one step; `narrowest` is history.

*Workload.* A random draw may be any number in its range, so a run covers every
stream that any seed gives. `GenTally` is one iteration of the loop over an order's
trades, `forget` the swap-removal with its order of writes. `remaining` is a
`Qty`.

*Bench.* A program goes from stage to stage: the clock, the empty region, the
stream, then its passes, each a fresh book and a fresh result over the same stream,
one step of `Book` at a time. `room` is the capacity of `result.trades` and `heap`
the counters of `operator new`; that a full vector moves to one of twice the size is
the C++ library's growth, an allocation counts as many bytes as it has elements,
and no other allocation is made by a command. `AllocsAddUp` asks that the region's
counts are the sums of the three kinds', and its largest command the greatest of theirs.
When a stage is over, the variables
that are dead in the code (the clock's samples, the generator's maps) go back to
their initial values. Exits are stages: `exit0`, `exit1`, `abort`.

Definitions marked `Fault:` change one definition of the model the way a bug
would; the model itself does not use them.

## Runs

| Run | Instance | Checks |
|---|---|---|
| `book_structure` | 3 ids, 2 accounts, 2 prices, quantities 1-2, 3 slots, 5 limit/cancel/modify commands | `TypeOK`, lists, levels, id map, free list at every program point |
| `book_trading` | all kinds and times in force, quantities 0, 1 and 3 modulo 4, 2 slots, 4 commands | `IndInv`, `NotCrossed`, `BestExecution`, `RemainderExplained`, `QuantityAccounted`, `FokAllOrNothing` |
| `book_levels` | 4 prices, 2 slots and so 3 cells a side, 4 commands | `LevelsFit`, `ArraysMatchBook`, `ReferencesGood`, `SelfCheckPasses`, `DroppedOnlyWhenFull` |
| `book_fok_wrap` | quantities 1 and 3 modulo 4 | violates `FokRefusedOnlyIfShort`, see below |
| `book_returns` | all kinds, an account per id, 3 commands, no symmetry | `CommandsReturn` |
| `book_oracle` | all kinds and times in force, quantities 0-2, 4 commands | `ImplementsOracle` |
| `id_map_churn` | 4 ids, 2 handles, 3 entries in 8 slots, homes 0, 6, 7 | `EveryEntryReachable`, `HalfEmpty`, `ImplementsDictionary` |
| `id_map_returns` | 3 ids, 2 entries in 4 slots, every hash | `OperationsReturn` |
| `price_levels` | 5 prices, 3 orders, 4 cells, both sides | `Sorted`, `ImplementsLevelMap` |
| `journal` | a command of each kind, 2 capacities, 3 appends | `ReplayIsHistory`, `AckedIsReplayed`, `CutIsClean` |
| `replay` | 3 ids, 2 prices, pools of 1 and 2, 3 commands | `ReplayRepeatsLife`, `SeqNoIsPosition` |
| `benchmark` | the three programs; streams of 4, two of them warmup, 2 ranks, quantities 1-2; 2 tries a sample; 2 runs of 4 empty regions | the clock (`SamplesTight`, `RateSound`), the figures, the generator, the passes, the allocations, `ProgramsExit` |

*Bounds.* `MaxCommands` bounds the commands of a behaviour; when it is reached
and the book is idle, `Stopped` stutters, so that any other halt is a deadlock
TLC reports. Three orders at one price make a head, a middle and a tail; three
ids with two or three slots make the pool run full, slots be reused and ids
return; two prices and two accounts make a sweep cross a level and meet its own
order. In `book_levels` two orders at outer prices leave room for a third level
between them, so an insertion shifts a cell and the array is full when the pool is;
an order that finds no slot then takes its level away again; fill-or-kill orders,
which only read levels, are those of one account that sell two at any price, and modifies are to the larger quantity. In `book_oracle` orders that
never rest come from one account (accounts are only compared), and one order of each
kind has no quantity. `GenModulus = 2` makes generations wrap within a run; modulo 4, two
quantities of 3 make the fill-or-kill total wrap. In `id_map_churn` the homes lie
around the end of the table, so probe paths and shifts wrap. Symmetry is over
order ids (and handles), which the code only compares; runs with liveness use
none. `book_levels` and `book_oracle` have a `VIEW`: the last answer and the last command are
compared with the abstract specification in the step that produces them, which TLC
checks for every step it generates, and nothing later depends on them, so states
that differ only there count as one. `journal` has one too: once the reader has its
copy, what the writer does changes nothing the properties speak of. Three appends
make a record with one before and one after it, torn, damaged or failed. A file of
another version, and a record with a good checksum and a side or time in force
outside its enumeration, are refused in the model but written by nobody in it. In
`replay` three commands let an order rest, trade and be refused or meet a full pool,
and the third of three ids trade with the other two, so that trade ids run on within
a command and from one to the next, with the kill after any step of any of them. In `benchmark` four commands let an
order be filled by two others, be cancelled after a partial fill and be the last of
the live vector or not; `TargetResting` and `CancelPercent` are the code's;
`Delays` are a short and a preempted read, before either try or in either place of it. The
generator's ids are 1 to `Ops`, each with its own account.

*Fairness.* `WF_vars(Step)`: a command that has started goes on, because the thread
that runs it does nothing else (S8). Nothing says that producers submit commands,
so `Start` has no fairness. The same holds for the operations of `IdMap`.
`WF_benchVars(Work)`: a benchmark program is one thread that waits for nobody; the
clock goes on between any two of its reads, so a sample is never as early as the one
before. `PriceLevels`, `Journal`, `BookLevels` and `Replay` have safety properties only and state no fairness.

*What the violation shows.* `available_before_self_trade` sums 32-bit quantities
in 32 bits (`book.hpp:395`). When the liquidity within the limit reaches 2^32 the
total wraps and a fill-or-kill order may be refused although the book holds
enough; docs/spec.md S5 refuses it only if the available quantity is
insufficient, and the oracle sums in 64 bits. `book_trading` shows the other
direction: the wrapped total is never more than the true one, so no order is
filled in part.

## Proofs

All constants are arbitrary: any capacity (0 included), any price range around 0
(0 is the default price of a command that carries none), any set of ids, any
accounts with 0 among them, any widths, any number of commands. The assumptions are
the named `ASSUME`s of `EngineTypes`, `FixedPool`, `Book`, `IdMap`, `PriceLevels`,
`Journal`, `Replay`, `Timing`, `Noise`, `Workload` and `Bench`: constants are numbers or sets of
the right kind, and a value that stands for "nothing there" is not one of the values
it is told apart from. Three say
something about the caller: `CommandsAssumption`; `ConstructedAssumption` of
`Journal`, that commands are made by their constructors, since a journal does not
write the fields a kind does not use; and `StreamAssumption` of `Workload`, that the
prices and quantities `generate()` can draw are among those of the book's commands.

| Theorem | Property |
|---|---|
| `BookProofs`: `Invariance`, `TypeCorrect`, `BookNeverCrossed`, `QueuesCorrect`, `LevelsCorrect`, `IdMapCorrect` | `IndInv`, `TypeOK`, `NotCrossed`, `QueuesInTimeOrder`, `LevelsHoldOrders`, `IdMapExact` |
| `BookProofs`: `FreeListCorrect`, `DropsOnlyWhenFull`, `LevelsNeverOverflow` | `FreeListExact`, `DroppedOnlyWhenFull`, `LevelsFit` |
| `ExecutionProofs`: `TradesHavePriority`, `RemaindersExplained`, `QuantityConserved`, `FokIsAllOrNothing` | `BestExecution`, `RemainderExplained`, `QuantityAccounted`, `FokAllOrNothing` |
| `ExecutionProofs`: `BookImplementsPriorityBook` | `ImplementsPriorityBook` (in no run) |
| `BookLevelsProofs`: `ArraysAlwaysMatch`, `ReferencesStayGood`, `SelfCheckAlwaysPasses` | `ArraysMatchBook`, `ReferencesGood`, `SelfCheckPasses` |
| `PriceLevelsProofs`: `TypeCorrect`, `AlwaysSorted`, `ImplementsMap` | `TypeOK`, `Sorted`, `ImplementsLevelMap` |
| `IdMapProofs`: `MapTypeCorrect`, `HalfAlwaysEmpty`, `EntriesStayReachable`, `ImplementsADictionary` | `TypeOK`, `HalfEmpty`, `EveryEntryReachable`, `ImplementsDictionary` |
| `JournalProofs`: `JournalTypeCorrect`, `ReplayIsAlwaysHistory`, `AckedIsAlwaysReplayed`, `CutIsAlwaysClean` | `TypeOK`, `ReplayIsHistory`, `AckedIsReplayed`, `CutIsClean` |
| `RunProofs`: `ReplayAlwaysRepeatsLife`, `SeqNoIsAlwaysPosition` | `ReplayRepeatsLife`, `SeqNoIsPosition` |
| `RunProofs`: `GeneratorAlwaysKnowsItsBook`, `StreamAlwaysFits` | `GeneratorKnowsItsBook`, `StreamFitsEveryPass` |
| `RunProofs`: `FiguresAlwaysNearestRank` | `FiguresAreNearestRank` |
| `RunProofs`: `SamplesAlwaysTight`, `RateAlwaysSound`, `AllocsAlwaysAddUp`, `AllocatesForMoreTradesOnly` | `SamplesTight`, `RateSound`, `AllocsAddUp`, `AllocatesOnlyForMoreTrades` |

*Book.* `Invariance` proves `Spec => []IndInv`. None of the structural invariants is
inductive alone:

* that an unlinked list stays in time order needs `SeqNosOrdered` (sequence
  numbers are distinct and below the running command's own), and so does an append;
* that a level is erased exactly when its last order leaves needs the lists to be
  exact, and exactness of the lists needs the levels;
* that a fill frees the right slot needs `IdMapExact` and `CommandOK`; that
  `allocate` disturbs no order needs `FreeLinks` (the free list stays among free
  slots and joins nowhere);
* `NotCrossed` needs `PendingNotCrossing`: between the end of the sweep and the
  append, the order being placed crosses nothing on the other side. The step that
  gives this compares only with the best price; `BestDecides` and `BestExists`
  extend it to the whole side.

The list lemmas `QueuesAfterUnlink` and `QueuesAfterAppend` describe lists by
neighbours in time order, not by a walk, so no induction over the length of a list
is needed. There is one lemma per action and four that several actions share
(`QuietFinish`, `QtyChange`, `Removal`, `Placement`). `NoStale` shows that the
defensive branch for stale handles in `cancel_order` and `modify_order` never runs.

*Pool and levels.* `FreeListChain`, inductive on top of `IndInv`, says that some
numbering of the free slots is the free list from its end to its head: `allocate`
takes the last, `free` adds one. `FreeListExact`, which walks, and
`DroppedOnlyWhenFull` follow. `LevelsFit` counts: a level other than the one being
placed holds an order, so there are no more levels than slots and one.

*Trading.* `HeadHasPriority` shows that the head of the best level precedes every
other order of its side, which gives `BestExecution`. `Accounted` keeps the sum of
the trades and of what is left equal to the quantity of the order. `FokSound` says
during the walk of `available_before_self_trade` that what it has passed is a prefix
of the marketable orders in the order of their priority, none of them the taker's
own, and that their quantities add up to at least `total` (which wraps); and during
the sweep of a fill-or-kill order that such a prefix covers what is left. A fill
takes the first order off the prefix or leaves less to cover, and a prefix that
covers a positive quantity is not empty, so the sweep neither stops nor ends before
it is done.

*Priority book.* `PriorityBook` is the book as a set of orders, the number of its slots,
its two counters and the command it is in. `Begin` and `Turn` are functions: the next
order to trade with or to count is the foremost of the set, and a residual finds room if
there are fewer orders than slots. `AsPriorityBook` reads such a book off the pool; an
order that `rest` has put into a slot but not yet queued does not rest. Each step of
`Book` is `Begin`, or one `Turn`, or leaves the priority book as it is
(`StartBegins`, `StepTurns`; the steps from one level to the next, and those from a
residual to its queue, are of the last kind). That needs `IndInv` and the invariants of
trading: the order at the head of the best level is the foremost one
(`HeadHasPriority`), what the walk has passed is what it has counted (`FokSound`), and
the free list ends exactly when all slots hold orders (`FreeListChain`, over the slots of
a pool of any size up to `Capacity`: a book is constructed with its own).

So a book is determined by the commands it has been given: from one fresh priority book
and one sequence of commands there is one history (`SettlesOnce`, `HistoryOnce`), and a
snapshot is a function of the orders (`SnapshotIsOrders`: orders with distinct numbers
are listed in one way, `ListedOnce`), with no trace of slots or handles. This relates two
runs of the book without carrying them side by side: each is compared with the history.

*Level arrays.* `LevelsInv` adds to `IndInv` that each array is sorted and holds the
prices and lists `Book` means (`Fits`), and that the reference in hand is to the
right cell. `SelfCheckPasses` then needs each walk of a list to list its orders:
`Enumerates` gives the walk as a numbering, in time order, of the orders of a level.
For `PriceLevels` alone, `RoomLeft` (no more levels in use hold orders than the pool
has slots) keeps `get_or_insert` within the array.

*Id map.* `MapInv` holds at every step of every loop: an id is stored once; on the
way from an entry's home to the entry every slot is used, the hole of a running
erase excepted; what a probe has passed is used and is not what it looks for. A
backward shift leaves such a path behind because an entry is moved into the hole
exactly if the hole lies between its home and it. `HalfEmpty`, reachability and the
refinement of `Dictionary` follow. TLC checks `MapInv` on the instance of
`id_map_churn` too.

*Journal.* `WriterInv` says that there is a whole journal, the header and the records
of some commands (`IsJournal`), of which the file is a copy as far as it goes, with
at most the damaged unit different (`Copies`). The submitted commands begin with
these, the acknowledged ones are these or all but the last (`Holds`), and what the C
library keeps comes next in the journal (`FileIs`). `ReaderInv` says the same
of the reader's copy and where in it the reader is. The step that matters is
`MatchIsIntact`: a checksum can only match the units it was made for, so a record the
reader accepts lies where the writer put one and is whole. `JournalInv` ranges over
all journals, which TLC cannot enumerate; the `journal` run checks the four
properties themselves.

*Replay.* `ReplayInv` adds to `IndInv` that the next sequence number is the length of
the log, or one more while a command runs, and that every order of the pool, every
trade of the running command and every entry of the log names its place in the
journal. A fresh book satisfies it for any capacity up to that of the model
(`NewBookInd`), so a kill may come at any point. What a snapshot lists is in the pool
(`SnapshotOrders`), by the enumeration of lists that the level arrays use too.
`CountInv` adds the trade ids: those of the log are the numbers below some `b`, each
once and in order (`IdsTo`), and those of the running command count up from `b`
(`Counting`); a step counts on (`TradesCounted`) and a command that returns appends a run
to a run (`IdsGrow`). That a modify has no trades is part of it, since its `Outcome`
discards whatever the result holds.
`RepeatInv` says that the log of the running engine, and the one of the engine that died,
each tell the history of their commands (`Recounts`) on a fresh book of the recorded
capacity; both are parts of one journal, so they agree (`LogsAgree`). A step of `apply`
keeps it since it is a turn of the command (`GoesOn`), and a kill since a part of a log
tells a part of the history (`PartRecounts`).

*Clock.* `ClockInv` says that the try `sample_pair` keeps is tight for the least gap so
far (`TryIsTight`: whatever the counter showed between two clock reads, their middle
is at most half the gap and the rounding away), and that the counter has moved on
since the first sample, so the rate never divides by zero.

*Allocations.* `PassInv`: the vector of trades has room for what it holds and for the
most it has held in the pass, and a step adds at most one trade, so only a command
with more trades than any before it makes the vector grow. `ProfileInv`: what has been
charged to the kinds adds up to all that the counters have moved from `region_start` to
the snapshot before the running command, and that the largest command of all is
the largest of one of the kinds and no smaller than the others' (`LargestOfAll`).

*Generator.* `GenInv` says at every point of the loop of `generate()`, each fill of the
order being added and each trade it then looks at included, how its maps and its book
stand to each other: `live` and `where` are inverse (`LivePlaces`, which a
swap-removal keeps: `ForgetOne`); an earlier order has in `remaining` what it has left in
the book and the trade with it that is still to be taken off (`Follows`); the order
being added is in neither map, and has in the book what `resting_qty` says (`Adding`).
That one subtraction per maker is enough needs `MakersDiffer`: a sweep trades with an
order at most once, since it either empties it or ends (`TradeLimit`). That the draws
give commands at all is `RankInRange`: every draw below the total weight has a rank.

*Passes.* `FitInv`: while the stream is made, its commands and the order in hand make a
history on a fresh book, at whose end the generator's book is, and each command suits
the book before it (`Generated`): a cancel because `GenInv` says that its order
rests (`GenCancelHits`), an order because its id is new (`GenLimitMisses`). A pass has a
book of its own at some command of the same history (`Rerun`), hence what suited then
suits now.

*Figures.* `SortExists` gives `std::sort` a result for samples of any number and value:
one more sample goes before the first greater one. In it the samples up to rank `r` are
no greater than the one of rank `r`, and those from `r` on no less (`RankCovers`);
counting both bounds the rank from either side, and the rest is the rounding of
`percentile`.

*Recursive functions.* The induction theorems of the library cannot be used here
(they take an operator as a parameter). `Iteration` replaces them by sets: `LeastNumber`
(a set of naturals that is not empty has a least element), `Reaches` (a set with 0 in
it that is closed under successor up to `n` has all numbers up to `n`),
`StepwiseEqual` and `IterationExists`. The sums, walks and file layouts above are
proved about with these.

*Only model-checked.*

* Liveness, out of the prover's reach: `CommandsReturn`, `OperationsReturn`,
  `ProgramsExit`.
* `ImplementsOracle`: the oracle matches by a `RECURSIVE` operator, in whose presence
  the prover loses its SMT backend, and sums quantities by another, which takes an
  induction over data. It also holds only where no fill-or-kill total wraps: the
  book adds modulo `QtyModulus`, the oracle does not. What is proved for every value
  is `BookImplementsPriorityBook`, turn by turn and with the book's own total.
* `FokRefusedOnlyIfShort`, which is violated.

## Not modelled

* The text of the event log, of the printed book and of the CSV files: formatting.
  `Replay` compares what the text shows.
* `bench/env.hpp`, pinning and `tsc_is_invariant`: they read the machine.
* Floating-point figures (rates, means, shares): `RateSound` bounds the two integers
  the rate is a quotient of. `bench_overhead` repeats `run()` and `noop_run()`, which
  are modelled, and divides.
* The vectors of samples, which `run()` reserves to the number of commands of a
  kind: a pass of the model counts its trades only.
* The forms of `operator new` that differ in alignment or in what a failed `malloc`
  does; a program out of memory.
* Random number generation: a draw is any value, so the distribution, and with it the
  size the book settles at, is out of reach.
* Shrinking, statistics and input generation of the fuzzers; scripts.
* Wrapping of 64-bit sequence, trade and allocation numbers.

## Plan

1. Done: pool, lists, book, oracle refinement, id map, price levels, inductive
   invariant and price-time priority.
2. Done: `Journal`, with failing appends, kills, torn tails and damage.
3. Done: `Replay`, the book over a journal that a killed engine left.
4. Done: `Workload` and the benchmark programs.
5. Done: `BookLevels`, the book composed with the level arrays, for the references
   held across `get_or_insert` and `erase`.
6. Done: proofs of the safety properties of `Book`, `BookLevels`, `PriceLevels`,
   `IdMap` and `Journal`, and of the refinements of `LevelMap` and `Dictionary`.
7. Done: proofs of `SeqNoIsPosition` over `Replay`, of the safety properties of the
   benchmark's clock, figures and allocation accounts, and of `GeneratorKnowsItsBook`.
8. Done: `PriorityBook`, which a book and a command determine, and from it the proofs of
   `ReplayRepeatsLife` and `StreamFitsEveryPass`.
