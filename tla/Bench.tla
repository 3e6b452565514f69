-------------------------------- MODULE Bench --------------------------------
(***************************************************************************)
(* The benchmark programs: bench_w1 and its two passes (bench/runner.hpp), *)
(* bench_allocs and its profile (bench/alloc_profile.hpp with the counters *)
(* of bench/alloc_counter.cpp), and bench_noise.  Each is one thread that  *)
(* goes through its stages; the book of a pass is that of module Book.     *)
(***************************************************************************)
EXTENDS Workload, Timing, Noise

CONSTANTS Warmup,             \* commands that are run but not measured
          MinSamples          \* p999_has_enough_samples: 100'000 in the code

ASSUME WarmupAssumption == Warmup \in 0 .. Ops - 1

VARIABLES program, stage,
          at,                 \* the pass's loop counter i
          counted,            \* trades of the measured part, per pass
          room,               \* the capacity of result.trades
          heap,               \* g_calls and g_bytes
          before,             \* the snapshot before the running command
          region_start,       \* the snapshot before the measured part
          profile,            \* the AllocProfile
          largest             \* history: most trades of a command of the pass

passVars == <<at, counted, room, heap, before, region_start, profile, largest>>

benchVars == <<vars, genVars, clockVars, noiseVars, passVars, program, stage>>

Passes == {"whole", "per_op", "profile"}

Exits == {"exit0", "exit1", "abort"}

NoStats == [commands |-> 0, allocs |-> 0, bytes |-> 0, max_per_command |-> 0]

CommandKinds == {"limit_no_trade", "limit_trades", "cancel"}

NoSnapshot == [calls |-> 0, bytes |-> 0]

BenchInit ==
  /\ Init /\ NewGenerator /\ ClockInit /\ NoiseInit
  /\ program \in {"bench_w1", "bench_allocs", "bench_noise"}
  /\ stage = "clock"
  /\ at = 0 /\ room = 0 /\ largest = 0
  /\ counted = [p \in Passes |-> 0]
  /\ heap = NoSnapshot /\ before = NoSnapshot /\ region_start = NoSnapshot
  /\ profile = [k \in CommandKinds \cup {"all"} |-> NoStats]

-----------------------------------------------------------------------------
(* The clock, the empty region and the stream. *)

Calibrate ==
  /\ stage = "clock"
  /\ ClockNext
  /\ UNCHANGED <<vars, genVars, noiseVars, passVars, program, stage>>

(* TscClock is there.  Its rate scales the figures and decides nothing. *)
ClockReady ==
  /\ stage = "clock"
  /\ Calibrated
  /\ stage' = IF program = "bench_allocs" THEN "generate" ELSE "noop"
  /\ now' = 0 /\ best' = [ticks |-> 0, ns |-> 0]
  /\ start' = NoSample /\ end' = NoSample
  /\ narrowest' = [start |-> nil, end |-> nil, here |-> nil]
  /\ UNCHANGED <<vars, genVars, noiseVars, passVars, program, try, best_gap>>

(* bench_noise times its runs, bench_w1 the overhead of the timer once;    *)
(* both drop the figures of a first run that warms the processor up.       *)
NoopRuns == IF program = "bench_noise" THEN kNoiseRuns ELSE 1

Noop ==
  /\ stage = "noop"
  /\ Len(runs) < NoopRuns
  /\ NoopReturn \/ \E t \in Ticks : NoopSample(t)
  /\ UNCHANGED <<vars, genVars, clockVars, passVars, program, stage>>

NoopDone ==
  /\ stage = "noop"
  /\ Len(runs) = NoopRuns
  /\ IF program = "bench_noise"
       THEN stage' = verdict(runs) /\ UNCHANGED runs
       ELSE stage' = "generate" /\ runs' = <<>>
  /\ UNCHANGED <<vars, genVars, clockVars, passVars, program, ticks>>

Stream ==
  /\ stage = "generate"
  /\ Generate
  /\ UNCHANGED <<clockVars, noiseVars, passVars, program, stage>>

-----------------------------------------------------------------------------
(* The passes. *)

count_kinds(from) ==
  LET of(kind) == Cardinality({i \in from + 1 .. Len(out) : out[i].kind = kind})
  IN  [Limit |-> of("Limit"), Cancel |-> of("Cancel")]

EnoughSamples == \A n \in {count_kinds(Warmup).Limit, count_kinds(Warmup).Cancel} :
                   n >= MinSamples

(* Fault: the fresh book does not get the warmup. *)
BeginPassCold(pass) ==
  /\ stage' = pass
  /\ Construct(Capacity)
  /\ at' = Warmup /\ room' = 0 /\ largest' = 0
  /\ heap' = NoSnapshot /\ before' = NoSnapshot /\ region_start' = NoSnapshot

(* A fresh book and a fresh result.  The allocation counters are only read *)
(* as differences within a pass, so they may as well start from nothing.   *)
BeginPass(pass) ==
  /\ stage' = pass
  /\ Construct(Capacity)
  /\ at' = 0 /\ room' = 0 /\ largest' = 0
  /\ heap' = NoSnapshot /\ before' = NoSnapshot /\ region_start' = NoSnapshot

(* generate() returns the stream, and bench_w1 looks at its size. *)
StreamReady ==
  /\ stage = "generate"
  /\ made = Undef /\ Len(out) = Ops
  /\ IF program = "bench_w1" /\ ~EnoughSamples
       THEN stage' = "exit1" /\ UNCHANGED <<vars, at, room, largest, heap,
                                            before, region_start>>
       ELSE BeginPass(IF program = "bench_w1" THEN "whole" ELSE "profile")
  /\ live' = <<>>
  /\ where' = [id \in OrderId |-> Absent]
  /\ remaining' = [id \in OrderId |-> Absent]
  /\ next_id' = 1
  /\ UNCHANGED <<out, made, tallied, clockVars, noiseVars, program,
                 counted, profile>>

(* Fault: each command has a new result. *)
KeptRoomNone == IF pc = "idle" THEN 0 ELSE room

(* result.reset() keeps the capacity of trades (ADR-008). *)
KeptRoom == room

(* trades.push_back: a full vector moves to one of twice the size. *)
PushBack ==
  LET grows == Len(result'.trades) > KeptRoom
      twice == IF KeptRoom = 0 THEN 1 ELSE 2 * KeptRoom
  IN  /\ room' = IF grows THEN twice ELSE KeptRoom
      /\ heap' = IF grows THEN [calls |-> heap.calls + 1,
                                bytes |-> heap.bytes + twice] ELSE heap

(* The trades apply() reports; a cancel leaves the result of an earlier    *)
(* command alone and reports none.                                         *)
TradesOf(c) == IF c.kind = "Cancel" THEN 0 ELSE Len(result'.trades)

Charge(s, calls, bytes) ==
  [commands |-> s.commands + 1,
   allocs |-> s.allocs + calls,
   bytes |-> s.bytes + bytes,
   max_per_command |-> IF calls > s.max_per_command THEN calls
                                                    ELSE s.max_per_command]

(* Fault: the batched pass keeps the last command's trades only. *)
AddTradesLast(n) ==
  [counted EXCEPT ![stage] = IF stage = "whole" THEN n ELSE @ + n]

AddTrades(n) == [counted EXCEPT ![stage] = @ + n]

(* Fault: the region's calls so far are taken for those of the command. *)
MostOfRegion(calls) == heap'.calls - region_start.calls

(* The region's largest command, this one included. *)
Most(calls) == Charge(profile["all"], calls, 0).max_per_command

(* What profile_allocs books for a command, and the other passes count. *)
Measure(c, from) ==
  LET n == TradesOf(c)
      kind == IF c.kind = "Cancel" THEN "cancel"
              ELSE IF n = 0 THEN "limit_no_trade" ELSE "limit_trades"
      calls == heap'.calls - from.calls
      s == Charge(profile[kind], calls, heap'.bytes - from.bytes)
  IN  /\ counted' = AddTrades(n)
      /\ profile' = IF stage = "profile"
                      THEN [profile EXCEPT ![kind] = s,
                                           !["all"].max_per_command = Most(calls)]
                      ELSE profile

(* alloc_snapshot() before a command. *)
SnapshotBefore == IF pc = "idle" THEN heap ELSE before

(* A step of the next command of the stream, and its books at the end. *)
Pass ==
  /\ stage \in Passes
  /\ at < Len(out)
  /\ LET c == out[at + 1]
     IN  /\ Start(c) \/ Step
         /\ PushBack
         /\ before' = SnapshotBefore
         /\ region_start' = IF pc = "idle" /\ at = Warmup THEN heap
                                                          ELSE region_start
         /\ IF pc' # "idle"
              THEN UNCHANGED <<at, largest, counted, profile>>
              ELSE /\ at' = at + 1
                   /\ largest' = IF TradesOf(c) > largest THEN TradesOf(c)
                                                          ELSE largest
                   /\ IF at >= Warmup THEN Measure(c, SnapshotBefore)
                      ELSE UNCHANGED <<counted, profile>>
  /\ UNCHANGED <<genVars, clockVars, noiseVars, program, stage>>

WholeDone ==
  /\ stage = "whole" /\ at = Len(out)
  /\ BeginPass("per_op")
  /\ UNCHANGED <<genVars, clockVars, noiseVars, program, counted, profile>>

(* The passes must agree on the trades, or run() aborts. *)
PerOpDone ==
  /\ stage = "per_op" /\ at = Len(out)
  /\ stage' = IF counted["per_op"] # counted["whole"] THEN "abort" ELSE "exit0"
  /\ UNCHANGED <<vars, genVars, clockVars, noiseVars, passVars, program>>

ProfileDone ==
  /\ stage = "profile" /\ at = Len(out)
  /\ stage' = "exit0"
  /\ profile' = [profile EXCEPT
       !["all"].commands = Len(out) - Warmup,
       !["all"].allocs = heap.calls - region_start.calls,
       !["all"].bytes = heap.bytes - region_start.bytes]
  /\ UNCHANGED <<vars, genVars, clockVars, noiseVars, program, at, counted, room, heap, before, region_start, largest>>

Exited == stage \in Exits /\ UNCHANGED benchVars

Work == \/ Calibrate \/ ClockReady
        \/ Noop \/ NoopDone
        \/ Stream \/ StreamReady
        \/ Pass
        \/ WholeDone \/ PerOpDone \/ ProfileDone

BenchNext == Work \/ Exited

(* One thread, never blocked: it goes on as long as there is work. *)
BenchSpec == BenchInit /\ [][BenchNext]_benchVars /\ WF_benchVars(Work)

-----------------------------------------------------------------------------
(* Properties. *)

(***************************************************************************)
(* Between two commands generate() knows exactly the orders that rest in   *)
(* its book and their quantities, without a second look at the book:       *)
(* makers that a trade finished are gone, one that was partly filled or    *)
(* moved by a swap-removal is where `where` says, and the maps hold no     *)
(* entry for an order that is gone.                                        *)
(***************************************************************************)
GeneratorKnowsItsBook ==
  stage = "generate" /\ made = Undef => KnowsItsBook

(***************************************************************************)
(* "A cancel always hits a live order": in every pass over the stream, on  *)
(* a fresh book and hence long after generate() chose it, each cancel      *)
(* finds its order and no limit order is refused.                          *)
(***************************************************************************)
StreamFitsEveryPass ==
  stage \in Passes /\ pc = "idle" /\ at < Len(out) =>
    LET c == out[at + 1]
    IN  IF c.kind = "Cancel" THEN Found(c) ELSE ~AddRefused(c)

(***************************************************************************)
(* The region's figures, "counted around the loop and not summed from the  *)
(* three above", are the sums of the three kinds, and its largest command  *)
(* is the largest of theirs: none of them exceeds it, and it is one.       *)
(***************************************************************************)
AllocsAddUp ==
  program = "bench_allocs" /\ stage = "exit0" =>
    LET total_of(s(_)) == s(profile["limit_no_trade"])
                          + s(profile["limit_trades"]) + s(profile["cancel"])
    IN  /\ profile["all"].commands = total_of(LAMBDA s : s.commands)
        /\ profile["all"].allocs = total_of(LAMBDA s : s.allocs)
        /\ profile["all"].bytes = total_of(LAMBDA s : s.bytes)
        /\ \A k \in CommandKinds : profile[k].max_per_command
                                     <= profile["all"].max_per_command
        /\ \E k \in CommandKinds : profile[k].max_per_command
                                     = profile["all"].max_per_command

(***************************************************************************)
(* ADR-008: a caller that reuses one result stops allocating.  A command   *)
(* allocates only if it makes more trades than every command before it in  *)
(* the pass, the warmup included.                                          *)
(***************************************************************************)
AllocatesOnlyForMoreTrades ==
  [][heap'.calls > heap.calls /\ stage \in Passes
       => Len(result'.trades) > largest]_benchVars

(***************************************************************************)
(* Every program comes to an end, and not by abort(): the clock's window   *)
(* closes, generate() emits as many commands as asked, and the two passes  *)
(* of run() agree on the number of trades.                                 *)
(***************************************************************************)
ProgramsExit == <>(stage \in {"exit0", "exit1"})
==============================================================================
