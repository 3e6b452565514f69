-------------------------------- MODULE Noise --------------------------------
(***************************************************************************)
(* Timing an empty region, bench/noise.hpp, and the statistics of          *)
(* bench/runner.hpp that every measurement goes through.  A sample is a    *)
(* number of ticks; turning ticks into nanoseconds keeps their order.      *)
(***************************************************************************)
EXTENDS Integers, Sequences, FiniteSets

CONSTANTS Ticks,              \* what an empty region may take
          kNoiseOps,          \* samples per run
          kNoiseRuns,         \* runs of bench_noise
          kMaxP99Spread       \* the verdict's limit

ASSUME TicksAssumption == Ticks \subseteq Nat

VARIABLES ticks,              \* noop_run's samples
          runs                \* the LatencyStats of the runs so far

noiseVars == <<ticks, runs>>

NoiseInit == ticks = <<>> /\ runs = <<>>

-----------------------------------------------------------------------------

(* Fault: the rank is rounded down, and counted from one. *)
percentile_floor(sorted, per_10k) ==
  sorted[(Len(sorted) * per_10k) \div 10000 + 1]

(* Nearest rank. *)
percentile(sorted, per_10k) ==
  sorted[(Len(sorted) * per_10k + 9999) \div 10000]

Quantiles == {5000, 9900, 9990, 9999}

(* std::sort: the samples taken in an order in which they ascend. *)
sort(samples) ==
  LET Place == DOMAIN samples
      order == CHOOSE p \in [Place -> Place] :
                 \A i, j \in Place :
                   i < j => p[i] # p[j] /\ samples[p[i]] <= samples[p[j]]
  IN  [k \in Place |-> samples[order[k]]]

(* The figures of a non-empty vector of samples. *)
stats_from(samples) ==
  LET sorted == sort(samples)
  IN  [per_10k |-> [q \in Quantiles |-> percentile(sorted, q)],
       max |-> sorted[Len(sorted)]]

(* One iteration of noop_run. *)
NoopSample(t) ==
  /\ Len(ticks) < kNoiseOps
  /\ ticks' = Append(ticks, t)
  /\ UNCHANGED runs

(* noop_run returns. *)
NoopReturn ==
  /\ Len(ticks) = kNoiseOps
  /\ ticks' = <<>>
  /\ runs' = Append(runs, stats_from(ticks))

p99(run) == run.per_10k[9900]

(* The highest p99 less the lowest; lo and hi after the first k runs. *)
p99_spread(all) ==
  LET lo[k \in 1 .. Len(all)] ==
        IF k > 1 /\ lo[k - 1] < p99(all[k]) THEN lo[k - 1] ELSE p99(all[k])
      hi[k \in 1 .. Len(all)] ==
        IF k > 1 /\ hi[k - 1] > p99(all[k]) THEN hi[k - 1] ELSE p99(all[k])
  IN  hi[Len(all)] - lo[Len(all)]

(* What bench_noise exits with. *)
verdict(all) == IF p99_spread(all) > kMaxP99Spread THEN "exit1" ELSE "exit0"

-----------------------------------------------------------------------------
(* Properties. *)

AtMost(samples, v) == Cardinality({k \in DOMAIN samples : samples[k] <= v})

Below(samples, v) == Cardinality({k \in DOMAIN samples : samples[k] < v})

(***************************************************************************)
(* Each figure is the least sample that covers its share of the samples:   *)
(* no rank is off by one, none falls outside the vector, and max is the    *)
(* largest (stats_from and percentile).                                    *)
(***************************************************************************)
FiguresAreNearestRank ==
  ticks # <<>> =>
    LET s == stats_from(ticks)
        n == Len(ticks)
    IN  /\ \A q \in Quantiles :
             /\ 10000 * AtMost(ticks, s.per_10k[q]) >= q * n
             /\ 10000 * Below(ticks, s.per_10k[q]) < q * n
        /\ AtMost(ticks, s.max) = n /\ Below(ticks, s.max) < n
==============================================================================
