------------------------------- MODULE Timing --------------------------------
(***************************************************************************)
(* Calibrating the cycle counter, bench/timing.hpp.  Time is counted in    *)
(* ticks of the counter; steady_clock shows the whole nanoseconds.  Any    *)
(* read may be late: between two reads pass a few ticks, or, when the      *)
(* process is preempted, many.                                             *)
(***************************************************************************)
EXTENDS Integers

CONSTANTS TicksPerNs,         \* the counter's rate
          Delays,             \* ticks that may pass from one read to the next
          Tries,              \* 16 in the code
          kWindowNs           \* 20'000'000 in the code

ASSUME TimingAssumption == /\ TicksPerNs \in Nat \ {0}
                           /\ Delays \subseteq Nat \ {0}
                           /\ Tries \in Nat \ {0}
                           /\ kWindowNs \in Nat \ {0}

VARIABLES now,                \* ticks since the counter started
          try,                \* sample_pair's i
          best,               \* sample_pair's best, a TscSample
          best_gap,           \* its gap, or nil for the largest int64
          start, end,         \* the constructor's samples
          narrowest           \* history: least gap of the tries of each sample

clockVars == <<now, try, best, best_gap, start, end, narrowest>>

nil == -1

NoSample == [ticks |-> nil, ns |-> nil]

ns_of(t) == t \div TicksPerNs

ClockInit == /\ now = 0
             /\ try = 0
             /\ best = [ticks |-> 0, ns |-> 0]
             /\ best_gap = nil
             /\ start = NoSample /\ end = NoSample
             /\ narrowest = [start |-> nil, end |-> nil, here |-> nil]

(* Fault: the sample is paired with the first of the two clock reads. *)
PairedBefore(before, ticks, after) == [ticks |-> ticks, ns |-> before]

Paired(before, ticks, after) ==
  [ticks |-> ticks, ns |-> before + (after - before) \div 2]

(* Fault: every try replaces the one before it. *)
AlwaysNarrower(gap) == TRUE

Narrower(gap) == best_gap = nil \/ gap < best_gap

(* The loop of the constructor has seen a long enough window. *)
Calibrated == start # NoSample /\ end.ns - start.ns >= kWindowNs

(* One try of sample_pair, a counter read between two clock reads, after   *)
(* some time spent on the way from the read before.                        *)
Try(wait, d1, d2) ==
  LET begin == now + wait
      before == ns_of(begin)
      after == ns_of(begin + d1 + d2)
      gap == after - before
  IN  /\ ~Calibrated
      /\ try < Tries
      /\ try' = try + 1
      /\ now' = begin + d1 + d2
      /\ IF Narrower(gap)
           THEN best_gap' = gap /\ best' = Paired(before, begin + d1, after)
           ELSE UNCHANGED <<best_gap, best>>
      /\ narrowest' = [narrowest EXCEPT
           !.here = IF @ = nil \/ gap < @ THEN gap ELSE @]
      /\ UNCHANGED <<start, end>>

(* sample_pair returns.  The first sample starts the window and is also    *)
(* the first value of end; the next call begins with new locals.           *)
Sampled ==
  /\ try = Tries
  /\ end' = best
  /\ start' = IF start = NoSample THEN best ELSE start
  /\ narrowest' = [start |-> IF start = NoSample THEN narrowest.here
                                            ELSE narrowest.start,
                   end |-> narrowest.here, here |-> nil]
  /\ try' = 0
  /\ best' = [ticks |-> 0, ns |-> 0]
  /\ best_gap' = nil
  /\ UNCHANGED now

ClockNext == Sampled \/ \E wait, d1, d2 \in Delays : Try(wait, d1, d2)

-----------------------------------------------------------------------------
(* Properties. *)

(* Twice the ticks by which a sample's counter is ahead of its clock. *)
Skew(s) == 2 * (s.ticks - TicksPerNs * s.ns)

(***************************************************************************)
(* sample_pair: "a preemption between the reads costs one discarded try    *)
(* instead of skewing the sample".  The counter and the clock of a sample  *)
(* are apart by no more than half the narrowest gap of all its tries, and  *)
(* the clock's resolution.                                                 *)
(***************************************************************************)
SamplesTight ==
  start # NoSample =>
    \A s \in {<<start, narrowest.start>>, <<end, narrowest.end>>} :
      /\ Skew(s[1]) >= -TicksPerNs * s[2]
      /\ Skew(s[1]) < TicksPerNs * (s[2] + 3)

(***************************************************************************)
(* Once TscClock is constructed, its rate is a quotient of two positive    *)
(* numbers, and it is off by at most the narrowest gaps at both ends of    *)
(* the window against the length of the window, however long the spinning  *)
(* and the samples that were taken on the way.                             *)
(***************************************************************************)
RateSound ==
  start # NoSample /\ Calibrated =>
    LET ns == end.ns - start.ns
        ticks == end.ticks - start.ticks
        off == 2 * (ticks - TicksPerNs * ns)
        most == TicksPerNs * (narrowest.start + narrowest.end + 3)
    IN  /\ ns >= kWindowNs /\ ticks > 0
        /\ off < most /\ -off < most
==============================================================================
