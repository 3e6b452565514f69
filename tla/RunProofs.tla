------------------------------ MODULE RunProofs ------------------------------
(***************************************************************************)
(* Proofs about the programs that run a book: the calibration of the       *)
(* benchmark's clock, for every rate, delay and window, the accounts of    *)
(* its allocations, for every stream, the log that a replay makes, for     *)
(* every journal and every moment of a kill, the maps by which the         *)
(* generator knows its book and the passes over its stream, for every      *)
(* sequence of draws, and the ranks of the figures, for any samples.       *)
(***************************************************************************)
EXTENDS Replay, Bench, ExecutionProofs

-----------------------------------------------------------------------------
(* The clock. *)

(* A sample whose counter and clock were read within gap nanoseconds. *)
Tight(s, gap) ==
  /\ s \in [ticks: Nat, ns: Nat]
  /\ gap \in Nat
  /\ Skew(s) >= -TicksPerNs * gap
  /\ Skew(s) < TicksPerNs * (gap + 3)

(***************************************************************************)
(* The try that sample_pair keeps is tight for the least gap so far, and   *)
(* every sample after the first is later on the counter, so that no two    *)
(* samples a window apart are the same one.                                *)
(***************************************************************************)
ClockInv ==
  /\ now \in Nat
  /\ try \in 0 .. Tries
  /\ narrowest \in [start: Int, end: Int, here: Int]
  /\ narrowest.here = best_gap
  /\ try = 0 => best_gap = nil
  /\ try # 0 => /\ Tight(best, best_gap)
                /\ best.ticks <= now
                /\ start # NoSample => best.ticks > start.ticks
  /\ start # NoSample => /\ Tight(start, narrowest.start)
                         /\ Tight(end, narrowest.end)
                         /\ start.ticks <= now
                         /\ end = start \/ end.ticks > start.ticks
  /\ Calibrated => try = 0

(* The clock shows whole nanoseconds. *)
LEMMA NanosecondsOf ==
  ASSUME NEW t \in Nat
  PROVE  /\ ns_of(t) \in Nat
         /\ TicksPerNs * ns_of(t) <= t
         /\ t < TicksPerNs * ns_of(t) + TicksPerNs
<1>1. TicksPerNs \in Nat \ {0}
  BY TimingAssumption
<1> QED BY <1>1 DEF ns_of

(***************************************************************************)
(* Half the gap either way: whatever the counter showed between the two    *)
(* clock reads, the middle of them is no further from it.                  *)
(***************************************************************************)
LEMMA TryIsTight ==
  ASSUME NEW t0 \in Nat, NEW t \in Nat, NEW t1 \in Nat, t0 <= t, t <= t1
  PROVE  /\ ns_of(t1) - ns_of(t0) \in Nat
         /\ Tight(Paired(ns_of(t0), t, ns_of(t1)), ns_of(t1) - ns_of(t0))
<1>1. PICK K \in Nat : K = TicksPerNs /\ K > 0
  BY TimingAssumption
<1>2. PICK b \in Nat, a \in Nat : b = ns_of(t0) /\ a = ns_of(t1)
  BY NanosecondsOf
<1>3. K * b <= t0 /\ t0 < K * b + K /\ K * a <= t1 /\ t1 < K * a + K
  BY <1>1, <1>2, NanosecondsOf
<1>4. b <= a
  <2> SUFFICES ASSUME a + 1 <= b PROVE FALSE
    OBVIOUS
  <2>1. K * (a + 1) <= K * b
    BY <1>1
  <2>2. K * (a + 1) = K * a + K
    OBVIOUS
  <2> QED BY <1>3, <2>1, <2>2
<1>5. PICK g \in Nat : g = a - b
  BY <1>4
<1>6. PICK m \in Nat : m = g \div 2 /\ 2 * m <= g /\ g <= 2 * m + 1
  OBVIOUS
<1>7. PICK Kb \in Int, Ka \in Int, Km \in Int, Kg \in Int :
        Kb = K * b /\ Ka = K * a /\ Km = K * m /\ Kg = K * g
  OBVIOUS
<1>8. Kg = Ka - Kb
  BY <1>5, <1>7
<1>9. 2 * Km <= Kg /\ Kg <= 2 * Km + K
  <2>1. K * (2 * m) <= K * g /\ K * g <= K * (2 * m + 1)
    BY <1>1, <1>6
  <2>2. K * (2 * m) = 2 * Km /\ K * (2 * m + 1) = 2 * Km + K
    BY <1>7
  <2> QED BY <1>7, <2>1, <2>2
<1>10. PICK s : s = Paired(b, t, a)
  OBVIOUS
<1>11. s = [ticks |-> t, ns |-> b + m]
  BY <1>5, <1>6, <1>10 DEF Paired
<1>12. s \in [ticks: Nat, ns: Nat] /\ s.ticks = t /\ s.ns = b + m
  BY <1>11
<1>13. Skew(s) = 2 * (t - (Kb + Km))
  <2>1. K * (b + m) = Kb + Km
    BY <1>7
  <2> QED BY <1>1, <1>12, <2>1 DEF Skew
<1>14. Kb <= t0 /\ t1 < Ka + K
  BY <1>3, <1>7
<1>15. Skew(s) >= -Kg /\ Skew(s) < Kg + 3 * K
  BY <1>8, <1>9, <1>13, <1>14
<1>16. -K * g = -Kg /\ K * (g + 3) = Kg + 3 * K
  BY <1>7
<1>17. Tight(s, g)
  BY <1>1, <1>12, <1>15, <1>16 DEF Tight
<1> QED BY <1>2, <1>5, <1>10, <1>17

LEMMA ClockStarts ==
  ASSUME ClockInit
  PROVE  ClockInv
BY TimingAssumption DEF ClockInit, ClockInv, nil, Calibrated

LEMMA TryStep ==
  ASSUME ClockInv, NEW wait \in Delays, NEW d1 \in Delays, NEW d2 \in Delays,
         Try(wait, d1, d2)
  PROVE  ClockInv'
<1>0. PICK from : from = now + wait
  OBVIOUS
<1>1. /\ d1 \in Nat /\ d2 \in Nat /\ d1 > 0 /\ d2 > 0 /\ Tries \in Nat
      /\ wait \in Nat
  BY TimingAssumption
<1>2. /\ now \in Nat /\ from \in Nat /\ now <= from
      /\ now' = from + d1 + d2 /\ now' \in Nat
  BY <1>0, <1>1 DEF ClockInv, Try
<1>3. PICK gap, s : /\ gap = ns_of(from + d1 + d2) - ns_of(from)
                    /\ s = Paired(ns_of(from), from + d1, ns_of(from + d1 + d2))
  OBVIOUS
<1>4. gap \in Nat /\ Tight(s, gap)
  <2>1. PICK t0 \in Nat, t \in Nat, t1 \in Nat :
          t0 = from /\ t = from + d1 /\ t1 = from + d1 + d2
    BY <1>1, <1>2
  <2>2. t0 <= t /\ t <= t1
    BY <1>1, <1>2, <2>1
  <2>3. /\ ns_of(t1) - ns_of(t0) \in Nat
        /\ Tight(Paired(ns_of(t0), t, ns_of(t1)), ns_of(t1) - ns_of(t0))
    BY <2>2, TryIsTight
  <2> QED BY <1>3, <2>1, <2>3
<1>5. s.ticks = from + d1
  BY <1>3 DEF Paired
<1>6. /\ try < Tries /\ try' = try + 1 /\ ~Calibrated
      /\ start' = start /\ end' = end
      /\ narrowest' = [narrowest EXCEPT !.here = IF @ = nil \/ gap < @ THEN gap ELSE @]
      /\ IF Narrower(gap) THEN best_gap' = gap /\ best' = s
                          ELSE best_gap' = best_gap /\ best' = best
  BY <1>0, <1>3 DEF Try
<1>7. /\ narrowest' \in [start: Int, end: Int, here: Int]
      /\ narrowest'.start = narrowest.start /\ narrowest'.end = narrowest.end
      /\ narrowest'.here = IF narrowest.here = nil \/ gap < narrowest.here
                             THEN gap ELSE narrowest.here
  BY <1>4, <1>6 DEF ClockInv
<1>8. narrowest'.here = best_gap'
  BY <1>6, <1>7 DEF ClockInv, Narrower
<1>9. try \in Nat /\ try' \in 0 .. Tries /\ try' # 0
  BY <1>1, <1>6 DEF ClockInv
<1>10. start # NoSample => start.ticks \in Nat /\ start.ticks <= now
  BY DEF ClockInv, Tight
<1>11. /\ Tight(best', best_gap') /\ best'.ticks <= now'
       /\ start # NoSample => best'.ticks > start.ticks
  <2>1. CASE Narrower(gap)
    BY <1>1, <1>2, <1>4, <1>5, <1>6, <1>10, <2>1
  <2>2. CASE ~Narrower(gap)
    <3>1. best' = best /\ best_gap' = best_gap /\ best_gap # nil
      BY <1>6, <2>2 DEF Narrower
    <3>2. try # 0
      BY <3>1 DEF ClockInv
    <3>3. /\ Tight(best, best_gap) /\ best.ticks <= now
          /\ start # NoSample => best.ticks > start.ticks
      BY <3>2 DEF ClockInv
    <3>4. best.ticks \in Nat
      BY <3>3 DEF Tight
    <3> QED BY <1>1, <1>2, <3>1, <3>3, <3>4
  <2> QED BY <2>1, <2>2
<1>12. ~Calibrated'
  BY <1>6 DEF Calibrated
<1>13. start # NoSample => /\ Tight(start, narrowest.start)
                           /\ Tight(end, narrowest.end)
                           /\ start.ticks <= now'
                           /\ end = start \/ end.ticks > start.ticks
  BY <1>1, <1>2, <1>10 DEF ClockInv
<1> HIDE DEF Tight, Calibrated
<1>14. Tight(best, best_gap)' /\ (start # NoSample => Tight(start, narrowest.start)' /\ Tight(end, narrowest.end)')
  BY <1>6, <1>7, <1>11, <1>13 DEF Tight, Skew
<1> QED BY <1>2, <1>6, <1>7, <1>8, <1>9, <1>11, <1>12, <1>13, <1>14 DEF ClockInv

LEMMA SampledStep ==
  ASSUME ClockInv, Sampled
  PROVE  ClockInv'
<1>1. Tries \in Nat /\ Tries # 0
  BY TimingAssumption
<1>2. /\ Tight(best, best_gap) /\ best.ticks <= now
      /\ start # NoSample => best.ticks > start.ticks
  BY <1>1 DEF ClockInv, Sampled
<1>3. narrowest.here = best_gap /\ best_gap \in Int /\ best.ticks \in Nat /\ now \in Nat
  BY <1>2 DEF ClockInv, Tight
<1>4. /\ end' = best /\ start' = (IF start = NoSample THEN best ELSE start)
      /\ try' = 0 /\ best_gap' = nil /\ now' = now
      /\ narrowest' = [start |-> IF start = NoSample THEN narrowest.here
                                                     ELSE narrowest.start,
                       end |-> narrowest.here, here |-> nil]
  BY DEF Sampled
<1>5. /\ narrowest'.end = best_gap /\ narrowest'.here = nil
      /\ narrowest'.start = IF start = NoSample THEN best_gap ELSE narrowest.start
      /\ narrowest' \in [start: Int, end: Int, here: Int]
  BY <1>3, <1>4 DEF ClockInv, nil
<1>6. /\ Tight(start', narrowest'.start) /\ Tight(end', narrowest'.end)
      /\ start'.ticks <= now'
      /\ end' = start' \/ end'.ticks > start'.ticks
  <2>1. CASE start = NoSample
    BY <1>2, <1>4, <1>5, <2>1
  <2>2. CASE start # NoSample
    <3>1. Tight(start, narrowest.start) /\ start.ticks <= now
      BY <2>2 DEF ClockInv
    <3> QED BY <1>2, <1>4, <1>5, <2>2, <3>1
  <2> QED BY <2>1, <2>2
<1>7. Tight(start, narrowest.start)' /\ Tight(end, narrowest.end)'
  BY <1>6 DEF Tight, Skew
<1> HIDE DEF Tight, Calibrated
<1> QED BY <1>1, <1>3, <1>4, <1>5, <1>6, <1>7 DEF ClockInv

(* The clock's variables go back to their first values. *)
LEMMA ReadyStep ==
  ASSUME ClockInv, ClockReady
  PROVE  ClockInv'
<1>1. try = 0 /\ best_gap = nil
  BY DEF ClockInv, ClockReady
<1>2. /\ now' = 0 /\ try' = 0 /\ best_gap' = nil /\ start' = NoSample /\ end' = NoSample
      /\ narrowest' = [start |-> nil, end |-> nil, here |-> nil]
  BY <1>1 DEF ClockReady
<1> QED BY <1>2, TimingAssumption DEF ClockInv, nil, Calibrated

LEMMA ClockKept ==
  ASSUME ClockInv, UNCHANGED clockVars
  PROVE  ClockInv'
BY DEF ClockInv, clockVars, Tight, Skew, Calibrated

LEMMA ClockInvariance == BenchSpec => []ClockInv
<1>1. BenchInit => ClockInv
  BY ClockStarts DEF BenchInit
<1>2. ClockInv /\ [BenchNext]_benchVars => ClockInv'
  <2> SUFFICES ASSUME ClockInv, [BenchNext]_benchVars PROVE ClockInv'
    OBVIOUS
  <2>1. CASE Calibrate
    BY <2>1, TryStep, SampledStep DEF Calibrate, ClockNext
  <2>2. CASE ClockReady
    BY <2>2, ReadyStep
  <2>3. CASE \/ Noop \/ NoopDone \/ Stream \/ StreamReady \/ Pass \/ WholeDone
             \/ PerOpDone \/ ProfileDone \/ Exited \/ UNCHANGED benchVars
    <3>1. UNCHANGED clockVars
      BY <2>3 DEF Noop, NoopDone, Stream, StreamReady, Pass, WholeDone, PerOpDone,
                  ProfileDone, Exited, benchVars
    <3> QED BY <3>1, ClockKept
  <2> QED BY <2>1, <2>2, <2>3 DEF BenchNext, Work
<1> QED BY <1>1, <1>2, PTL DEF BenchSpec

(***************************************************************************)
(* Whatever the rate of the counter and however long the preemptions, the  *)
(* sample that sample_pair keeps is as good as its best try.               *)
(***************************************************************************)
THEOREM SamplesAlwaysTight == BenchSpec => []SamplesTight
<1>1. ClockInv => SamplesTight
  BY DEF ClockInv, SamplesTight, Tight
<1> QED BY <1>1, ClockInvariance, PTL

(***************************************************************************)
(* A constructed TscClock divides by a positive number of nanoseconds, has *)
(* a positive rate, and is off by no more than its two best tries against  *)
(* the window.                                                             *)
(***************************************************************************)
THEOREM RateAlwaysSound == BenchSpec => []RateSound
<1>1. ASSUME ClockInv PROVE RateSound
  <2> SUFFICES ASSUME start # NoSample, Calibrated
               PROVE  RateSound
    BY DEF RateSound
  <2>1. PICK K \in Nat : K = TicksPerNs /\ K > 0
    BY TimingAssumption
  <2>2. /\ Tight(start, narrowest.start) /\ Tight(end, narrowest.end)
        /\ end = start \/ end.ticks > start.ticks
    BY <1>1 DEF ClockInv
  <2>3. PICK a \in Nat, x \in Nat, b \in Nat, y \in Nat, g \in Nat, h \in Nat :
          /\ a = start.ticks /\ x = start.ns /\ b = end.ticks /\ y = end.ns
          /\ g = narrowest.start /\ h = narrowest.end
    BY <2>2 DEF Tight
  <2>4. y - x >= kWindowNs /\ kWindowNs \in Nat /\ kWindowNs > 0
    BY <2>3, TimingAssumption DEF Calibrated
  <2>5. b > a
    <3>1. y # x
      BY <2>3, <2>4
    <3>2. end # start
      BY <2>3, <3>1
    <3> QED BY <2>2, <2>3, <3>2
  <2>6. PICK Kx \in Int, Ky \in Int, Kg \in Int, Kh \in Int :
          Kx = K * x /\ Ky = K * y /\ Kg = K * g /\ Kh = K * h
    OBVIOUS
  <2>7. /\ 2 * (a - Kx) >= -Kg /\ 2 * (a - Kx) < Kg + 3 * K
        /\ 2 * (b - Ky) >= -Kh /\ 2 * (b - Ky) < Kh + 3 * K
    <3>1. -K * g = -Kg /\ K * (g + 3) = Kg + 3 * K
      BY <2>6
    <3>2. -K * h = -Kh /\ K * (h + 3) = Kh + 3 * K
      BY <2>6
    <3>3. /\ 2 * (a - K * x) >= -K * g /\ 2 * (a - K * x) < K * (g + 3)
          /\ 2 * (b - K * y) >= -K * h /\ 2 * (b - K * y) < K * (h + 3)
      BY <2>1, <2>2, <2>3 DEF Tight, Skew
    <3> QED BY <2>6, <3>1, <3>2, <3>3
  <2>8. K * (y - x) = Ky - Kx /\ K * (g + h + 3) = Kg + Kh + 3 * K
    BY <2>6
  <2>9. PICK off \in Int, most \in Int :
          off = 2 * ((b - a) - K * (y - x)) /\ most = K * (g + h + 3)
    OBVIOUS
  <2>10. off < most /\ -off < most
    BY <2>7, <2>8, <2>9
  <2> QED BY <2>1, <2>3, <2>4, <2>5, <2>9, <2>10 DEF RateSound
<1> QED BY <1>1, ClockInvariance, PTL

-----------------------------------------------------------------------------
(* The allocations. *)

(* An AddResult, as far as its vector of trades is concerned. *)
HasTrades(r) == "trades" \in DOMAIN r /\ \E S : r.trades \in Seq(S)

LEMMA OneMoreTrade ==
  ASSUME NEW t, NEW x, \E S : t \in Seq(S)
  PROVE  /\ \E S : Append(t, x) \in Seq(S)
         /\ Len(t) \in Nat /\ Len(Append(t, x)) = Len(t) + 1
<1>1. PICK S : t \in Seq(S)
  OBVIOUS
<1>2. PICK T : T = S \cup {x}
  OBVIOUS
<1>3. t \in Seq(T) /\ x \in T
  BY <1>1, <1>2
<1> QED BY <1>3, AppendProperties

(* A step of a command adds at most one trade to the result. *)
LEMMA ResultStep ==
  ASSUME HasTrades(result), NEW c, Start(c) \/ Step
  PROVE  /\ HasTrades(result)'
         /\ Len(result.trades) \in Nat /\ Len(result'.trades) \in Nat
         /\ Len(result'.trades) <= Len(result.trades) + 1
<1>0. /\ "trades" \in DOMAIN result
      /\ \E S : result.trades \in Seq(S) /\ Len(result.trades) \in Nat
  BY DEF HasTrades
<1>1. ASSUME NEW ok, result' = Outcome(ok)
      PROVE  HasTrades(result)' /\ Len(result'.trades) = 0
  <2>1. result'.trades = <<>> /\ "trades" \in DOMAIN result'
    BY <1>1 DEF Outcome
  <2>2. <<>> \in Seq({}) /\ Len(<<>>) = 0
    OBVIOUS
  <2> QED BY <2>1, <2>2 DEF HasTrades
<1>2. ASSUME NEW stp, NEW full, NEW resting, result' = Accepted(stp, full, resting)
      PROVE  HasTrades(result)' /\ result'.trades = result.trades
  BY <1>0, <1>2 DEF HasTrades, Accepted
<1>3. ASSUME NEW maker, NEW fill, Fill(maker, fill)
      PROVE  HasTrades(result)' /\ Len(result'.trades) = Len(result.trades) + 1
  <2>1. PICK x : x = TradeWith(maker, fill)
    OBVIOUS
  <2>2. result' = [result EXCEPT !.trades = Append(@, x)]
    BY <1>3, <2>1 DEF Fill
  <2>3. result'.trades = Append(result.trades, x) /\ "trades" \in DOMAIN result'
    BY <1>0, <2>2
  <2> QED BY <1>0, <2>3, OneMoreTrade DEF HasTrades
<1>4. CASE \/ AddReject(c) \/ AddAccept(c) \/ ModifyReject(c) \/ ModifyInPlace(c)
           \/ ModifyMove(c) \/ CancelMiss(c) \/ CancelOrder(c) \/ ModifyAppend
  <2>1. \E ok : result' = Outcome(ok)
    BY <1>4 DEF AddReject, AddAccept, ModifyReject, ModifyInPlace, ModifyMove,
                CancelMiss, CancelOrder, ModifyAppend, Finish
  <2> QED BY <1>0, <1>1, <2>1
<1>5. CASE FokReject \/ CrossStop \/ CrossDone \/ RestFull \/ RestAppend
  <2>1. \E stp, full, resting : result' = Accepted(stp, full, resting)
    BY <1>5 DEF FokReject, CrossStop, CrossDone, RestFull, RestAppend, Finish
  <2> QED BY <1>0, <1>2, <2>1
<1>6. CASE CrossPartial \/ CrossFull
  <2>1. \E maker, fill : Fill(maker, fill)
    BY <1>6 DEF CrossPartial, CrossFull
  <2> QED BY <1>0, <1>3, <2>1
<1>7. CASE FokLevel \/ FokOrder \/ FokPass \/ CrossResidual \/ RestLevel
           \/ RestAllocate \/ ModifyLevel
  <2>1. result' = result
    BY <1>7 DEF FokLevel, FokOrder, FokPass, CrossResidual, RestLevel, RestAllocate,
                ModifyLevel
  <2> QED BY <1>0, <2>1 DEF HasTrades
<1> QED BY <1>4, <1>5, <1>6, <1>7 DEF Start, Step

(***************************************************************************)
(* During a pass the vector of trades has room for what it holds and for   *)
(* what it has held.                                                       *)
(***************************************************************************)
PassInv ==
  /\ room \in Nat /\ largest \in Nat /\ heap \in [calls: Nat, bytes: Nat]
  /\ stage \in Passes => /\ HasTrades(result)
                         /\ Len(result.trades) <= room
                         /\ largest <= room

LEMMA BeginPassInv ==
  ASSUME NEW pass, BeginPass(pass)
  PROVE  PassInv'
<1>1. /\ room' = 0 /\ largest' = 0 /\ heap' = [calls |-> 0, bytes |-> 0]
      /\ result' = Outcome(FALSE)
  BY DEF BeginPass, Construct, Finish, NoSnapshot
<1>2. result'.trades = <<>> /\ "trades" \in DOMAIN result'
  BY <1>1 DEF Outcome
<1>3. <<>> \in Seq({}) /\ Len(<<>>) = 0
  OBVIOUS
<1>4. HasTrades(result)'
  BY <1>2, <1>3 DEF HasTrades
<1>5. Len(result'.trades) <= room' /\ largest' <= room'
  <2>1. PICK l : l = Len(result'.trades) /\ l = 0
    BY <1>2
  <2>2. room' = 0 /\ largest' = 0
    BY <1>1
  <2> QED BY <2>1, <2>2
<1>6. room' \in Nat /\ largest' \in Nat /\ heap' \in [calls: Nat, bytes: Nat]
  BY <1>1
<1> QED BY <1>4, <1>5, <1>6 DEF PassInv

(* What a step of a pass does to the vector and to the allocator. *)
LEMMA PassGrows ==
  ASSUME PassInv, Pass
  PROVE  /\ PassInv'
         /\ heap'.calls > heap.calls => Len(result'.trades) > largest
<1>1. PICK c : c = out[at + 1]
  OBVIOUS
<1>2. /\ stage \in Passes /\ stage' = stage
      /\ Start(c) \/ Step
      /\ PushBack
      /\ \/ largest' = largest
         \/ largest' = IF TradesOf(c) > largest THEN TradesOf(c) ELSE largest
  BY <1>1 DEF Pass
<1>3. HasTrades(result) /\ Len(result.trades) <= room /\ largest <= room
      /\ room \in Nat /\ largest \in Nat /\ heap \in [calls: Nat, bytes: Nat]
  BY <1>2 DEF PassInv
<1>4. /\ HasTrades(result)' /\ Len(result'.trades) \in Nat
      /\ Len(result'.trades) <= room + 1
  <2>1. /\ HasTrades(result)'
        /\ Len(result.trades) \in Nat /\ Len(result'.trades) \in Nat
        /\ Len(result'.trades) <= Len(result.trades) + 1
    BY <1>2, <1>3, ResultStep
  <2> QED BY <1>3, <2>1
<1>5. /\ room' \in Nat /\ room <= room' /\ Len(result'.trades) <= room'
      /\ heap' \in [calls: Nat, bytes: Nat]
      /\ heap'.calls > heap.calls => Len(result'.trades) > room
  BY <1>2, <1>3, <1>4 DEF PushBack, KeptRoom
<1>6. TradesOf(c) \in Nat /\ TradesOf(c) <= Len(result'.trades)
  BY <1>4 DEF TradesOf
<1>7. largest' \in Nat /\ largest' <= room'
  BY <1>2, <1>3, <1>4, <1>5, <1>6
<1> QED BY <1>3, <1>4, <1>5, <1>7 DEF PassInv

-----------------------------------------------------------------------------
(* The profile. *)

Stats == [commands: Int, allocs: Int, bytes: Int, max_per_command: Int]

Profiles == [CommandKinds \cup {"all"} -> Stats]

(* A figure of each kind, added up. *)
Total(f) == f["limit_no_trade"] + f["limit_trades"] + f["cancel"]

LEMMA TotalGrows ==
  ASSUME NEW f, NEW g, \A k \in CommandKinds : f[k] \in Int,
         NEW kind \in CommandKinds, NEW d \in Int, g[kind] = f[kind] + d,
         \A k \in CommandKinds \ {kind} : g[k] = f[k]
  PROVE  Total(g) = Total(f) + d
<1>1. PICK x \in Int, y \in Int, z \in Int :
        x = f["limit_no_trade"] /\ y = f["limit_trades"] /\ z = f["cancel"]
  BY DEF CommandKinds
<1>2. CASE kind = "limit_no_trade"
  <2>1. g["limit_no_trade"] = x + d /\ g["limit_trades"] = y /\ g["cancel"] = z
    BY <1>1, <1>2 DEF CommandKinds
  <2>2. (x + d) + y + z = (x + y + z) + d
    OBVIOUS
  <2> QED BY <1>1, <2>1, <2>2 DEF Total
<1>3. CASE kind = "limit_trades"
  <2>1. g["limit_no_trade"] = x /\ g["limit_trades"] = y + d /\ g["cancel"] = z
    BY <1>1, <1>3 DEF CommandKinds
  <2>2. x + (y + d) + z = (x + y + z) + d
    OBVIOUS
  <2> QED BY <1>1, <2>1, <2>2 DEF Total
<1>4. CASE kind = "cancel"
  <2>1. g["limit_no_trade"] = x /\ g["limit_trades"] = y /\ g["cancel"] = z + d
    BY <1>1, <1>4 DEF CommandKinds
  <2>2. x + y + (z + d) = (x + y + z) + d
    OBVIOUS
  <2> QED BY <1>1, <2>1, <2>2 DEF Total
<1> QED BY <1>2, <1>3, <1>4 DEF CommandKinds

(* The kinds of the profile p add up to these. *)
SumsTo(p, commands, allocs, bytes) ==
  /\ Total([k \in CommandKinds |-> p[k].commands]) = commands
  /\ Total([k \in CommandKinds |-> p[k].allocs]) = allocs
  /\ Total([k \in CommandKinds |-> p[k].bytes]) = bytes

LargestOfAll(p) ==
  /\ \A k \in CommandKinds : p[k].max_per_command <= p["all"].max_per_command
  /\ \E k \in CommandKinds : p[k].max_per_command = p["all"].max_per_command

(* p with a command booked under its kind. *)
WithCommand(p, kind, calls, bytes) ==
  [p EXCEPT ![kind] = Charge(p[kind], calls, bytes),
            !["all"].max_per_command = Charge(p["all"], calls, 0).max_per_command]

LEMMA Booked ==
  ASSUME NEW p \in Profiles, LargestOfAll(p), NEW kind \in CommandKinds,
         NEW n \in Int, NEW a \in Int, NEW b \in Int, SumsTo(p, n, a, b),
         NEW calls \in Int, NEW bytes \in Int,
         NEW q, q = WithCommand(p, kind, calls, bytes)
  PROVE  q \in Profiles /\ LargestOfAll(q) /\ SumsTo(q, n + 1, a + calls, b + bytes)
<1>0. PICK s, most : /\ s = Charge(p[kind], calls, bytes)
                     /\ most = Charge(p["all"], calls, 0).max_per_command
                     /\ q = [p EXCEPT ![kind] = s, !["all"].max_per_command = most]
  BY DEF WithCommand
<1>1. \A k \in CommandKinds : p[k] \in Stats /\ k # "all"
  BY DEF Profiles, CommandKinds
<1>2. p["all"] \in Stats
  BY DEF Profiles
<1>3. /\ s \in Stats
      /\ s.commands = p[kind].commands + 1 /\ s.allocs = p[kind].allocs + calls
      /\ s.bytes = p[kind].bytes + bytes
      /\ s.max_per_command = IF calls > p[kind].max_per_command
                                THEN calls ELSE p[kind].max_per_command
  BY <1>0, <1>1 DEF Charge, Stats
<1>4. /\ most \in Int /\ calls <= most /\ p["all"].max_per_command <= most
      /\ most = IF calls > p["all"].max_per_command
                  THEN calls ELSE p["all"].max_per_command
  BY <1>0, <1>2 DEF Charge, Stats
<1>5. /\ DOMAIN q = DOMAIN p /\ q[kind] = s
      /\ \A k \in CommandKinds \ {kind} : q[k] = p[k]
      /\ q["all"] = [p["all"] EXCEPT !.max_per_command = most]
  BY <1>0, <1>1 DEF Profiles
<1>6. q["all"] \in Stats /\ q["all"].max_per_command = most
  BY <1>2, <1>4, <1>5 DEF Stats
<1>7. q \in Profiles
  BY <1>0, <1>1, <1>3, <1>5, <1>6 DEF Profiles
<1>8. LargestOfAll(q)
  <2>1. ASSUME NEW k \in CommandKinds
        PROVE  /\ p[k].max_per_command <= p["all"].max_per_command
               /\ p[k].max_per_command \in Int /\ p["all"].max_per_command \in Int
    BY <1>1, <1>2 DEF LargestOfAll, Stats
  <2>2. ASSUME NEW k \in CommandKinds
        PROVE  q[k].max_per_command <= q["all"].max_per_command
    <3>1. q[k].max_per_command \in {calls, p[k].max_per_command}
      BY <1>3, <1>5
    <3> QED BY <1>4, <1>6, <2>1, <3>1
  <2>3. \E k \in CommandKinds : q[k].max_per_command = q["all"].max_per_command
    <3>1. CASE calls > p["all"].max_per_command
      <4>1. calls > p[kind].max_per_command
        BY <2>1, <3>1
      <4>2. q[kind].max_per_command = calls /\ q["all"].max_per_command = calls
        BY <1>3, <1>4, <1>5, <1>6, <3>1, <4>1
      <4> QED BY <4>2
    <3>2. CASE ~(calls > p["all"].max_per_command)
      <4>1. PICK k \in CommandKinds : p[k].max_per_command = p["all"].max_per_command
        BY DEF LargestOfAll
      <4>2. q["all"].max_per_command = p["all"].max_per_command
        BY <1>4, <1>6, <3>2
      <4>3. q[k].max_per_command = p[k].max_per_command
        BY <1>3, <1>5, <3>2, <4>1
      <4> QED BY <4>1, <4>2, <4>3
    <3> QED BY <3>1, <3>2
  <2> QED BY <2>2, <2>3 DEF LargestOfAll
<1>9. SumsTo(q, n + 1, a + calls, b + bytes)
  <2>1. \A r \in Stats : r.commands \in Int /\ r.allocs \in Int /\ r.bytes \in Int
    BY DEF Stats
  <2>2. \A k \in CommandKinds :
          p[k].commands \in Int /\ p[k].allocs \in Int /\ p[k].bytes \in Int
    BY <1>1, <2>1
  <2>3. /\ q[kind].commands = p[kind].commands + 1
        /\ q[kind].allocs = p[kind].allocs + calls
        /\ q[kind].bytes = p[kind].bytes + bytes
    BY <1>3, <1>5
  <2>4. \A k \in CommandKinds \ {kind} : q[k] = p[k]
    BY <1>5
  <2>5. Total([k \in CommandKinds |-> q[k].commands])
          = Total([k \in CommandKinds |-> p[k].commands]) + 1
    <3>1. PICK f, g : /\ f = [k \in CommandKinds |-> p[k].commands]
                      /\ g = [k \in CommandKinds |-> q[k].commands]
      OBVIOUS
    <3>2. \A k \in CommandKinds : f[k] \in Int
      BY <2>2, <3>1
    <3>3. g[kind] = f[kind] + 1 /\ \A k \in CommandKinds \ {kind} : g[k] = f[k]
      BY <2>3, <2>4, <3>1
    <3>4. Total(g) = Total(f) + 1
      BY <3>2, <3>3, TotalGrows
    <3> QED BY <3>1, <3>4
  <2>6. Total([k \in CommandKinds |-> q[k].allocs])
          = Total([k \in CommandKinds |-> p[k].allocs]) + calls
    <3>1. PICK f, g : /\ f = [k \in CommandKinds |-> p[k].allocs]
                      /\ g = [k \in CommandKinds |-> q[k].allocs]
      OBVIOUS
    <3>2. \A k \in CommandKinds : f[k] \in Int
      BY <2>2, <3>1
    <3>3. g[kind] = f[kind] + calls /\ \A k \in CommandKinds \ {kind} : g[k] = f[k]
      BY <2>3, <2>4, <3>1
    <3>4. Total(g) = Total(f) + calls
      BY <3>2, <3>3, TotalGrows
    <3> QED BY <3>1, <3>4
  <2>7. Total([k \in CommandKinds |-> q[k].bytes])
          = Total([k \in CommandKinds |-> p[k].bytes]) + bytes
    <3>1. PICK f, g : /\ f = [k \in CommandKinds |-> p[k].bytes]
                      /\ g = [k \in CommandKinds |-> q[k].bytes]
      OBVIOUS
    <3>2. \A k \in CommandKinds : f[k] \in Int
      BY <2>2, <3>1
    <3>3. g[kind] = f[kind] + bytes /\ \A k \in CommandKinds \ {kind} : g[k] = f[k]
      BY <2>3, <2>4, <3>1
    <3>4. Total(g) = Total(f) + bytes
      BY <3>2, <3>3, TotalGrows
    <3> QED BY <3>1, <3>4
  <2> QED BY <2>5, <2>6, <2>7 DEF SumsTo
<1> QED BY <1>7, <1>8, <1>9

(***************************************************************************)
(* The kinds add up to what has been measured so far: nothing until the    *)
(* first measured command begins, and then everything from region_start to *)
(* the snapshot before the running command.                                *)
(***************************************************************************)
Unmeasured == at < Warmup \/ (at = Warmup /\ pc = "idle")

ProfileInv ==
  /\ profile \in Profiles
  /\ LargestOfAll(profile)
  /\ before \in [calls: Nat, bytes: Nat] /\ region_start \in [calls: Nat, bytes: Nat]
  /\ program = "bench_allocs" => stage \in {"clock", "generate", "profile", "exit0"}
  /\ stage \in {"clock", "noop", "generate"} => SumsTo(profile, 0, 0, 0)
  /\ stage \in Passes => /\ Len(out) = Ops
                         /\ at \in 0 .. Ops
                         /\ at = Ops => pc = "idle"
  /\ stage = "profile" =>
       IF Unmeasured
         THEN SumsTo(profile, 0, 0, 0)
         ELSE SumsTo(profile, at - Warmup, SnapshotBefore.calls - region_start.calls,
                     SnapshotBefore.bytes - region_start.bytes)
  /\ program = "bench_allocs" /\ stage = "exit0" =>
       SumsTo(profile, profile["all"].commands, profile["all"].allocs,
              profile["all"].bytes)

LEMMA AccountsStart ==
  ASSUME BenchInit
  PROVE  PassInv /\ ProfileInv
<1>1. /\ room = 0 /\ largest = 0 /\ at = 0 /\ stage = "clock"
      /\ heap = [calls |-> 0, bytes |-> 0]
      /\ before = [calls |-> 0, bytes |-> 0] /\ region_start = [calls |-> 0, bytes |-> 0]
      /\ profile = [k \in CommandKinds \cup {"all"} |-> NoStats]
  BY DEF BenchInit, NoSnapshot
<1>2. PassInv
  BY <1>1 DEF PassInv, Passes
<1>3. profile \in Profiles /\ LargestOfAll(profile) /\ SumsTo(profile, 0, 0, 0)
  <2>1. /\ NoStats \in Stats /\ NoStats.commands = 0 /\ NoStats.allocs = 0
        /\ NoStats.bytes = 0 /\ NoStats.max_per_command = 0
    BY DEF NoStats, Stats
  <2>2. \A k \in CommandKinds \cup {"all"} : profile[k] = NoStats
    BY <1>1
  <2>3. profile \in Profiles
    BY <1>1, <2>1 DEF Profiles
  <2>4. LargestOfAll(profile)
    BY <2>1, <2>2 DEF LargestOfAll, CommandKinds
  <2>5. /\ Total([k \in CommandKinds |-> profile[k].commands]) = 0
        /\ Total([k \in CommandKinds |-> profile[k].allocs]) = 0
        /\ Total([k \in CommandKinds |-> profile[k].bytes]) = 0
    BY <2>1, <2>2 DEF Total, CommandKinds
  <2>6. SumsTo(profile, 0, 0, 0)
    BY <2>5 DEF SumsTo
  <2> QED BY <2>3, <2>4, <2>6
<1>4. before \in [calls: Nat, bytes: Nat] /\ region_start \in [calls: Nat, bytes: Nat]
  BY <1>1
<1>5. ProfileInv
  BY <1>1, <1>3, <1>4 DEF ProfileInv, Passes
<1> QED BY <1>2, <1>5

(* A fresh pass has measured nothing. *)
LEMMA BeginPassProfile ==
  ASSUME ProfileInv, NEW pass \in Passes, BeginPass(pass),
         UNCHANGED <<out, program, profile>>,
         Len(out) = Ops, pass = "profile" => SumsTo(profile, 0, 0, 0),
         program = "bench_allocs" => pass = "profile"
  PROVE  ProfileInv'
<1>1. /\ stage' = pass /\ at' = 0 /\ pc' = "idle"
      /\ before' = [calls |-> 0, bytes |-> 0] /\ region_start' = [calls |-> 0, bytes |-> 0]
  BY DEF BeginPass, Construct, Finish, NoSnapshot
<1>2. before' \in [calls: Nat, bytes: Nat] /\ region_start' \in [calls: Nat, bytes: Nat]
  BY <1>1
<1>3. Unmeasured' /\ at' \in 0 .. Ops
  BY <1>1, WarmupAssumption, IdsAssumption DEF Unmeasured
<1>4. profile' \in Profiles /\ LargestOfAll(profile')
  BY DEF ProfileInv
<1>5. pass \notin {"clock", "noop", "generate", "exit0"}
  BY DEF Passes
<1>6. stage' = "profile" => SumsTo(profile', 0, 0, 0)
  BY <1>1
<1>7. program' = "bench_allocs" => stage' = "profile"
  BY <1>1
<1>8. Len(out') = Ops
  OBVIOUS
<1> HIDE DEF Unmeasured, SnapshotBefore, SumsTo, LargestOfAll
<1> QED BY <1>1, <1>2, <1>3, <1>4, <1>5, <1>6, <1>7, <1>8 DEF ProfileInv

(***************************************************************************)
(* A step of a pass keeps the profile's books, measured or not.            *)
(***************************************************************************)
LEMMA PassProfile ==
  ASSUME PassInv, ProfileInv, Pass
  PROVE  ProfileInv'
<1>1. PICK c, from : c = out[at + 1] /\ from = SnapshotBefore
  OBVIOUS
<1>2. /\ stage \in Passes /\ at < Len(out)
      /\ stage' = stage /\ program' = program /\ out' = out
      /\ before' = from
      /\ region_start' = IF pc = "idle" /\ at = Warmup THEN heap ELSE region_start
  BY <1>1 DEF Pass, genVars
<1>3. /\ pc' # "idle" => at' = at /\ profile' = profile
      /\ pc' = "idle" => /\ at' = at + 1
                         /\ at < Warmup => profile' = profile
                         /\ at >= Warmup => Measure(c, from)
  <2>1. /\ pc' # "idle" => at' = at /\ profile' = profile
        /\ pc' = "idle" => /\ at' = at + 1
                           /\ IF at >= Warmup THEN Measure(c, from)
                              ELSE UNCHANGED <<counted, profile>>
    BY <1>1 DEF Pass
  <2>2. at \in Nat /\ Warmup \in Nat
    BY <1>2, WarmupAssumption, IdsAssumption DEF ProfileInv
  <2> QED BY <2>1, <2>2
<1>4. /\ heap \in [calls: Nat, bytes: Nat] /\ heap' \in [calls: Nat, bytes: Nat]
      /\ from \in [calls: Nat, bytes: Nat] /\ region_start \in [calls: Nat, bytes: Nat]
  BY <1>1, PassGrows DEF PassInv, ProfileInv, SnapshotBefore
<1>5. before' \in [calls: Nat, bytes: Nat] /\ region_start' \in [calls: Nat, bytes: Nat]
  BY <1>2, <1>4
<1>6. /\ Ops \in Nat /\ Len(out) = Ops /\ at \in Nat /\ at < Ops
      /\ Warmup \in Nat /\ Warmup < Ops
  BY <1>2, WarmupAssumption, IdsAssumption DEF ProfileInv
<1>7. at' \in 0 .. Ops /\ (at' = Ops => pc' = "idle") /\ Len(out') = Ops
  BY <1>2, <1>3, <1>6
<1>8. /\ profile \in Profiles /\ LargestOfAll(profile)
      /\ program = "bench_allocs" => stage \in {"clock", "generate", "profile", "exit0"}
  BY DEF ProfileInv
<1>9. PICK f \in Int, g \in Int, h \in Int, k \in Int :
        f = from.calls /\ g = from.bytes /\ h = heap'.calls /\ k = heap'.bytes
  BY <1>4
<1>10. PICK r, s : r = region_start'.calls /\ s = region_start'.bytes
  OBVIOUS
<1>11. r \in Int /\ s \in Int
  BY <1>5, <1>10
<1>12. ASSUME stage = "profile", at >= Warmup
       PROVE  SumsTo(profile, at - Warmup, f - r, g - s)
  <2>1. CASE pc = "idle" /\ at = Warmup
    <3>1. SumsTo(profile, 0, 0, 0)
      BY <1>12, <2>1 DEF ProfileInv, Unmeasured
    <3>2. from = heap /\ region_start' = heap
      BY <1>1, <1>2, <2>1 DEF SnapshotBefore
    <3>3. at - Warmup = 0 /\ f - r = 0 /\ g - s = 0
      BY <1>6, <1>9, <1>10, <2>1, <3>2
    <3> QED BY <3>1, <3>3
  <2>2. CASE ~(pc = "idle" /\ at = Warmup)
    <3>1. ~Unmeasured /\ region_start' = region_start
      BY <1>2, <1>6, <1>12, <2>2 DEF Unmeasured
    <3>2. SumsTo(profile, at - Warmup, SnapshotBefore.calls - region_start.calls,
                 SnapshotBefore.bytes - region_start.bytes)
      BY <1>12, <3>1 DEF ProfileInv
    <3> QED BY <1>1, <1>9, <1>10, <3>1, <3>2
  <2> QED BY <2>1, <2>2
<1>13. ASSUME stage = "profile", pc' = "idle", at >= Warmup
       PROVE  /\ profile' \in Profiles /\ LargestOfAll(profile')
              /\ SumsTo(profile', at' - Warmup, h - r, k - s)
  <2>1. PICK a \in Int, b \in Int : a = h - f /\ b = k - g
    BY <1>9
  <2>6. PICK kind \in CommandKinds : profile' = WithCommand(profile, kind, a, b)
    <3>1. Measure(c, from)
      BY <1>3, <1>13
    <3>2. heap'.calls - from.calls = a /\ heap'.bytes - from.bytes = b
      BY <1>9, <2>1
    <3> QED BY <1>13, <3>1, <3>2 DEF Measure, Most, CommandKinds, WithCommand
  <2>2. PICK n \in Int, x \in Int, y \in Int : n = at - Warmup /\ x = f - r /\ y = g - s
    BY <1>6, <1>9, <1>11
  <2>3. SumsTo(profile, n, x, y)
    BY <1>12, <1>13, <2>2
  <2>4. /\ profile' \in Profiles /\ LargestOfAll(profile')
        /\ SumsTo(profile', n + 1, x + a, y + b)
    BY <1>8, <2>1, <2>2, <2>3, <2>6, Booked
  <2>5. n + 1 = at' - Warmup /\ x + a = h - r /\ y + b = k - s
    <3>1. at' = at + 1
      BY <1>3, <1>13
    <3>2. n + 1 = at' - Warmup
      BY <1>6, <2>2, <3>1
    <3>3. x + a = h - r
      BY <1>9, <1>11, <2>1, <2>2
    <3>4. y + b = k - s
      BY <1>9, <1>11, <2>1, <2>2
    <3> QED BY <3>2, <3>3, <3>4
  <2> QED BY <2>4, <2>5
<1>14. profile' \in Profiles /\ LargestOfAll(profile')
  <2>1. CASE stage = "profile" /\ pc' = "idle" /\ at >= Warmup
    BY <1>13, <2>1
  <2>2. CASE ~(stage = "profile" /\ pc' = "idle" /\ at >= Warmup)
    <3>1. profile' = profile
      BY <1>3, <1>6, <2>2 DEF Measure
    <3> QED BY <1>8, <3>1
  <2> QED BY <2>1, <2>2
<1>15. ASSUME stage = "profile"
       PROVE  IF Unmeasured'
                THEN SumsTo(profile', 0, 0, 0)
                ELSE SumsTo(profile', at' - Warmup,
                            SnapshotBefore'.calls - region_start'.calls,
                            SnapshotBefore'.bytes - region_start'.bytes)
  <2>1. CASE at < Warmup
    <3>1. profile' = profile /\ Unmeasured'
      BY <1>3, <1>6, <2>1 DEF Unmeasured
    <3>2. SumsTo(profile, 0, 0, 0)
      BY <1>15, <2>1 DEF ProfileInv, Unmeasured
    <3> QED BY <3>1, <3>2
  <2>2. CASE at >= Warmup /\ pc' = "idle"
    <3>1. ~Unmeasured' /\ SnapshotBefore' = heap'
      BY <1>3, <1>6, <2>2 DEF Unmeasured, SnapshotBefore
    <3>2. SumsTo(profile', at' - Warmup, h - r, k - s)
      BY <1>13, <1>15, <2>2
    <3> QED BY <1>9, <1>10, <3>1, <3>2
  <2>3. CASE at >= Warmup /\ pc' # "idle"
    <3>1. ~Unmeasured' /\ SnapshotBefore' = from /\ at' = at /\ profile' = profile
      BY <1>2, <1>3, <1>6, <2>3 DEF Unmeasured, SnapshotBefore
    <3>2. SumsTo(profile, at - Warmup, f - r, g - s)
      BY <1>12, <1>15, <2>3
    <3> QED BY <1>9, <1>10, <3>1, <3>2
  <2> QED BY <1>6, <2>1, <2>2, <2>3
<1>16. stage' \notin {"clock", "noop", "generate", "exit0"}
  BY <1>2 DEF Passes
<1> HIDE DEF Unmeasured, SnapshotBefore, SumsTo, LargestOfAll
<1> QED BY <1>2, <1>5, <1>7, <1>8, <1>14, <1>15, <1>16 DEF ProfileInv

(* The other stages do not touch the profile. *)
LEMMA StageProfile ==
  ASSUME ProfileInv,
         UNCHANGED <<program, profile, before, region_start>>,
         program = "bench_allocs" => stage' \in {"clock", "generate"},
         stage \in {"clock", "noop", "generate"},
         stage' \notin Passes, stage' # "exit0" \/ program # "bench_allocs"
  PROVE  ProfileInv'
<1>1. stage' # "profile"
  BY DEF Passes
<1>2. SumsTo(profile, 0, 0, 0)
  BY DEF ProfileInv
<1> HIDE DEF SumsTo, LargestOfAll
<1> QED BY <1>1, <1>2 DEF ProfileInv

LEMMA AccountsStep ==
  ASSUME PassInv, ProfileInv, [BenchNext]_benchVars
  PROVE  PassInv' /\ ProfileInv'
<1> USE DEF Passes
<1>1. CASE Calibrate \/ ClockReady \/ Noop \/ NoopDone \/ Stream
  <2>1. /\ UNCHANGED <<program, profile, before, region_start, room, largest, heap>>
        /\ stage \in {"clock", "noop", "generate"}
    BY <1>1 DEF Calibrate, ClockReady, Noop, NoopDone, Stream, passVars
  <2>2. /\ stage' \in {"clock", "noop", "generate", "exit0", "exit1"}
        /\ program = "bench_allocs" => stage' \in {"clock", "generate"}
    <3>1. program = "bench_allocs" => stage \in {"clock", "generate"}
      BY <2>1 DEF ProfileInv
    <3> QED BY <1>1, <2>1, <3>1 DEF Calibrate, ClockReady, Noop, NoopDone, Stream, verdict
  <2>3. PassInv'
    BY <2>1, <2>2 DEF PassInv
  <2>4. ProfileInv'
    BY <2>1, <2>2, StageProfile
  <2> QED BY <2>3, <2>4
<1>2. CASE StreamReady
  <2>1. /\ stage = "generate" /\ Len(out) = Ops /\ UNCHANGED <<out, program, profile>>
    BY <1>2 DEF StreamReady
  <2>2. SumsTo(profile, 0, 0, 0)
    BY <2>1 DEF ProfileInv
  <2>3. CASE program = "bench_w1" /\ ~EnoughSamples
    <3>1. stage' = "exit1" /\ UNCHANGED <<room, largest, heap, before, region_start>>
      BY <1>2, <2>3 DEF StreamReady
    <3>2. PassInv'
      BY <3>1 DEF PassInv
    <3>3. ProfileInv'
      BY <2>1, <2>3, <3>1, StageProfile
    <3> QED BY <3>2, <3>3
  <2>4. CASE ~(program = "bench_w1" /\ ~EnoughSamples)
    <3>1. PICK pass \in Passes : /\ BeginPass(pass)
                                 /\ program = "bench_allocs" => pass = "profile"
      BY <1>2, <2>4 DEF StreamReady
    <3>2. PassInv'
      BY <3>1, BeginPassInv
    <3>3. ProfileInv'
      BY <2>1, <2>2, <3>1, BeginPassProfile
    <3> QED BY <3>2, <3>3
  <2> QED BY <2>3, <2>4
<1>3. CASE Pass
  BY <1>3, PassGrows, PassProfile
<1>4. CASE WholeDone
  <2>1. /\ stage = "whole" /\ BeginPass("per_op")
        /\ UNCHANGED <<out, program, profile>>
    BY <1>4 DEF WholeDone, genVars
  <2>2. Len(out) = Ops /\ program # "bench_allocs"
    BY <2>1 DEF ProfileInv
  <2>3. PassInv'
    BY <2>1, BeginPassInv
  <2>4. ProfileInv'
    BY <2>1, <2>2, BeginPassProfile
  <2> QED BY <2>3, <2>4
<1>5. CASE PerOpDone
  <2>1. /\ stage = "per_op" /\ stage' \in {"abort", "exit0"}
        /\ UNCHANGED <<program, profile, before, region_start, room, largest, heap>>
    BY <1>5 DEF PerOpDone, passVars
  <2>2. program # "bench_allocs"
    BY <2>1 DEF ProfileInv
  <2>3. PassInv'
    BY <2>1 DEF PassInv
  <2>4. ProfileInv'
    BY <2>1, <2>2 DEF ProfileInv
  <2> QED BY <2>3, <2>4
<1>6. CASE ProfileDone
  <2>1. /\ stage = "profile" /\ at = Len(out) /\ stage' = "exit0"
        /\ UNCHANGED <<program, before, region_start, room, largest, heap>>
    BY <1>6 DEF ProfileDone
  <2>2. PassInv'
    BY <2>1 DEF PassInv
  <2>3. /\ Len(out) = Ops /\ pc = "idle" /\ Ops \in Nat /\ Warmup \in 0 .. Ops - 1
        /\ profile \in Profiles /\ LargestOfAll(profile)
    BY <2>1, WarmupAssumption, IdsAssumption DEF ProfileInv
  <2>4. ~Unmeasured /\ SnapshotBefore = heap
    BY <2>1, <2>3 DEF Unmeasured, SnapshotBefore
  <2>5. PICK c, a, b : /\ c = Len(out) - Warmup
                       /\ a = heap.calls - region_start.calls
                       /\ b = heap.bytes - region_start.bytes
    OBVIOUS
  <2>6. c \in Int /\ a \in Int /\ b \in Int
    BY <2>3, <2>5 DEF PassInv, ProfileInv
  <2>7. SumsTo(profile, c, a, b)
    BY <2>1, <2>4, <2>5 DEF ProfileInv
  <2>8. profile' = [profile EXCEPT !["all"].commands = c, !["all"].allocs = a,
                                   !["all"].bytes = b]
    BY <1>6, <2>5 DEF ProfileDone
  <2>9. profile["all"] \in Stats /\ "all" \in DOMAIN profile
        /\ DOMAIN profile = CommandKinds \cup {"all"} /\ "all" \notin CommandKinds
    BY <2>3 DEF Profiles, CommandKinds
  <2>10. /\ DOMAIN profile' = DOMAIN profile
         /\ \A k \in CommandKinds : profile'[k] = profile[k]
         /\ profile'["all"] = [profile["all"] EXCEPT !.commands = c, !.allocs = a,
                                                     !.bytes = b]
    BY <2>8, <2>9
  <2>11. /\ profile'["all"] \in Stats
         /\ profile'["all"].commands = c /\ profile'["all"].allocs = a
         /\ profile'["all"].bytes = b
         /\ profile'["all"].max_per_command = profile["all"].max_per_command
    BY <2>6, <2>9, <2>10 DEF Stats
  <2>12. profile' \in Profiles
    BY <2>3, <2>8, <2>9, <2>10, <2>11 DEF Profiles
  <2>13. LargestOfAll(profile')
    BY <2>3, <2>10, <2>11 DEF LargestOfAll
  <2>14. SumsTo(profile', c, a, b)
    <3>1. /\ [k \in CommandKinds |-> profile'[k].commands]
               = [k \in CommandKinds |-> profile[k].commands]
          /\ [k \in CommandKinds |-> profile'[k].allocs]
               = [k \in CommandKinds |-> profile[k].allocs]
          /\ [k \in CommandKinds |-> profile'[k].bytes]
               = [k \in CommandKinds |-> profile[k].bytes]
      BY <2>10
    <3> QED BY <2>7, <3>1 DEF SumsTo
  <2>15. ProfileInv'
    <3> HIDE DEF SumsTo, LargestOfAll, Unmeasured, SnapshotBefore
    <3> QED BY <2>1, <2>11, <2>12, <2>13, <2>14 DEF ProfileInv
  <2> QED BY <2>2, <2>15
<1>7. CASE Exited \/ UNCHANGED benchVars
  <2>1. UNCHANGED <<program, stage, at, room, heap, before, region_start, profile,
                    largest, result, pc, out>>
    BY <1>7 DEF Exited, benchVars, vars, commandVars, genVars, passVars
  <2>2. PassInv'
    BY <2>1 DEF PassInv, HasTrades
  <2>3. ProfileInv'
    BY <2>1 DEF ProfileInv, SumsTo, LargestOfAll, Unmeasured, SnapshotBefore
  <2> QED BY <2>2, <2>3
<1> QED BY <1>1, <1>2, <1>3, <1>4, <1>5, <1>6, <1>7 DEF BenchNext, Work

LEMMA AccountsInvariance == BenchSpec => [](PassInv /\ ProfileInv)
<1>1. BenchInit => PassInv /\ ProfileInv
  BY AccountsStart
<1>2. (PassInv /\ ProfileInv) /\ [BenchNext]_benchVars => (PassInv /\ ProfileInv)'
  BY AccountsStep
<1> QED BY <1>1, <1>2, PTL DEF BenchSpec

(***************************************************************************)
(* The figures of the allocation profile's region, which are taken around  *)
(* the loop, are the sums of those taken around each command.              *)
(***************************************************************************)
THEOREM AllocsAlwaysAddUp == BenchSpec => []AllocsAddUp
<1>1. ASSUME PassInv, ProfileInv PROVE AllocsAddUp
  <2> SUFFICES ASSUME program = "bench_allocs", stage = "exit0"
               PROVE  AllocsAddUp
    BY DEF AllocsAddUp
  <2>1. /\ SumsTo(profile, profile["all"].commands, profile["all"].allocs,
                  profile["all"].bytes)
        /\ LargestOfAll(profile)
    BY <1>1 DEF ProfileInv
  <2>2. /\ profile["limit_no_trade"].commands + profile["limit_trades"].commands
             + profile["cancel"].commands = profile["all"].commands
        /\ profile["limit_no_trade"].allocs + profile["limit_trades"].allocs
             + profile["cancel"].allocs = profile["all"].allocs
        /\ profile["limit_no_trade"].bytes + profile["limit_trades"].bytes
             + profile["cancel"].bytes = profile["all"].bytes
    BY <2>1 DEF SumsTo, Total, CommandKinds
  <2> QED BY <2>1, <2>2 DEF AllocsAddUp, LargestOfAll
<1> QED BY <1>1, AccountsInvariance, PTL

(***************************************************************************)
(* ADR-008: with one result for a whole pass, a command allocates only if  *)
(* it makes more trades than every one before it.                          *)
(***************************************************************************)
THEOREM AllocatesForMoreTradesOnly == BenchSpec => AllocatesOnlyForMoreTrades
<1>1. ASSUME PassInv, ProfileInv, [BenchNext]_benchVars
      PROVE  [heap'.calls > heap.calls /\ stage \in Passes
                => Len(result'.trades) > largest]_benchVars
  <2> SUFFICES ASSUME BenchNext, heap'.calls > heap.calls, stage \in Passes
               PROVE  Len(result'.trades) > largest
    BY <1>1
  <2>1. heap.calls \in Nat
    BY <1>1 DEF PassInv
  <2>2. Pass
    <3>1. heap' # heap /\ heap' # NoSnapshot
      BY <2>1 DEF NoSnapshot
    <3> QED BY <3>1 DEF BenchNext, Work, Calibrate, ClockReady, Noop, NoopDone, Stream,
                        StreamReady, WholeDone, PerOpDone, ProfileDone, Exited, Passes,
                        BeginPass, passVars, benchVars
  <2> QED BY <1>1, <2>2, PassGrows
<1> QED BY <1>1, AccountsInvariance, PTL DEF BenchSpec, AllocatesOnlyForMoreTrades

-----------------------------------------------------------------------------
(* The numbers of a log. *)

(* Whatever append_side finds at a level is an order of the pool. *)
SnapshotInPool ==
  \A o \in OrdersOf(snapshot) : \E i \in Index : Live(i) /\ o = slots[i]

LEMMA SnapshotOrders == IndInv => SnapshotInPool
<1> SUFFICES ASSUME IndInv, NEW o \in OrdersOf(snapshot)
             PROVE  \E i \in Index : Live(i) /\ o = slots[i]
  BY DEF SnapshotInPool
<1>1. PICK s, p, k : /\ s \in Side /\ p \in DOMAIN snapshot[s]
                     /\ k \in DOMAIN snapshot[s][p] /\ o = snapshot[s][p][k]
  BY DEF OrdersOf
<1>2. p \in prices[s] /\ p \in Price /\ snapshot[s][p] = Walk(s, p)
  BY <1>1 DEF snapshot, IndInv, TypeOK
<1>3. PICK n, ch :
        /\ n \in 0 .. Capacity
        /\ Enumerates(Queue(s, p), ch, n, level[s][p].tail)
        /\ Walk(s, p) = [j \in 1 .. n |-> slots[ch[j]]]
  BY <1>1, <1>2, WalkLists
<1>4. k \in 1 .. n /\ o = slots[ch[k]]
  BY <1>1, <1>2, <1>3
<1>5. ch[k] \in Index /\ Live(ch[k])
  BY <1>3, <1>4 DEF Enumerates, Queue, Linked
<1> QED BY <1>4, <1>5

(* The command that a step belongs to. *)
Running(c) == IF pc = "idle" THEN c ELSE cmd

(* A command takes one number, when it starts. *)
LEMMA CounterStep ==
  ASSUME IndInv, NEW c \in Commands, Start(c) \/ Step
  PROVE  /\ next_seq \in Nat
         /\ next_seq' = IF pc = "idle" THEN next_seq + 1 ELSE next_seq
         /\ pc' # "idle" => cmd' = Running(c)
<1>1. next_seq \in Nat
  BY MaxCommandsAssumption DEF IndInv, TypeOK
<1>2. CASE Start(c)
  BY <1>1, <1>2 DEF Start, AddReject, AddAccept, ModifyReject, ModifyInPlace, ModifyMove,
     CancelMiss, CancelOrder, Dequeue, Finish, Goto, Running
<1>3. CASE Step
  BY <1>1, <1>3 DEF Step, FokLevel, FokOrder, FokReject, FokPass, CrossPartial,
     CrossFull, CrossStop, CrossDone, CrossResidual, RestLevel, RestFull, RestAllocate,
     RestAppend, ModifyLevel, ModifyAppend, Finish, Goto, Running, counterVars, Fill
<1> QED BY <1>2, <1>3

(* The orders of the pool after a step were there before it, or carry the  *)
(* number and the id of the running command.                               *)
LEMMA SlotStep ==
  ASSUME IndInv, NEW c \in Commands, Start(c) \/ Step,
         NEW i \in Index, Live(i)'
  PROVE  \/ /\ Live(i)
            /\ slots'[i].seq_no = slots[i].seq_no
            /\ slots'[i].order_id = slots[i].order_id
         \/ /\ slots'[i].seq_no = next_seq' - 1
            /\ slots'[i].order_id = Running(c).id
<1>0. slots \in [Index -> Order \cup {Undef}]
  BY DEF IndInv, TypeOK, PoolTypeOK
<1>1. ASSUME slots' = slots PROVE Live(i) /\ slots'[i] = slots[i]
  BY <1>1 DEF Live
<1>2. CASE \/ AddReject(c) \/ AddAccept(c) \/ ModifyReject(c) \/ CancelMiss(c)
           \/ FokLevel \/ FokOrder \/ FokReject \/ FokPass \/ CrossStop \/ CrossDone
           \/ CrossResidual \/ RestLevel \/ RestFull \/ RestAppend
           \/ ModifyLevel \/ ModifyAppend
  <2>1. slots' = slots
    BY <1>2 DEF AddReject, AddAccept, ModifyReject, CancelMiss, FokLevel, FokOrder,
       FokReject, FokPass, CrossStop, CrossDone, CrossResidual, RestLevel, RestFull,
       RestAppend, ModifyLevel, ModifyAppend, poolVars
  <2> QED BY <1>1, <2>1
<1>3. ASSUME NEW j \in Index, NEW q, Live(j), slots' = [slots EXCEPT ![j].qty = q]
      PROVE  /\ Live(i)
             /\ slots'[i].seq_no = slots[i].seq_no
             /\ slots'[i].order_id = slots[i].order_id
  <2>1. CASE i = j
    <3>1. slots[j] \in Order /\ slots'[j] = [slots[j] EXCEPT !.qty = q]
      BY <1>0, <1>3 DEF Live
    <3> QED BY <1>3, <2>1, <3>1 DEF Order
  <2>2. CASE i # j
    <3>1. slots'[i] = slots[i]
      BY <1>0, <1>3, <2>2
    <3> QED BY <3>1 DEF Live
  <2> QED BY <2>1, <2>2
<1>4. CASE ModifyInPlace(c)
  <2>1. pc = "idle" /\ Found(c)
        /\ slots' = [slots EXCEPT ![id_map[c.id].index].qty = c.qty]
    BY <1>4 DEF ModifyInPlace, ModifyRefused, Dequeue
  <2> QED BY <1>3, <2>1, FoundOrder DEF Linked
<1>5. CASE CrossPartial
  <2>1. PICK p \in Price :
          LET j == level[Opposite(cmd.side)][p].head
          IN  /\ j # kNilIndex
              /\ slots' = [slots EXCEPT ![j].qty = @ - left]
    BY <1>5 DEF CrossPartial
  <2>2. PICK j : j = level[Opposite(cmd.side)][p].head
    OBVIOUS
  <2>3. j \in Index /\ Live(j)
    BY <1>5, <2>1, <2>2, Maker DEF CrossPartial, Linked
  <2>4. slots' = [slots EXCEPT ![j].qty = slots[j].qty - left]
    BY <2>1, <2>2
  <2> QED BY <1>3, <2>3, <2>4
<1>6. ASSUME NEW h, free(h) PROVE Live(i) /\ slots'[i] = slots[i]
  BY <1>0, <1>6 DEF free, Live, validate
<1>7. CASE CancelOrder(c) \/ CrossFull
  <2>1. \E h : free(h)
    BY <1>7 DEF CancelOrder, CrossFull
  <2> QED BY <1>6, <2>1
<1>8. CASE ModifyMove(c)
  <2>1. PICK j : j = id_map[c.id].index
    OBVIOUS
  <2>2. /\ pc = "idle" /\ Found(c) /\ next_seq' = next_seq + 1
        /\ slots' = [slots EXCEPT ![j] = Repositioned(slots[j], c)]
    BY <1>8, <2>1 DEF ModifyMove, ModifyRefused, Dequeue
  <2>3. j \in Index /\ slots[j].order_id = c.id
    BY <2>1, <2>2, FoundOrder
  <2>4. next_seq \in Nat
    BY CounterStep
  <2>5. CASE i = j
    <3>1. slots'[i] = Repositioned(slots[j], c)
      BY <1>0, <2>2, <2>3, <2>5
    <3> QED BY <2>2, <2>3, <2>4, <3>1 DEF Repositioned, Running
  <2>6. CASE i # j
    BY <1>0, <2>2, <2>6 DEF Live
  <2> QED BY <2>5, <2>6
<1>9. CASE RestAllocate
  <2>1. /\ pc = "allocate" /\ next_seq' = next_seq /\ ~exhausted
        /\ slots' = [slots EXCEPT ![free_head] = incoming]
    BY <1>9 DEF RestAllocate, allocate, counterVars
  <2>2. CASE i = free_head
    <3>1. slots'[i] = incoming
      BY <1>0, <2>1, <2>2
    <3> QED BY <2>1, <3>1 DEF incoming, seq, Running
  <2>3. CASE i # free_head
    BY <1>0, <2>1, <2>3 DEF Live
  <2> QED BY <2>2, <2>3
<1> QED BY <1>2, <1>4, <1>5, <1>7, <1>8, <1>9 DEF Start, Step

(* The trades of the command at a position, as far as their numbers go.    *)
Numbered(trades, position, id) ==
  \A k \in DOMAIN trades : /\ trades[k].seq_no = position
                           /\ trades[k].taker_order_id = id

(* Every trade a command has reported carries its number and its id.       *)
LEMMA TradesNumbered ==
  ASSUME IndInv, NEW c \in Commands, Start(c) \/ Step,
         pc # "idle" => Numbered(result.trades, next_seq - 1, cmd.id)
  PROVE  Numbered(result'.trades, next_seq' - 1, Running(c).id)
<1>1. CASE \/ AddReject(c) \/ AddAccept(c) \/ ModifyReject(c) \/ ModifyInPlace(c)
           \/ ModifyMove(c) \/ CancelMiss(c) \/ CancelOrder(c) \/ ModifyAppend
  <2>1. \E ok : result' = Outcome(ok)
    BY <1>1 DEF AddReject, AddAccept, ModifyReject, ModifyInPlace, ModifyMove,
                CancelMiss, CancelOrder, ModifyAppend, Finish
  <2>2. result'.trades = <<>>
    BY <2>1 DEF Outcome
  <2>3. DOMAIN result'.trades = {}
    BY <2>2
  <2> QED BY <2>3 DEF Numbered
<1>2. CASE \/ FokReject \/ CrossStop \/ CrossDone \/ RestFull \/ RestAppend
           \/ FokLevel \/ FokOrder \/ FokPass \/ CrossResidual \/ RestLevel
           \/ RestAllocate \/ ModifyLevel
  <2>1. pc # "idle" /\ next_seq' = next_seq
    BY <1>2 DEF FokReject, CrossStop, CrossDone, RestFull, RestAppend, FokLevel,
       FokOrder, FokPass, CrossResidual, RestLevel, RestAllocate, ModifyLevel,
       counterVars
  <2>2. result' = result \/ \E stp, full, resting : result' = Accepted(stp, full, resting)
    BY <1>2 DEF FokReject, CrossStop, CrossDone, RestFull, RestAppend, FokLevel,
       FokOrder, FokPass, CrossResidual, RestLevel, RestAllocate, ModifyLevel, Finish
  <2>3. result'.trades = result.trades
    BY <2>2 DEF Accepted
  <2> QED BY <2>1, <2>3 DEF Running
<1>3. CASE CrossPartial \/ CrossFull
  <2>1. pc # "idle" /\ next_seq' = next_seq /\ \E maker, fill : Fill(maker, fill)
    BY <1>3 DEF CrossPartial, CrossFull
  <2>2. PICK x, t : /\ x.seq_no = seq /\ x.taker_order_id = cmd.id
                    /\ t = result.trades
                    /\ result' = [result EXCEPT !.trades = Append(t, x)]
    BY <2>1 DEF Fill, TradeWith
  <2>3. result \in AddResult
    BY DEF IndInv, TypeOK
  <2>4. t \in Seq(Trade) /\ result'.trades = Append(t, x)
    BY <2>2, <2>3 DEF AddResult
  <2>5. ASSUME NEW k \in DOMAIN result'.trades
        PROVE  result'.trades[k].seq_no = seq /\ result'.trades[k].taker_order_id = cmd.id
    <3>1. \E S : t \in Seq(S) /\ x \in S
      <4>1. PICK S : S = Trade \cup {x}
        OBVIOUS
      <4>2. t \in Seq(S) /\ x \in S
        BY <2>4, <4>1
      <4> QED BY <4>2
    <3>2. \/ k \in DOMAIN t /\ result'.trades[k] = t[k]
          \/ result'.trades[k] = x
      BY <2>4, <2>5, <3>1, AppendProperties
    <3> QED BY <2>1, <2>2, <3>2 DEF Numbered, seq
  <2> QED BY <2>1, <2>5 DEF Numbered, Running, seq
<1> QED BY <1>1, <1>2, <1>3 DEF Start, Step

(* What an order in a snapshot, or in the pool, says of the journal.       *)
Placed(o, n) == /\ o.seq_no \in Nat /\ o.seq_no < n
                /\ journal[o.seq_no + 1].id = o.order_id

(* What an entry of the log says of the journal.                           *)
Told(i) == /\ log[i].command = journal[i]
           /\ Numbered(log[i].outcome.trades, i - 1, journal[i].id)
           /\ \A o \in OrdersOf(log[i].book) : Placed(o, i)

(***************************************************************************)
(* The book is at the command of the journal that the log says, its orders *)
(* and the trades of the running command carry their places in it, and so  *)
(* does everything that has been logged.                                   *)
(***************************************************************************)
ReplayInv ==
  /\ IndInv
  /\ journal \in Seq(Commands)
  /\ \E S : log \in Seq(S)
  /\ Len(log) <= Len(journal)
  /\ mode = "off" => log = <<>>
  /\ pool_capacity \in 0 .. Capacity
  /\ pc = "idle" => next_seq = Len(log)
  /\ pc # "idle" => /\ next_seq = Len(log) + 1
                    /\ next_seq <= Len(journal)
                    /\ cmd = journal[next_seq]
                    /\ Numbered(result.trades, next_seq - 1, cmd.id)
  /\ \A i \in Index : Live(i) => Placed(slots[i], next_seq)
  /\ \A i \in DOMAIN log : Told(i)

(* A fresh book with an empty log. *)
LEMMA ConstructReplay ==
  ASSUME NEW capacity \in 0 .. Capacity, Construct(capacity),
         log' = <<>>, journal' \in Seq(Commands),
         pool_capacity' \in 0 .. Capacity
  PROVE  ReplayInv'
<1>1. NewBook'
  BY DEF Construct, Finish, NewBook, Constructed
<1>2. (NewBook => IndInv)'
  BY NewBookInd, PTL
<1>3. /\ pc' = "idle" /\ next_seq' = 0
      /\ \A i \in Index : ~Live(i)'
  BY DEF Construct, Finish, Live
<1>4. Len(log') = 0 /\ DOMAIN log' = {} /\ log' \in Seq({})
  OBVIOUS
<1>5. Len(journal') \in Nat
  OBVIOUS
<1> QED BY <1>1, <1>2, <1>3, <1>4, <1>5 DEF ReplayInv

LEMMA ReplayStarts == ReplayInit => ReplayInv
<1> SUFFICES ASSUME ReplayInit PROVE ReplayInv
  OBVIOUS
<1>1. IndInv /\ pc = "idle" /\ next_seq = 0 /\ \A i \in Index : ~Live(i)
  BY InitInd DEF ReplayInit, Init, PoolInit, Live
<1>2. /\ Len(log) = 0 /\ DOMAIN log = {} /\ log \in Seq({})
      /\ journal \in Seq(Commands) /\ Len(journal) = 0
      /\ pool_capacity \in 0 .. Capacity
  BY CapacityAssumption DEF ReplayInit
<1> QED BY <1>1, <1>2 DEF ReplayInv

(* Recording a command says nothing new of those before it. *)
LEMMA RecordReplay ==
  ASSUME ReplayInv, NEW c \in Commands, Record(c)
  PROVE  ReplayInv'
<1>1. /\ pc = "idle" /\ next_seq = Len(log) /\ Len(log) = Len(journal)
      /\ journal' = Append(journal, c) /\ log' = log /\ mode' = mode
      /\ pc' = pc /\ next_seq' = next_seq /\ slots' = slots
      /\ UNCHANGED vars
  <2>1. Len(log) = Len(journal) /\ UNCHANGED vars
        /\ journal' = Append(journal, c) /\ log' = log /\ mode' = mode
    BY DEF Record
  <2>2. pc = "idle"
    <3>1. Len(journal) \in Nat
      BY DEF ReplayInv
    <3> QED BY <2>1, <3>1 DEF ReplayInv
  <2> QED BY <2>1, <2>2 DEF ReplayInv, vars, commandVars, counterVars, poolVars
<1>2. /\ journal \in Seq(Commands) /\ Len(journal) \in Nat
      /\ journal' \in Seq(Commands) /\ Len(journal') = Len(journal) + 1
      /\ \A i \in 1 .. Len(journal) : journal'[i] = journal[i]
  BY <1>1, AppendProperties DEF ReplayInv
<1>3. IndInv'
  BY <1>1, NextInd DEF ReplayInv
<1>4. ASSUME NEW o, NEW n, n <= Len(journal), n \in Nat, Placed(o, n)
      PROVE  Placed(o, n)'
  <2>1. o.seq_no + 1 \in 1 .. Len(journal)
    BY <1>2, <1>4 DEF Placed
  <2> QED BY <1>2, <1>4, <2>1 DEF Placed
<1>5. DOMAIN log = 1 .. Len(journal)
  BY <1>1 DEF ReplayInv
<1>6. ASSUME NEW i \in DOMAIN log PROVE Told(i)'
  <2>1. Told(i) /\ i \in 1 .. Len(journal)
    BY <1>5, <1>6 DEF ReplayInv
  <2>2. \A o \in OrdersOf(log[i].book) : Placed(o, i)'
    BY <1>2, <1>4, <2>1 DEF Told
  <2> QED BY <1>1, <1>2, <2>1, <2>2 DEF Told
<1>7. \A i \in Index : Live(i)' => Placed(slots[i], next_seq)'
  <2> SUFFICES ASSUME NEW i \in Index, Live(i)' PROVE Placed(slots[i], next_seq)'
    OBVIOUS
  <2>1. Placed(slots[i], next_seq)
    BY <1>1 DEF ReplayInv, Live
  <2>2. PICK o, n : o = slots[i] /\ n = next_seq
    OBVIOUS
  <2>3. Placed(o, n)'
    BY <1>1, <1>2, <1>4, <2>1, <2>2
  <2> QED BY <1>1, <2>2, <2>3 DEF Placed
<1>8. pool_capacity' = pool_capacity
  BY DEF Record
<1> QED BY <1>1, <1>2, <1>3, <1>6, <1>7, <1>8 DEF ReplayInv

(* A step of a command, and what is logged when it returns. *)
LEMMA ApplyReplay ==
  ASSUME ReplayInv, Apply
  PROVE  ReplayInv'
<1>1. /\ journal \in Seq(Commands) /\ Len(journal) \in Nat
      /\ Len(log) \in Nat /\ DOMAIN log = 1 .. Len(log)
      /\ Len(log) < Len(journal) /\ journal' = journal
      /\ mode # "off" /\ mode' = mode
      /\ pool_capacity' = pool_capacity
  BY DEF ReplayInv, Apply
<1>2. PICK c \in Commands : /\ c = journal[Len(log) + 1]
                            /\ Start(c) \/ Step
                            /\ log' = IF pc' = "idle" THEN Append(log, Event(c)) ELSE log
  <2>1. Len(log) + 1 \in 1 .. Len(journal)
    BY <1>1
  <2>2. journal[Len(log) + 1] \in Commands
    BY <1>1, <2>1
  <2> QED BY <2>2 DEF Apply
<1>3. IndInv /\ IndInv'
  <2>1. Next
    BY <1>2 DEF Next
  <2> QED BY <2>1, NextInd DEF ReplayInv
<1>4. Running(c) = c
  BY <1>2 DEF Running, ReplayInv
<1>5. /\ next_seq' = Len(log) + 1
      /\ next_seq \in Nat /\ next_seq <= next_seq'
      /\ pc' # "idle" => cmd' = c
  <2>1. /\ next_seq \in Nat
        /\ next_seq' = IF pc = "idle" THEN next_seq + 1 ELSE next_seq
        /\ pc' # "idle" => cmd' = c
    BY <1>2, <1>3, <1>4, CounterStep
  <2>2. /\ pc = "idle" => next_seq = Len(log)
        /\ pc # "idle" => next_seq = Len(log) + 1
    BY DEF ReplayInv
  <2>3. next_seq' = Len(log) + 1 /\ next_seq <= next_seq'
    <3>1. CASE pc = "idle"
      BY <1>1, <2>1, <2>2, <3>1
    <3>2. CASE pc # "idle"
      <4>1. next_seq' = next_seq /\ next_seq = Len(log) + 1
        BY <2>1, <2>2, <3>2
      <4>2. next_seq <= next_seq
        BY <2>1
      <4> QED BY <4>1, <4>2
    <3> QED BY <3>1, <3>2
  <2> QED BY <2>1, <2>3
<1>6. Numbered(result'.trades, Len(log), c.id)
  <2>1. Numbered(result'.trades, next_seq' - 1, c.id)
    BY <1>2, <1>3, <1>4, TradesNumbered DEF ReplayInv
  <2> QED BY <1>1, <1>5, <2>1
<1>7. ASSUME NEW i \in Index, Live(i)' PROVE Placed(slots'[i], Len(log) + 1)
  <2>1. CASE /\ Live(i)
             /\ slots'[i].seq_no = slots[i].seq_no
             /\ slots'[i].order_id = slots[i].order_id
    <3>1. Placed(slots[i], next_seq)
      BY <2>1 DEF ReplayInv
    <3> QED BY <1>1, <1>5, <2>1, <3>1 DEF Placed
  <2>2. CASE /\ slots'[i].seq_no = next_seq' - 1
             /\ slots'[i].order_id = c.id
    BY <1>1, <1>2, <1>5, <2>2 DEF Placed
  <2> QED BY <1>2, <1>3, <1>4, <1>7, <2>1, <2>2, SlotStep
<1>8. ASSUME NEW i \in DOMAIN log PROVE Told(i)
  BY <1>8 DEF ReplayInv
<1>9. ASSUME NEW i \in DOMAIN log' PROVE Told(i)'
  <2>1. CASE pc' # "idle" \/ i \in DOMAIN log
    <3>1. i \in DOMAIN log /\ log'[i] = log[i]
      <4>1. PICK S : log \in Seq(S)
        BY DEF ReplayInv
      <4>2. CASE pc' # "idle"
        BY <1>2, <1>9, <4>2
      <4>3. CASE pc' = "idle"
        <5>1. PICK e, T : e = Event(c) /\ T = S \cup {e}
          OBVIOUS
        <5>2. log \in Seq(T) /\ e \in T /\ log' = Append(log, e)
          BY <1>2, <4>1, <4>3, <5>1
        <5> QED BY <2>1, <4>3, <5>2, AppendProperties
      <4> QED BY <4>2, <4>3
    <3>2. Told(i)
      BY <1>8, <3>1
    <3> QED BY <1>1, <3>1, <3>2 DEF Told, Placed
  <2>2. CASE pc' = "idle" /\ i \notin DOMAIN log
    <3>1. PICK e, S : e = Event(c) /\ log \in Seq(S) /\ e \in S
      <4>1. PICK S : log \in Seq(S)
        BY DEF ReplayInv
      <4>2. PICK e, T : e = Event(c) /\ T = S \cup {e}
        OBVIOUS
      <4>3. log \in Seq(T) /\ e \in T
        BY <4>1, <4>2
      <4> QED BY <4>2, <4>3
    <3>2. log' = Append(log, e)
      BY <1>2, <2>2, <3>1
    <3>3. i = Len(log) + 1 /\ log'[i] = e
      BY <1>1, <1>9, <2>2, <3>1, <3>2, AppendProperties
    <3>4. e.command = c /\ e.outcome = result' /\ e.book = snapshot'
      BY <3>1 DEF Event
    <3>5. \A o \in OrdersOf(snapshot') : Placed(o, i)
      <4>1. SnapshotInPool'
        <5>1. (IndInv => SnapshotInPool)'
          BY SnapshotOrders, PTL
        <5> QED BY <1>3, <5>1
      <4>2. ASSUME NEW o \in OrdersOf(snapshot') PROVE Placed(o, i)
        <5>1. PICK k \in Index : Live(k)' /\ o = slots'[k]
          BY <4>1, <4>2 DEF SnapshotInPool
        <5> QED BY <1>7, <3>3, <5>1
      <4> QED BY <4>2
    <3>6. Numbered(log'[i].outcome.trades, i - 1, journal'[i].id)
      BY <1>1, <1>2, <1>6, <3>3, <3>4
    <3>7. \A o \in OrdersOf(log'[i].book) : Placed(o, i)'
      BY <1>1, <3>3, <3>4, <3>5 DEF Placed
    <3> QED BY <1>1, <1>2, <3>3, <3>4, <3>6, <3>7 DEF Told
  <2> QED BY <2>1, <2>2
<1>10. /\ \E S : log' \in Seq(S)
       /\ Len(log') = IF pc' = "idle" THEN Len(log) + 1 ELSE Len(log)
  <2>1. PICK S : log \in Seq(S)
    BY DEF ReplayInv
  <2>2. CASE pc' # "idle"
    BY <1>2, <2>1, <2>2
  <2>3. CASE pc' = "idle"
    <3>1. PICK e : e = Event(c)
      OBVIOUS
    <3>2. log' = Append(log, e)
      BY <1>2, <2>3, <3>1
    <3> QED BY <2>1, <2>3, <3>2, OneMoreTrade
  <2> QED BY <2>2, <2>3
<1>11. \A i \in Index : Live(i)' => Placed(slots[i], next_seq)'
  BY <1>1, <1>5, <1>7 DEF Placed
<1>12. pc' = "idle" => next_seq' = Len(log')
  BY <1>5, <1>10
<1>13. pc' # "idle" => /\ next_seq' = Len(log') + 1
                       /\ next_seq' <= Len(journal')
                       /\ cmd' = journal'[next_seq']
                       /\ Numbered(result'.trades, next_seq' - 1, cmd'.id)
  BY <1>1, <1>2, <1>5, <1>6, <1>10
<1>14. Len(log') <= Len(journal')
  BY <1>1, <1>10
<1> QED BY <1>1, <1>3, <1>9, <1>10, <1>11, <1>12, <1>13, <1>14 DEF ReplayInv

LEMMA ReplayStep == ReplayInv /\ [ReplayNext]_replayVars => ReplayInv'
<1> SUFFICES ASSUME ReplayInv, [ReplayNext]_replayVars PROVE ReplayInv'
  OBVIOUS
<1>1. ASSUME NEW capacity \in PoolCapacities, Boot(capacity) PROVE ReplayInv'
  <2>1. capacity \in 0 .. Capacity
    BY PoolCapacitiesAssumption
  <2>2. /\ log' = <<>> /\ journal' \in Seq(Commands) /\ Construct(capacity)
        /\ pool_capacity' = capacity
    BY <1>1 DEF Boot, ReplayInv
  <2> QED BY <2>1, <2>2, ConstructReplay
<1>2. ASSUME NEW c \in Commands, Record(c) PROVE ReplayInv'
  BY <1>2, RecordReplay
<1>3. CASE Apply
  BY <1>3, ApplyReplay
<1>4. ASSUME NEW n \in 0 .. Len(journal), Kill(n) PROVE ReplayInv'
  <2>1. journal' \in Seq(Commands) /\ log' = <<>> /\ Construct(pool_capacity)
    <3>1. \A j \in 1 .. n : journal[j] \in Commands
      BY DEF ReplayInv
    <3>2. SubSeq(journal, 1, n) \in Seq(Commands)
      BY <3>1, SubSeqProperties DEF ReplayInv
    <3> QED BY <1>4, <3>2 DEF Kill, ReplayBegins, RecordedCapacity
  <2>2. pool_capacity' = pool_capacity /\ pool_capacity \in 0 .. Capacity
    BY <1>4 DEF Kill, ReplayInv
  <2> QED BY <2>1, <2>2, ConstructReplay
<1>5. CASE KillAgain
  <2>1. journal' \in Seq(Commands) /\ log' = <<>> /\ Construct(pool_capacity)
        /\ pool_capacity' = pool_capacity /\ pool_capacity \in 0 .. Capacity
    BY <1>5 DEF KillAgain, ReplayBegins, ReplayInv, RecordedCapacity
  <2> QED BY <2>1, ConstructReplay
<1>6. CASE Replayed \/ ReplayDone \/ UNCHANGED replayVars
  <2>1. /\ UNCHANGED <<vars, pool_capacity, journal, log>>
        /\ mode' = "off" => mode = "off"
    BY <1>6 DEF Replayed, ReplayDone, replayVars
  <2>2. IndInv'
    BY <2>1, NextInd DEF ReplayInv
  <2> QED BY <2>1, <2>2 DEF ReplayInv, vars, commandVars, counterVars, poolVars, Live,
             Placed, Told
<1> QED BY <1>1, <1>2, <1>3, <1>4, <1>5, <1>6 DEF ReplayNext

LEMMA ReplayInvariance == ReplaySpec => []ReplayInv
<1>1. ReplayInit => ReplayInv
  BY ReplayStarts
<1>2. ReplayInv /\ [ReplayNext]_replayVars => ReplayInv'
  BY ReplayStep
<1> QED BY <1>1, <1>2, PTL DEF ReplaySpec

-----------------------------------------------------------------------------
(* The trade ids of a log. *)

(* The ids of the trades t count up from n. *)
RunFrom(t, n) == \A k \in DOMAIN t : t[k].trade_id = n + (k - 1)

(* The trades of the log l have the ids below n, each once and in order. *)
IdsTo(l, n) ==
  /\ \A i \in DOMAIN l : \A k \in DOMAIN l[i].outcome.trades :
       l[i].outcome.trades[k].trade_id \in 0 .. n - 1
  /\ \A x \in 0 .. n - 1 : \E i \in DOMAIN l : \E k \in DOMAIN l[i].outcome.trades :
       l[i].outcome.trades[k].trade_id = x
  /\ \A h, i \in DOMAIN l :
       \A m \in DOMAIN l[h].outcome.trades, k \in DOMAIN l[i].outcome.trades :
         h < i \/ (h = i /\ m < k)
           => l[h].outcome.trades[m].trade_id < l[i].outcome.trades[k].trade_id

(* A command whose trades count on from the log's appends them to it. *)
LEMMA IdsGrow ==
  ASSUME NEW S, NEW l \in Seq(S), NEW n \in Nat, NEW e,
         NEW t \in Seq(Trade), e.outcome.trades = t, RunFrom(t, n), IdsTo(l, n)
  PROVE  IdsTo(Append(l, e), n + Len(t))
<1>1. PICK r : r = Append(l, e)
  OBVIOUS
<1>2. PICK last \in Nat : last = Len(l) + 1
  OBVIOUS
<1>3. PICK len \in Nat : len = Len(t)
  OBVIOUS
<1>4. /\ DOMAIN r = 1 .. last /\ DOMAIN l = 1 .. last - 1
      /\ r[last] = e
      /\ \A i \in 1 .. last - 1 : r[i] = l[i]
  <2>1. PICK T : T = S \cup {e}
    OBVIOUS
  <2>2. l \in Seq(T) /\ e \in T
    BY <2>1
  <2>3. /\ r \in Seq(T) /\ Len(r) = Len(l) + 1
        /\ \A i \in 1 .. Len(l) : r[i] = l[i]
        /\ r[Len(l) + 1] = e
    BY <1>1, <2>2, AppendProperties
  <2> QED BY <1>2, <2>3
<1>5. DOMAIN t = 1 .. len /\ \A k \in 1 .. len : t[k].trade_id = n + (k - 1)
  BY <1>3 DEF RunFrom
<1>6. ASSUME NEW i \in DOMAIN r
      PROVE  \/ i \in DOMAIN l /\ i < last /\ r[i] = l[i]
             \/ i = last /\ r[i].outcome.trades = t
  BY <1>2, <1>4, <1>6
<1>7. ASSUME NEW i \in DOMAIN r, NEW k \in DOMAIN r[i].outcome.trades
      PROVE  r[i].outcome.trades[k].trade_id \in 0 .. (n + len) - 1
  <2>1. CASE i \in DOMAIN l /\ r[i] = l[i]
    <3>1. r[i].outcome.trades[k].trade_id \in 0 .. n - 1
      BY <1>7, <2>1 DEF IdsTo
    <3> QED BY <3>1
  <2>2. CASE r[i].outcome.trades = t
    BY <1>5, <1>7, <2>2
  <2> QED BY <1>6, <2>1, <2>2
<1>8. ASSUME NEW x \in 0 .. (n + len) - 1
      PROVE  \E i \in DOMAIN r : \E k \in DOMAIN r[i].outcome.trades :
               r[i].outcome.trades[k].trade_id = x
  <2>1. CASE x < n
    <3>1. PICK i \in DOMAIN l : \E k \in DOMAIN l[i].outcome.trades :
                                  l[i].outcome.trades[k].trade_id = x
      <4>1. x \in 0 .. n - 1
        BY <2>1
      <4> QED BY <4>1 DEF IdsTo
    <3>2. i \in DOMAIN r /\ r[i] = l[i]
      BY <1>4
    <3> QED BY <3>1, <3>2
  <2>2. CASE x >= n
    <3>1. PICK k \in 1 .. len : k = x - n + 1
      BY <2>2
    <3>2. k \in DOMAIN t /\ t[k].trade_id = x
      BY <1>5, <3>1
    <3>3. last \in DOMAIN r /\ r[last].outcome.trades = t
      BY <1>2, <1>4
    <3> QED BY <3>2, <3>3
  <2> QED BY <2>1, <2>2
<1>9. ASSUME NEW h \in DOMAIN r, NEW i \in DOMAIN r,
             NEW m \in DOMAIN r[h].outcome.trades, NEW k \in DOMAIN r[i].outcome.trades,
             h < i \/ (h = i /\ m < k)
      PROVE  r[h].outcome.trades[m].trade_id < r[i].outcome.trades[k].trade_id
  <2>1. CASE i \in DOMAIN l /\ i < last /\ r[i] = l[i]
    <3>1. h \in DOMAIN l /\ r[h] = l[h]
      BY <1>4, <1>9, <2>1
    <3> QED BY <1>9, <2>1, <3>1 DEF IdsTo
  <2>2. CASE i = last /\ r[i].outcome.trades = t
    <3>1. k \in 1 .. len /\ r[i].outcome.trades[k].trade_id = n + (k - 1)
      BY <1>5, <2>2
    <3>2. CASE h \in DOMAIN l /\ r[h] = l[h]
      <4>1. r[h].outcome.trades[m].trade_id \in 0 .. n - 1
        BY <3>2 DEF IdsTo
      <4> QED BY <3>1, <4>1
    <3>3. CASE h = last
      <4>1. m \in 1 .. len /\ r[h].outcome.trades[m].trade_id = n + (m - 1)
        BY <1>5, <2>2, <3>3
      <4>2. m < k
        BY <1>9, <2>2, <3>3
      <4> QED BY <3>1, <4>1, <4>2
    <3> QED BY <1>6, <3>2, <3>3
  <2> QED BY <1>6, <2>1, <2>2
<1>10. IdsTo(r, n + len)
  BY <1>7, <1>8, <1>9 DEF IdsTo
<1> QED BY <1>1, <1>3, <1>10

(***************************************************************************)
(* b trades had been made when the running command started: its own count  *)
(* on from there.  A modify has none.                                      *)
(***************************************************************************)
Counting(b) ==
  IF pc = "idle"
    THEN next_trade_id = b
    ELSE /\ RunFrom(result.trades, b)
         /\ next_trade_id = b + Len(result.trades)
         /\ cmd.kind = "Modify" => result.trades = <<>>

(* A step of a command counts its trades on. *)
LEMMA TradesCounted ==
  ASSUME IndInv, NEW c \in Commands, Start(c) \/ Step, NEW b \in Nat, Counting(b)
  PROVE  /\ RunFrom(result'.trades, b)
         /\ next_trade_id' = b + Len(result'.trades)
         /\ pc' # "idle" /\ cmd'.kind = "Modify" => result'.trades = <<>>
<1>1. CASE \/ AddReject(c) \/ AddAccept(c) \/ ModifyReject(c) \/ ModifyInPlace(c)
           \/ ModifyMove(c) \/ CancelMiss(c) \/ CancelOrder(c) \/ ModifyAppend
  <2>1. \E ok : result' = Outcome(ok)
    BY <1>1 DEF AddReject, AddAccept, ModifyReject, ModifyInPlace, ModifyMove,
                CancelMiss, CancelOrder, ModifyAppend, Finish
  <2>2. result'.trades = <<>>
    BY <2>1 DEF Outcome
  <2>3. next_trade_id' = next_trade_id
    BY <1>1 DEF AddReject, AddAccept, ModifyReject, ModifyInPlace, ModifyMove,
                CancelMiss, CancelOrder, ModifyAppend, counterVars
  <2>4. pc = "idle" \/ (pc # "idle" /\ cmd.kind = "Modify")
    BY <1>1 DEF AddReject, AddAccept, ModifyReject, ModifyInPlace, ModifyMove,
                CancelMiss, CancelOrder, ModifyAppend, Dequeue
  <2>5. next_trade_id = b
    BY <2>4 DEF Counting
  <2>6. DOMAIN result'.trades = {} /\ Len(result'.trades) = 0
    BY <2>2
  <2> QED BY <2>2, <2>3, <2>5, <2>6 DEF RunFrom
<1>2. CASE \/ FokReject \/ CrossStop \/ CrossDone \/ RestFull \/ RestAppend
           \/ FokLevel \/ FokOrder \/ FokPass \/ CrossResidual \/ RestLevel
           \/ RestAllocate \/ ModifyLevel
  <2>1. pc # "idle" /\ next_trade_id' = next_trade_id
    BY <1>2 DEF FokReject, CrossStop, CrossDone, RestFull, RestAppend, FokLevel,
       FokOrder, FokPass, CrossResidual, RestLevel, RestAllocate, ModifyLevel,
       counterVars
  <2>2. result' = result \/ \E stp, full, resting : result' = Accepted(stp, full, resting)
    BY <1>2 DEF FokReject, CrossStop, CrossDone, RestFull, RestAppend, FokLevel,
       FokOrder, FokPass, CrossResidual, RestLevel, RestAllocate, ModifyLevel, Finish
  <2>3. result'.trades = result.trades
    BY <2>2 DEF Accepted
  <2>4. pc' # "idle" => cmd' = cmd
    BY <1>2 DEF FokReject, CrossStop, CrossDone, RestFull, RestAppend, FokLevel,
       FokOrder, FokPass, CrossResidual, RestLevel, RestAllocate, ModifyLevel, Finish
  <2> QED BY <2>1, <2>3, <2>4 DEF Counting
<1>3. CASE CrossPartial \/ CrossFull
  <2>1. pc = "cross" /\ cmd' = cmd /\ \E maker, fill : Fill(maker, fill)
    BY <1>3 DEF CrossPartial, CrossFull
  <2>2. PICK x, t : /\ x.trade_id = next_trade_id
                    /\ t = result.trades
                    /\ result' = [result EXCEPT !.trades = Append(t, x)]
                    /\ next_trade_id' = next_trade_id + 1
    <3>1. PICK maker, fill : Fill(maker, fill)
      BY <2>1
    <3>2. PICK x : x = TradeWith(maker, fill)
      OBVIOUS
    <3>3. PICK t : t = result.trades
      OBVIOUS
    <3>4. x.trade_id = next_trade_id
      BY <3>2 DEF TradeWith
    <3>5. /\ result' = [result EXCEPT !.trades = Append(t, x)]
          /\ next_trade_id' = next_trade_id + 1
      BY <3>1, <3>2, <3>3 DEF Fill
    <3> QED BY <3>3, <3>4, <3>5
  <2>3. result \in AddResult /\ cmd.kind # "Modify"
    BY <2>1 DEF IndInv, TypeOK, CommandOK, IsAdd
  <2>4. t \in Seq(Trade) /\ result'.trades = Append(t, x)
    BY <2>2, <2>3 DEF AddResult
  <2>5. PICK n \in Nat : n = Len(t)
    BY <2>4
  <2>6. RunFrom(t, b) /\ next_trade_id = b + n
    BY <2>1, <2>2, <2>5 DEF Counting
  <2>7. PICK S : S = Trade \cup {x}
    OBVIOUS
  <2>8. t \in Seq(S) /\ x \in S
    BY <2>4, <2>7
  <2>9. /\ Len(result'.trades) = n + 1 /\ DOMAIN result'.trades = 1 .. n + 1
        /\ \A k \in 1 .. n : result'.trades[k] = t[k]
        /\ result'.trades[n + 1] = x
    BY <2>4, <2>5, <2>8, AppendProperties
  <2>10. RunFrom(result'.trades, b)
    <3>1. \A k \in 1 .. n : t[k].trade_id = b + (k - 1)
      BY <2>4, <2>5, <2>6 DEF RunFrom
    <3>2. x.trade_id = b + ((n + 1) - 1)
      BY <2>2, <2>6
    <3> QED BY <2>9, <3>1, <3>2 DEF RunFrom
  <2>11. next_trade_id' = b + (n + 1)
    BY <2>2, <2>6
  <2> QED BY <2>1, <2>3, <2>9, <2>10, <2>11
<1> QED BY <1>1, <1>2, <1>3 DEF Start, Step

(* The trades that have been logged, and those of the running command. *)
CountInv == \E b \in Nat : IdsTo(log, b) /\ Counting(b)

LEMMA FreshCount ==
  ASSUME log = <<>>, pc = "idle", next_trade_id = 0 PROVE CountInv
<1>1. DOMAIN log = {}
  OBVIOUS
<1>2. 0 .. 0 - 1 = {}
  OBVIOUS
<1>3. IdsTo(log, 0)
  BY <1>1, <1>2 DEF IdsTo
<1> QED BY <1>3 DEF CountInv, Counting

LEMMA ApplyCount ==
  ASSUME ReplayInv, IndInv', CountInv, Apply PROVE CountInv'
<1>1. PICK c \in Commands : /\ Start(c) \/ Step
                            /\ log' = IF pc' = "idle" THEN Append(log, Event(c)) ELSE log
  <2>1. journal \in Seq(Commands) /\ Len(log) + 1 \in 1 .. Len(journal)
    BY DEF ReplayInv, Apply
  <2>2. journal[Len(log) + 1] \in Commands
    BY <2>1
  <2> QED BY <2>2 DEF Apply
<1>2. PICK b \in Nat : IdsTo(log, b) /\ Counting(b)
  BY DEF CountInv
<1>3. /\ RunFrom(result'.trades, b)
      /\ next_trade_id' = b + Len(result'.trades)
      /\ pc' # "idle" /\ cmd'.kind = "Modify" => result'.trades = <<>>
  BY <1>1, <1>2, TradesCounted DEF ReplayInv
<1>4. CASE pc' # "idle"
  BY <1>1, <1>2, <1>3, <1>4 DEF CountInv, Counting
<1>5. CASE pc' = "idle"
  <2>1. PICK S : log \in Seq(S)
    BY DEF ReplayInv
  <2>2. PICK e, t : e = Event(c) /\ t = result'.trades
    OBVIOUS
  <2>3. t \in Seq(Trade) /\ e.outcome.trades = t
    BY <2>2 DEF IndInv, TypeOK, AddResult, Event
  <2>4. PICK n \in Nat : n = b + Len(t)
    BY <2>3
  <2>5. IdsTo(Append(log, e), n)
    BY <1>2, <1>3, <2>1, <2>2, <2>3, <2>4, IdsGrow
  <2>6. log' = Append(log, e) /\ next_trade_id' = n
    BY <1>1, <1>3, <1>5, <2>2, <2>4
  <2>7. IdsTo(log', n)
    BY <2>5, <2>6
  <2> QED BY <1>5, <2>6, <2>7 DEF CountInv, Counting
<1> QED BY <1>4, <1>5

LEMMA CountStep ==
  ReplayInv /\ IndInv' /\ CountInv /\ [ReplayNext]_replayVars => CountInv'
<1> SUFFICES ASSUME ReplayInv, IndInv', CountInv, [ReplayNext]_replayVars
             PROVE  CountInv'
  OBVIOUS
<1>1. ASSUME NEW capacity, Construct(capacity), log' = <<>> PROVE CountInv'
  <2>1. log' = <<>> /\ pc' = "idle" /\ next_trade_id' = 0
    BY <1>1 DEF Construct, Finish
  <2>2. DOMAIN log' = {} /\ 0 .. 0 - 1 = {}
    BY <2>1
  <2>3. IdsTo(log', 0)
    BY <2>2 DEF IdsTo
  <2> QED BY <2>1, <2>3 DEF CountInv, Counting
<1>2. ASSUME NEW capacity, Boot(capacity) PROVE CountInv'
  <2>1. Construct(capacity) /\ log' = log /\ mode = "off"
    BY <1>2 DEF Boot
  <2> QED BY <1>1, <2>1 DEF ReplayInv
<1>3. ASSUME NEW n, Kill(n) PROVE CountInv'
  BY <1>1, <1>3 DEF Kill, ReplayBegins
<1>4. CASE KillAgain
  BY <1>1, <1>4 DEF KillAgain, ReplayBegins
<1>5. CASE Apply
  BY <1>5, ApplyCount
<1>6. ASSUME UNCHANGED <<vars, log>> PROVE CountInv'
  <2>1. log' = log /\ pc' = pc /\ next_trade_id' = next_trade_id
        /\ result' = result /\ cmd' = cmd
    BY <1>6 DEF vars, commandVars, counterVars
  <2> QED BY <2>1 DEF CountInv, Counting
<1>7. ASSUME NEW c, Record(c) PROVE CountInv'
  BY <1>6, <1>7 DEF Record
<1>8. CASE Replayed \/ ReplayDone \/ UNCHANGED replayVars
  BY <1>6, <1>8 DEF Replayed, ReplayDone, replayVars
<1> QED BY <1>2, <1>3, <1>4, <1>5, <1>7, <1>8 DEF ReplayNext

LEMMA CountInvariance == ReplaySpec => []CountInv
<1>1. ReplayInit => CountInv
  BY FreshCount DEF ReplayInit, Init
<1>2. ReplayInv => IndInv
  BY DEF ReplayInv
<1>3. ReplayInv /\ IndInv' /\ CountInv /\ [ReplayNext]_replayVars => CountInv'
  BY CountStep
<1> QED BY <1>1, <1>2, <1>3, ReplayInvariance, PTL DEF ReplaySpec

(***************************************************************************)
(* ADR-009: the book takes one seq_no per command of its journal, before   *)
(* and after every kill, so the numbers of trades and of resting orders    *)
(* name the commands that made, rested or moved them; and the ids of the   *)
(* trades count them through the log, without a gap or a repeat.           *)
(***************************************************************************)
THEOREM SeqNoIsAlwaysPosition == ReplaySpec => []SeqNoIsPosition
<1>1. ReplayInv /\ CountInv => SeqNoIsPosition
  <2> SUFFICES ASSUME ReplayInv, CountInv PROVE SeqNoIsPosition
    OBVIOUS
  <2>1. DOMAIN log = 1 .. Len(log) /\ Len(log) \in Nat
    BY DEF ReplayInv
  <2>2. ASSUME NEW i \in DOMAIN log
        PROVE  /\ Numbered(TradesAt(i), i - 1, log[i].command.id)
               /\ \A o \in OrdersOf(log[i].book) :
                    o.seq_no < i /\ log[o.seq_no + 1].command.id = o.order_id
    <3>1. Told(i) /\ \A j \in DOMAIN log : Told(j)
      BY <2>2 DEF ReplayInv
    <3>2. ASSUME NEW o \in OrdersOf(log[i].book)
          PROVE  o.seq_no < i /\ log[o.seq_no + 1].command.id = o.order_id
      <4>1. Placed(o, i)
        BY <3>1, <3>2 DEF Told
      <4>2. o.seq_no + 1 \in DOMAIN log
        BY <2>1, <2>2, <4>1 DEF Placed
      <4> QED BY <3>1, <4>1, <4>2 DEF Told, Placed
    <3> QED BY <3>1, <3>2 DEF Told, TradesAt
  <2>3. PICK b \in Nat : IdsTo(log, b) /\ Counting(b)
    BY DEF CountInv
  <2>4. TradeIds = 0 .. b - 1
    <3>1. ASSUME NEW x \in TradeIds PROVE x \in 0 .. b - 1
      <4>1. PICK i \in DOMAIN log : \E k \in DOMAIN TradesAt(i) : x = TradesAt(i)[k].trade_id
        BY <3>1 DEF TradeIds
      <4> QED BY <2>3, <4>1 DEF IdsTo, TradesAt
    <3>2. ASSUME NEW x \in 0 .. b - 1 PROVE x \in TradeIds
      <4>1. PICK i \in DOMAIN log : \E k \in DOMAIN log[i].outcome.trades :
                                      log[i].outcome.trades[k].trade_id = x
        BY <2>3 DEF IdsTo
      <4> QED BY <4>1 DEF TradeIds, TradesAt
    <3> QED BY <3>1, <3>2
  <2>5. pc = "idle" => next_seq = Len(log) /\ TradeIds = 0 .. next_trade_id - 1
    BY <2>3, <2>4 DEF ReplayInv, Counting
  <2>6. \A h, i \in DOMAIN log :
          \A m \in DOMAIN TradesAt(h), k \in DOMAIN TradesAt(i) :
            h < i \/ (h = i /\ m < k)
              => TradesAt(h)[m].trade_id < TradesAt(i)[k].trade_id
    BY <2>3 DEF IdsTo, TradesAt
  <2> QED BY <2>2, <2>5, <2>6 DEF SeqNoIsPosition, Numbered
<1> QED BY <1>1, ReplayInvariance, CountInvariance, PTL

-----------------------------------------------------------------------------
(* What a log says. *)

(* The event of command c in a log, when it has made book d. *)
Entry(c, d) == [command |-> c, outcome |-> d.run.result, book |-> BookOf(d.orders)]

(* Log l says what the commands made of the books of B. *)
Recounts(size, commands, l, B) ==
  /\ History(size, commands, Len(l), B)
  /\ \A i \in 1 .. Len(l) : l[i] = Entry(commands[i], B[i])

(* Two logs of the same commands agree for as long as both go on. *)
LEMMA LogsAgree ==
  ASSUME NEW size, NEW cs, NEW l, NEW m, Len(l) \in Nat, Len(m) \in Nat,
         NEW B, NEW C, Recounts(size, cs, l, B), Recounts(size, cs, m, C),
         NEW i \in 1 .. Len(l), i \in 1 .. Len(m)
  PROVE  l[i] = m[i]
<1>1. i \in Nat /\ \A j \in 1 .. i : j \in 1 .. Len(l) /\ j \in 1 .. Len(m)
  OBVIOUS
<1>2. History(size, cs, i, B) /\ History(size, cs, i, C)
  BY <1>1 DEF Recounts, History
<1>3. \A j \in 0 .. i : B[j] = C[j]
  BY <1>1, <1>2, HistoryOnce
<1>4. B[i] = C[i]
  BY <1>1, <1>3
<1> QED BY <1>4 DEF Recounts

(* A part of a log is a log. *)
LEMMA PartRecounts ==
  ASSUME NEW size, NEW cs, NEW l, Len(l) \in Nat, NEW B, Recounts(size, cs, l, B),
         NEW k, Len(k) \in Nat, Len(k) <= Len(l), \A i \in 1 .. Len(k) : k[i] = l[i],
         NEW ds, \A i \in 1 .. Len(k) : ds[i] = cs[i]
  PROVE  Recounts(size, ds, k, B)
<1>1. \A i \in 1 .. Len(k) : i \in 1 .. Len(l)
  OBVIOUS
<1> QED BY <1>1 DEF Recounts, History

(* The engine is where its log and the next command of its journal say. *)
OnCourse(size) ==
  /\ Simulable(size)
  /\ \E B : /\ Recounts(size, journal, log, B)
            /\ Reached(size, B[Len(log)], journal[Len(log) + 1])

(* A new engine is where its empty log says. *)
StartsOnCourse ==
  \A size \in 0 .. Capacity : Constructed(size) /\ log = <<>> => OnCourse(size)

LEMMA NewOnCourse == StartsOnCourse
<1> SUFFICES ASSUME NEW size \in 0 .. Capacity, Constructed(size), log = <<>>
             PROVE  OnCourse(size)
  BY DEF StartsOnCourse
<1>1. Simulable(size) /\ AsPriorityBook(size) = FreshBook(size)
  BY NewIsFresh
<1>2. PICK B : B[0] = FreshBook(size)
  <2> DEFINE B == [i \in {0} |-> FreshBook(size)]
  <2>1. B[0] = FreshBook(size)
    OBVIOUS
  <2> QED BY <2>1
<1>3. Len(log) = 0 /\ pc = "idle"
  BY DEF Constructed
<1>4. Recounts(size, journal, log, B)
  BY <1>2, <1>3 DEF Recounts, History
<1> QED BY <1>1, <1>2, <1>3, <1>4 DEF OnCourse, Reached

(* A command that is only recorded changes nothing. *)
LEMMA RecordOnCourse ==
  ASSUME NEW size, ReplayInv, OnCourse(size), NEW c \in Commands, Record(c)
  PROVE  OnCourse(size)'
<1>1. /\ UNCHANGED vars /\ log' = log /\ journal' = Append(journal, c)
      /\ Len(log) = Len(journal) /\ journal \in Seq(Commands)
  BY DEF Record, ReplayInv
<1>2. Len(journal) \in Nat /\ \A i \in 1 .. Len(journal) : journal'[i] = journal[i]
  BY <1>1, AppendProperties
<1>3. pc = "idle" /\ pc' = "idle"
  <2>1. pc = "idle"
    BY <1>1, <1>2 DEF ReplayInv
  <2> QED BY <1>1, <2>1 DEF vars, commandVars
<1>4. AsPriorityBook(size)' = AsPriorityBook(size)
  BY <1>1, StillBook
<1>5. Simulable(size)'
  BY <1>1, SimulableNext DEF OnCourse
<1>6. PICK B : Recounts(size, journal, log, B) /\ AsPriorityBook(size) = B[Len(log)]
  BY <1>3 DEF OnCourse, Reached
<1>7. Recounts(size, journal', log', B)
  BY <1>1, <1>2, <1>6 DEF Recounts, History
<1> QED BY <1>1, <1>3, <1>4, <1>5, <1>6, <1>7 DEF OnCourse, Reached

(* A step of a command is one of what it makes of the book, and when it    *)
(* returns the log says what that is.                                      *)
LEMMA ApplyOnCourse ==
  ASSUME NEW size \in 0 .. Capacity, ReplayInv, OnCourse(size), Apply
  PROVE  OnCourse(size)'
<1>1. /\ journal \in Seq(Commands) /\ Len(log) \in Nat /\ Len(log) < Len(journal)
      /\ journal' = journal /\ \E S : log \in Seq(S)
  BY DEF ReplayInv, Apply
<1>2. PICK c \in Commands : /\ c = journal[Len(log) + 1]
                            /\ Start(c) \/ Step
                            /\ log' = IF pc' = "idle" THEN Append(log, Event(c)) ELSE log
  <2>1. Len(log) + 1 \in 1 .. Len(journal)
    BY <1>1
  <2>2. journal[Len(log) + 1] \in Commands
    BY <1>1, <2>1
  <2> QED BY <2>2 DEF Apply
<1>3. PICK B : /\ Recounts(size, journal, log, B)
               /\ Reached(size, B[Len(log)], journal[Len(log) + 1])
  BY DEF OnCourse
<1>4. PICK n, e : n = Len(log) /\ e = AsPriorityBook(size)'
  OBVIOUS
<1>5. /\ Simulable(size)' /\ Under(B[n], c, e)
      /\ pc' = "idle" => Settles(B[n], c, e)
  <2>1. PICK b : b = B[n] /\ Reached(size, b, c) /\ Simulable(size)
    BY <1>2, <1>3, <1>4 DEF OnCourse
  <2> QED BY <1>2, <1>4, <2>1, GoesOn
<1>6. CASE pc' # "idle"
  <2>1. log' = log
    BY <1>2, <1>6
  <2>2. Recounts(size, journal', log', B)
    BY <1>1, <1>3, <2>1
  <2>3. Under(B[Len(log')], journal'[Len(log') + 1], AsPriorityBook(size)')
    BY <1>1, <1>2, <1>4, <1>5, <2>1
  <2> QED BY <1>5, <1>6, <2>2, <2>3 DEF OnCourse, Reached
<1>7. CASE pc' = "idle"
  <2>1. PICK j, l : j = journal /\ l = log
    OBVIOUS
  <2>2. n \in Nat /\ History(size, j, n, B) /\ Settles(B[n], j[n + 1], e)
    BY <1>1, <1>2, <1>3, <1>4, <1>5, <1>7, <2>1 DEF Recounts
  <2>3. PICK C : History(size, j, n + 1, C) /\ Continues(B, n, e, C)
    BY <2>2, HistoryGrows, Zenon
  <2>4. PICK v : v = Event(c)
    OBVIOUS
  <2>5. /\ log' = Append(l, v) /\ Len(log') = n + 1 /\ log'[n + 1] = v
        /\ \A i \in 1 .. n : log'[i] = l[i]
    <3>1. PICK S : l \in Seq(S)
      BY <1>1, <2>1
    <3>2. PICK T : T = S \cup {v}
      OBVIOUS
    <3>3. l \in Seq(T) /\ v \in T /\ log' = Append(l, v) /\ n = Len(l)
      BY <1>2, <1>4, <1>7, <2>1, <2>4, <3>1, <3>2
    <3> QED BY <3>3, AppendProperties
  <2>6. v = Entry(c, e)
    <3>1. (IndInv /\ pc = "idle" => snapshot = BookOf({slots[i] : i \in Resting}))'
      BY SnapshotIsOrders, PTL
    <3>2. IndInv'
      BY <1>5 DEF Simulable
    <3>3. snapshot' = BookOf(e.orders)
      BY <1>4, <1>7, <3>1, <3>2 DEF AsPriorityBook
    <3>4. result' = e.run.result
      BY <1>4 DEF AsPriorityBook
    <3> QED BY <2>4, <3>3, <3>4 DEF Event, Entry
  <2>7. ASSUME NEW i \in 1 .. n + 1 PROVE log'[i] = Entry(j[i], C[i])
    <3>1. CASE i = n + 1
      BY <1>2, <1>4, <2>1, <2>3, <2>5, <2>6, <3>1 DEF Continues
    <3>2. CASE i # n + 1
      <4>1. i \in 1 .. n /\ i \in 0 .. n
        BY <2>2, <3>2
      <4>2. l[i] = Entry(j[i], B[i])
        BY <1>3, <1>4, <2>1, <4>1 DEF Recounts
      <4> QED BY <2>3, <2>5, <4>1, <4>2 DEF Continues
    <3> QED BY <3>1, <3>2
  <2>8. Recounts(size, journal', log', C)
    BY <1>1, <2>1, <2>3, <2>5, <2>7 DEF Recounts
  <2>9. AsPriorityBook(size)' = C[Len(log')]
    BY <1>4, <2>3, <2>5 DEF Continues
  <2> QED BY <1>5, <1>7, <2>8, <2>9 DEF OnCourse, Reached
<1> QED BY <1>6, <1>7

(* The log of the engine that died says what the commands of the journal   *)
(* make of a book of the recorded capacity, too.                           *)
Remembers(size) ==
  /\ \E S : lived \in Seq(S)
  /\ Len(journal) - Len(lived) \in {0, 1}
  /\ \E C : Recounts(size, journal, lived, C)

(***************************************************************************)
(* The engine that lives and the one that replays are each where its own   *)
(* log and its journal say, and both logs start from the same fresh book.  *)
(***************************************************************************)
RepeatInv ==
  /\ ReplayInv
  /\ mode \in {"off", "live", "replay", "done"}
  /\ mode # "off" => \E size \in 0 .. Capacity :
                       /\ size = pool_capacity
                       /\ OnCourse(size)
                       /\ mode \in {"replay", "done"} => Remembers(size)
  /\ mode = "live" => Len(journal) - Len(log) \in {0, 1}
  /\ mode = "off" => journal = <<>>
  /\ mode = "done" => Len(log) = Len(journal)

(* A new engine begins where its empty log says. *)
LEMMA ConstructOnCourse ==
  ASSUME NEW capacity \in 0 .. Capacity, Construct(capacity), log' = <<>>
  PROVE  OnCourse(capacity)'
<1>1. Constructed(capacity)'
  BY DEF Construct, Finish, Constructed
<1>2. StartsOnCourse'
  BY NewOnCourse, PTL
<1> QED BY <1>1, <1>2 DEF StartsOnCourse

(* What is left of a log and of its journal agrees as the whole did. *)
LEMMA KillRemembers ==
  ASSUME NEW size \in 0 .. Capacity, ReplayInv, OnCourse(size),
         Len(journal) - Len(log) \in {0, 1}, NEW n \in 0 .. Len(journal), Kill(n)
  PROVE  Remembers(size)'
<1>1. /\ journal \in Seq(Commands) /\ Len(journal) \in Nat /\ Len(log) \in Nat
      /\ \E S : log \in Seq(S)
  BY DEF ReplayInv
<1>2. PICK k : k = IF n < Len(log) THEN n ELSE Len(log)
  OBVIOUS
<1>3. k \in 0 .. Len(log) /\ k <= n /\ n - k \in {0, 1}
  BY <1>1, <1>2
<1>4. journal' = SubSeq(journal, 1, n) /\ lived' = SubSeq(log, 1, k)
  BY <1>2 DEF Kill
<1>5. /\ Len(journal') = n
      /\ \A i \in 1 .. n : journal'[i] = journal[i]
  <2>1. 1 \in 1 .. Len(journal) + 1 /\ n \in 0 .. Len(journal)
    BY <1>1
  <2> QED BY <1>1, <1>4, <2>1, SubSeqProperties
<1>6. /\ \E S : lived' \in Seq(S)
      /\ Len(lived') = k
      /\ \A i \in 1 .. k : lived'[i] = log[i]
  <2>1. PICK S : log \in Seq(S)
    BY <1>1
  <2>2. k \in 0 .. Len(log) /\ \A i \in 1 .. k : log[i] \in S
    BY <1>1, <1>3, <2>1
  <2>3. PICK s : s = SubSeq(log, 1, k)
    OBVIOUS
  <2>4. /\ s \in Seq(S)
        /\ Len(s) = k
        /\ \A i \in 1 .. k : s[i] = log[i]
    BY <2>1, <2>2, <2>3, SubSeqProperties
  <2> QED BY <1>4, <2>3, <2>4
<1>7. PICK B : Recounts(size, journal, log, B)
  BY DEF OnCourse
<1>8. PICK j, l, cs, m : j = journal /\ l = log /\ cs = journal' /\ m = lived'
  OBVIOUS
<1>9. /\ Len(l) \in Nat /\ Len(m) \in Nat /\ Len(m) <= Len(l)
      /\ \A i \in 1 .. Len(m) : m[i] = l[i]
      /\ \A i \in 1 .. Len(m) : cs[i] = j[i]
  BY <1>1, <1>3, <1>5, <1>6, <1>8
<1>10. Recounts(size, j, l, B)
  BY <1>7, <1>8
<1>11. Recounts(size, cs, m, B)
  BY <1>9, <1>10, PartRecounts
<1> QED BY <1>3, <1>5, <1>6, <1>8, <1>11 DEF Remembers

LEMMA RepeatStarts == ReplayInit => RepeatInv
<1> SUFFICES ASSUME ReplayInit PROVE RepeatInv
  OBVIOUS
<1>1. ReplayInv
  BY ReplayStarts
<1> QED BY <1>1 DEF ReplayInit, RepeatInv

LEMMA RepeatStep == RepeatInv /\ [ReplayNext]_replayVars => RepeatInv'
<1> SUFFICES ASSUME RepeatInv, [ReplayNext]_replayVars PROVE RepeatInv'
  OBVIOUS
<1>1. ReplayInv /\ ReplayInv'
  BY ReplayStep DEF RepeatInv
<1>2. /\ journal \in Seq(Commands) /\ Len(journal) \in Nat /\ Len(log) \in Nat
      /\ Len(log) <= Len(journal) /\ \E S : log \in Seq(S)
      /\ journal' \in Seq(Commands) /\ Len(journal') \in Nat /\ Len(log') \in Nat
      /\ Len(log') <= Len(journal')
  BY <1>1 DEF ReplayInv
<1>3. ASSUME NEW capacity \in PoolCapacities, Boot(capacity) PROVE RepeatInv'
  <2>1. capacity \in 0 .. Capacity
    BY PoolCapacitiesAssumption
  <2>2. /\ mode' = "live" /\ Construct(capacity) /\ pool_capacity' = capacity
        /\ log' = <<>> /\ journal' = <<>>
    BY <1>1, <1>3 DEF Boot, RepeatInv, ReplayInv
  <2>3. OnCourse(capacity)'
    BY <2>1, <2>2, ConstructOnCourse
  <2>4. Len(log') = 0 /\ Len(journal') = 0
    BY <2>2
  <2> QED BY <1>1, <2>1, <2>2, <2>3, <2>4 DEF RepeatInv
<1>4. ASSUME mode # "off" PROVE \E size \in 0 .. Capacity :
                                   /\ size = pool_capacity /\ OnCourse(size)
                                   /\ mode \in {"replay", "done"} => Remembers(size)
  BY <1>4 DEF RepeatInv
<1>5. ASSUME NEW c \in Commands, Record(c) PROVE RepeatInv'
  <2>1. /\ mode = "live" /\ mode' = "live" /\ pool_capacity' = pool_capacity
        /\ log' = log /\ Len(journal) = Len(log) /\ journal' = Append(journal, c)
    BY <1>5 DEF Record
  <2>2. PICK size \in 0 .. Capacity : size = pool_capacity /\ OnCourse(size)
    BY <1>4, <2>1
  <2>3. OnCourse(size)'
    BY <1>1, <1>5, <2>2, RecordOnCourse
  <2>4. Len(journal') = Len(journal) + 1
    BY <1>2, <2>1, AppendProperties
  <2> QED BY <1>1, <1>2, <2>1, <2>2, <2>3, <2>4 DEF RepeatInv
<1>6. CASE Apply
  <2>1. /\ mode \in {"live", "replay"} /\ mode' = mode /\ pool_capacity' = pool_capacity
        /\ journal' = journal /\ lived' = lived /\ Len(log) < Len(journal)
    BY <1>6 DEF Apply
  <2>2. PICK size \in 0 .. Capacity : /\ size = pool_capacity /\ OnCourse(size)
                                      /\ mode = "replay" => Remembers(size)
    BY <1>4, <2>1
  <2>3. OnCourse(size)'
    BY <1>1, <1>6, <2>2, ApplyOnCourse
  <2>4. mode' = "replay" => Remembers(size)'
    BY <2>1, <2>2 DEF Remembers
  <2>5. Len(log') \in {Len(log), Len(log) + 1}
    <3>1. PICK x : log' = log \/ log' = Append(log, x)
      BY <1>6 DEF Apply
    <3> QED BY <1>2, <3>1, OneMoreTrade
  <2>6. mode' = "live" => Len(journal') - Len(log') \in {0, 1}
    BY <1>2, <2>1, <2>5 DEF RepeatInv
  <2> QED BY <1>1, <2>1, <2>2, <2>3, <2>4, <2>6 DEF RepeatInv
<1>7. ASSUME NEW n \in 0 .. Len(journal), Kill(n) PROVE RepeatInv'
  <2>1. /\ mode = "live" /\ mode' = "replay" /\ pool_capacity' = pool_capacity
        /\ log' = <<>> /\ Construct(pool_capacity)
        /\ Len(journal) - Len(log) \in {0, 1}
    BY <1>7 DEF Kill, ReplayBegins, RecordedCapacity, RepeatInv
  <2>2. PICK size \in 0 .. Capacity : size = pool_capacity /\ OnCourse(size)
    BY <1>4, <2>1
  <2>3. Remembers(size)'
    BY <1>1, <1>7, <2>1, <2>2, KillRemembers
  <2>4. OnCourse(size)'
    BY <2>1, <2>2, ConstructOnCourse
  <2> QED BY <1>1, <2>1, <2>2, <2>3, <2>4 DEF RepeatInv
<1>8. CASE KillAgain
  <2>1. /\ mode = "replay" /\ mode' = "replay" /\ pool_capacity' = pool_capacity
        /\ log' = <<>> /\ Construct(pool_capacity)
        /\ journal' = journal /\ lived' = lived
    BY <1>8 DEF KillAgain, ReplayBegins, RecordedCapacity
  <2>2. PICK size \in 0 .. Capacity : size = pool_capacity /\ Remembers(size)
    BY <1>4, <2>1
  <2>3. Remembers(size)'
    BY <2>1, <2>2 DEF Remembers
  <2>4. OnCourse(size)'
    BY <2>1, <2>2, ConstructOnCourse
  <2> QED BY <1>1, <2>1, <2>2, <2>3, <2>4 DEF RepeatInv
<1>9. CASE Replayed \/ ReplayDone \/ UNCHANGED replayVars
  <2>1. /\ UNCHANGED <<vars, pool_capacity, journal, log, lived>>
        /\ \/ mode' = mode
           \/ mode = "replay" /\ mode' = "done" /\ Len(log) = Len(journal)
    BY <1>9 DEF Replayed, ReplayDone, replayVars
  <2>2. CASE mode = "off"
    BY <1>1, <2>1, <2>2 DEF RepeatInv
  <2>3. CASE mode # "off"
    <3>1. PICK size \in 0 .. Capacity : /\ size = pool_capacity /\ OnCourse(size)
                                        /\ mode \in {"replay", "done"} => Remembers(size)
      BY <1>4, <2>3
    <3>2. OnCourse(size)'
      <4>1. AsPriorityBook(size)' = AsPriorityBook(size)
        BY <2>1, StillBook
      <4>2. Simulable(size)'
        BY <2>1, <3>1, SimulableNext DEF OnCourse
      <4>3. pc' = pc
        BY <2>1 DEF vars, commandVars
      <4> QED BY <2>1, <3>1, <4>1, <4>2, <4>3 DEF OnCourse, Reached
    <3>3. mode' \in {"replay", "done"} => Remembers(size)'
      BY <2>1, <3>1 DEF Remembers
    <3> QED BY <1>1, <2>1, <2>3, <3>1, <3>2, <3>3 DEF RepeatInv
  <2> QED BY <2>2, <2>3
<1> QED BY <1>3, <1>5, <1>6, <1>7, <1>8, <1>9 DEF ReplayNext

LEMMA RepeatInvariance == ReplaySpec => []RepeatInv
<1>1. ReplayInit => RepeatInv
  BY RepeatStarts
<1>2. RepeatInv /\ [ReplayNext]_replayVars => RepeatInv'
  BY RepeatStep
<1> QED BY <1>1, <1>2, PTL DEF ReplaySpec

(***************************************************************************)
(* Test 22 of the repository, for every journal and every moment of the    *)
(* kill: the replayed log is the log of the engine that died, entry by     *)
(* entry, and goes on to the last command of the journal.                  *)
(***************************************************************************)
THEOREM ReplayAlwaysRepeatsLife == ReplaySpec => []ReplayRepeatsLife
<1>1. RepeatInv => ReplayRepeatsLife
  <2> SUFFICES ASSUME RepeatInv PROVE ReplayRepeatsLife
    OBVIOUS
  <2>1. ASSUME mode \in {"replay", "done"}, NEW i \in DOMAIN lived \cap DOMAIN log
        PROVE  log[i] = lived[i]
    <3>1. PICK size \in 0 .. Capacity : OnCourse(size) /\ Remembers(size)
      BY <2>1 DEF RepeatInv
    <3>2. PICK B : Recounts(size, journal, log, B)
      BY <3>1 DEF OnCourse
    <3>3. PICK C : Recounts(size, journal, lived, C)
      BY <3>1 DEF Remembers
    <3>4. /\ Len(log) \in Nat /\ DOMAIN log = 1 .. Len(log)
          /\ Len(lived) \in Nat /\ DOMAIN lived = 1 .. Len(lived)
      BY <3>1 DEF RepeatInv, ReplayInv, Remembers
    <3>5. i \in 1 .. Len(log) /\ i \in 1 .. Len(lived)
      BY <2>1, <3>4
    <3> QED BY <3>2, <3>3, <3>4, <3>5, LogsAgree
  <2>2. ASSUME mode = "done"
        PROVE  Len(log) = Len(journal) /\ Len(log) - Len(lived) \in {0, 1}
    BY <2>2 DEF RepeatInv, Remembers
  <2> QED BY <2>1, <2>2 DEF ReplayRepeatsLife
<1> QED BY <1>1, RepeatInvariance, PTL

-----------------------------------------------------------------------------
(* What rests, order by order. *)

(* What an id has left in the book. *)
Left(id) == IF contains(id) THEN slots[id_map[id].index].qty ELSE 0

(* The order of an id that the book contains. *)
LEMMA RestingOrder ==
  ASSUME IndInv, pc # "move", NEW id \in OrderId, contains(id)
  PROVE  LET i == id_map[id].index
         IN  /\ i \in Index /\ Live(i) /\ slots[i].order_id = id
             /\ id_map[id] = handle_of(i) /\ validate(id_map[id])
             /\ slots[i] \in Order /\ slots[i].qty > 0
<1> DEFINE i == id_map[id].index
<1>1. i \in Index /\ Live(i) /\ slots[i].order_id = id /\ validate(id_map[id])
  BY DEF IndInv, IdMapExact, validate
<1>2. id_map[id] = handle_of(i)
  BY <1>1 DEF IndInv, IdMapExact
<1>3. slots[i] \in Order /\ slots[i].qty > 0
  <2>1. CASE Linked(i)
    BY <1>1, <2>1, LinkedOrder
  <2>2. CASE Placing(i)
    BY <1>1, <2>2, LiveIsOrder DEF Placing, IndInv, CommandOK
  <2> QED BY <1>1, <2>1, <2>2 DEF Linked
<1> QED BY <1>1, <1>2, <1>3

LEMMA LeftOf ==
  ASSUME IndInv, pc # "move", NEW id \in OrderId
  PROVE  /\ Left(id) \in Nat /\ Left(id) < QtyModulus
         /\ contains(id) <=> Left(id) > 0
<1>1. CASE contains(id)
  <2>1. slots[id_map[id].index].qty \in Qty /\ slots[id_map[id].index].qty > 0
    BY <1>1, RestingOrder DEF Order
  <2> QED BY <1>1, <2>1, QtyAssumption DEF Left, Qty
<1>2. CASE ~contains(id)
  BY <1>2, QtyAssumption DEF Left
<1> QED BY <1>1, <1>2

(* An order leaves the book: the others keep what they have left.          *)
LEMMA LeftAfterRemoval ==
  ASSUME IndInv, pc \notin {"move", "append"}, NEW i \in Index, Live(i),
         NEW m, m = slots[i].order_id,
         slots' = [slots EXCEPT ![i] = Undef], id_erase(m)
  PROVE  /\ m \in OrderId /\ Left(m) = slots[i].qty /\ Left(m)' = 0
         /\ \A id \in OrderId \ {m} : Left(id)' = Left(id)
<1>2. m \in OrderId /\ id_map[m] = handle_of(i) /\ handle_of(i).index = i
      /\ contains(m)
  <2>1. slots[i] \in Order
    BY LiveIsOrder DEF IndInv
  <2>2. id_map[m] = handle_of(i) /\ validate(handle_of(i)) /\ valid(handle_of(i))
        /\ handle_of(i).index = i
    BY HandleOfValid DEF IndInv, IdMapExact
  <2> QED BY <2>1, <2>2 DEF Order, contains, valid
<1>3. id_map' = [id_map EXCEPT ![m] = NilHandle] /\ id_map \in [OrderId -> Handle]
  BY DEF id_erase, IndInv, TypeOK
<1>4. Left(m) = slots[i].qty /\ Left(m)' = 0
  BY <1>2, <1>3 DEF Left, contains
<1>5. ASSUME NEW id \in OrderId \ {m} PROVE Left(id)' = Left(id)
  <2>1. id_map'[id] = id_map[id]
    BY <1>3, <1>5
  <2>2. CASE contains(id)
    <3>1. id_map[id].index # i
      BY <1>5, <2>2, RestingOrder
    <3>2. slots'[id_map[id].index] = slots[id_map[id].index]
      BY <2>2, <3>1, RestingOrder DEF IndInv, TypeOK, PoolTypeOK
    <3> QED BY <2>1, <3>2 DEF Left, contains
  <2>3. CASE ~contains(id)
    BY <2>1, <2>3 DEF Left, contains
  <2> QED BY <2>2, <2>3
<1> QED BY <1>2, <1>4, <1>5

(* The head of a level that a sweep trades with, and its id.               *)
LEMMA MakerId ==
  ASSUME IndInv, pc = "cross", NEW i \in Index, Linked(i)
  PROVE  /\ slots[i] \in Order /\ slots[i].qty > 0 /\ slots[i].order_id \in OrderId
         /\ contains(slots[i].order_id) /\ id_map[slots[i].order_id].index = i
         /\ slots[i].order_id # cmd.id
<1>1. slots[i] \in Order /\ slots[i].qty > 0
  BY LinkedOrder
<1>2. /\ id_map[slots[i].order_id] = handle_of(i)
      /\ valid(handle_of(i)) /\ handle_of(i).index = i
  BY HandleOfValid DEF IndInv, IdMapExact, Linked
<1>3. ~contains(cmd.id)
  BY DEF IndInv, CommandOK
<1>4. contains(slots[i].order_id)
  BY <1>2 DEF contains, valid
<1> QED BY <1>1, <1>2, <1>3, <1>4 DEF Order

(* A step of a limit order that adds no trade.                             *)
QuietLimitStep ==
  /\ result'.trades = result.trades /\ pc' # "cross"
  /\ \A id \in OrderId : id # cmd.id => Left(id)' = Left(id)

(* A step of a limit order that trades with the order of id m.             *)
TradeLimitStep(m) ==
  /\ \E t \in Trade : /\ result'.trades = Append(result.trades, t)
                      /\ t.maker_order_id = m /\ t.qty > 0
                      /\ Left(m) = Left(m)' + t.qty
  /\ m # cmd.id /\ Left(m) > 0
  /\ pc = "cross" /\ left > 0 /\ pc' = "cross"
  /\ left' = 0 \/ Left(m)' = 0
  /\ \A id \in OrderId \ {m} : Left(id)' = Left(id)

(* While a limit order is placed, the slot is its own. *)
OwnSlot ==
  pc = "append" => slots[idx].order_id = cmd.id /\ slots[idx].qty = left

(* The trade of a fill is one. *)
LEMMA FillIsTrade ==
  ASSUME IndInv, pc = "cross", NEW maker \in Order, NEW fill \in Qty
  PROVE  TradeWith(maker, fill) \in Trade
<1>1. cmd \in Command /\ next_trade_id \in Nat
  BY DEF IndInv, CommandOK, TypeOK
<1>2. seq \in Nat
  BY MaxCommandsAssumption DEF IndInv, SeqNosOrdered, seq, TypeOK
<1> QED BY <1>1, <1>2 DEF TradeWith, Trade, Order, Command

LEMMA QuietLimit ==
  ASSUME IndInv, pc \in {"cross", "rest", "allocate", "append"}, cmd.kind = "Limit",
         OwnSlot,
         \/ CrossStop \/ CrossDone \/ CrossResidual \/ RestLevel \/ RestFull
         \/ RestAllocate \/ RestAppend
  PROVE  /\ QuietLimitStep
         /\ pc' \in {"idle", "rest", "allocate", "append"}
         /\ pc' # "idle" => cmd' = cmd /\ OwnSlot'
         /\ \A id \in OrderId : id = cmd.id =>
              Left(id)' = IF pc' = "idle" THEN result'.resting_qty ELSE 0
<1>1. cmd \in Command /\ cmd.id \in OrderId
  BY DEF IndInv, CommandOK, Command
<1>2. pc # "append" => ~contains(cmd.id)
  BY DEF IndInv, CommandOK
<1>3. CASE CrossStop \/ CrossDone \/ CrossResidual \/ RestLevel \/ RestFull
  <2>1. /\ slots' = slots /\ id_map' = id_map /\ pc # "append"
        /\ pc' \in {"idle", "rest", "allocate"}
        /\ pc' = "idle" => /\ result'.trades = result.trades
                           /\ result'.resting_qty = 0
        /\ pc' # "idle" => result' = result /\ cmd' = cmd
    BY <1>3, SMTT(30) DEF CrossStop, CrossDone, CrossResidual, RestLevel, RestFull, Finish,
                Goto, poolVars, Accepted
  <2>2. \A id \in OrderId : Left(id)' = Left(id)
    BY <2>1 DEF Left, contains
  <2> QED BY <1>1, <1>2, <2>1, <2>2 DEF QuietLimitStep, OwnSlot, Left
<1>4. CASE RestAllocate
  <2>1. /\ ~exhausted /\ slots' = [slots EXCEPT ![free_head] = incoming]
        /\ id_map' = id_map /\ pc = "allocate" /\ pc' = "append"
        /\ idx' = free_head /\ cmd' = cmd /\ left' = left /\ result' = result
    BY <1>4 DEF RestAllocate, allocate, Goto
  <2>2. free_head \in Index /\ ~Live(free_head)
    BY <2>1 DEF exhausted, IndInv, FreeLinks, TypeOK, PoolTypeOK, IndexOrNil
  <2>3. slots \in [Index -> Order \cup {Undef}]
    BY DEF IndInv, TypeOK, PoolTypeOK
  <2>4. \A id \in OrderId : Left(id)' = Left(id)
    <3> SUFFICES ASSUME NEW id \in OrderId PROVE Left(id)' = Left(id)
      OBVIOUS
    <3>1. CASE contains(id)
      <4>1. id_map[id].index \in Index /\ id_map[id].index # free_head
        BY <2>1, <2>2, <3>1, RestingOrder
      <4>2. slots'[id_map[id].index] = slots[id_map[id].index]
        BY <2>1, <2>2, <2>3, <4>1
      <4> QED BY <2>1, <3>1, <4>2 DEF Left, contains
    <3>2. CASE ~contains(id)
      BY <2>1, <3>2 DEF Left, contains
    <3> QED BY <3>1, <3>2
  <2>5. OwnSlot'
    BY <2>1, <2>2, <2>3 DEF OwnSlot, incoming
  <2> QED BY <1>1, <1>2, <2>1, <2>4, <2>5 DEF QuietLimitStep, Left
<1>5. CASE RestAppend
  <2>1. /\ id_map' = [id_map EXCEPT ![slots[idx].order_id] = handle_of(idx)]
        /\ slots' = slots /\ pc = "append" /\ pc' = "idle"
        /\ result'.trades = result.trades /\ result'.resting_qty = left
    BY <1>5 DEF RestAppend, id_insert, Finish, Accepted
  <2>2. slots[idx].order_id = cmd.id /\ slots[idx].qty = left
    BY <2>1 DEF OwnSlot
  <2>3. idx \in Index
    BY <2>1 DEF IndInv, CommandOK, TypeOK, IndexOrNil
  <2>4. id_map \in [OrderId -> Handle] /\ valid(handle_of(idx)) /\ handle_of(idx).index = idx
    BY <2>3, HandleOfValid DEF IndInv, TypeOK
  <2>6. ASSUME NEW id \in OrderId, id = cmd.id PROVE Left(id)' = left
    <3>1. id_map'[id] = handle_of(idx)
      BY <2>1, <2>2, <2>4, <2>6
    <3> QED BY <2>1, <2>2, <2>4, <3>1 DEF Left, contains, valid
  <2>7. ASSUME NEW id \in OrderId, id # cmd.id PROVE Left(id)' = Left(id)
    <3>1. id_map'[id] = id_map[id]
      BY <2>1, <2>2, <2>4, <2>7
    <3> QED BY <2>1, <3>1 DEF Left, contains
  <2> QED BY <2>1, <2>6, <2>7 DEF QuietLimitStep
<1> QED BY <1>3, <1>4, <1>5

LEMMA TradeLimit ==
  ASSUME IndInv, pc = "cross", cmd.kind = "Limit", CrossPartial \/ CrossFull
  PROVE  /\ \E m \in OrderId : TradeLimitStep(m)
         /\ cmd' = cmd
<1>1. /\ pc' = "cross" /\ cmd' = cmd /\ left > 0
      /\ left \in Qty /\ left \in Nat
  <2>1. pc' = "cross" /\ cmd' = cmd /\ left > 0
    BY DEF CrossPartial, CrossFull
  <2>2. left \in Qty
    BY DEF IndInv, TypeOK
  <2> QED BY <2>1, <2>2, QtyAssumption DEF Qty
<1>2. CASE CrossPartial
  <2>1. PICK p \in Price :
          LET i == level[Opposite(cmd.side)][p].head
          IN  /\ i # kNilIndex
              /\ left < slots[i].qty
              /\ Fill(slots[i], left)
              /\ slots' = [slots EXCEPT ![i].qty = @ - left]
    BY <1>2 DEF CrossPartial
  <2>2. PICK i : i = level[Opposite(cmd.side)][p].head
    OBVIOUS
  <2>3. i \in Index /\ Linked(i)
    BY <2>1, <2>2, Maker
  <2>4. PICK m : m = slots[i].order_id
    OBVIOUS
  <2>5. /\ slots[i] \in Order /\ slots[i].qty > 0 /\ m \in OrderId
        /\ contains(m) /\ id_map[m].index = i /\ m # cmd.id
    BY <2>3, <2>4, MakerId
  <2>6. left < slots[i].qty /\ Fill(slots[i], left) /\ id_map' = id_map
        /\ slots' = [slots EXCEPT ![i].qty = slots[i].qty - left]
    BY <1>2, <2>1, <2>2 DEF CrossPartial
  <2>7. slots[i].qty \in Nat /\ slots \in [Index -> Order \cup {Undef}]
    BY <2>5, QtyAssumption DEF Order, Qty, IndInv, TypeOK, PoolTypeOK
  <2>8. slots'[i].qty = slots[i].qty - left
    BY <2>3, <2>5, <2>6, <2>7 DEF Order
  <2>9. Left(m) = slots[i].qty /\ Left(m)' = slots[i].qty - left
    BY <2>5, <2>6, <2>8 DEF Left, contains
  <2>10. ASSUME NEW id \in OrderId \ {m} PROVE Left(id)' = Left(id)
    <3>1. CASE contains(id)
      <4>1. id_map[id].index \in Index /\ id_map[id].index # i
        BY <1>2, <2>4, <2>10, <3>1, RestingOrder
      <4>2. slots'[id_map[id].index] = slots[id_map[id].index]
        BY <2>6, <2>7, <4>1
      <4>3. id_map'[id] = id_map[id]
        BY <2>6
      <4> QED BY <3>1, <4>2, <4>3 DEF Left, contains
    <3>2. CASE ~contains(id)
      BY <2>6, <3>2 DEF Left, contains
    <3> QED BY <3>1, <3>2
  <2>11. PICK t : t = TradeWith(slots[i], left)
    OBVIOUS
  <2>12. /\ t \in Trade /\ t.maker_order_id = m /\ t.qty = left
         /\ result'.trades = Append(result.trades, t) /\ left' = 0
    <3>1. t.maker_order_id = m /\ t.qty = left
      BY <2>4, <2>11 DEF TradeWith
    <3>2. result'.trades = Append(result.trades, t)
      BY <2>6, <2>11 DEF Fill, IndInv, TypeOK, AddResult
    <3>3. left' = 0
      BY <1>1, <2>6 DEF Fill
    <3>4. t \in Trade
      BY <1>1, <2>5, <2>11, FillIsTrade
    <3> QED BY <3>1, <3>2, <3>3, <3>4
  <2>13. Left(m) = Left(m)' + t.qty /\ Left(m) > 0 /\ t.qty > 0
    BY <1>1, <2>5, <2>7, <2>9, <2>12
  <2> QED BY <1>1, <2>5, <2>10, <2>12, <2>13 DEF TradeLimitStep
<1>3. CASE CrossFull
  <2>1. PICK p \in Price :
          LET i == level[Opposite(cmd.side)][p].head
          IN  /\ i # kNilIndex
              /\ Fill(slots[i], slots[i].qty)
              /\ id_erase(slots[i].order_id)
              /\ free(handle_of(i))
    BY <1>3 DEF CrossFull
  <2>2. PICK i : i = level[Opposite(cmd.side)][p].head
    OBVIOUS
  <2>3. i \in Index /\ Linked(i)
    BY <2>1, <2>2, Maker
  <2>4. PICK m : m = slots[i].order_id
    OBVIOUS
  <2>5. /\ slots[i] \in Order /\ slots[i].qty > 0 /\ m \in OrderId
        /\ contains(m) /\ m # cmd.id
    BY <2>3, <2>4, MakerId
  <2>6. Fill(slots[i], slots[i].qty) /\ id_erase(m)
        /\ slots' = [slots EXCEPT ![i] = Undef]
    BY <2>1, <2>2, <2>3, <2>4, FreeEffect DEF IndInv
  <2>7. /\ Left(m) = slots[i].qty /\ Left(m)' = 0
        /\ \A id \in OrderId \ {m} : Left(id)' = Left(id)
    BY <2>3, <2>4, <2>6, LeftAfterRemoval DEF Linked
  <2>8. PICK t : t = TradeWith(slots[i], slots[i].qty)
    OBVIOUS
  <2>9. /\ t \in Trade /\ t.maker_order_id = m /\ t.qty = slots[i].qty
        /\ result'.trades = Append(result.trades, t)
    <3>1. t.maker_order_id = m /\ t.qty = slots[i].qty
      BY <2>4, <2>8 DEF TradeWith
    <3>2. result'.trades = Append(result.trades, t)
      BY <2>6, <2>8 DEF Fill, IndInv, TypeOK, AddResult
    <3>3. slots[i].qty \in Qty
      BY <2>5 DEF Order
    <3>4. t \in Trade
      BY <2>5, <2>8, <3>3, FillIsTrade
    <3> QED BY <3>1, <3>2, <3>4
  <2>10. Left(m) = Left(m)' + t.qty /\ Left(m) > 0 /\ t.qty > 0
    <3>1. slots[i].qty \in Nat
      BY <2>5, QtyAssumption DEF Order, Qty
    <3> QED BY <2>5, <2>7, <2>9, <3>1
  <2> QED BY <1>1, <2>5, <2>7, <2>9, <2>10 DEF TradeLimitStep
<1> QED BY <1>1, <1>2, <1>3

-----------------------------------------------------------------------------
(* The generator's own maps. *)

(* The vector and the map of places are inverse to each other.             *)
LivePlaces ==
  /\ live \in Seq(OrderId)
  /\ where \in [OrderId -> Int] /\ remaining \in [OrderId -> Int]
  /\ \A id \in OrderId : where[id] # Absent =>
       where[id] \in 0 .. Len(live) - 1 /\ live[where[id] + 1] = id
  /\ \A j \in 1 .. Len(live) : where[live[j]] = j - 1

(* Swap-removal takes one id away and leaves the others findable, the one  *)
(* that moved and the last one of the vector included.                     *)
LEMMA ForgetOne ==
  ASSUME LivePlaces, NEW id \in OrderId, where[id] # Absent, forget(id)
  PROVE  /\ LivePlaces'
         /\ where'[id] = Absent /\ remaining'[id] = Absent
         /\ \A o \in OrderId \ {id} : /\ where'[o] = Absent <=> where[o] = Absent
                                      /\ remaining'[o] = remaining[o]
<1>1. PICK i, n, last : i = where[id] /\ n = Len(live) /\ last = live[n]
  OBVIOUS
<1>2. /\ n \in Nat /\ i \in 0 .. n - 1 /\ live[i + 1] = id /\ n \in 1 .. Len(live)
      /\ last \in OrderId /\ where[last] = n - 1
      /\ \A j \in 1 .. n : live[j] \in OrderId /\ where[live[j]] = j - 1
  BY <1>1 DEF LivePlaces
<1>3. PICK w : w = [live EXCEPT ![i + 1] = last]
  OBVIOUS
<1>4. /\ live' = SubSeq(w, 1, n - 1)
      /\ where' = [where EXCEPT ![last] = i, ![id] = Absent]
      /\ remaining' = [remaining EXCEPT ![id] = Absent]
  BY <1>1, <1>3 DEF forget
<1>5. w \in Seq(OrderId) /\ Len(w) = n
      /\ \A j \in 1 .. n : w[j] = IF j = i + 1 THEN last ELSE live[j]
  BY <1>1, <1>2, <1>3 DEF LivePlaces
<1>6. /\ live' \in Seq(OrderId) /\ Len(live') = n - 1
      /\ \A j \in 1 .. n - 1 : live'[j] = IF j = i + 1 THEN last ELSE live[j]
  <2>1. \A j \in 1 .. n - 1 : w[j] \in OrderId /\ j \in 1 .. n
    BY <1>2, <1>5
  <2>2. /\ SubSeq(w, 1, n - 1) \in Seq(OrderId)
        /\ Len(SubSeq(w, 1, n - 1)) = n - 1
        /\ \A j \in 1 .. n - 1 : SubSeq(w, 1, n - 1)[j] = w[j]
    BY <1>2, <1>5, <2>1, SubSeqProperties
  <2> QED BY <1>4, <1>5, <2>1, <2>2
<1>7. /\ where' \in [OrderId -> Int] /\ remaining' \in [OrderId -> Int]
      /\ where'[id] = Absent /\ remaining'[id] = Absent
      /\ \A o \in OrderId \ {id} : /\ where'[o] = IF o = last THEN i ELSE where[o]
                                   /\ remaining'[o] = remaining[o]
  <2>1. where \in [OrderId -> Int] /\ remaining \in [OrderId -> Int]
        /\ i \in Int /\ Absent \in Int
    <3>1. where \in [OrderId -> Int] /\ remaining \in [OrderId -> Int]
      BY DEF LivePlaces
    <3>2. i \in Int
      BY <1>2
    <3>3. Absent \in Int
      BY DEF Absent
    <3> QED BY <3>1, <3>2, <3>3
  <2>2. where' \in [OrderId -> Int] /\ remaining' \in [OrderId -> Int]
    BY <1>4, <2>1
  <2>3. where'[id] = Absent /\ remaining'[id] = Absent
    BY <1>4, <2>1
  <2>4. ASSUME NEW o \in OrderId \ {id}
        PROVE  /\ where'[o] = IF o = last THEN i ELSE where[o]
               /\ remaining'[o] = remaining[o]
    BY <1>4, <2>1, <2>4
  <2> QED BY <2>2, <2>3, <2>4
<1>8. ASSUME NEW o \in OrderId, where'[o] # Absent
      PROVE  where'[o] \in 0 .. n - 2 /\ live'[where'[o] + 1] = o
  <2>1. o # id
    BY <1>7, <1>8
  <2>2. CASE o = last
    <3>1. i + 1 # n
      BY <1>1, <1>2, <2>1, <2>2
    <3>2. i + 1 \in 1 .. n - 1 /\ where'[o] = i
      BY <1>2, <1>7, <2>1, <2>2, <3>1
    <3> QED BY <1>2, <1>6, <2>2, <3>2
  <2>3. CASE o # last
    <3>1. where'[o] = where[o]
      BY <1>7, <2>1, <2>3
    <3>2. where[o] \in 0 .. n - 1 /\ live[where[o] + 1] = o
      BY <1>1, <1>8, <3>1 DEF LivePlaces
    <3>3. where[o] # i /\ where[o] + 1 # n
      BY <1>1, <1>2, <2>1, <2>3, <3>2
    <3>4. where[o] \in 0 .. n - 2 /\ where[o] + 1 \in 1 .. n - 1 /\ where[o] + 1 # i + 1
      BY <1>2, <3>2, <3>3
    <3> QED BY <1>6, <3>1, <3>2, <3>4
  <2> QED BY <2>2, <2>3
<1>9. ASSUME NEW j \in 1 .. n - 1 PROVE where'[live'[j]] = j - 1
  <2>1. CASE j = i + 1
    <3>1. last # id /\ live'[j] = last
      BY <1>1, <1>2, <1>6, <1>9, <2>1
    <3> QED BY <1>2, <1>7, <2>1, <3>1
  <2>2. CASE j # i + 1
    <3>1. live'[j] = live[j] /\ live[j] \in OrderId /\ where[live[j]] = j - 1
      BY <1>2, <1>6, <1>9, <2>2
    <3>2. live[j] # id /\ live[j] # last
      BY <1>1, <1>2, <1>9, <2>2, <3>1
    <3> QED BY <1>7, <3>1, <3>2
  <2> QED BY <2>1, <2>2
<1>10. LivePlaces'
  <2>1. Len(live') = n - 1 /\ Len(live') - 1 = n - 2
    BY <1>2, <1>6
  <2>2. \A o \in OrderId : where'[o] # Absent =>
          where'[o] \in 0 .. Len(live') - 1 /\ live'[where'[o] + 1] = o
    BY <1>8, <2>1
  <2>3. \A j \in 1 .. Len(live') : where'[live'[j]] = j - 1
    BY <1>9, <2>1
  <2> QED BY <1>6, <1>7, <2>2, <2>3 DEF LivePlaces
<1>11. \A o \in OrderId \ {id} : where'[o] = Absent <=> where[o] = Absent
  BY <1>2, <1>7 DEF Absent
<1> QED BY <1>7, <1>10, <1>11

(* A new id goes to the back of the vector. *)
LEMMA KeepOne ==
  ASSUME LivePlaces, NEW id \in OrderId, where[id] = Absent, NEW q \in Int,
         where' = [where EXCEPT ![id] = Len(live)],
         live' = Append(live, id),
         remaining' = [remaining EXCEPT ![id] = q]
  PROVE  /\ LivePlaces'
         /\ where'[id] # Absent /\ remaining'[id] = q
         /\ \A o \in OrderId \ {id} : /\ where'[o] = where[o]
                                      /\ remaining'[o] = remaining[o]
<1>1. PICK n : n = Len(live)
  OBVIOUS
<1>2. n \in Nat /\ live \in Seq(OrderId) /\ where \in [OrderId -> Int]
      /\ remaining \in [OrderId -> Int]
  BY <1>1 DEF LivePlaces
<1>3. /\ live' \in Seq(OrderId) /\ Len(live') = n + 1 /\ live'[n + 1] = id
      /\ \A j \in 1 .. n : live'[j] = live[j]
  BY <1>1, <1>2, AppendProperties
<1>4. /\ where' \in [OrderId -> Int] /\ remaining' \in [OrderId -> Int]
      /\ where'[id] = n /\ remaining'[id] = q
      /\ \A o \in OrderId \ {id} : where'[o] = where[o] /\ remaining'[o] = remaining[o]
  BY <1>1, <1>2
<1>5. \A o \in OrderId : where'[o] # Absent =>
        where'[o] \in 0 .. n /\ live'[where'[o] + 1] = o
  <2> SUFFICES ASSUME NEW o \in OrderId, where'[o] # Absent
               PROVE  where'[o] \in 0 .. n /\ live'[where'[o] + 1] = o
    OBVIOUS
  <2>1. CASE o = id
    BY <1>2, <1>3, <1>4, <2>1
  <2>2. CASE o # id
    <3>1. where'[o] = where[o] /\ where[o] \in 0 .. n - 1 /\ live[where[o] + 1] = o
      BY <1>1, <1>4, <2>2 DEF LivePlaces
    <3> QED BY <1>2, <1>3, <3>1
  <2> QED BY <2>1, <2>2
<1>6. ASSUME NEW j \in 1 .. n + 1 PROVE where'[live'[j]] = j - 1
  <2>1. CASE j = n + 1
    BY <1>2, <1>3, <1>4, <2>1
  <2>2. CASE j # n + 1
    <3>1. j \in 1 .. n /\ live'[j] = live[j] /\ live[j] \in OrderId /\ where[live[j]] = j - 1
      BY <1>1, <1>2, <1>3, <2>2 DEF LivePlaces
    <3>2. live[j] # id
      BY <3>1 DEF Absent
    <3> QED BY <1>4, <3>1, <3>2
  <2> QED BY <2>1, <2>2
<1>7. LivePlaces'
  BY <1>2, <1>3, <1>4, <1>5, <1>6, SMTT(30) DEF LivePlaces
<1> QED BY <1>2, <1>4, <1>7 DEF Absent

-----------------------------------------------------------------------------
(* The rank of a draw. *)

(* The cumulative weights of the ranks. *)
LEMMA ZipfWeights ==
  /\ zipf_cdf[0] = 0
  /\ \A r \in 0 .. MaxOffset : zipf_cdf[r] \in Nat
<1> DEFINE Weighs(f) == f = [r \in 0 .. MaxOffset |->
                               IF r = 0 THEN 0 ELSE f[r - 1] + ZipfOne \div r]
           P == Nat \X Nat
           next == [p \in P |-> <<p[1] + 1, p[2] + ZipfOne \div (p[1] + 1)>>]
<1>1. MaxOffset \in Nat /\ ZipfOne \in Nat
  BY StreamAssumption
<1>2. <<0, 0>> \in P
  OBVIOUS
<1>3. \A k \in Nat : ZipfOne \div (k + 1) \in Nat
  BY <1>1
<1>4. next \in [P -> P]
  <2>1. \A p \in P : <<p[1] + 1, p[2] + ZipfOne \div (p[1] + 1)>> \in P
    BY <1>3
  <2> HIDE DEF P
  <2> QED BY <2>1
<1>5. PICK f : /\ f \in [0 .. MaxOffset -> P] /\ f[0] = <<0, 0>>
               /\ \A k \in 1 .. MaxOffset : f[k] = next[f[k - 1]]
  <2> HIDE DEF P, next
  <2>1. Iterations(P, <<0, 0>>, next, MaxOffset) # {}
    BY <1>1, <1>2, <1>4, IterationExists
  <2>2. PICK f : f \in Iterations(P, <<0, 0>>, next, MaxOffset)
    BY <2>1
  <2> QED BY <2>2 DEF Iterations
<1>6. \A k \in 0 .. MaxOffset : f[k][1] = k
  <2> DEFINE S == {k \in 0 .. MaxOffset : f[k][1] = k}
  <2>1. 0 \in S
    BY <1>1, <1>5
  <2>2. ASSUME NEW k \in 1 .. MaxOffset, k - 1 \in S PROVE k \in S
    <3>1. f[k] = next[f[k - 1]] /\ f[k - 1] \in P /\ f[k - 1][1] = k - 1
      BY <1>1, <1>5, <2>2
    <3>2. f[k][1] = f[k - 1][1] + 1
      BY <3>1
    <3> QED BY <2>2, <3>1, <3>2
  <2>3. \A k \in 0 .. MaxOffset : k \in S
    <3> HIDE DEF S
    <3> QED BY <1>1, <2>1, <2>2, Reaches
  <2> QED BY <2>3
<1> DEFINE w == [r \in 0 .. MaxOffset |-> f[r][2]]
<1>7. \A k \in 0 .. MaxOffset : w[k] \in Nat
  BY <1>5
<1>8. w[0] = 0
  BY <1>1, <1>5
<1>9. ASSUME NEW k \in 1 .. MaxOffset PROVE w[k] = w[k - 1] + ZipfOne \div k
  <2>1. k \in 0 .. MaxOffset /\ k - 1 \in 0 .. MaxOffset /\ k - 1 + 1 = k
    BY <1>1
  <2>3. f[k] = next[f[k - 1]] /\ f[k - 1] \in P /\ f[k - 1][1] = k - 1
    <3> HIDE DEF P, next
    <3> QED BY <1>5, <1>6, <2>1
  <2>2. f[k][2] = f[k - 1][2] + ZipfOne \div (f[k - 1][1] + 1)
    BY <2>3
  <2> QED BY <2>1, <2>2, <2>3
<1>10. Weighs(w)
  <2>1. \A k \in 0 .. MaxOffset : k = 0 \/ k \in 1 .. MaxOffset
    BY <1>1
  <2>2. \A k \in 0 .. MaxOffset :
          w[k] = IF k = 0 THEN 0 ELSE w[k - 1] + ZipfOne \div k
    <3> HIDE DEF w
    <3> QED BY <1>8, <1>9, <2>1
  <2>3. w = [k \in 0 .. MaxOffset |-> w[k]]
    OBVIOUS
  <2> HIDE DEF w
  <2> QED BY <2>2, <2>3
<1>11. Weighs(zipf_cdf)
  <2>1. zipf_cdf = CHOOSE g : Weighs(g)
    BY DEF zipf_cdf
  <2> HIDE DEF Weighs, w
  <2> QED BY <1>10, <2>1
<1>12. AgreeUpTo(zipf_cdf, w, MaxOffset)
  <2>1. \A k \in 0 .. MaxOffset :
          zipf_cdf[k] = IF k = 0 THEN 0 ELSE zipf_cdf[k - 1] + ZipfOne \div k
    BY <1>11
  <2>2. zipf_cdf[0] = w[0]
    BY <1>1, <1>8, <2>1
  <2>3. ASSUME NEW k \in 1 .. MaxOffset, zipf_cdf[k - 1] = w[k - 1]
        PROVE  zipf_cdf[k] = w[k]
    <3>1. k \in 0 .. MaxOffset /\ k # 0
      BY <1>1
    <3> HIDE DEF w
    <3> QED BY <1>9, <2>1, <2>3, <3>1
  <2> HIDE DEF w
  <2> QED BY <1>1, <2>2, <2>3, StepwiseEqual
<1> QED
  <2> HIDE DEF w
  <2> QED BY <1>1, <1>7, <1>8, <1>12 DEF AgreeUpTo

(* Every draw below the total weight has a rank. *)
LEMMA RankInRange ==
  ASSUME NEW u \in 0 .. zipf_cdf[MaxOffset] - 1
  PROVE  RankOf(u) \in 1 .. MaxOffset
<1> DEFINE S == {r \in 1 .. MaxOffset : zipf_cdf[r] > u}
<1>1. MaxOffset \in Nat /\ MaxOffset \in 0 .. MaxOffset
  BY StreamAssumption
<1>2. \A r \in 0 .. MaxOffset : zipf_cdf[r] \in Nat
  BY ZipfWeights
<1>3. u \in Nat /\ zipf_cdf[MaxOffset] > u
  BY <1>1, <1>2
<1>4. MaxOffset \in S
  BY <1>1, <1>3, ZipfWeights
<1>5. PICK r \in S : \A m \in S : r <= m
  <2>1. S \in SUBSET Nat /\ S # {}
    BY <1>1, <1>4
  <2> HIDE DEF S
  <2> QED BY <2>1, LeastNumber
<1>6. r \in 1 .. MaxOffset /\ zipf_cdf[r] > u
  OBVIOUS
<1>7. zipf_cdf[r - 1] <= u
  <2>1. r - 1 \in 0 .. MaxOffset /\ r - 1 < r /\ r - 1 \notin S
    BY <1>1, <1>5, <1>6
  <2>2. CASE r = 1
    BY <1>3, <2>2, ZipfWeights
  <2>3. CASE r # 1
    <3>1. r - 1 \in 1 .. MaxOffset /\ ~(zipf_cdf[r - 1] > u)
      BY <1>6, <2>1, <2>3
    <3>2. zipf_cdf[r - 1] \in Nat
      BY <1>2, <2>1
    <3> QED BY <1>3, <3>1, <3>2
  <2> QED BY <2>2, <2>3
<1> QED BY <1>6, <1>7 DEF RankOf

-----------------------------------------------------------------------------
(* The generator follows its book. *)

(* The trades with an order that generate() has yet to look at. *)
Pending(id) ==
  IF made = Undef THEN {}
  ELSE {k \in tallied + 1 .. Len(result.trades) :
          result.trades[k].maker_order_id = id}

(* What generate() has for an order of an earlier command: once the trades *)
(* with it are taken off, what it has left in the book.                    *)
Follows(id) ==
  IF where[id] = Absent
    THEN remaining[id] = Absent /\ Left(id) = 0 /\ Pending(id) = {}
    ELSE /\ Pending(id) = {} => remaining[id] = Left(id) /\ Left(id) > 0
         /\ \A k \in Pending(id) : remaining[id] = Left(id) + result.trades[k].qty

(* Between two commands.  Ids not given out yet are not in the maps. *)
Settled ==
  /\ pc = "idle" /\ tallied = 0 /\ next_id <= Len(out) + 1
  /\ \A id \in OrderId : Follows(id) /\ (where[id] # Absent => id < next_id)

MakersDiffer(trades) ==
  \A j, k \in 1 .. Len(trades) :
    trades[j].maker_order_id = trades[k].maker_order_id => j = k

(* While an order is added.  A maker that a sweep goes on after is gone.   *)
Adding ==
  /\ made \in Commands /\ made.kind = "Limit" /\ made.tif = "GTC"
  /\ made.id = next_id - 1 /\ Len(out) < Ops /\ next_id <= Len(out) + 2
  /\ tallied <= Len(result.trades) /\ MakersDiffer(result.trades)
  /\ \A id \in OrderId :
       IF id = made.id
         THEN /\ where[id] = Absent /\ remaining[id] = Absent /\ Pending(id) = {}
              /\ Left(id) = IF pc = "idle" THEN result.resting_qty ELSE 0
         ELSE Follows(id) /\ (where[id] # Absent => id < made.id)
  /\ pc # "idle" => /\ pc \in {"cross", "rest", "allocate", "append"}
                    /\ cmd = made /\ tallied = 0 /\ OwnSlot
  /\ pc = "cross" /\ left > 0 =>
       \A id \in OrderId, k \in 1 .. Len(result.trades) :
         result.trades[k].maker_order_id = id => Left(id) = 0

(***************************************************************************)
(* The invariant of generate(): at every point of its loop its maps are    *)
(* the book's orders, but for the trades it has yet to take off and the    *)
(* order it is adding.                                                     *)
(***************************************************************************)
GenInv ==
  /\ IndInv /\ LivePlaces
  /\ out \in Seq(Commands) /\ tallied \in Nat /\ next_id \in Nat \ {0}
  /\ made = Undef => Settled
  /\ made # Undef => Adding

LEMMA GeneratorStarts ==
  ASSUME Init, NewGenerator
  PROVE  GenInv
<1>1. IndInv
  BY InitInd
<1>2. /\ live = <<>> /\ out = <<>> /\ next_id = 1 /\ made = Undef /\ tallied = 0
      /\ where = [id \in OrderId |-> Absent] /\ remaining = [id \in OrderId |-> Absent]
      /\ pc = "idle" /\ \A id \in OrderId : id_map[id] = NilHandle
  BY DEF Init, NewGenerator
<1>3. LivePlaces
  BY <1>2 DEF LivePlaces, Absent
<1>4. \A id \in OrderId : Left(id) = 0 /\ Pending(id) = {}
  BY <1>2 DEF Left, contains, Pending
<1>5. Settled
  BY <1>2, <1>4 DEF Settled, Follows
<1> QED BY <1>1, <1>2, <1>3, <1>5 DEF GenInv

(* The generator's book keeps the invariant of the book.                   *)
LEMMA BookStep ==
  ASSUME IndInv, (\E c \in Commands : Start(c)) \/ Step
  PROVE  IndInv'
BY NextInd DEF Next

(* generate() cancels an order that its book has. *)
LEMMA GenCancelHits ==
  ASSUME GenInv, NEW k \in 1 .. Ops, GenCancel(k)
  PROVE  \E c \in Commands : /\ c = cancel_command(live[k])
                             /\ contains(c.id)
                             /\ CancelOrder(c)
<1>1. /\ made = Undef /\ k \in DOMAIN live /\ Settled /\ IndInv /\ LivePlaces
  BY DEF GenInv, GenCancel
<1>2. PICK m : m = live[k]
  OBVIOUS
<1>3. m \in OrderId /\ where[m] # Absent
  <2>1. live \in Seq(OrderId) /\ k \in 1 .. Len(live)
    BY <1>1 DEF LivePlaces
  <2>2. m \in OrderId /\ where[m] = k - 1
    BY <1>1, <1>2, <2>1 DEF LivePlaces
  <2> QED BY <2>1, <2>2 DEF Absent
<1>4. PICK c : c = cancel_command(m)
  OBVIOUS
<1>5. c \in Commands /\ c.kind = "Cancel" /\ c.id = m
  BY <1>3, <1>4, StreamAssumption DEF cancel_command
<1>6. Start(c)
  BY <1>2, <1>4 DEF GenCancel
<1>7. pc = "idle" /\ Pending(m) = {}
  BY <1>1 DEF Settled, Pending
<1>8. contains(m) /\ validate(id_map[m])
  BY <1>1, <1>3, <1>7, LeftOf, RestingOrder DEF Settled, Follows
<1>9. CancelOrder(c)
  BY <1>5, <1>6, <1>8 DEF Start, AddReject, AddAccept, IsAdd, ModifyReject,
     ModifyInPlace, ModifyMove, CancelMiss, Found
<1> QED BY <1>2, <1>4, <1>5, <1>8, <1>9

(* generate() adds an order that its book does not have. *)
LEMMA GenLimitMisses ==
  ASSUME GenInv, NEW side \in Side, NEW u \in 0 .. zipf_cdf[MaxOffset] - 1,
         NEW qty \in 1 .. MaxQty, GenLimit(side, u, qty)
  PROVE  /\ made' \in Commands /\ made'.kind = "Limit" /\ made'.tif = "GTC"
         /\ made'.id = next_id /\ made'.qty = qty
         /\ next_id \in OrderId /\ where[next_id] = Absent /\ Left(next_id) = 0
         /\ ~contains(next_id) /\ made' # Undef /\ AddAccept(made')
<1>1. made = Undef /\ Settled /\ IndInv /\ Start(made') /\ Len(out) < Ops
  BY DEF GenInv, GenLimit
<1>2. PICK c, m : c = made' /\ m = next_id
  OBVIOUS
<1>3. /\ m \in OrderId /\ m \in Nat /\ pc = "idle" /\ m <= Len(out) + 1
  BY <1>1, <1>2, IdsAssumption DEF Settled, GenInv
<1>4. c \in Commands /\ c.kind = "Limit" /\ c.tif = "GTC" /\ c.id = m /\ c.qty = qty
  <2>1. PICK r \in 1 .. MaxOffset : r = RankOf(u)
    BY RankInRange
  <2>2. c = limit_command(m, side, PriceAt(side, r), qty, m, "GTC")
    BY <1>2, <2>1 DEF GenLimit
  <2>3. c \in Commands
    BY <1>3, <2>1, <2>2, StreamAssumption
  <2> QED BY <2>2, <2>3 DEF limit_command
<1>5. where[m] = Absent /\ Left(m) = 0
  BY <1>1, <1>2, <1>3 DEF Settled, Follows
<1>6. ~contains(m)
  BY <1>1, <1>3, <1>5, LeftOf
<1>7. AddAccept(c)
  <2>1. qty # 0 /\ ~AddRefused(c)
    BY <1>4, <1>6 DEF AddRefused
  <2>2. Start(c)
    BY <1>1, <1>2
  <2> QED BY <1>4, <2>1, <2>2 DEF Start, AddReject, ModifyReject,
     ModifyInPlace, ModifyMove, CancelMiss, CancelOrder
<1>8. c # Undef
  BY <1>4, UndefAssumption, CommandsAssumption
<1> QED BY <1>2, <1>3, <1>4, <1>5, <1>6, <1>7, <1>8

(* A cancel takes an order off the book and off the maps. *)
LEMMA GenCancelFollows ==
  ASSUME GenInv, NEW k \in 1 .. Ops, GenCancel(k)
  PROVE  GenInv'
<1>1. /\ made = Undef /\ made' = Undef /\ tallied' = tallied /\ next_id' = next_id
      /\ k \in DOMAIN live /\ Settled /\ IndInv /\ LivePlaces
  BY DEF GenInv, GenCancel
<1>2. PICK m : m = live[k]
  OBVIOUS
<1>3. m \in OrderId /\ where[m] # Absent
  <2>1. live \in Seq(OrderId) /\ k \in 1 .. Len(live)
    BY <1>1 DEF LivePlaces
  <2>2. m \in OrderId /\ where[m] = k - 1
    BY <1>1, <1>2, <2>1 DEF LivePlaces
  <2> QED BY <2>1, <2>2 DEF Absent
<1>4. PICK c \in Commands : c = cancel_command(m) /\ contains(c.id) /\ CancelOrder(c)
  BY <1>2, GenCancelHits
<1>5. c.kind = "Cancel" /\ c.id = m
  BY <1>4 DEF cancel_command
<1>6. Start(c) /\ out' = Append(out, c) /\ forget(m)
  BY <1>2, <1>4 DEF GenCancel
<1>7. /\ pc = "idle" /\ \A id \in OrderId : Pending(id) = {} /\ Pending(id)' = {}
  BY <1>1 DEF Settled, Pending
<1>8. contains(m) /\ CancelOrder(c)
  BY <1>4, <1>5
<1>9. PICK i \in Index : /\ i = id_map[m].index /\ Live(i) /\ slots[i].order_id = m
                          /\ id_map[m] = handle_of(i)
  BY <1>1, <1>3, <1>7, <1>8, RestingOrder
<1>10. free(handle_of(i)) /\ id_erase(m) /\ pc' = "idle"
  BY <1>5, <1>8, <1>9 DEF CancelOrder, Finish
<1>11. slots' = [slots EXCEPT ![i] = Undef]
  BY <1>1, <1>9, <1>10, FreeEffect DEF IndInv
<1>12. Left(m)' = 0 /\ \A id \in OrderId \ {m} : Left(id)' = Left(id)
  BY <1>1, <1>7, <1>9, <1>10, <1>11, LeftAfterRemoval
<1>13. /\ LivePlaces' /\ where'[m] = Absent /\ remaining'[m] = Absent
       /\ \A id \in OrderId \ {m} : /\ where'[id] = Absent <=> where[id] = Absent
                                    /\ remaining'[id] = remaining[id]
  BY <1>1, <1>3, <1>6, ForgetOne
<1>14. out' \in Seq(Commands) /\ Len(out') = Len(out) + 1 /\ Len(out) \in Nat
  BY <1>5, <1>6 DEF GenInv
<1>15. IndInv'
  BY <1>1, <1>5, <1>6, BookStep
<1>16. ASSUME NEW id \in OrderId
       PROVE  Follows(id)' /\ (where'[id] # Absent => id < next_id')
  <2>1. Follows(id) /\ (where[id] # Absent => id < next_id)
    BY <1>1 DEF Settled
  <2>2. CASE id = m
    BY <1>7, <1>12, <1>13, <2>2 DEF Follows
  <2>3. CASE id # m
    BY <1>1, <1>7, <1>12, <1>13, <2>1, <2>3 DEF Follows
  <2> QED BY <2>2, <2>3
<1>17. Settled'
  BY <1>1, <1>10, <1>14, <1>16 DEF Settled, GenInv
<1> QED BY <1>1, <1>13, <1>14, <1>15, <1>17 DEF GenInv

(* A limit order starts to sweep under an id that is not in the book. *)
LEMMA GenLimitFollows ==
  ASSUME GenInv, NEW side \in Side, NEW u \in 0 .. zipf_cdf[MaxOffset] - 1,
         NEW qty \in 1 .. MaxQty, GenLimit(side, u, qty)
  PROVE  GenInv'
<1>1. /\ made = Undef /\ Settled /\ IndInv /\ LivePlaces
      /\ UNCHANGED <<live, where, remaining, out, tallied>>
      /\ next_id' = next_id + 1 /\ Start(made') /\ Len(out) < Ops
  BY DEF GenInv, GenLimit
<1>2. PICK c : c = made'
  OBVIOUS
<1>3. PICK m : m = next_id
  OBVIOUS
<1>4. /\ m \in OrderId /\ m \in Nat /\ Len(out) \in Nat /\ Ops \in Nat
      /\ pc = "idle" /\ tallied = 0 /\ m <= Len(out) + 1
  BY <1>1, <1>3, IdsAssumption DEF Settled, GenInv
<1>5. /\ c \in Commands /\ c.kind = "Limit" /\ c.tif = "GTC" /\ c.id = m
      /\ where[m] = Absent /\ Left(m) = 0
  BY <1>2, <1>3, GenLimitMisses
<1>6. /\ \A id \in OrderId : Pending(id) = {}
      /\ remaining[m] = Absent
  BY <1>1, <1>4, <1>5 DEF Settled, Follows, Pending
<1>7. AddAccept(c) /\ made' # Undef
  BY <1>2, GenLimitMisses
<1>8. /\ pc' = "cross" /\ cmd' = c /\ result'.trades = <<>>
      /\ slots' = slots /\ id_map' = id_map
  BY <1>5, <1>7 DEF AddAccept, Goto, Outcome, poolVars
<1>9. \A id \in OrderId : Left(id)' = Left(id) /\ Pending(id)' = {}
  BY <1>1, <1>4, <1>8 DEF Left, contains, Pending
<1>10. IndInv'
  BY <1>1, <1>2, <1>5, BookStep
<1>11. ASSUME NEW id \in OrderId
       PROVE  IF id = m
         THEN /\ where'[id] = Absent /\ remaining'[id] = Absent /\ Pending(id)' = {}
              /\ Left(id)' = 0
         ELSE Follows(id)' /\ (where'[id] # Absent => id < m)
  BY <1>1, <1>3, <1>5, <1>6, <1>9 DEF Settled, Follows
<1>12. Adding'
  BY <1>1, <1>2, <1>3, <1>4, <1>5, <1>8, <1>11 DEF Adding, MakersDiffer, OwnSlot
<1>13. LivePlaces'
  BY <1>1 DEF LivePlaces
<1> QED BY <1>1, <1>3, <1>4, <1>7, <1>10, <1>12, <1>13 DEF GenInv

(* A step of the order's sweep, or of its way to rest. *)
LEMMA GenStepFollows ==
  ASSUME GenInv, GenStep
  PROVE  GenInv'
<1>1. /\ made # Undef /\ Adding /\ IndInv /\ LivePlaces /\ Step
      /\ UNCHANGED <<live, where, remaining, next_id, out, made, tallied>>
  BY DEF GenInv, GenStep, genVars
<1>2. pc # "idle"
  BY <1>1 DEF Step, FokLevel, FokOrder, FokReject, FokPass, CrossPartial, CrossFull,
     CrossStop, CrossDone, CrossResidual, RestLevel, RestFull, RestAllocate, RestAppend,
     ModifyLevel, ModifyAppend
<1>3. /\ pc \in {"cross", "rest", "allocate", "append"} /\ cmd = made /\ tallied = 0
      /\ OwnSlot /\ cmd.kind = "Limit"
  BY <1>1, <1>2 DEF Adding
<1>4. PICK m : m = made.id
  OBVIOUS
<1>5. made'.id = m /\ cmd.id = m /\ tallied' = 0
  BY <1>1, <1>3, <1>4
<1>6. IndInv' /\ LivePlaces'
  BY <1>1, BookStep DEF LivePlaces
<1>7. \A id \in OrderId :
        IF id = m
          THEN where[id] = Absent /\ remaining[id] = Absent /\ Pending(id) = {} /\ Left(id) = 0
          ELSE Follows(id) /\ (where[id] # Absent => id < m)
  BY <1>1, <1>2, <1>4 DEF Adding
<1>8. \/ pc = "cross" /\ (CrossPartial \/ CrossFull)
      \/ \/ CrossStop \/ CrossDone \/ CrossResidual \/ RestLevel \/ RestFull
         \/ RestAllocate \/ RestAppend
  BY <1>1, <1>3 DEF Step, FokLevel, FokOrder, FokReject, FokPass, CrossPartial, CrossFull,
     ModifyLevel, ModifyAppend
<1>9. CASE pc = "cross" /\ (CrossPartial \/ CrossFull)
  <2>1. PICK o \in OrderId : TradeLimitStep(o)
    BY <1>1, <1>3, <1>9, TradeLimit
  <2>2. PICK t \in Trade : /\ result'.trades = Append(result.trades, t)
                           /\ t.maker_order_id = o /\ Left(o) = Left(o)' + t.qty
    BY <2>1 DEF TradeLimitStep
  <2>3. /\ o # m /\ Left(o) > 0 /\ left > 0 /\ pc' = "cross" /\ cmd' = cmd
        /\ left' = 0 \/ Left(o)' = 0
        /\ \A id \in OrderId \ {o} : Left(id)' = Left(id)
    BY <1>1, <1>3, <1>5, <1>9, <2>1, TradeLimit DEF TradeLimitStep
  <2>4. PICK n \in Nat : n = Len(result.trades) /\ result.trades \in Seq(Trade)
    BY <1>1 DEF IndInv, TypeOK, AddResult
  <2>5. /\ Len(result'.trades) = n + 1 /\ result'.trades[n + 1] = t
        /\ \A k \in 1 .. n : result'.trades[k] = result.trades[k]
    BY <2>2, <2>4, AppendProperties
  <2>6. \A k \in 1 .. n : result.trades[k].maker_order_id # o
    BY <1>1, <1>9, <2>3, <2>4 DEF Adding
  <2>7. Pending(o) = {} /\ Pending(o)' = {n + 1}
    BY <1>1, <1>3, <1>5, <2>2, <2>4, <2>5, <2>6 DEF Pending
  <2>8. ASSUME NEW id \in OrderId \ {o} PROVE Pending(id)' = Pending(id)
    BY <1>1, <1>3, <1>5, <2>2, <2>4, <2>5, <2>8 DEF Pending
  <2>9. ASSUME NEW id \in OrderId
        PROVE  IF id = m
                 THEN where'[id] = Absent /\ remaining'[id] = Absent
                      /\ Pending(id)' = {} /\ Left(id)' = 0
                 ELSE Follows(id)' /\ (where'[id] # Absent => id < m)
    <3>1. CASE id = o
      <4>1. where[o] # Absent /\ remaining[o] = Left(o) /\ o < m
        BY <1>7, <2>3, <2>7 DEF Follows
      <4> QED BY <1>1, <2>2, <2>3, <2>5, <2>7, <3>1, <4>1 DEF Follows
    <3>2. CASE id # o
      <4>1. Left(id)' = Left(id) /\ Pending(id)' = Pending(id)
        BY <2>3, <2>8, <3>2
      <4>2. \A k \in Pending(id) : result'.trades[k] = result.trades[k]
        BY <1>1, <1>3, <2>4, <2>5 DEF Pending
      <4> QED BY <1>1, <1>7, <4>1, <4>2 DEF Follows
    <3> QED BY <3>1, <3>2
  <2>10. MakersDiffer(result'.trades)
    <3>1. MakersDiffer(result.trades)
      BY <1>1 DEF Adding
    <3>2. \A k \in 1 .. n + 1 : k \in 1 .. n \/ k = n + 1
      OBVIOUS
    <3> QED BY <2>2, <2>4, <2>5, <2>6, <3>1, <3>2 DEF MakersDiffer
  <2>11. ASSUME left' > 0, NEW id \in OrderId, NEW k \in 1 .. n + 1,
                result'.trades[k].maker_order_id = id
         PROVE  Left(id)' = 0
    <3>1. CASE id = o
      BY <2>3, <2>11, <3>1
    <3>2. CASE id # o
      <4>1. k \in 1 .. n /\ result.trades[k].maker_order_id = id
        BY <2>2, <2>5, <2>11, <3>2
      <4>2. Left(id) = 0
        BY <1>1, <1>9, <2>3, <2>4, <4>1 DEF Adding
      <4> QED BY <2>3, <3>2, <4>2
    <3> QED BY <3>1, <3>2
  <2>12. OwnSlot'
    BY <2>3 DEF OwnSlot
  <2>13. Adding'
    BY <1>1, <1>3, <1>5, <2>3, <2>5, <2>9, <2>10, <2>11, <2>12 DEF Adding
  <2> QED BY <1>1, <1>6, <2>13 DEF GenInv
<1>10. CASE \/ CrossStop \/ CrossDone \/ CrossResidual \/ RestLevel \/ RestFull
            \/ RestAllocate \/ RestAppend
  <2>1. /\ result'.trades = result.trades /\ pc' # "cross"
        /\ \A id \in OrderId : id # m => Left(id)' = Left(id)
        /\ pc' \in {"idle", "rest", "allocate", "append"}
        /\ pc' # "idle" => cmd' = cmd /\ OwnSlot'
        /\ Left(m)' = IF pc' = "idle" THEN result'.resting_qty ELSE 0
    <3>1. m \in OrderId
      BY <1>1, <1>4, CommandsAssumption DEF Adding, Command
    <3> QED BY <1>1, <1>3, <1>5, <1>10, <3>1, QuietLimit DEF QuietLimitStep
  <2>2. \A id \in OrderId : Pending(id)' = Pending(id)
    BY <1>1, <2>1 DEF Pending
  <2>3. ASSUME NEW id \in OrderId
        PROVE  IF id = m
                 THEN /\ where'[id] = Absent /\ remaining'[id] = Absent
                      /\ Pending(id)' = {}
                      /\ Left(id)' = IF pc' = "idle" THEN result'.resting_qty ELSE 0
                 ELSE Follows(id)' /\ (where'[id] # Absent => id < m)
    BY <1>1, <1>7, <2>1, <2>2 DEF Follows
  <2>4. Adding'
    BY <1>1, <1>3, <1>5, <2>1, <2>3 DEF Adding
  <2> QED BY <1>1, <1>6, <2>4 DEF GenInv
<1> QED BY <1>8, <1>9, <1>10

(* One trade is taken off its maker, and the maker goes if it is finished. *)
LEMMA GenTallyFollows ==
  ASSUME GenInv, GenTally
  PROVE  GenInv'
<1>1. /\ made # Undef /\ Adding /\ IndInv /\ LivePlaces /\ pc = "idle"
      /\ tallied < Len(result.trades) /\ tallied' = tallied + 1 /\ tallied \in Nat
      /\ UNCHANGED <<vars, next_id, out, made>>
  BY DEF GenInv, GenTally
<1>2. PICK n \in Nat : n = Len(result.trades) /\ result.trades \in Seq(Trade)
  BY <1>1 DEF IndInv, TypeOK, AddResult
<1>3. PICK j \in 1 .. n : j = tallied + 1
  BY <1>1, <1>2
<1>4. PICK t \in Trade : t = result.trades[j]
  BY <1>2, <1>3
<1>5. PICK o \in OrderId : o = t.maker_order_id
  BY <1>4 DEF Trade
<1>6. PICK m : m = made.id
  OBVIOUS
<1>7. \A id \in OrderId :
        IF id = m
          THEN /\ where[id] = Absent /\ remaining[id] = Absent /\ Pending(id) = {}
               /\ Left(id) = result.resting_qty
          ELSE Follows(id) /\ (where[id] # Absent => id < m)
  BY <1>1, <1>6 DEF Adding
<1>8. j \in Pending(o)
  BY <1>1, <1>2, <1>3, <1>4, <1>5 DEF Pending
<1>9. /\ o # m /\ where[o] # Absent /\ o < m
      /\ remaining[o] = Left(o) + t.qty
  BY <1>4, <1>7, <1>8 DEF Follows
<1>10. PICK q \in Nat : q = Left(o) /\ q < QtyModulus
  BY <1>1, LeftOf
<1>11. (remaining[o] - t.qty) % QtyModulus = q
  <2>1. t.qty \in Nat /\ QtyModulus \in Nat
    BY QtyAssumption DEF Trade, Qty
  <2>2. remaining[o] - t.qty = q
    BY <1>9, <1>10, <2>1
  <2> QED BY <1>10, <2>1, <2>2
<1>12. /\ q = 0 => forget(o)
       /\ q # 0 => remaining' = [remaining EXCEPT ![o] = q] /\ UNCHANGED <<live, where>>
  BY <1>3, <1>4, <1>5, <1>11 DEF GenTally
<1>13. /\ UNCHANGED <<slots, id_map, result, pc, cmd, left, idx>>
       /\ \A id \in OrderId : Left(id)' = Left(id)
  BY <1>1 DEF vars, poolVars, commandVars, Left, contains
<1>14. Pending(o)' = {}
  <2>1. \A k \in 1 .. n : result.trades[k].maker_order_id = o => k = j
    BY <1>1, <1>2, <1>4, <1>5 DEF Adding, MakersDiffer
  <2> QED BY <1>1, <1>2, <1>3, <1>13, <2>1 DEF Pending
<1>15. ASSUME NEW id \in OrderId \ {o} PROVE Pending(id)' = Pending(id)
  <2>1. result.trades[j].maker_order_id # id
    BY <1>4, <1>5
  <2>2. \A k \in 1 .. n : k \in tallied + 1 .. n <=> k = j \/ k \in j + 1 .. n
    BY <1>1, <1>3
  <2>3. tallied' + 1 = j + 1 /\ made' = made /\ result' = result
    BY <1>1, <1>3, <1>13
  <2>4. \A k \in tallied + 1 .. n : k \in 1 .. n
    BY <1>1
  <2>5. \A k \in j + 1 .. n : k \in 1 .. n
    BY <1>3
  <2>6. Pending(id) = {k \in tallied + 1 .. n : result.trades[k].maker_order_id = id}
    BY <1>1, <1>2 DEF Pending
  <2>7. Pending(id)' = {k \in j + 1 .. n : result.trades[k].maker_order_id = id}
    BY <1>1, <1>2, <2>3 DEF Pending
  <2> QED BY <2>1, <2>2, <2>4, <2>5, <2>6, <2>7
<1>16. /\ LivePlaces'
       /\ IF q = 0 THEN where'[o] = Absent /\ remaining'[o] = Absent
                   ELSE where'[o] # Absent /\ remaining'[o] = q
       /\ \A id \in OrderId \ {o} : /\ where'[id] = Absent <=> where[id] = Absent
                                    /\ remaining'[id] = remaining[id]
  <2>1. CASE q = 0
    BY <1>1, <1>9, <1>12, <2>1, ForgetOne
  <2>2. CASE q # 0
    <3>1. remaining \in [OrderId -> Int] /\ q \in Int
      BY <1>1 DEF LivePlaces
    <3>2. /\ remaining' \in [OrderId -> Int] /\ remaining'[o] = q
          /\ \A id \in OrderId \ {o} : remaining'[id] = remaining[id]
      BY <1>12, <2>2, <3>1
    <3>3. live' = live /\ where' = where
      BY <1>12, <2>2
    <3>4. LivePlaces'
      BY <1>1, <3>2, <3>3 DEF LivePlaces
    <3> QED BY <1>9, <2>2, <3>2, <3>3, <3>4
  <2> QED BY <2>1, <2>2
<1>17. ASSUME NEW id \in OrderId
       PROVE  IF id = m
                THEN /\ where'[id] = Absent /\ remaining'[id] = Absent
                     /\ Pending(id)' = {} /\ Left(id)' = result'.resting_qty
                ELSE Follows(id)' /\ (where'[id] # Absent => id < m)
  <2>1. CASE id = o
    BY <1>9, <1>10, <1>13, <1>14, <1>16, <2>1 DEF Follows
  <2>2. CASE id # o
    BY <1>7, <1>13, <1>15, <1>16, <2>2 DEF Follows
  <2> QED BY <2>1, <2>2
<1>18. Adding'
  BY <1>1, <1>2, <1>3, <1>6, <1>13, <1>17 DEF Adding
<1>19. IndInv'
  BY <1>1, NextInd
<1>20. tallied' \in Nat /\ out' \in Seq(Commands) /\ next_id' \in Nat \ {0} /\ made' # Undef
  BY <1>1 DEF GenInv
<1> QED BY <1>16, <1>18, <1>19, <1>20 DEF GenInv

(* The order is done with: what rests of it joins the maps. *)
LEMMA GenKeepFollows ==
  ASSUME GenInv, GenKeep
  PROVE  GenInv'
<1>1. /\ made # Undef /\ Adding /\ IndInv /\ LivePlaces /\ pc = "idle"
      /\ tallied = Len(result.trades) /\ tallied' = 0 /\ made' = Undef
      /\ out' = Append(out, made) /\ UNCHANGED <<vars, next_id>>
  BY DEF GenInv, GenKeep
<1>2. PICK m : m = made.id
  OBVIOUS
<1>3. m \in OrderId /\ m = next_id - 1 /\ made \in Commands
  BY <1>1, <1>2, CommandsAssumption DEF Adding, Command
<1>4. \A id \in OrderId : Pending(id) = {} /\ Pending(id)' = {}
  <2>1. Len(result.trades) \in Nat
    BY <1>1 DEF IndInv, TypeOK, AddResult
  <2> QED BY <1>1, <2>1 DEF Pending
<1>5. /\ where[m] = Absent /\ remaining[m] = Absent /\ Left(m) = result.resting_qty
      /\ \A id \in OrderId \ {m} : Follows(id) /\ (where[id] # Absent => id < m)
  BY <1>1, <1>2, <1>3 DEF Adding
<1>6. PICK q \in Nat : q = Left(m)
  BY <1>1, <1>3, LeftOf
<1>7. UNCHANGED <<slots, id_map, pc>> /\ \A id \in OrderId : Left(id)' = Left(id)
  BY <1>1 DEF vars, poolVars, commandVars, Left, contains
<1>8. /\ LivePlaces'
      /\ IF q = 0 THEN where'[m] = Absent /\ remaining'[m] = Absent
                  ELSE where'[m] # Absent /\ remaining'[m] = q
      /\ \A id \in OrderId \ {m} : where'[id] = where[id] /\ remaining'[id] = remaining[id]
  <2>1. CASE q = 0
    <3>1. UNCHANGED <<live, where, remaining>>
      BY <1>5, <1>6, <2>1 DEF GenKeep
    <3> QED BY <1>1, <1>5, <2>1, <3>1 DEF LivePlaces
  <2>2. CASE q # 0
    <3>1. /\ where' = [where EXCEPT ![m] = Len(live)]
          /\ live' = Append(live, m)
          /\ remaining' = [remaining EXCEPT ![m] = q]
      BY <1>2, <1>5, <1>6, <2>2 DEF GenKeep
    <3>2. q \in Int
      OBVIOUS
    <3>3. /\ LivePlaces' /\ where'[m] # Absent /\ remaining'[m] = q
          /\ \A id \in OrderId \ {m} : where'[id] = where[id] /\ remaining'[id] = remaining[id]
      BY <1>1, <1>3, <1>5, <3>1, <3>2, KeepOne
    <3> QED BY <2>2, <3>3
  <2> QED BY <2>1, <2>2
<1>9. /\ out' \in Seq(Commands) /\ Len(out') = Len(out) + 1 /\ Len(out) \in Nat
      /\ next_id \in Nat \ {0} /\ next_id' = next_id /\ m < next_id
  BY <1>1, <1>3 DEF GenInv
<1>10. ASSUME NEW id \in OrderId
       PROVE  Follows(id)' /\ (where'[id] # Absent => id < next_id')
  <2>1. CASE id = m
    BY <1>4, <1>6, <1>7, <1>8, <1>9, <2>1 DEF Follows
  <2>2. CASE id # m
    <3>1. Follows(id)'
      BY <1>4, <1>5, <1>7, <1>8, <2>2 DEF Follows
    <3>2. where'[id] # Absent => id < next_id'
      <4>1. where'[id] # Absent => id < m
        BY <1>5, <1>8, <2>2
      <4>2. id \in Int /\ m \in Int /\ next_id \in Int
        BY <1>3, <1>9, IdsAssumption
      <4> QED BY <1>9, <4>1, <4>2
    <3> QED BY <3>1, <3>2
  <2> QED BY <2>1, <2>2
<1>11. Settled'
  BY <1>1, <1>7, <1>9, <1>10 DEF Settled, Adding
<1>12. IndInv'
  BY <1>1, NextInd
<1> QED BY <1>1, <1>8, <1>9, <1>11, <1>12 DEF GenInv

LEMMA GenInvKept ==
  ASSUME GenInv, UNCHANGED <<vars, genVars>>
  PROVE  GenInv'
<1>1. /\ UNCHANGED vars /\ UNCHANGED <<live, where, remaining, next_id, out, made, tallied>>
      /\ UNCHANGED <<slots, id_map, result, pc, cmd, left, idx>>
  BY DEF vars, poolVars, commandVars, genVars
<1>2. IndInv'
  BY <1>1, NextInd DEF GenInv
<1>3. \A id \in OrderId : Left(id)' = Left(id) /\ Pending(id)' = Pending(id)
  BY <1>1 DEF Left, contains, Pending
<1>4. \A id \in OrderId : Follows(id) => Follows(id)'
  BY <1>1, <1>3 DEF Follows
<1>5. Settled => Settled'
  BY <1>1, <1>4 DEF Settled
<1>6. Adding => Adding'
  BY <1>1, <1>3, <1>4 DEF Adding, OwnSlot
<1>7. LivePlaces'
  BY <1>1 DEF GenInv, LivePlaces
<1> QED BY <1>1, <1>2, <1>5, <1>6, <1>7 DEF GenInv

(* Until a pass begins, the book and the maps are generate()'s. *)
StreamInv == stage \in {"clock", "noop", "generate"} => GenInv

LEMMA StreamStep == StreamInv /\ [BenchNext]_benchVars => StreamInv'
<1> SUFFICES ASSUME StreamInv, [BenchNext]_benchVars,
                    stage' \in {"clock", "noop", "generate"}
             PROVE  GenInv'
  BY DEF StreamInv
<1>1. CASE Calibrate \/ ClockReady \/ Noop \/ NoopDone
  <2>1. stage \in {"clock", "noop"} /\ UNCHANGED <<vars, genVars>>
    BY <1>1 DEF Calibrate, ClockReady, Noop, NoopDone
  <2> QED BY <2>1, GenInvKept DEF StreamInv
<1>2. CASE Stream
  <2>1. GenInv /\ Generate
    BY <1>2 DEF Stream, StreamInv
  <2> QED BY <2>1, GenCancelFollows, GenLimitFollows, GenStepFollows, GenTallyFollows,
             GenKeepFollows DEF Generate
<1>3. CASE StreamReady \/ Pass \/ WholeDone \/ PerOpDone \/ ProfileDone
  BY <1>3 DEF StreamReady, Pass, WholeDone, PerOpDone, ProfileDone, BeginPass, Passes
<1>4. CASE Exited \/ UNCHANGED benchVars
  <2>1. UNCHANGED <<vars, genVars>> /\ stage' = stage
    BY <1>4 DEF Exited, benchVars
  <2> QED BY <2>1, GenInvKept DEF StreamInv
<1> QED BY <1>1, <1>2, <1>3, <1>4 DEF BenchNext, Work

LEMMA StreamInvariance == BenchSpec => []StreamInv
<1>1. BenchInit => StreamInv
  BY GeneratorStarts DEF BenchInit, StreamInv
<1> QED BY <1>1, StreamStep, PTL DEF BenchSpec

(* The maps of a settled generator are the orders of its book. *)
LEMMA SettledKnowsItsBook ==
  ASSUME IndInv, LivePlaces, Settled, made = Undef
  PROVE  KnowsItsBook
<1>1. ASSUME NEW id \in OrderId
      PROVE  /\ contains(id) <=> where[id] # Absent
             /\ contains(id) => remaining[id] = slots[id_map[id].index].qty
             /\ ~contains(id) => remaining[id] = Absent
  <2>1. pc = "idle" /\ Follows(id) /\ Pending(id) = {}
    BY DEF Settled, Pending
  <2>2. contains(id) <=> Left(id) > 0
    BY <2>1, LeftOf
  <2>3. Left(id) = IF contains(id) THEN slots[id_map[id].index].qty ELSE 0
    BY DEF Left
  <2> QED BY <2>1, <2>2, <2>3 DEF Follows
<1>2. ASSUME NEW id \in OrderId
      PROVE  IF contains(id)
               THEN /\ where[id] \in 0 .. Len(live) - 1
                    /\ live[where[id] + 1] = id
                    /\ remaining[id] = slots[id_map[id].index].qty
               ELSE where[id] = Absent /\ remaining[id] = Absent
  BY <1>1 DEF LivePlaces
<1>3. Len(live) = Cardinality({id \in OrderId : contains(id)})
  <2> DEFINE T == {id \in OrderId : contains(id)}
  <2>1. PICK n \in Nat : n = Len(live) /\ live \in Seq(OrderId)
    BY DEF LivePlaces
  <2> DEFINE f == [j \in 1 .. n |-> live[j]]
  <2>2. \A j \in 1 .. n : f[j] \in OrderId /\ where[f[j]] = j - 1
    BY <2>1 DEF LivePlaces
  <2>3. \A j \in 1 .. n : f[j] \in T
    <3>1. \A j \in 1 .. n : j - 1 # Absent
      BY DEF Absent
    <3> HIDE DEF f
    <3> QED BY <1>1, <2>2, <3>1
  <2>4. \A id \in T : \E j \in 1 .. n : f[j] = id
    <3> SUFFICES ASSUME NEW id \in T PROVE \E j \in 1 .. n : f[j] = id
      OBVIOUS
    <3>1. where[id] \in 0 .. n - 1 /\ live[where[id] + 1] = id
      BY <1>2, <2>1
    <3>2. where[id] + 1 \in 1 .. n
      BY <3>1
    <3> QED BY <3>1, <3>2
  <2>5. \A j, k \in 1 .. n : f[j] = f[k] => j = k
    <3> HIDE DEF f
    <3> QED BY <2>2
  <2>6. f \in Bijection(1 .. n, T)
    <3>1. f = [j \in 1 .. n |-> f[j]]
      OBVIOUS
    <3> HIDE DEF f, T
    <3>2. f \in [1 .. n -> T]
      BY <2>3, <3>1
    <3> QED BY <2>4, <2>5, <3>2 DEF Bijection, Injection, Surjection, IsInjective
  <2>7. IsFiniteSet(1 .. n) /\ Cardinality(1 .. n) = n
    BY FS_Interval
  <2> HIDE DEF f, T
  <2>8. Cardinality(T) = Cardinality(1 .. n)
    BY <2>6, <2>7, FS_Bijection DEF ExistsBijection
  <2> QED BY <2>1, <2>7, <2>8 DEF T
<1> QED BY <1>2, <1>3 DEF KnowsItsBook

(***************************************************************************)
(* Between two commands of generate() its `live`, `where` and `remaining`  *)
(* are exactly the orders of its book with what each has left, for every   *)
(* stream of draws, mix and number of commands: it follows from the trades *)
(* and the resting quantity that a command reports.                        *)
(***************************************************************************)
THEOREM GeneratorAlwaysKnowsItsBook == BenchSpec => []GeneratorKnowsItsBook
<1>1. StreamInv => GeneratorKnowsItsBook
  BY SettledKnowsItsBook DEF StreamInv, GenInv, GeneratorKnowsItsBook
<1> QED BY <1>1, StreamInvariance, PTL

-----------------------------------------------------------------------------
(* A stream fits its book. *)

(* Command c suits book b: a cancel finds its order, an add is not refused. *)
Suits(b, c) ==
  IF c.kind = "Cancel" THEN HasOrder(b, c.id) ELSE c.qty # 0 /\ ~HasOrder(b, c.id)

(* B is what a fresh book goes through in the stream, and each command of  *)
(* the stream suits the book before it.                                    *)
Streamed(B) == /\ History(Capacity, out, Len(out), B)
               /\ \A i \in 1 .. Len(out) : Suits(B[i - 1], out[i])

(* The generator's book is where the stream and the order in hand say.     *)
Generated ==
  /\ Simulable(Capacity)
  /\ \E B : /\ Streamed(B)
            /\ IF made = Undef
                 THEN AsPriorityBook(Capacity) = B[Len(out)]
                 ELSE /\ Suits(B[Len(out)], made)
                      /\ Under(B[Len(out)], made, AsPriorityBook(Capacity))

(* The book of a pass is where the stream says.                            *)
Rerun ==
  /\ Simulable(Capacity)
  /\ out \in Seq(Commands) /\ at \in 0 .. Len(out)
  /\ \E B : Streamed(B) /\ Reached(Capacity, B[at], out[at + 1])

(* What the book contains, it has; the rest is refused or missed. *)
LEMMA SuitsByName ==
  ASSUME IndInv, pc = "idle", NEW c \in Commands
  PROVE  /\ HasOrder(AsPriorityBook(Capacity), c.id) <=> contains(c.id)
         /\ contains(c.id) <=> Found(c)
<1>1. PICK b : b = AsPriorityBook(Capacity)
  OBVIOUS
<1>2. b.orders = {slots[i] : i \in Resting}
  BY <1>1 DEF AsPriorityBook
<1> QED BY <1>1, <1>2, FindsByName

(* One more command that suits the book. *)
LEMMA StreamGrows ==
  ASSUME out \in Seq(Commands), NEW B, Streamed(B), NEW c \in Commands,
         out' = Append(out, c), Suits(B[Len(out)], c),
         NEW d, Settles(B[Len(out)], c, d)
  PROVE  \E C : Streamed(C)' /\ C[Len(out')] = d
<1>1. PICK n, cs : n = Len(out) /\ cs = out'
  OBVIOUS
<1>2. /\ n \in Nat /\ Len(cs) = n + 1 /\ cs[n + 1] = c
      /\ \A i \in 1 .. n : cs[i] = out[i]
  BY <1>1, AppendProperties
<1>3. History(Capacity, cs, n, B) /\ Settles(B[n], cs[n + 1], d)
  BY <1>1, <1>2 DEF Streamed, History
<1>4. PICK C : History(Capacity, cs, n + 1, C) /\ Continues(B, n, d, C)
  BY <1>2, <1>3, HistoryGrows, Zenon
<1>5. ASSUME NEW i \in 1 .. n + 1 PROVE Suits(C[i - 1], cs[i])
  <2>1. CASE i = n + 1
    <3>1. i - 1 = n /\ n \in 0 .. n
      BY <1>2, <2>1
    <3> QED BY <1>1, <1>2, <1>4, <2>1, <3>1 DEF Continues
  <2>2. CASE i # n + 1
    <3>1. i \in 1 .. n /\ i - 1 \in 0 .. n
      BY <1>2, <2>2
    <3> QED BY <1>1, <1>2, <1>4, <3>1 DEF Continues, Streamed
  <2> QED BY <2>1, <2>2
<1>6. Streamed(C)' /\ C[Len(out')] = d
  BY <1>1, <1>2, <1>4, <1>5 DEF Continues, Streamed
<1> QED BY <1>6

LEMMA GeneratedStarts ==
  ASSUME Init, NewGenerator
  PROVE  Generated
<1>1. Capacity \in 0 .. Capacity
  BY CapacityAssumption
<1>2. Simulable(Capacity) /\ AsPriorityBook(Capacity) = FreshBook(Capacity)
  BY <1>1, InitIsNew, NewIsFresh
<1>3. PICK B : B[0] = FreshBook(Capacity)
  <2> DEFINE B == [i \in {0} |-> FreshBook(Capacity)]
  <2>1. B[0] = FreshBook(Capacity)
    OBVIOUS
  <2> QED BY <2>1
<1>4. Len(out) = 0 /\ made = Undef
  BY DEF NewGenerator
<1>5. Streamed(B)
  BY <1>3, <1>4 DEF Streamed, History
<1> QED BY <1>2, <1>3, <1>4, <1>5 DEF Generated

(* A cancel suits the book, and leaves it at once. *)
LEMMA GenCancelGenerated ==
  ASSUME GenInv, Generated, NEW k \in 1 .. Ops, GenCancel(k)
  PROVE  Generated'
<1>1. PICK c \in Commands : c = cancel_command(live[k]) /\ contains(c.id) /\ CancelOrder(c)
  BY GenCancelHits
<1>2. /\ Start(c) /\ out' = Append(out, c) /\ made = Undef /\ made' = Undef
      /\ out \in Seq(Commands) /\ IndInv /\ pc = "idle" /\ Capacity \in 0 .. Capacity
  BY <1>1, CapacityAssumption DEF GenCancel, GenInv, Settled
<1>3. c.kind = "Cancel" /\ pc' = "idle"
  BY <1>1 DEF CancelOrder, Finish
<1>4. PICK B : Streamed(B) /\ AsPriorityBook(Capacity) = B[Len(out)]
  BY <1>2 DEF Generated
<1>5. PICK b, d : b = B[Len(out)] /\ d = AsPriorityBook(Capacity)'
  OBVIOUS
<1>6. Simulable(Capacity)' /\ Settles(b, c, d)
  <2>1. Reached(Capacity, b, c) /\ Simulable(Capacity)
    BY <1>2, <1>4, <1>5 DEF Reached, Generated
  <2> QED BY <1>2, <1>3, <1>5, <2>1, GoesOn
<1>7. Suits(b, c)
  BY <1>1, <1>2, <1>3, <1>4, <1>5, SuitsByName DEF Suits
<1>8. PICK C : Streamed(C)' /\ C[Len(out')] = d
  BY <1>2, <1>4, <1>5, <1>6, <1>7, StreamGrows
<1> QED BY <1>2, <1>5, <1>6, <1>8 DEF Generated

(* So does an order under a new id. *)
LEMMA GenLimitGenerated ==
  ASSUME GenInv, Generated, NEW side \in Side, NEW u \in 0 .. zipf_cdf[MaxOffset] - 1,
         NEW qty \in 1 .. MaxQty, GenLimit(side, u, qty)
  PROVE  Generated'
<1>1. PICK c : c = made'
  OBVIOUS
<1>2. /\ c \in Commands /\ c.kind = "Limit" /\ c.qty = qty /\ c # Undef
      /\ ~contains(c.id)
  BY <1>1, GenLimitMisses
<1>3. /\ Start(c) /\ out' = out /\ made = Undef
      /\ IndInv /\ pc = "idle" /\ Capacity \in 0 .. Capacity
  BY <1>1, CapacityAssumption DEF GenLimit, GenInv, Settled
<1>4. PICK B : Streamed(B) /\ AsPriorityBook(Capacity) = B[Len(out)]
  BY <1>3 DEF Generated
<1>5. PICK b, d : b = B[Len(out)] /\ d = AsPriorityBook(Capacity)'
  OBVIOUS
<1>6. Simulable(Capacity)' /\ Under(b, c, d)
  <2>1. Reached(Capacity, b, c) /\ Simulable(Capacity)
    BY <1>3, <1>4, <1>5 DEF Reached, Generated
  <2> QED BY <1>2, <1>3, <1>5, <2>1, GoesOn
<1>7. Suits(b, c)
  BY <1>2, <1>3, <1>4, <1>5, SuitsByName DEF Suits
<1>8. Streamed(B)'
  BY <1>3, <1>4 DEF Streamed
<1> QED BY <1>1, <1>2, <1>3, <1>5, <1>6, <1>7, <1>8 DEF Generated

(* The order in hand goes on, and the book with it. *)
LEMMA GenStepGenerated ==
  ASSUME GenInv, Generated, GenStep
  PROVE  Generated'
<1>1. /\ made # Undef /\ made' = made /\ out' = out /\ Step /\ pc # "idle"
      /\ made \in Commands /\ Capacity \in 0 .. Capacity
  <2>1. made # Undef /\ made' = made /\ out' = out /\ Step
    BY DEF GenStep, genVars
  <2>2. Capacity \in 0 .. Capacity
    BY CapacityAssumption
  <2> QED BY <2>1, <2>2, StepTurns DEF Generated, GenInv, Adding
<1>2. PICK B : /\ Streamed(B) /\ Suits(B[Len(out)], made)
               /\ Under(B[Len(out)], made, AsPriorityBook(Capacity))
  BY <1>1 DEF Generated
<1>3. PICK b, c, d : b = B[Len(out)] /\ c = made /\ d = AsPriorityBook(Capacity)'
  OBVIOUS
<1>4. Simulable(Capacity)' /\ Under(b, c, d)
  <2>1. Reached(Capacity, b, c) /\ Simulable(Capacity)
    BY <1>1, <1>2, <1>3 DEF Reached, Generated
  <2> QED BY <1>1, <1>3, <2>1, GoesOn
<1>5. Streamed(B)'
  BY <1>1, <1>2 DEF Streamed
<1> QED BY <1>1, <1>2, <1>3, <1>4, <1>5 DEF Generated

(* Looking at its trades does nothing to the book. *)
LEMMA GeneratedKept ==
  ASSUME Generated, UNCHANGED <<vars, out, made>>
  PROVE  Generated'
<1>1. AsPriorityBook(Capacity)' = AsPriorityBook(Capacity)
  BY StillBook
<1>2. Simulable(Capacity)'
  BY SimulableNext DEF Generated
<1> QED BY <1>1, <1>2 DEF Generated, Streamed

(* The order joins the stream when it has been looked at. *)
LEMMA GenKeepGenerated ==
  ASSUME GenInv, Generated, GenKeep
  PROVE  Generated'
<1>1. /\ made # Undef /\ made' = Undef /\ out' = Append(out, made) /\ pc = "idle"
      /\ UNCHANGED vars /\ made \in Commands /\ out \in Seq(Commands)
  BY DEF GenKeep, GenInv, Adding
<1>2. AsPriorityBook(Capacity)' = AsPriorityBook(Capacity)
  BY <1>1, StillBook
<1>3. Simulable(Capacity)'
  BY <1>1, SimulableNext DEF Generated
<1>4. PICK B : /\ Streamed(B) /\ Suits(B[Len(out)], made)
               /\ Under(B[Len(out)], made, AsPriorityBook(Capacity))
  BY <1>1 DEF Generated
<1>5. PICK c, d : c = made /\ d = AsPriorityBook(Capacity)
  OBVIOUS
<1>6. Settles(B[Len(out)], c, d)
  BY <1>1, <1>4, <1>5, IdleTogether DEF Settles
<1>7. PICK C : Streamed(C)' /\ C[Len(out')] = d
  BY <1>1, <1>4, <1>5, <1>6, StreamGrows
<1> QED BY <1>1, <1>2, <1>3, <1>5, <1>7 DEF Generated

(* A new book of all the slots. *)
BeginsFresh ==
  Constructed(Capacity) =>
    Simulable(Capacity) /\ AsPriorityBook(Capacity) = FreshBook(Capacity)

LEMMA FullBookIsFresh == BeginsFresh
<1>1. Capacity \in 0 .. Capacity
  BY CapacityAssumption
<1> QED BY <1>1, NewIsFresh DEF BeginsFresh

(* A pass begins with the book that the stream began with. *)
LEMMA PassBegins ==
  ASSUME NEW pass, BeginPass(pass), NEW B, Streamed(B),
         out \in Seq(Commands), out' = out
  PROVE  Rerun'
<1>1. Constructed(Capacity)' /\ at' = 0 /\ Len(out) \in Nat
  BY DEF BeginPass, Construct, Finish, Constructed
<1>2. /\ Simulable(Capacity)'
      /\ AsPriorityBook(Capacity)' = FreshBook(Capacity)
  <2>1. BeginsFresh'
    BY FullBookIsFresh, PTL
  <2> QED BY <1>1, <2>1 DEF BeginsFresh
<1>3. pc' = "idle"
  BY <1>1 DEF Constructed
<1>4. Streamed(B)' /\ B[0] = FreshBook(Capacity)
  BY DEF Streamed, History
<1> QED BY <1>1, <1>2, <1>3, <1>4 DEF Rerun, Reached

(* A step of a pass is a step of what the command made of the book when    *)
(* it joined the stream, and when it returns the book is the same again.   *)
LEMMA PassRerun ==
  ASSUME Rerun, Pass
  PROVE  Rerun'
<1>1. /\ at < Len(out) /\ out \in Seq(Commands) /\ at \in 0 .. Len(out) /\ Len(out) \in Nat
      /\ out' = out /\ at' = IF pc' = "idle" THEN at + 1 ELSE at
  BY DEF Rerun, Pass, genVars
<1>2. PICK c \in Commands : c = out[at + 1] /\ (Start(c) \/ Step)
  <2>1. at + 1 \in 1 .. Len(out)
    BY <1>1
  <2>2. out[at + 1] \in Commands
    BY <1>1, <2>1
  <2> QED BY <2>2 DEF Pass
<1>3. PICK B : Streamed(B) /\ Reached(Capacity, B[at], out[at + 1])
  BY DEF Rerun
<1>4. PICK b, d : b = B[at] /\ d = AsPriorityBook(Capacity)'
  OBVIOUS
<1>5. /\ Simulable(Capacity)' /\ Under(b, c, d)
      /\ pc' = "idle" => Settles(b, c, d)
  <2>1. Reached(Capacity, b, c) /\ Simulable(Capacity) /\ Capacity \in 0 .. Capacity
    BY <1>2, <1>3, <1>4, CapacityAssumption DEF Rerun
  <2> QED BY <1>2, <1>4, <2>1, GoesOn
<1>6. Streamed(B)'
  BY <1>1, <1>3 DEF Streamed
<1>7. Reached(Capacity, B[at], out[at + 1])'
  <2>1. CASE pc' # "idle"
    BY <1>1, <1>2, <1>4, <1>5, <2>1 DEF Reached
  <2>2. CASE pc' = "idle"
    <3>1. PICK e : e = B[at + 1]
      OBVIOUS
    <3>2. Settles(b, c, e)
      <4>1. at + 1 \in 1 .. Len(out) /\ (at + 1) - 1 = at
        BY <1>1
      <4> QED BY <1>2, <1>3, <1>4, <3>1, <4>1 DEF Streamed, History
    <3>3. d = e
      BY <1>5, <2>2, <3>2, SettlesOnce
    <3> QED BY <1>1, <1>4, <2>2, <3>1, <3>3 DEF Reached
  <2> QED BY <2>1, <2>2
<1> QED BY <1>1, <1>5, <1>6, <1>7 DEF Rerun

(***************************************************************************)
(* The generator's book and that of a pass go through the same history,    *)
(* in which each command of the stream suits the book before it.           *)
(***************************************************************************)
FitInv ==
  /\ StreamInv
  /\ stage \in {"clock", "noop", "generate"} => Generated
  /\ stage \in Passes => Rerun

LEMMA FitStep == FitInv /\ [BenchNext]_benchVars => FitInv'
<1> SUFFICES ASSUME FitInv, [BenchNext]_benchVars PROVE FitInv'
  OBVIOUS
<1>1. StreamInv'
  BY StreamStep DEF FitInv
<1>2. "clock" \notin Passes /\ "noop" \notin Passes /\ "generate" \notin Passes
      /\ Exits \cap Passes = {}
      /\ Exits \cap {"clock", "noop", "generate"} = {}
  BY DEF Passes, Exits
<1>3. CASE Calibrate \/ ClockReady \/ Noop \/ NoopDone
  <2>1. /\ stage \in {"clock", "noop"} /\ UNCHANGED <<vars, genVars>>
        /\ stage' \notin Passes
    BY <1>3 DEF Calibrate, ClockReady, Noop, NoopDone, Passes, verdict
  <2>2. Generated'
    BY <2>1, GeneratedKept DEF FitInv, genVars
  <2> QED BY <1>1, <2>1, <2>2 DEF FitInv
<1>4. CASE Stream
  <2>1. Generate /\ GenInv /\ Generated /\ stage = "generate" /\ stage' = stage
    BY <1>4 DEF Stream, FitInv, StreamInv
  <2>2. GenTally => Generated'
    BY <2>1, GeneratedKept DEF GenTally
  <2>3. Generated'
    BY <2>1, <2>2, GenCancelGenerated, GenLimitGenerated, GenStepGenerated,
       GenKeepGenerated DEF Generate
  <2> QED BY <1>1, <1>2, <2>1, <2>3 DEF FitInv
<1>5. CASE StreamReady
  <2>1. stage = "generate" /\ made = Undef /\ out' = out
        /\ \/ stage' = "exit1"
           \/ /\ BeginPass(IF program = "bench_w1" THEN "whole" ELSE "profile")
              /\ stage' \in Passes
    BY <1>5 DEF StreamReady, BeginPass, Passes
  <2>2. GenInv /\ Generated
    BY <2>1 DEF FitInv, StreamInv
  <2>3. out \in Seq(Commands)
    BY <2>2 DEF GenInv
  <2>4. PICK B : Streamed(B)
    BY <2>2 DEF Generated
  <2>5. PICK pass : pass = IF program = "bench_w1" THEN "whole" ELSE "profile"
    OBVIOUS
  <2>6. stage' \in Passes => Rerun'
    BY <2>1, <2>3, <2>4, <2>5, PassBegins DEF Passes
  <2> QED BY <1>1, <1>2, <2>1, <2>6 DEF FitInv, Exits
<1>6. CASE Pass
  <2>1. Rerun /\ stage \in Passes /\ stage' = stage
    BY <1>6 DEF Pass, FitInv
  <2> QED BY <1>1, <1>2, <1>6, <2>1, PassRerun DEF FitInv
<1>7. CASE WholeDone
  <2>1. /\ stage = "whole" /\ BeginPass("per_op") /\ out' = out
        /\ stage' = "per_op"
    BY <1>7 DEF WholeDone, genVars, BeginPass
  <2>2. Rerun
    BY <2>1 DEF FitInv, Passes
  <2>3. PICK B : Streamed(B)
    BY <2>2 DEF Rerun
  <2>4. Rerun'
    BY <2>1, <2>2, <2>3, PassBegins DEF Rerun
  <2> QED BY <1>1, <2>1, <2>4 DEF FitInv
<1>8. CASE PerOpDone \/ ProfileDone
  <2>1. stage' \in Exits
    BY <1>8 DEF PerOpDone, ProfileDone, Exits
  <2> QED BY <1>1, <1>2, <2>1 DEF FitInv
<1>9. CASE Exited \/ UNCHANGED benchVars
  <2>1. UNCHANGED <<vars, genVars>> /\ stage' = stage /\ at' = at
    BY <1>9 DEF Exited, benchVars, passVars
  <2>2. out' = out /\ made' = made /\ pc' = pc
    BY <2>1 DEF genVars, vars, commandVars
  <2>3. Generated => Generated'
    BY <2>1, <2>2, GeneratedKept
  <2>4. Rerun => Rerun'
    <3>1. AsPriorityBook(Capacity)' = AsPriorityBook(Capacity)
      BY <2>1, StillBook
    <3>2. Simulable(Capacity) => Simulable(Capacity)'
      BY <2>1, SimulableNext
    <3> QED BY <2>1, <2>2, <3>1, <3>2 DEF Rerun, Reached, Streamed
  <2> QED BY <1>1, <2>1, <2>3, <2>4 DEF FitInv
<1> QED BY <1>3, <1>4, <1>5, <1>6, <1>7, <1>8, <1>9 DEF BenchNext, Work

LEMMA FitInvariance == BenchSpec => []FitInv
<1>1. BenchInit => FitInv
  BY GeneratorStarts, GeneratedStarts DEF BenchInit, FitInv, StreamInv, Passes
<1> QED BY <1>1, FitStep, PTL DEF BenchSpec

(***************************************************************************)
(* "A cancel always hits a live order", in every pass over the stream and  *)
(* for every stream that generate() can make: a pass runs a book of its    *)
(* own, and that book is at each command what the generator's was.         *)
(***************************************************************************)
THEOREM StreamAlwaysFits == BenchSpec => []StreamFitsEveryPass
<1>1. FitInv => StreamFitsEveryPass
  <2> SUFFICES ASSUME FitInv, stage \in Passes, pc = "idle", at < Len(out)
               PROVE  LET c == out[at + 1]
                      IN  IF c.kind = "Cancel" THEN Found(c) ELSE ~AddRefused(c)
    BY DEF StreamFitsEveryPass
  <2>1. Rerun
    BY DEF FitInv
  <2>2. at + 1 \in 1 .. Len(out) /\ (at + 1) - 1 = at /\ out \in Seq(Commands)
    BY <2>1 DEF Rerun
  <2>3. PICK c \in Commands : c = out[at + 1]
    BY <2>2
  <2>4. PICK B : Streamed(B) /\ AsPriorityBook(Capacity) = B[at]
    BY <2>1 DEF Rerun, Reached
  <2>5. Suits(AsPriorityBook(Capacity), c)
    BY <2>2, <2>3, <2>4 DEF Streamed
  <2>6. IndInv
    BY <2>1 DEF Rerun, Simulable
  <2> QED BY <2>3, <2>5, <2>6, SuitsByName DEF Suits, AddRefused
<1> QED BY <1>1, FitInvariance, PTL

-----------------------------------------------------------------------------
(* The figures. *)

(* An order of the first m samples in which they ascend. *)
Ascends(samples, m, p) ==
  /\ p \in [1 .. m -> 1 .. m]
  /\ \A i, j \in 1 .. m : i < j => p[i] # p[j] /\ samples[p[i]] <= samples[p[j]]

(* One more sample goes before the first that is greater. *)
LEMMA InsertSample ==
  ASSUME NEW samples, NEW m \in Nat \ {0}, \A k \in 1 .. m : samples[k] \in Nat,
         NEW p, Ascends(samples, m - 1, p)
  PROVE  \E q : Ascends(samples, m, q)
<1>1. /\ m - 1 \in Nat /\ m \in 1 .. m
      /\ p \in [1 .. m - 1 -> 1 .. m - 1]
      /\ \A i, j \in 1 .. m - 1 : i < j => p[i] # p[j] /\ samples[p[i]] <= samples[p[j]]
  BY DEF Ascends
<1>2. \A k \in 1 .. m - 1 : p[k] \in 1 .. m /\ p[k] # m /\ samples[p[k]] \in Nat
  BY <1>1
<1> DEFINE C == {c \in 1 .. m : c = m \/ samples[p[c]] > samples[m]}
<1>3. PICK c \in C : \A k \in C : c <= k
  <2>1. C \in SUBSET Nat /\ m \in C
    BY <1>1
  <2> HIDE DEF C
  <2> QED BY <2>1, LeastNumber
<1>4. c \in 1 .. m /\ \A k \in 1 .. m : k < c => k # m /\ samples[p[k]] <= samples[m]
  <2>1. c \in 1 .. m
    OBVIOUS
  <2>2. ASSUME NEW k \in 1 .. m, k < c PROVE k # m /\ samples[p[k]] <= samples[m]
    <3>1. k \notin C
      <4> HIDE DEF C
      <4> QED BY <1>3, <2>1, <2>2
    <3>2. k # m /\ ~(samples[p[k]] > samples[m])
      BY <3>1
    <3>3. samples[p[k]] \in Nat /\ samples[m] \in Nat
      BY <1>1, <1>2, <3>2
    <3> QED BY <3>2, <3>3
  <2> QED BY <2>1, <2>2
<1>5. \A k \in 1 .. m - 1 : k >= c => samples[m] <= samples[p[k]]
  <2> SUFFICES ASSUME NEW k \in 1 .. m - 1, k >= c PROVE samples[m] <= samples[p[k]]
    OBVIOUS
  <2>1. c \in 1 .. m - 1 /\ samples[p[c]] > samples[m]
    BY <1>1, <1>4
  <2>2. samples[p[c]] <= samples[p[k]]
    BY <1>1, <1>2, <2>1
  <2>3. samples[p[c]] \in Nat /\ samples[p[k]] \in Nat /\ samples[m] \in Nat
    BY <1>1, <1>2, <2>1
  <2> QED BY <2>1, <2>2, <2>3
<1> DEFINE q == [i \in 1 .. m |-> IF i < c THEN p[i] ELSE IF i = c THEN m ELSE p[i - 1]]
<1>6. \A i \in 1 .. m : \/ i < c /\ i \in 1 .. m - 1 /\ q[i] = p[i]
                        \/ i = c /\ q[i] = m
                        \/ i > c /\ i - 1 \in 1 .. m - 1 /\ i - 1 >= c /\ q[i] = p[i - 1]
  BY <1>4
<1>7. q \in [1 .. m -> 1 .. m]
  <2>1. \A i \in 1 .. m : q[i] \in 1 .. m
    <3> HIDE DEF q
    <3> QED BY <1>1, <1>2, <1>6
  <2>2. q = [i \in 1 .. m |-> q[i]]
    OBVIOUS
  <2> HIDE DEF q
  <2> QED BY <2>1, <2>2
<1>8. ASSUME NEW i \in 1 .. m, NEW j \in 1 .. m, i < j
      PROVE  q[i] # q[j] /\ samples[q[i]] <= samples[q[j]]
  <2> HIDE DEF q, C
  <2>1. CASE j < c
    <3>1. /\ i \in 1 .. m - 1 /\ j \in 1 .. m - 1
          /\ q[i] = p[i] /\ q[j] = p[j]
      BY <1>4, <1>6, <1>8, <2>1
    <3> QED BY <1>1, <1>8, <3>1
  <2>2. CASE j = c
    <3>1. i \in 1 .. m - 1 /\ q[i] = p[i] /\ q[j] = m /\ i < c
      BY <1>4, <1>6, <1>8, <2>2
    <3> QED BY <1>2, <1>4, <3>1
  <2>3. CASE j > c
    <3>1. j - 1 \in 1 .. m - 1 /\ j - 1 >= c /\ q[j] = p[j - 1]
      BY <1>4, <1>6, <2>3
    <3>2. CASE i < c
      <4>1. i \in 1 .. m - 1 /\ q[i] = p[i] /\ i < j - 1
        BY <1>4, <1>6, <3>1, <3>2
      <4> QED BY <1>1, <3>1, <4>1
    <3>3. CASE i = c
      <4>1. q[i] = m
        BY <1>6, <3>3
      <4> QED BY <1>2, <1>5, <3>1, <4>1
    <3>4. CASE i > c
      <4>1. i - 1 \in 1 .. m - 1 /\ q[i] = p[i - 1] /\ i - 1 < j - 1
        BY <1>4, <1>6, <1>8, <3>4
      <4> QED BY <1>1, <3>1, <4>1
    <3> QED BY <1>4, <3>2, <3>3, <3>4
  <2> QED BY <1>4, <2>1, <2>2, <2>3
<1>9. Ascends(samples, m, q)
  <2> HIDE DEF q
  <2> QED BY <1>7, <1>8 DEF Ascends
<1> QED
  <2> HIDE DEF q
  <2> QED BY <1>9

(* Any samples can be sorted. *)
LEMMA SortExists ==
  ASSUME NEW samples \in Seq(Nat)
  PROVE  \E p : Ascends(samples, Len(samples), p)
<1> DEFINE n == Len(samples)
           S == {m \in 0 .. n : \E p : Ascends(samples, m, p)}
<1>1. n \in Nat /\ \A k \in 1 .. n : samples[k] \in Nat
  OBVIOUS
<1> HIDE DEF n
<1>2. 0 \in S
  <2>1. Ascends(samples, 0, [k \in 1 .. 0 |-> k])
    BY DEF Ascends
  <2>2. \E p : Ascends(samples, 0, p)
    BY <2>1
  <2> QED BY <1>1, <2>2
<1>3. ASSUME NEW m \in 1 .. n, m - 1 \in S PROVE m \in S
  <2>1. PICK p : Ascends(samples, m - 1, p)
    BY <1>3
  <2>2. m \in Nat \ {0} /\ \A k \in 1 .. m : samples[k] \in Nat
    BY <1>1
  <2>3. \E q : Ascends(samples, m, q)
    BY <2>1, <2>2, InsertSample
  <2> QED BY <1>1, <2>3
<1>4. n \in S
  <2> HIDE DEF S
  <2>1. \A k \in 0 .. n : k \in S
    BY <1>1, <1>2, <1>3, Reaches
  <2> QED BY <1>1, <2>1
<1> QED BY <1>4 DEF n

(* What sort() returns. *)
LEMMA SortAscends ==
  ASSUME NEW samples \in Seq(Nat)
  PROVE  /\ Len(sort(samples)) = Len(samples)
         /\ \E p : /\ Ascends(samples, Len(samples), p)
                   /\ \A k \in 1 .. Len(samples) : sort(samples)[k] = samples[p[k]]
<1>1. PICK n \in Nat : n = Len(samples) /\ DOMAIN samples = 1 .. n
  OBVIOUS
<1> DEFINE P(p) == \A i, j \in 1 .. n :
                     i < j => p[i] # p[j] /\ samples[p[i]] <= samples[p[j]]
           order == CHOOSE p \in [1 .. n -> 1 .. n] : P(p)
<1>2. order \in [1 .. n -> 1 .. n] /\ P(order)
  <2>1. \E p \in [1 .. n -> 1 .. n] : P(p)
    BY <1>1, SortExists DEF Ascends
  <2> HIDE DEF P
  <2> QED BY <2>1
<1>3. sort(samples) = [k \in 1 .. n |-> samples[order[k]]]
  BY <1>1 DEF sort
<1> HIDE DEF order
<1>4. sort(samples) \in Seq(Nat) /\ Len(sort(samples)) = n
  <2>1. \A k \in 1 .. n : samples[k] \in Nat
    BY <1>1
  <2>2. \A k \in 1 .. n : order[k] \in 1 .. n
    <3> HIDE DEF P
    <3> QED BY <1>2
  <2>3. \A k \in 1 .. n : samples[order[k]] \in Nat
    <3> HIDE DEF P
    <3> QED BY <2>1, <2>2
  <2> QED BY <1>1, <1>3, <2>3
<1>5. Ascends(samples, Len(samples), order)
  BY <1>1, <1>2 DEF Ascends
<1> QED BY <1>1, <1>3, <1>4, <1>5

(* r samples are no greater than the one of rank r, and fewer are less.    *)
LEMMA RankCovers ==
  ASSUME NEW samples \in Seq(Nat), NEW r \in 1 .. Len(samples)
  PROVE  LET v == sort(samples)[r]
         IN  /\ AtMost(samples, v) \in Nat /\ AtMost(samples, v) >= r
             /\ AtMost(samples, v) <= Len(samples)
             /\ Below(samples, v) \in Nat /\ Below(samples, v) < r
<1>1. PICK n \in Nat : n = Len(samples) /\ DOMAIN samples = 1 .. n
  OBVIOUS
<1>2. PICK p : /\ Ascends(samples, n, p)
               /\ \A k \in 1 .. n : sort(samples)[k] = samples[p[k]]
  BY <1>1, SortAscends
<1>3. /\ p \in [1 .. n -> 1 .. n]
      /\ \A i, j \in 1 .. n : i < j => p[i] # p[j] /\ samples[p[i]] <= samples[p[j]]
      /\ r \in 1 .. n
  BY <1>1, <1>2 DEF Ascends
<1>4. \A k \in 1 .. n : samples[k] \in Nat
  BY <1>1
<1>5. PICK v \in Nat : v = sort(samples)[r] /\ v = samples[p[r]]
  BY <1>2, <1>3, <1>4
<1> DEFINE A == {k \in 1 .. n : samples[k] <= v}
           B == {k \in 1 .. n : samples[k] < v}
           D == {k \in 1 .. n : ~(samples[k] < v)}
<1>6. AtMost(samples, v) = Cardinality(A) /\ Below(samples, v) = Cardinality(B)
  BY <1>1 DEF AtMost, Below
<1>7. IsFiniteSet(1 .. n) /\ Cardinality(1 .. n) = n
  BY FS_Interval
<1>8. /\ IsFiniteSet(A) /\ Cardinality(A) \in Nat /\ Cardinality(A) <= n
      /\ IsFiniteSet(B) /\ Cardinality(B) \in Nat
      /\ IsFiniteSet(D) /\ Cardinality(D) \in Nat
  <2>1. A \in SUBSET (1 .. n) /\ B \in SUBSET (1 .. n) /\ D \in SUBSET (1 .. n)
    OBVIOUS
  <2> HIDE DEF A, B, D
  <2> QED BY <1>7, <2>1, FS_Subset, FS_CardinalityType
<1>9. \A i, j \in 1 .. n : p[i] = p[j] => i = j
  <2> SUFFICES ASSUME NEW i \in 1 .. n, NEW j \in 1 .. n, p[i] = p[j], i # j PROVE FALSE
    OBVIOUS
  <2>1. i < j \/ j < i
    OBVIOUS
  <2> QED BY <1>3, <2>1
<1>10. \A i \in 1 .. n : /\ i <= r => samples[p[i]] <= v
                         /\ i >= r => ~(samples[p[i]] < v)
  <2> SUFFICES ASSUME NEW i \in 1 .. n
               PROVE  /\ i <= r => samples[p[i]] <= v
                      /\ i >= r => ~(samples[p[i]] < v)
    OBVIOUS
  <2>1. samples[p[i]] \in Nat
    BY <1>3, <1>4
  <2>2. PICK x \in Nat : x = samples[p[i]]
    BY <2>1
  <2>3. i < r => x <= v
    BY <1>3, <1>5, <2>2
  <2>4. r < i => v <= x
    BY <1>3, <1>5, <2>2
  <2>5. i = r => x = v
    BY <1>5, <2>2
  <2>6. i <= r => x <= v
    BY <1>3, <2>3, <2>5
  <2>7. i >= r => ~(x < v)
    BY <1>3, <2>4, <2>5
  <2> QED BY <2>2, <2>6, <2>7
<1>11. Cardinality(A) >= r
  <2> DEFINE f == [i \in 1 .. r |-> p[i]]
  <2>1. \A i \in 1 .. r : i \in 1 .. n /\ f[i] \in A /\ f[i] = p[i]
    BY <1>3, <1>10
  <2>2. f \in Injection(1 .. r, A)
    <3>1. f = [i \in 1 .. r |-> f[i]]
      OBVIOUS
    <3> HIDE DEF f, A
    <3>2. f \in [1 .. r -> A]
      BY <2>1, <3>1
    <3>3. \A i, j \in 1 .. r : f[i] = f[j] => i = j
      BY <1>9, <2>1
    <3> QED BY <3>2, <3>3 DEF Injection, IsInjective
  <2>3. Cardinality(1 .. r) = r /\ r \in Nat
    BY FS_Interval
  <2> HIDE DEF f, A
  <2>4. Cardinality(1 .. r) <= Cardinality(A)
    BY <1>8, <2>2, FS_Injection
  <2> QED BY <1>8, <2>3, <2>4
<1>12. Cardinality(D) >= n - r + 1
  <2> DEFINE f == [i \in r .. n |-> p[i]]
  <2>1. \A i \in r .. n : i \in 1 .. n /\ f[i] \in D /\ f[i] = p[i]
    BY <1>3, <1>10
  <2>2. f \in Injection(r .. n, D)
    <3>1. f = [i \in r .. n |-> f[i]]
      OBVIOUS
    <3> HIDE DEF f, D
    <3>2. f \in [r .. n -> D]
      BY <2>1, <3>1
    <3>3. \A i, j \in r .. n : f[i] = f[j] => i = j
      BY <1>9, <2>1
    <3> QED BY <3>2, <3>3 DEF Injection, IsInjective
  <2>3. r \in Int /\ n \in Int /\ ~(r > n)
    BY <1>3
  <2>4. Cardinality(r .. n) = n - r + 1
    BY <2>3, FS_Interval
  <2> HIDE DEF f, D
  <2>5. Cardinality(r .. n) <= Cardinality(D)
    BY <1>8, <2>2, FS_Injection
  <2> QED BY <1>8, <2>3, <2>4, <2>5
<1>13. Cardinality(B) = n - Cardinality(D)
  <2>1. B = (1 .. n) \ D /\ D \in SUBSET (1 .. n)
    OBVIOUS
  <2> HIDE DEF B, D
  <2> QED BY <1>7, <2>1, CountWithout
<1>14. Cardinality(B) < r
  <2> HIDE DEF B, D
  <2> QED BY <1>3, <1>8, <1>12, <1>13
<1> HIDE DEF A, B
<1> QED BY <1>1, <1>5, <1>6, <1>8, <1>11, <1>14

(* No one writes into the vector but noop_run. *)
TicksInv == ticks \in Seq(Nat)

LEMMA TicksAreNumbers == BenchSpec => []TicksInv
<1>1. BenchInit => TicksInv
  BY DEF BenchInit, NoiseInit, TicksInv
<1>2. TicksInv /\ [BenchNext]_benchVars => TicksInv'
  <2> SUFFICES ASSUME ticks \in Seq(Nat), [BenchNext]_benchVars
               PROVE  ticks' \in Seq(Nat)
    BY DEF TicksInv
  <2>1. CASE Noop
    <3>1. CASE NoopReturn
      BY <3>1 DEF NoopReturn
    <3>2. ASSUME NEW t \in Ticks, NoopSample(t) PROVE ticks' \in Seq(Nat)
      <4>1. t \in Nat /\ ticks' = Append(ticks, t)
        BY <3>2, TicksAssumption DEF NoopSample
      <4> QED BY <4>1
    <3> QED BY <2>1, <3>1, <3>2 DEF Noop
  <2>2. CASE ~Noop
    <3>1. ticks' = ticks
      BY <2>2 DEF BenchNext, Work, Calibrate, ClockReady, NoopDone, Stream, StreamReady,
         Pass, WholeDone, PerOpDone, ProfileDone, Exited, benchVars, noiseVars
    <3> QED BY <3>1
  <2> QED BY <2>1, <2>2
<1> QED BY <1>1, <1>2, PTL DEF BenchSpec

(***************************************************************************)
(* The percentiles and the maximum of stats_from are nearest ranks, for    *)
(* every number of samples and every value of them: the rank is within     *)
(* the vector, and its sample is the least that covers its share.          *)
(***************************************************************************)
THEOREM FiguresAlwaysNearestRank == BenchSpec => []FiguresAreNearestRank
<1>1. ASSUME TicksInv PROVE FiguresAreNearestRank
  <2>0. ticks \in Seq(Nat)
    BY <1>1 DEF TicksInv
  <2> SUFFICES ASSUME ticks # <<>> PROVE FiguresAreNearestRank
    BY DEF FiguresAreNearestRank
  <2>1. PICK n \in Nat : n = Len(ticks) /\ n # 0
    BY <2>0
  <2>2. Len(sort(ticks)) = n
    BY <2>0, <2>1, SortAscends
  <2>3. ASSUME NEW q \in Quantiles
        PROVE  LET v == stats_from(ticks).per_10k[q]
               IN  10000 * AtMost(ticks, v) >= q * n /\ 10000 * Below(ticks, v) < q * n
    <3>1. PICK r : r = (n * q + 9999) \div 10000
      OBVIOUS
    <3>2. r \in 1 .. n /\ 10000 * r >= q * n /\ 10000 * (r - 1) < q * n
      BY <2>1, <3>1 DEF Quantiles
    <3>3. PICK v : v = sort(ticks)[r]
      OBVIOUS
    <3>4. stats_from(ticks).per_10k[q] = v
      BY <2>2, <3>1, <3>3 DEF stats_from, percentile
    <3>5. PICK a \in Nat, b \in Nat : /\ a = AtMost(ticks, v) /\ b = Below(ticks, v)
                                      /\ a >= r /\ b < r
      BY <2>0, <2>1, <3>2, <3>3, RankCovers
    <3>6. q \in Nat /\ 10000 * a >= q * n /\ 10000 * b < q * n
      BY <2>1, <3>2, <3>5 DEF Quantiles
    <3> QED BY <3>4, <3>5, <3>6
  <2>4. /\ AtMost(ticks, stats_from(ticks).max) = n
        /\ Below(ticks, stats_from(ticks).max) < n
    <3>1. stats_from(ticks).max = sort(ticks)[n]
      BY <2>2 DEF stats_from
    <3>2. n \in 1 .. n
      BY <2>1
    <3>3. /\ AtMost(ticks, sort(ticks)[n]) \in Nat
          /\ AtMost(ticks, sort(ticks)[n]) >= n /\ AtMost(ticks, sort(ticks)[n]) <= n
          /\ Below(ticks, sort(ticks)[n]) < n
      BY <2>0, <2>1, <3>2, RankCovers
    <3> QED BY <3>1, <3>3
  <2> QED BY <2>1, <2>3, <2>4 DEF FiguresAreNearestRank
<1> QED BY <1>1, TicksAreNumbers, PTL
==============================================================================
