------------------------------- MODULE Replay -------------------------------
(***************************************************************************)
(* include/engine/replay.hpp over a journal that a killed engine left: the *)
(* engine records each command before it runs it, the process dies at any  *)
(* point, and what reached the disk, a prefix of what was recorded (see    *)
(* Journal), is replayed into a fresh book of the recorded capacity.  The  *)
(* process may die in the middle of the replay, too.                       *)
(*                                                                         *)
(* The live engine is the run_live of tests/replay/test_replay.cpp: the    *)
(* same apply and append_events that replay uses.                          *)
(***************************************************************************)
EXTENDS BookRun

CONSTANT PoolCapacities       \* the capacities an engine may be started with

ASSUME PoolCapacitiesAssumption == PoolCapacities \subseteq 0 .. Capacity

VARIABLES mode,               \* "live", "replay" or "done"
          pool_capacity,      \* the capacity in the journal's header
          journal,            \* the commands recorded, or found by the reader
          log,                \* the events logged, one entry per command
          lived               \* after a kill: the log of the engine that died

replayVars == <<vars, mode, pool_capacity, journal, log, lived>>

ReplayInit == /\ Init
              /\ mode = "off"
              /\ pool_capacity = 0
              /\ journal = <<>> /\ log = <<>> /\ lived = <<>>

(* The engine is started: its journal's header records the capacity. *)
Boot(capacity) ==
  /\ mode = "off"
  /\ mode' = "live"
  /\ pool_capacity' = capacity
  /\ Construct(capacity)
  /\ UNCHANGED <<journal, log, lived>>

-----------------------------------------------------------------------------

(* The live engine appends the next command to its journal. *)
Record(c) ==
  /\ mode = "live"
  /\ Len(journal) = Len(log)
  /\ Len(journal) < MaxCommands
  /\ journal' = Append(journal, c)
  /\ UNCHANGED <<vars, mode, pool_capacity, log, lived>>

(* What append_events and serialize_book show of the command at the end. *)
Event(c) == [command |-> c, outcome |-> result', book |-> snapshot']

(* apply: a step of the next command of the journal; once it returns, its  *)
(* events are appended to the log.                                         *)
Apply ==
  /\ mode \in {"live", "replay"}
  /\ Len(log) < Len(journal)
  /\ LET c == journal[Len(log) + 1]
     IN  /\ Start(c) \/ Step
         /\ log' = IF pc' = "idle" THEN Append(log, Event(c)) ELSE log
  /\ UNCHANGED <<mode, pool_capacity, journal, lived>>

(* Fault: the capacity is asked for before the header is read. *)
CapacityUnread == 0

(* reader.pool_capacity(): what the header says. *)
RecordedCapacity == pool_capacity

(* replay() makes a fresh book and an empty log. *)
ReplayBegins == /\ Construct(RecordedCapacity)
                /\ log' = <<>>

(* The engine dies, and what the reader will find good are the first n     *)
(* commands of the journal (environment); a replay of them begins.         *)
Kill(n) ==
  /\ mode = "live"
  /\ mode' = "replay"
  /\ journal' = SubSeq(journal, 1, n)
  /\ lived' = SubSeq(log, 1, IF n < Len(log) THEN n ELSE Len(log))
  /\ ReplayBegins
  /\ UNCHANGED pool_capacity

(* The replaying process dies (environment), and replay() is run again. *)
KillAgain ==
  /\ mode = "replay"
  /\ ReplayBegins
  /\ UNCHANGED <<mode, pool_capacity, journal, lived>>

(* The reader has no more commands: replay() returns. *)
Replayed ==
  /\ mode = "replay"
  /\ Len(log) = Len(journal)
  /\ mode' = "done"
  /\ UNCHANGED <<vars, pool_capacity, journal, log, lived>>

ReplayDone == mode = "done" /\ UNCHANGED replayVars

ReplayNext == \/ \E capacity \in PoolCapacities : Boot(capacity)
              \/ \E c \in Commands : Record(c)
              \/ Apply
              \/ \E n \in 0 .. Len(journal) : Kill(n)
              \/ KillAgain
              \/ Replayed
              \/ ReplayDone

ReplaySpec == ReplayInit /\ [][ReplayNext]_replayVars

-----------------------------------------------------------------------------
(* Properties. *)

(***************************************************************************)
(* A replay goes through what the dead engine went through: after each     *)
(* command both logs have the same outcome, the same trades and the same   *)
(* book, whatever the engine was in the middle of when it died, and a      *)
(* replay that ends has run every command of the journal, the one that was *)
(* recorded but not finished included (check_prefix of test 22).           *)
(***************************************************************************)
ReplayRepeatsLife ==
  /\ mode \in {"replay", "done"} =>
       \A i \in DOMAIN lived \cap DOMAIN log : log[i] = lived[i]
  /\ mode = "done" => /\ Len(log) = Len(journal)
                      /\ Len(log) - Len(lived) \in {0, 1}

(* The trades of entry i of the log, and the ids of all trades logged. *)
TradesAt(i) == log[i].outcome.trades

TradeIds ==
  UNION {{TradesAt(i)[k].trade_id : k \in DOMAIN TradesAt(i)} : i \in DOMAIN log}

(***************************************************************************)
(* The book takes exactly one seq_no per command of its journal, so a      *)
(* trade names the place of the command that made it and a resting order   *)
(* the place of the one that rested or last moved it (ADR-009).  Trade ids *)
(* count the trades without a gap: over the whole log, from command to     *)
(* command and within one, they ascend, and they are all the numbers from  *)
(* 0 up to next_trade_id_.                                                 *)
(***************************************************************************)
SeqNoIsPosition ==
  /\ pc = "idle" => next_seq = Len(log) /\ TradeIds = 0 .. next_trade_id - 1
  /\ \A i \in DOMAIN log :
       /\ \A k \in DOMAIN TradesAt(i) :
            /\ TradesAt(i)[k].seq_no = i - 1
            /\ TradesAt(i)[k].taker_order_id = log[i].command.id
       /\ \A o \in OrdersOf(log[i].book) :
            /\ o.seq_no < i
            /\ log[o.seq_no + 1].command.id = o.order_id
       /\ \A h \in DOMAIN log :
            \A m \in DOMAIN TradesAt(h), k \in DOMAIN TradesAt(i) :
              h < i \/ (h = i /\ m < k)
                => TradesAt(h)[m].trade_id < TradesAt(i)[k].trade_id
=============================================================================
