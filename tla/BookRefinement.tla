--------------------------- MODULE BookRefinement ---------------------------
(***************************************************************************)
(* Book implements Oracle.  The oracle runs a command in one step, so the  *)
(* mapping shows the book as it was when it was last idle; `before` is a   *)
(* history variable that remembers that, and `last` remembers the command, *)
(* so that its effect is compared with that of the same command; Book      *)
(* reads neither.  The observable state is what tests/support/diff.hpp     *)
(* compares: the result of the command and every resting order with its    *)
(* seq_no.                                                                 *)
(***************************************************************************)
EXTENDS BookRun

VARIABLES before, last

Observed == [orders |-> OrdersOf(snapshot),
             next_seq |-> next_seq,
             next_trade_id |-> next_trade_id,
             result |-> result,
             last |-> last]

HInit == /\ Init
         /\ last = Undef
         /\ before = Observed

HNext == /\ \/ \E c \in Commands : Start(c) /\ last' = c
            \/ (Step \/ Stopped) /\ UNCHANGED last
         /\ before' = IF pc' = "idle" THEN Observed' ELSE before

HSpec == HInit /\ [][HNext]_<<vars, before, last>>

Reference == INSTANCE Oracle
               WITH orders <- before.orders,
                    next_seq <- before.next_seq,
                    next_trade_id <- before.next_trade_id,
                    result <- before.result,
                    last <- before.last

(***************************************************************************)
(* Every command the book runs has the effect it has on the reference      *)
(* implementation: the same result, trades included, and the same resting  *)
(* orders with the same time priority.  Rejected commands change nothing.  *)
(***************************************************************************)
ImplementsOracle == Reference!Spec
=============================================================================
