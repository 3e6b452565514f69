------------------------------ MODULE LevelMap ------------------------------
(***************************************************************************)
(* What Book expects of one side's price levels: a list of orders for each *)
(* price that has a level, and a ranking of those prices.  Book's own      *)
(* module uses exactly this interface.                                     *)
(***************************************************************************)
EXTENDS Integers, FiniteSets

CONSTANTS Price, List, EmptyList, Absent, MaxLevels

VARIABLES side,               \* "High" or "Low": which prices are best
          map,                \* the list of each price, or Absent
          answer              \* the last operation's argument, and what it gave

Present == {p \in Price : map[p] # Absent}

Ahead(p, q) == IF side = "High" THEN p > q ELSE p < q

(* The price with this rank: so many others are ahead of it. *)
Ranked(p, rank) == /\ p \in Present
                   /\ Cardinality({q \in Present : Ahead(q, p)}) = rank

Nothing == <<>>

MapInit == /\ side \in {"High", "Low"}
           /\ map = [p \in Price |-> Absent]
           /\ answer = Nothing

MapFind(p) == /\ answer' = IF p \in Present THEN <<p, p, map[p]>> ELSE <<p>>
              /\ UNCHANGED map

MapByRank(rank) ==
  /\ \E p \in Price : Ranked(p, rank) /\ answer' = <<rank, p, map[p]>>
  /\ UNCHANGED map

MapGetOrInsert(p) ==
  /\ map' = [map EXCEPT ![p] = IF @ = Absent THEN EmptyList ELSE @]
  /\ answer' = <<p, p, map'[p]>>

MapWrite(p, l) == /\ p \in Present
                  /\ map' = [map EXCEPT ![p] = l]
                  /\ answer' = Nothing

MapErase(p) == /\ map[p] = EmptyList
               /\ map' = [map EXCEPT ![p] = Absent]
               /\ answer' = Nothing

MapPopBest == \E p \in Price : Ranked(p, 0) /\ MapErase(p)

MapNext == /\ \/ \E p \in Price : \/ MapFind(p) \/ MapGetOrInsert(p)
                                  \/ MapErase(p)
                                  \/ \E l \in List : MapWrite(p, l)
              \/ \E rank \in 0 .. MaxLevels : MapByRank(rank)
              \/ MapPopBest
           /\ UNCHANGED side

MapSpec == MapInit /\ [][MapNext]_<<side, map, answer>>
=============================================================================
