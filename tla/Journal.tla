------------------------------ MODULE Journal -------------------------------
(***************************************************************************)
(* The command journal, include/engine/journal.hpp, and the loop that      *)
(* replays one (include/engine/replay.hpp).                                *)
(*                                                                         *)
(* A file is a sequence of units, each standing for some bytes: the kind   *)
(* byte, a field, a checksum.  A unit is there or missing, whole or        *)
(* damaged.  A checksum matches only the units it was made for: collisions *)
(* of CRC-32 are left out.                                                 *)
(*                                                                         *)
(* One process writes the file.  A kill loses what the C library still     *)
(* buffers; a power cut also loses a tail of the file, and damage changes  *)
(* a unit in place.  Another process reads it, at any time, from a copy.   *)
(***************************************************************************)
EXTENDS EngineTypes, SequencesExt

CONSTANTS Commands,           \* the commands the caller has
          Capacities,         \* the pool capacities it may use
          MaxAppends          \* bound: appends in one life of the file

ASSUME JournalAssumption == /\ Commands \subseteq Command
                            /\ Capacities \subseteq Nat
                            /\ MaxAppends \in Nat

(* The caller makes its commands with the constructors: what a kind does   *)
(* not use is not written.                                                 *)
ASSUME ConstructedAssumption ==
  \A c \in Commands :
    c = CASE c.kind = "Limit"  -> limit_command(c.id, c.side, c.price, c.qty,
                                                c.account, c.tif)
          [] c.kind = "Market" -> market_command(c.id, c.side, c.qty, c.account)
          [] c.kind = "Cancel" -> cancel_command(c.id)
          [] c.kind = "Modify" -> modify_command(c.id, c.price, c.qty)

VARIABLES
  file,                       \* what the operating system has
  writer,                     \* "closed" or "open": file_
  failed,                     \* failed_
  buffer,                     \* what the C library has and could not write
  capacity,                   \* the pool_capacity given to Writer::open
  submitted,                  \* commands given to append in this file's life
  acked,                      \* those for which it returned true
  trusted,                    \* this file has met nothing worse than a kill
  data,                       \* the reader's copy of the file
  reader,                     \* "none", "opening", "reading" or "stopped"
  pos,                        \* pos_, which is valid_bytes()
  pool_capacity,              \* capacity_
  replayed,                   \* the commands replay has applied
  stop,                       \* Replayed::stop
  copied                      \* the writer's history when data was copied

writerVars == <<file, writer, failed, buffer, capacity, submitted, acked, trusted>>

readerVars == <<data, reader, pos, pool_capacity, replayed, stop, copied>>

vars == <<writerVars, readerVars>>

-----------------------------------------------------------------------------
(* Encoding: a unit is a record with one component, named for what the     *)
(* bytes mean where they were written.                                     *)

Status == {"Ok", "End", "Truncated", "BadChecksum", "BadKind", "BadField"}

kVersion == 1

checksum(units) == [crc |-> units]

encode_header(cap) ==
  LET fields == <<[magic |-> TRUE], [version |-> kVersion], [capacity |-> cap]>>
  IN  Append(fields, checksum(fields))

kHeaderSize == 4

(* The fields of each kind, in the order they are written. *)
Layout(kind) ==
  CASE kind = "Limit"  -> <<"id", "side", "tif", "price", "qty", "account">>
    [] kind = "Market" -> <<"id", "side", "qty", "account">>
    [] kind = "Cancel" -> <<"id">>
    [] kind = "Modify" -> <<"id", "price", "qty">>

payload_size(kind) == Len(Layout(kind))

encode(c) ==
  LET body == <<[kind |-> c.kind]>>
              \o [k \in 1 .. payload_size(c.kind) |->
                    LET f == Layout(c.kind)[k] IN [x \in {f} |-> c[f]]]
  IN  Append(body, checksum(body))

(* What damage makes of a unit: noise, or the kind byte of another kind. *)
Damaged(unit) ==
  {[noise |-> TRUE]} \cup
  IF "kind" \in DOMAIN unit THEN {[kind |-> k] : k \in CommandKind} \ {unit} ELSE {}

-----------------------------------------------------------------------------
(* The writer and its file. *)

Init == /\ file = <<>>
        /\ writer = "closed"
        /\ failed = FALSE
        /\ buffer = <<>>
        /\ capacity \in Capacities
        /\ submitted = <<>>
        /\ acked = <<>>
        /\ trusted = TRUE
        /\ data = <<>>
        /\ reader = "none"
        /\ pos = 0
        /\ pool_capacity = 0
        /\ replayed = <<>>
        /\ stop = "End"
        /\ copied = [submitted |-> <<>>, acked |-> <<>>, trusted |-> TRUE,
                     capacity |-> capacity]

(* Fault: fwrite without fflush. *)
WriteOkUnflushed(f, units) ==
  file' = f /\ buffer' = buffer \o units /\ failed' = FALSE

(* fwrite and fflush hand everything over. *)
WriteOk(f, units) == file' = f \o units /\ buffer' = <<>> /\ failed' = FALSE

(* They hand over a part, and the C library keeps the rest or drops it. *)
WriteFails(f, units) ==
  \E k \in 0 .. Len(units) :
    /\ file' = f \o SubSeq(units, 1, k)
    /\ buffer' \in {<<>>, SubSeq(units, k + 1, Len(units))}
    /\ failed' = TRUE

(* Writer::open: the old file is closed and cut to nothing before the      *)
(* header goes in.  If that fails the writer stays open, failed.           *)
Open(cap) ==
  /\ capacity' = cap
  /\ WriteOk(<<>>, encode_header(cap)) \/ WriteFails(<<>>, encode_header(cap))
  /\ writer' = "open"
  /\ submitted' = <<>>
  /\ acked' = <<>>
  /\ trusted' = TRUE
  /\ UNCHANGED readerVars

(* fclose may still hand over some of what was kept. *)
fclose == /\ \E k \in 0 .. Len(buffer) : file' = file \o SubSeq(buffer, 1, k)
          /\ buffer' = <<>>
          /\ writer' = "closed"

(* fopen gives nothing. *)
OpenFails ==
  /\ fclose
  /\ failed' = FALSE
  /\ UNCHANGED <<capacity, submitted, acked, trusted, readerVars>>

Close ==
  /\ writer = "open"
  /\ fclose
  /\ UNCHANGED <<failed, capacity, submitted, acked, trusted, readerVars>>

Submit(c) == /\ Len(submitted) < MaxAppends
             /\ submitted' = Append(submitted, c)

Refuses == writer = "closed" \/ failed

AppendRefused(c) ==
  /\ Refuses
  /\ Submit(c)
  /\ UNCHANGED <<file, writer, failed, buffer, capacity, acked, trusted, readerVars>>

AppendOk(c) ==
  /\ ~Refuses
  /\ Submit(c)
  /\ WriteOk(file, encode(c))
  /\ acked' = Append(acked, c)
  /\ UNCHANGED <<writer, capacity, trusted, readerVars>>

AppendFails(c) ==
  /\ ~Refuses
  /\ Submit(c)
  /\ WriteFails(file, encode(c))
  /\ UNCHANGED <<writer, capacity, acked, trusted, readerVars>>

(* The process ends: between two calls or, as after AppendFails, in one.   *)
Kill ==
  /\ writer = "open"
  /\ writer' = "closed"
  /\ failed' = FALSE
  /\ buffer' = <<>>
  /\ UNCHANGED <<file, capacity, submitted, acked, trusted, readerVars>>

(* There is no fsync: the machine may lose a tail. *)
PowerCut ==
  /\ writer' = "closed"
  /\ failed' = FALSE
  /\ buffer' = <<>>
  /\ \E k \in 0 .. Len(file) - 1 : file' = SubSeq(file, 1, k)
  /\ trusted' = FALSE
  /\ UNCHANGED <<capacity, submitted, acked, readerVars>>

(* Bound: one unit, in a file nobody writes. *)
Damage ==
  /\ trusted
  /\ writer = "closed"
  /\ \E i \in 1 .. Len(file) :
       \E unit \in Damaged(file[i]) : file' = [file EXCEPT ![i] = unit]
  /\ trusted' = FALSE
  /\ UNCHANGED <<writer, failed, buffer, capacity, submitted, acked, readerVars>>

-----------------------------------------------------------------------------
(* load, Reader and the loop of replay. *)

load ==
  /\ reader = "none"
  /\ data' = file
  /\ reader' = "opening"
  /\ copied' = [submitted |-> submitted, acked |-> acked, trusted |-> trusted,
                capacity |-> capacity]
  /\ UNCHANGED <<pos, pool_capacity, replayed, stop, writerVars>>

(* get: the value of a field, if the bytes there were written as one. *)
get(unit, f) == IF f \in DOMAIN unit THEN unit[f] ELSE Undef

HeaderStatus ==
  IF Len(data) < kHeaderSize THEN "Truncated"
  ELSE IF data[1] # [magic |-> TRUE] THEN "BadField"
  ELSE IF data[4] # checksum(SubSeq(data, 1, 3)) THEN "BadChecksum"
  ELSE IF get(data[2], "version") # kVersion THEN "BadField"
  ELSE "Ok"

ReaderOpen ==
  /\ reader = "opening"
  /\ stop' = HeaderStatus
  /\ IF HeaderStatus = "Ok"
       THEN /\ reader' = "reading"
            /\ pos' = kHeaderSize
            /\ pool_capacity' = get(data[3], "capacity")
       ELSE /\ reader' = "stopped"
            /\ UNCHANGED <<pos, pool_capacity>>
  /\ UNCHANGED <<data, replayed, copied, writerVars>>

(* The record at pos, as long as its kind byte says. *)
Kind == get(data[pos + 1], "kind")

BodyLen == 1 + payload_size(Kind)

(* Fault: the checksum is not compared. *)
ChecksumMatchesAlways == TRUE

ChecksumMatches ==
  data[pos + BodyLen + 1] = checksum(SubSeq(data, pos + 1, pos + BodyLen))

(* The value of a field of the record at pos. *)
Field(f) ==
  LET k == CHOOSE k \in 1 .. payload_size(Kind) : Layout(Kind)[k] = f
  IN  get(data[pos + 1 + k], f)

FieldsGood == /\ Kind \in {"Limit", "Market"} => Field("side") \in Side
              /\ Kind = "Limit" => Field("tif") \in TimeInForce

RecordStatus ==
  IF pos = Len(data) THEN "End"
  ELSE IF Kind \notin CommandKind THEN "BadKind"
  ELSE IF Len(data) - pos < BodyLen + 1 THEN "Truncated"
  ELSE IF ~ChecksumMatches THEN "BadChecksum"
  ELSE IF ~FieldsGood THEN "BadField"
  ELSE "Ok"

Decoded ==
  CASE Kind = "Limit"  -> limit_command(Field("id"), Field("side"), Field("price"),
                                        Field("qty"), Field("account"), Field("tif"))
    [] Kind = "Market" -> market_command(Field("id"), Field("side"), Field("qty"),
                                         Field("account"))
    [] Kind = "Cancel" -> cancel_command(Field("id"))
    [] Kind = "Modify" -> modify_command(Field("id"), Field("price"), Field("qty"))

(* Fault: the checksum's own length is left out. *)
RecordLenShort == BodyLen

RecordLen == BodyLen + 1

(* One turn of the loop of replay: next, and apply if it was Ok. *)
ReaderNext ==
  /\ reader = "reading"
  /\ stop' = RecordStatus
  /\ IF RecordStatus = "Ok"
       THEN /\ replayed' = Append(replayed, Decoded)
            /\ pos' = pos + RecordLen
            /\ UNCHANGED reader
       ELSE /\ reader' = "stopped"
            /\ UNCHANGED <<replayed, pos>>
  /\ UNCHANGED <<data, pool_capacity, copied, writerVars>>

-----------------------------------------------------------------------------

Next == \/ \E cap \in Capacities : Open(cap)
        \/ OpenFails
        \/ Close
        \/ \E c \in Commands : AppendRefused(c) \/ AppendOk(c) \/ AppendFails(c)
        \/ Kill
        \/ PowerCut
        \/ Damage
        \/ load
        \/ ReaderOpen
        \/ ReaderNext

Spec == Init /\ [][Next]_vars

(* The types of the variables. *)
TypeOK ==
  /\ writer \in {"closed", "open"}
  /\ failed \in BOOLEAN
  /\ capacity \in Capacities
  /\ submitted \in Seq(Commands)
  /\ acked \in Seq(Commands)
  /\ reader \in {"none", "opening", "reading", "stopped"}
  /\ pos \in 0 .. Len(data)
  /\ pool_capacity \in Capacities \cup {0}
  /\ replayed \in Seq(Commands)
  /\ stop \in Status

-----------------------------------------------------------------------------
(* Properties. *)

(***************************************************************************)
(* What is replayed is what was submitted, from the first command on and   *)
(* with none left out, whatever failed, was killed or was damaged: a torn  *)
(* or damaged record, and everything after it, is never read as commands.  *)
(* At most one command is replayed that was not acknowledged: the last     *)
(* one, whose append reported a failure.                                   *)
(***************************************************************************)
ReplayIsHistory ==
  /\ IsPrefix(replayed, copied.submitted)
  /\ Len(replayed) <= Len(copied.acked) + 1

(***************************************************************************)
(* Short of a power cut or damage, every acknowledged command is replayed, *)
(* into a book with the capacity the journal was opened with.              *)
(***************************************************************************)
AckedIsReplayed ==
  reader = "stopped" /\ copied.trusted /\ copied.acked # <<>> =>
    /\ IsPrefix(copied.acked, replayed)
    /\ pool_capacity = copied.capacity

(* The header and the records of the first n replayed commands. *)
RecordsUpTo[n \in 0 .. Len(replayed)] ==
  IF n = 0 THEN encode_header(pool_capacity)
           ELSE RecordsUpTo[n - 1] \o encode(replayed[n])

GoodPart == RecordsUpTo[Len(replayed)]

(***************************************************************************)
(* Where reading stops, valid_bytes() is the end of the good part: before  *)
(* it are the header and the records of the replayed commands and nothing  *)
(* else, and the status is End exactly if nothing follows.                 *)
(***************************************************************************)
CutIsClean ==
  reader = "stopped" /\ pos > 0 =>
    /\ SubSeq(data, 1, pos) = GoodPart
    /\ stop = "End" <=> pos = Len(data)
=============================================================================
