--------------------------- MODULE JournalProofs ----------------------------
(***************************************************************************)
(* Proofs about the journal: whatever the writer was doing when it died,   *)
(* and whatever became of its file, a reader gets the commands that were   *)
(* submitted, in their order, and stops where they end.                    *)
(***************************************************************************)
EXTENDS Journal, Iteration, SequenceTheorems, TLAPS

-----------------------------------------------------------------------------
(* The units of a file. *)

FieldName == {"id", "side", "tif", "price", "qty", "account"}

(* What is written before a checksum. *)
Plain == {[magic |-> TRUE], [version |-> kVersion]}
         \cup {[capacity |-> cap] : cap \in Capacities}
         \cup {[kind |-> k] : k \in CommandKind}
         \cup {[x \in {f} |-> c[f]] : f \in FieldName, c \in Command}

Unit == Plain \cup {checksum(units) : units \in Seq(Plain)} \cup {[noise |-> TRUE]}

LEMMA PlainIsNoChecksum ==
  ASSUME NEW u \in Plain
  PROVE  "crc" \notin DOMAIN u /\ "noise" \notin DOMAIN u
BY DEF Plain, FieldName

LEMMA ChecksumDomain ==
  ASSUME NEW units
  PROVE  /\ DOMAIN checksum(units) = {"crc"}
         /\ checksum(units).crc = units
BY DEF checksum

(* No two contents have the same checksum. *)
LEMMA ChecksumInjective ==
  ASSUME NEW a, NEW b, checksum(a) = checksum(b)
  PROVE  a = b
<1>1. checksum(a).crc = checksum(b).crc
  OBVIOUS
<1> QED BY <1>1, ChecksumDomain

LEMMA ChecksumIsNoNoise ==
  ASSUME NEW units
  PROVE  checksum(units) # [noise |-> TRUE]
BY ChecksumDomain

LEMMA NotPlain ==
  ASSUME NEW u \in Plain
  PROVE  u # [noise |-> TRUE] /\ \A units : u # checksum(units)
BY PlainIsNoChecksum, ChecksumDomain

(* Damage is seen: no unit is left as it was, and none becomes a checksum. *)
LEMMA DamageChanges ==
  ASSUME NEW u \in Unit, u # [noise |-> TRUE], NEW v \in Damaged(u)
  PROVE  /\ v # u
         /\ v \in Unit
         /\ "crc" \notin DOMAIN v
<1>1. CASE v = [noise |-> TRUE]
  BY <1>1 DEF Unit
<1>2. CASE v # [noise |-> TRUE]
  <2>1. v # u /\ \E k \in CommandKind : v = [kind |-> k]
    BY <1>2 DEF Damaged
  <2>2. v \in Plain
    BY <2>1 DEF Plain
  <2> QED BY <2>1, <2>2, PlainIsNoChecksum DEF Unit
<1> QED BY <1>1, <1>2

(* The fields of a record. *)
LEMMA LayoutType ==
  ASSUME NEW kind \in CommandKind
  PROVE  /\ Layout(kind) \in Seq(FieldName)
         /\ payload_size(kind) \in Nat
         /\ payload_size(kind) = Len(Layout(kind))
         /\ payload_size(kind) >= 1
<1>1. CASE kind = "Limit"
  BY <1>1 DEF Layout, payload_size, FieldName
<1>2. CASE kind = "Market"
  BY <1>2 DEF Layout, payload_size, FieldName
<1>3. CASE kind = "Cancel"
  BY <1>3 DEF Layout, payload_size, FieldName
<1>4. CASE kind = "Modify"
  BY <1>4 DEF Layout, payload_size, FieldName
<1> QED BY <1>1, <1>2, <1>3, <1>4 DEF CommandKind

(* A record is the kind byte, the fields and their checksum. *)
LEMMA EncodeType ==
  ASSUME NEW c \in Command
  PROVE  LET n == payload_size(c.kind)
         IN  /\ encode(c) \in Seq(Unit)
             /\ Len(encode(c)) = n + 2
             /\ encode(c)[1] = [kind |-> c.kind]
             /\ \A k \in 1 .. n : encode(c)[k + 1]
                                    = [x \in {Layout(c.kind)[k]} |-> c[Layout(c.kind)[k]]]
             /\ \A k \in 1 .. n + 1 : encode(c)[k] \in Plain
             /\ encode(c)[n + 2] = checksum(SubSeq(encode(c), 1, n + 1))
<1> DEFINE L == Layout(c.kind)
           n == payload_size(c.kind)
           fields == [k \in 1 .. n |-> [x \in {L[k]} |-> c[L[k]]]]
           body == <<[kind |-> c.kind]>> \o fields
           crc == checksum(body)
<1>1. c.kind \in CommandKind
  BY DEF Command
<1>2. L \in Seq(FieldName) /\ n \in Nat /\ n = Len(L) /\ n >= 1
  BY <1>1, LayoutType
<1>3. \A k \in 1 .. n : L[k] \in FieldName
  BY <1>2
<1>4. \A k \in 1 .. n : fields[k] \in Plain
  BY <1>3 DEF Plain
<1>5. fields \in Seq(Plain) /\ Len(fields) = n
  <2>1. fields \in [1 .. n -> Plain]
    BY <1>4
  <2> HIDE DEF fields, n
  <2> QED BY <1>2, <2>1
<1>6. <<[kind |-> c.kind]>> \in Seq(Plain) /\ Len(<<[kind |-> c.kind]>>) = 1
  BY <1>1 DEF Plain
<1>7. /\ body \in Seq(Plain) /\ Len(body) = n + 1
      /\ body[1] = [kind |-> c.kind]
      /\ \A k \in 1 .. n : body[k + 1] = fields[k]
  <2> HIDE DEF fields, n, L
  <2> QED BY <1>2, <1>5, <1>6, ConcatProperties
<1>8. crc \in Unit /\ Plain \subseteq Unit
  BY <1>7 DEF Unit
<1>9. encode(c) = Append(body, crc)
  BY DEF encode
<1>10. body \in Seq(Unit) /\ \A k \in 1 .. n + 1 : body[k] \in Plain
  <2> HIDE DEF body, n
  <2> QED BY <1>7, <1>8
<1>11. /\ encode(c) \in Seq(Unit) /\ Len(encode(c)) = n + 2
       /\ \A k \in 1 .. n + 1 : encode(c)[k] = body[k]
       /\ encode(c)[n + 2] = crc
  <2> HIDE DEF body, n, crc
  <2> QED BY <1>2, <1>7, <1>8, <1>9, <1>10, AppendProperties
<1>12. SubSeq(encode(c), 1, n + 1) = body
  <2> HIDE DEF body, n, crc
  <2> QED BY <1>2, <1>7, <1>10, <1>11
<1>13. \A k \in 1 .. n : encode(c)[k + 1] = [x \in {L[k]} |-> c[L[k]]]
  <2>1. ASSUME NEW k \in 1 .. n PROVE encode(c)[k + 1] = fields[k]
    <3> HIDE DEF body, n, crc, fields
    <3>1. k + 1 \in 1 .. n + 1
      BY <1>2
    <3> QED BY <1>7, <1>11, <3>1
  <2> QED BY <2>1
<1>14. encode(c)[1] = [kind |-> c.kind] /\ \A k \in 1 .. n + 1 : encode(c)[k] \in Plain
  <2> HIDE DEF body, n, crc
  <2> QED BY <1>2, <1>7, <1>10, <1>11
<1> HIDE DEF n, L, body
<1> QED BY <1>11, <1>12, <1>13, <1>14 DEF n, L

LEMMA HeaderType ==
  ASSUME NEW cap \in Capacities
  PROVE  /\ encode_header(cap) \in Seq(Unit)
         /\ Len(encode_header(cap)) = 4
         /\ encode_header(cap)[1] = [magic |-> TRUE]
         /\ encode_header(cap)[2] = [version |-> kVersion]
         /\ encode_header(cap)[3] = [capacity |-> cap]
         /\ \A k \in 1 .. 3 : encode_header(cap)[k] \in Plain
         /\ encode_header(cap)[4] = checksum(SubSeq(encode_header(cap), 1, 3))
<1> DEFINE fields == <<[magic |-> TRUE], [version |-> kVersion], [capacity |-> cap]>>
<1>1. fields \in Seq(Plain) /\ Len(fields) = 3 /\ \A k \in 1 .. 3 : fields[k] \in Plain
  BY DEF Plain
<1>2. checksum(fields) \in Unit /\ fields \in Seq(Unit)
  <2> HIDE DEF fields
  <2>1. Plain \subseteq Unit /\ checksum(fields) \in Unit
    BY <1>1 DEF Unit
  <2> QED BY <1>1, <2>1, SeqMonotonic
<1>3. encode_header(cap) = Append(fields, checksum(fields))
  BY DEF encode_header
<1> DEFINE h == encode_header(cap)
<1>4. /\ h \in Seq(Unit) /\ Len(h) = 4
      /\ \A k \in 1 .. 3 : h[k] = fields[k]
      /\ h[4] = checksum(fields)
  <2>1. h = Append(fields, checksum(fields))
    BY <1>3
  <2>2. PICK crc \in Unit : crc = checksum(fields)
    BY <1>2
  <2> HIDE DEF fields, h
  <2>3. /\ h \in Seq(Unit) /\ Len(h) = Len(fields) + 1
        /\ \A k \in 1 .. Len(fields) : h[k] = fields[k]
        /\ h[Len(fields) + 1] = crc
    BY <1>2, <2>1, <2>2, AppendProperties
  <2> QED BY <1>1, <2>2, <2>3
<1>5. SubSeq(h, 1, 3) = fields
  <2> HIDE DEF fields, h
  <2> QED BY <1>1, <1>2, <1>4
<1>6. fields[1] = [magic |-> TRUE] /\ fields[2] = [version |-> kVersion]
      /\ fields[3] = [capacity |-> cap]
  OBVIOUS
<1>7. /\ h[1] = [magic |-> TRUE] /\ h[2] = [version |-> kVersion]
      /\ h[3] = [capacity |-> cap] /\ \A k \in 1 .. 3 : h[k] \in Plain
  <2> HIDE DEF fields, h
  <2> QED BY <1>1, <1>4, <1>6
<1>8. h[4] = checksum(SubSeq(h, 1, 3))
  <2> HIDE DEF fields, h
  <2> QED BY <1>4, <1>5
<1> QED BY <1>4, <1>7, <1>8, Zenon

-----------------------------------------------------------------------------
(* What a writer that nothing happens to writes. *)

(***************************************************************************)
(* The units w are the header for cap and the records of the commands cs,  *)
(* and the record of cs[i] ends at off[i].                                 *)
(***************************************************************************)
IsJournal(w, off, cap, cs) ==
  /\ cap \in Capacities
  /\ cs \in Seq(Commands)
  /\ w \in Seq(Unit)
  /\ off \in [0 .. Len(cs) -> Nat]
  /\ off[0] = 4
  /\ off[Len(cs)] = Len(w)
  /\ \A j \in 1 .. 4 : w[j] = encode_header(cap)[j]
  /\ \A i \in 1 .. Len(cs) :
       /\ off[i] = off[i - 1] + Len(encode(cs[i]))
       /\ \A j \in 1 .. Len(encode(cs[i])) : w[off[i - 1] + j] = encode(cs[i])[j]

LEMMA HeaderIsJournal ==
  ASSUME NEW cap \in Capacities
  PROVE  IsJournal(encode_header(cap), [i \in 0 .. 0 |-> 4], cap, <<>>)
<1>1. encode_header(cap) \in Seq(Unit) /\ Len(encode_header(cap)) = 4
  BY HeaderType
<1> QED BY <1>1 DEF IsJournal

(* The records end one after the other. *)
LEMMA EndsInOrder ==
  ASSUME NEW w, NEW off, NEW cap, NEW cs, IsJournal(w, off, cap, cs)
  PROVE  \A j \in 0 .. Len(cs) : \A i \in 0 .. j : off[i] <= off[j]
<1> DEFINE n == Len(cs)
           S == {j \in 0 .. n : \A i \in 0 .. j : off[i] <= off[j]}
<1>1. n \in Nat /\ off \in [0 .. n -> Nat] /\ cs \in Seq(Commands)
  BY DEF IsJournal
<1>2. 0 \in S
  BY <1>1
<1>3. ASSUME NEW k \in 1 .. n, k - 1 \in S PROVE k \in S
  <2>1. cs[k] \in Command
    BY <1>1, JournalAssumption
  <2>2. Len(encode(cs[k])) \in Nat
    BY <2>1, EncodeType
  <2>3. off[k] = off[k - 1] + Len(encode(cs[k]))
    BY DEF IsJournal
  <2>4. /\ k \in 0 .. n /\ k - 1 \in 0 .. n /\ k \in Nat
        /\ off[k] \in Nat /\ off[k - 1] \in Nat
    BY <1>1
  <2>5. ASSUME NEW i \in 0 .. k PROVE off[i] <= off[k]
    <3>1. CASE i = k
      BY <2>4, <3>1
    <3>2. CASE i # k
      <4>1. i \in 0 .. k - 1 /\ i \in 0 .. n
        BY <2>4, <3>2
      <4>2. off[i] <= off[k - 1] /\ off[i] \in Nat
        BY <1>1, <1>3, <4>1
      <4> QED BY <2>2, <2>3, <2>4, <4>2
    <3> QED BY <3>1, <3>2
  <2> QED BY <2>4, <2>5
<1>4. \A k \in 0 .. n : k \in S
  <2> HIDE DEF S, n
  <2> QED BY <1>1, <1>2, <1>3, Reaches
<1> QED BY <1>4

(* An append adds a record at the end. *)
LEMMA JournalExtends ==
  ASSUME NEW w, NEW off, NEW cap, NEW cs, IsJournal(w, off, cap, cs),
         NEW c \in Commands
  PROVE  LET n == Len(cs)
             longer == [i \in 0 .. n + 1 |-> IF i = n + 1 THEN Len(w) + Len(encode(c))
                                                          ELSE off[i]]
         IN  IsJournal(w \o encode(c), longer, cap, Append(cs, c))
<1> DEFINE n == Len(cs)
           longer == [i \in 0 .. n + 1 |-> IF i = n + 1 THEN Len(w) + Len(encode(c))
                                                        ELSE off[i]]
<1>1. c \in Command
  BY JournalAssumption
<1>2. PICK r \in Seq(Unit) : r = encode(c)
  BY <1>1, EncodeType
<1>3. /\ cap \in Capacities /\ cs \in Seq(Commands) /\ w \in Seq(Unit)
      /\ off \in [0 .. n -> Nat] /\ off[0] = 4 /\ off[n] = Len(w)
      /\ n \in Nat /\ Len(w) \in Nat /\ Len(r) \in Nat
  BY <1>2 DEF IsJournal
<1>4. /\ Append(cs, c) \in Seq(Commands) /\ Len(Append(cs, c)) = n + 1
      /\ \A i \in 1 .. n : Append(cs, c)[i] = cs[i]
      /\ Append(cs, c)[n + 1] = c
  BY <1>3, AppendProperties
<1>5. /\ w \o r \in Seq(Unit) /\ Len(w \o r) = Len(w) + Len(r)
      /\ \A i \in 1 .. Len(w) : (w \o r)[i] = w[i]
      /\ \A i \in 1 .. Len(r) : (w \o r)[Len(w) + i] = r[i]
  BY <1>3, ConcatProperties
<1>6. /\ longer \in [0 .. n + 1 -> Nat]
      /\ \A i \in 0 .. n : longer[i] = off[i]
      /\ longer[n + 1] = Len(w) + Len(r)
  BY <1>2, <1>3
<1>7. \A i \in 0 .. n : off[i] <= Len(w)
  BY <1>3, EndsInOrder
<1> HIDE DEF n, longer
<1>8. ASSUME NEW j \in 1 .. 4 PROVE (w \o r)[j] = encode_header(cap)[j]
  <2>1. 0 \in 0 .. n /\ j \in 1 .. Len(w)
    BY <1>3, <1>7
  <2> QED BY <1>5, <2>1 DEF IsJournal
<1>9. ASSUME NEW i \in 1 .. n + 1
      PROVE  /\ longer[i] = longer[i - 1] + Len(encode(Append(cs, c)[i]))
             /\ \A j \in 1 .. Len(encode(Append(cs, c)[i])) :
                  (w \o r)[longer[i - 1] + j] = encode(Append(cs, c)[i])[j]
  <2>1. CASE i = n + 1
    <3>1. i - 1 = n /\ n \in 0 .. n
      BY <1>3, <2>1
    <3>2. longer[i - 1] = Len(w) /\ longer[i] = Len(w) + Len(r)
      BY <1>3, <1>6, <2>1, <3>1
    <3>3. encode(Append(cs, c)[i]) = r
      BY <1>2, <1>4, <2>1
    <3> QED BY <1>5, <3>2, <3>3
  <2>2. CASE i # n + 1
    <3>1. i \in 1 .. n /\ i \in 0 .. n /\ i - 1 \in 0 .. n
      BY <1>3, <2>2
    <3>2. longer[i] = off[i] /\ longer[i - 1] = off[i - 1] /\ off[i] <= Len(w)
          /\ off[i] \in Nat /\ off[i - 1] \in Nat
      BY <1>3, <1>6, <1>7, <3>1
    <3>3. /\ off[i] = off[i - 1] + Len(encode(cs[i]))
          /\ \A j \in 1 .. Len(encode(cs[i])) : w[off[i - 1] + j] = encode(cs[i])[j]
      BY <3>1 DEF IsJournal, n
    <3>4. Append(cs, c)[i] = cs[i]
      BY <1>4, <3>1
    <3>5. cs[i] \in Command
      BY <1>3, <3>1, JournalAssumption DEF n
    <3>6. Len(encode(cs[i])) \in Nat
      BY <3>5, EncodeType
    <3>7. ASSUME NEW j \in 1 .. Len(encode(cs[i]))
          PROVE  (w \o r)[off[i - 1] + j] = encode(cs[i])[j]
      <4>1. off[i - 1] + j \in 1 .. Len(w)
        BY <1>3, <3>2, <3>3, <3>6
      <4> QED BY <1>5, <3>3, <4>1
    <3> QED BY <3>2, <3>3, <3>4, <3>7
  <2> QED BY <2>1, <2>2
<1>10. /\ longer[0] = 4
       /\ longer[n + 1] = Len(w \o r)
  <2>1. 0 \in 0 .. n
    BY <1>3
  <2> QED BY <1>3, <1>5, <1>6, <2>1
<1>11. IsJournal(w \o r, longer, cap, Append(cs, c))
  BY <1>3, <1>4, <1>5, <1>6, <1>8, <1>9, <1>10 DEF IsJournal
<1> QED BY <1>2, <1>11 DEF longer, n

(* Every unit after the header is in a record. *)
LEMMA UnitInRecord ==
  ASSUME NEW w, NEW off, NEW cap, NEW cs, IsJournal(w, off, cap, cs),
         NEW p \in 1 .. Len(w), p > 4
  PROVE  \E i \in 1 .. Len(cs) : \E j \in 1 .. Len(encode(cs[i])) :
           p = off[i - 1] + j
<1> DEFINE n == Len(cs)
           S == {i \in 0 .. n : p <= off[i]}
<1>1. /\ n \in Nat /\ off \in [0 .. n -> Nat] /\ cs \in Seq(Commands)
      /\ w \in Seq(Unit) /\ off[n] = Len(w) /\ off[0] = 4 /\ p \in Nat
  BY DEF IsJournal
<1>2. S \in SUBSET Nat /\ n \in S
  BY <1>1
<1>3. PICK i \in S : \A m \in S : i <= m
  <2> HIDE DEF S, n
  <2> QED BY <1>2, LeastNumber
<1>4. i # 0
  BY <1>1
<1>5. i \in 1 .. n /\ i - 1 \in 0 .. n /\ i \in 0 .. n
  BY <1>1, <1>4
<1>6. i - 1 \notin S
  <2> HIDE DEF S
  <2> QED BY <1>3, <1>5
<1>7. off[i - 1] < p /\ p <= off[i] /\ off[i - 1] \in Nat
  BY <1>1, <1>5, <1>6
<1>8. cs[i] \in Command
  BY <1>1, <1>5, JournalAssumption
<1>9. Len(encode(cs[i])) \in Nat /\ off[i] = off[i - 1] + Len(encode(cs[i]))
  BY <1>5, <1>8, EncodeType DEF IsJournal
<1>10. p - off[i - 1] \in 1 .. Len(encode(cs[i])) /\ p = off[i - 1] + (p - off[i - 1])
  BY <1>1, <1>7, <1>9
<1> QED BY <1>5, <1>10

(* A checksum is the checksum of what is before it, and nothing that is    *)
(* written is noise.                                                       *)
LEMMA ChecksumsCover ==
  ASSUME NEW w, NEW off, NEW cap, NEW cs, IsJournal(w, off, cap, cs),
         NEW p \in 1 .. Len(w)
  PROVE  /\ w[p] # [noise |-> TRUE]
         /\ \A s \in Seq(Unit) :
              w[p] = checksum(s) =>
                /\ Len(s) < p
                /\ \A j \in 1 .. Len(s) : w[(p - 1 - Len(s)) + j] = s[j]
<1>0. w \in Seq(Unit) /\ p \in Nat /\ cap \in Capacities /\ cs \in Seq(Commands)
  BY DEF IsJournal
<1>1. CASE p <= 4
  <2>1. PICK h \in Seq(Unit) : h = encode_header(cap)
    BY <1>0, HeaderType
  <2>2. /\ Len(h) = 4 /\ \A j \in 1 .. 3 : h[j] \in Plain
        /\ h[4] = checksum(SubSeq(h, 1, 3))
    BY <1>0, <2>1, HeaderType
  <2>3. \A j \in 1 .. 4 : w[j] = h[j]
    BY <2>1 DEF IsJournal
  <2>4. CASE p # 4
    <3>1. w[p] \in Plain
      BY <1>0, <1>1, <2>2, <2>3, <2>4
    <3> QED BY <3>1, NotPlain
  <2>5. CASE p = 4
    <3>1. w[p] = checksum(SubSeq(h, 1, 3))
      BY <2>2, <2>3, <2>5
    <3>2. ASSUME NEW s \in Seq(Unit), w[p] = checksum(s)
          PROVE  /\ Len(s) < p
                 /\ \A j \in 1 .. Len(s) : w[(p - 1 - Len(s)) + j] = s[j]
      <4>1. s = SubSeq(h, 1, 3)
        BY <3>1, <3>2, ChecksumInjective
      <4>2. Len(s) = 3 /\ \A j \in 1 .. 3 : s[j] = h[j]
        BY <2>2, <4>1
      <4> QED BY <2>3, <2>5, <4>2
    <3> QED BY <3>1, <3>2, ChecksumIsNoNoise
  <2> QED BY <2>4, <2>5
<1>2. CASE p > 4
  <2>1. PICK i \in 1 .. Len(cs) : \E j \in 1 .. Len(encode(cs[i])) : p = off[i - 1] + j
    BY <1>2, UnitInRecord
  <2>2. cs[i] \in Command /\ off[i - 1] \in Nat
    <3>1. off \in [0 .. Len(cs) -> Nat] /\ Len(cs) \in Nat
      BY <1>0 DEF IsJournal
    <3>2. i - 1 \in 0 .. Len(cs) /\ cs[i] \in Commands
      BY <1>0, <3>1
    <3> QED BY <3>1, <3>2, JournalAssumption
  <2>3. PICK r \in Seq(Unit), n \in Nat : r = encode(cs[i]) /\ n = payload_size(cs[i].kind)
    <3>1. cs[i].kind \in CommandKind
      BY <2>2 DEF Command
    <3> QED BY <2>2, <3>1, EncodeType, LayoutType
  <2>4. PICK o \in Nat : o = off[i - 1]
    BY <2>2
  <2>5. PICK j \in 1 .. Len(r) : p = o + j
    BY <2>1, <2>3, <2>4
  <2>6. /\ Len(r) = n + 2 /\ \A m \in 1 .. n + 1 : r[m] \in Plain
        /\ r[n + 2] = checksum(SubSeq(r, 1, n + 1))
    BY <2>2, <2>3, EncodeType
  <2>7. \A m \in 1 .. Len(r) : w[o + m] = r[m]
    BY <2>1, <2>3, <2>4 DEF IsJournal
  <2>8. CASE j # n + 2
    <3>1. j \in 1 .. n + 1
      BY <2>3, <2>6, <2>8
    <3>2. w[p] \in Plain
      BY <2>5, <2>6, <2>7, <3>1
    <3> QED BY <3>2, NotPlain
  <2>9. CASE j = n + 2
    <3>1. w[p] = checksum(SubSeq(r, 1, n + 1))
      BY <2>5, <2>6, <2>7, <2>9
    <3>2. ASSUME NEW s \in Seq(Unit), w[p] = checksum(s)
          PROVE  /\ Len(s) < p
                 /\ \A m \in 1 .. Len(s) : w[(p - 1 - Len(s)) + m] = s[m]
      <4>1. s = SubSeq(r, 1, n + 1)
        BY <3>1, <3>2, ChecksumInjective
      <4>2. Len(s) = n + 1 /\ \A m \in 1 .. n + 1 : s[m] = r[m]
        BY <2>3, <2>6, <4>1
      <4>3. p = o + (n + 2) /\ Len(s) = n + 1
        BY <2>5, <2>9, <4>2
      <4>4. ASSUME NEW m \in 1 .. Len(s) PROVE w[o + m] = s[m]
        BY <2>6, <2>7, <4>2
      <4>5. Len(s) < p /\ p - 1 - Len(s) = o
        BY <4>3
      <4> QED BY <4>4, <4>5
    <3> QED BY <3>1, <3>2, ChecksumIsNoNoise
  <2> QED BY <2>8, <2>9
<1> QED BY <1>0, <1>1, <1>2

-----------------------------------------------------------------------------
(* What may be left of it. *)

(* d is the first part of w, with at most the unit at e damaged. *)
Copies(d, w, e) ==
  /\ d \in Seq(Unit)
  /\ e \in Nat
  /\ Len(d) <= Len(w)
  /\ \A i \in 1 .. Len(d) : IF i = e THEN d[i] \in Damaged(w[i]) ELSE d[i] = w[i]

(***************************************************************************)
(* What a checksum matches has not been damaged: not a byte of it, and not *)
(* the kind byte that says where the checksum is.                          *)
(***************************************************************************)
LEMMA MatchIsIntact ==
  ASSUME NEW w, NEW off, NEW cap, NEW cs, IsJournal(w, off, cap, cs),
         NEW d, NEW e, Copies(d, w, e),
         NEW a \in Nat, NEW p \in 1 .. Len(d), a < p - 1,
         d[p] = checksum(SubSeq(d, a + 1, p - 1))
  PROVE  \A i \in a + 1 .. p : i # e /\ d[i] = w[i]
<1>1. /\ d \in Seq(Unit) /\ w \in Seq(Unit) /\ e \in Nat /\ p \in Nat
      /\ Len(d) \in Nat /\ Len(w) \in Nat /\ Len(d) <= Len(w)
  BY DEF Copies, IsJournal
<1>2. PICK s : s = SubSeq(d, a + 1, p - 1)
  OBVIOUS
<1>3. /\ s \in Seq(Unit) /\ Len(s) = (p - 1) - a
      /\ \A j \in 1 .. (p - 1) - a : s[j] = d[a + j]
  BY <1>1, <1>2
<1>4. \A i \in 1 .. Len(d) : /\ w[i] \in Unit /\ w[i] # [noise |-> TRUE]
                             /\ i \in 1 .. Len(w)
  BY <1>1, ChecksumsCover
<1>5. p # e
  <2> SUFFICES ASSUME p = e PROVE FALSE
    OBVIOUS
  <2>1. d[p] \in Damaged(w[p])
    BY <1>1 DEF Copies
  <2>2. "crc" \notin DOMAIN d[p]
    BY <1>4, <2>1, DamageChanges
  <2>3. DOMAIN d[p] = {"crc"}
    BY ChecksumDomain
  <2> QED BY <2>2, <2>3
<1>6. d[p] = w[p]
  BY <1>1, <1>5 DEF Copies
<1>7. \A j \in 1 .. Len(s) : w[(p - 1 - Len(s)) + j] = s[j]
  <2>1. w[p] = checksum(s) /\ p \in 1 .. Len(w)
    BY <1>1, <1>2, <1>6
  <2> QED BY <1>3, <2>1, ChecksumsCover
<1>8. ASSUME NEW i \in a + 1 .. p PROVE i # e /\ d[i] = w[i]
  <2>1. CASE i = p
    BY <1>5, <1>6, <2>1
  <2>2. CASE i # p
    <3>1. PICK j \in 1 .. (p - 1) - a : i = a + j
      <4>1. i - a \in 1 .. (p - 1) - a /\ i = a + (i - a)
        BY <1>1, <2>2
      <4> QED BY <4>1
    <3>2. (p - 1) - Len(s) = a
      BY <1>1, <1>3
    <3>3. w[i] = s[j] /\ s[j] = d[i]
      BY <1>3, <1>7, <3>1, <3>2
    <3>4. i \in 1 .. Len(d)
      BY <1>1, <2>2
    <3>5. i # e
      <4> SUFFICES ASSUME i = e PROVE FALSE
        OBVIOUS
      <4>1. d[i] \in Damaged(w[i])
        BY <3>4 DEF Copies
      <4>2. d[i] # w[i]
        BY <1>4, <3>4, <4>1, DamageChanges
      <4> QED BY <3>3, <4>2
    <3> QED BY <3>3, <3>5
  <2> QED BY <2>1, <2>2
<1> QED BY <1>8

-----------------------------------------------------------------------------
(* The invariant. *)

(***************************************************************************)
(* How d, a file or a copy of one, is related to its history: d is a part  *)
(* of the journal w of the first n commands that were submitted.  They are *)
(* the acknowledged ones and perhaps the one whose append failed.          *)
(***************************************************************************)
Holds(d, cap, sub, ack, good, w, off, e, n) ==
  /\ sub \in Seq(Commands)
  /\ ack \in Seq(Commands)
  /\ Len(ack) <= Len(sub)
  /\ ack = SubSeq(sub, 1, Len(ack))
  /\ n \in {Len(ack), Len(ack) + 1}
  /\ n <= Len(sub)
  /\ IsJournal(w, off, cap, SubSeq(sub, 1, n))
  /\ Copies(d, w, e)
  /\ good => e = 0
  /\ good /\ ack # <<>> => off[Len(ack)] <= Len(d)

LEMMA HoldsTypes ==
  ASSUME NEW d, NEW cap, NEW sub, NEW ack, NEW good, NEW w, NEW off, NEW e, NEW n,
         Holds(d, cap, sub, ack, good, w, off, e, n)
  PROVE  /\ n \in Nat /\ Len(ack) \in 0 .. n /\ n \in 0 .. Len(sub)
         /\ SubSeq(sub, 1, n) \in Seq(Commands) /\ Len(SubSeq(sub, 1, n)) = n
         /\ \A i \in 1 .. n : SubSeq(sub, 1, n)[i] = sub[i]
         /\ off \in [0 .. n -> Nat] /\ off[0] = 4 /\ off[n] = Len(w)
         /\ d \in Seq(Unit) /\ w \in Seq(Unit) /\ Len(d) <= Len(w)
         /\ e \in Nat /\ cap \in Capacities
<1>1. /\ sub \in Seq(Commands) /\ ack \in Seq(Commands)
      /\ Len(ack) \in Nat /\ Len(sub) \in Nat /\ n <= Len(sub)
      /\ n \in {Len(ack), Len(ack) + 1}
      /\ IsJournal(w, off, cap, SubSeq(sub, 1, n)) /\ Copies(d, w, e)
  BY DEF Holds
<1>2. n \in Nat /\ Len(ack) \in 0 .. n /\ n \in 0 .. Len(sub)
  BY <1>1
<1>3. /\ SubSeq(sub, 1, n) \in Seq(Commands) /\ Len(SubSeq(sub, 1, n)) = n
      /\ \A i \in 1 .. n : SubSeq(sub, 1, n)[i] = sub[i]
  BY <1>1, <1>2
<1> QED BY <1>1, <1>2, <1>3 DEF IsJournal, Copies

(* The writer's file.  What the C library keeps comes next in the journal, *)
(* and while the writer accepts appends the file is complete.              *)
FileIs(w, off, e, n) ==
  /\ Holds(file, capacity, submitted, acked, trusted, w, off, e, n)
  /\ buffer \in Seq(Unit)
  /\ Len(file) + Len(buffer) <= Len(w)
  /\ \A i \in 1 .. Len(buffer) : buffer[i] = w[Len(file) + i]
  /\ ~Refuses => submitted = acked /\ Len(file) = Len(w)

WriterInv ==
  /\ writer \in {"closed", "open"}
  /\ failed \in BOOLEAN
  /\ trusted \in BOOLEAN
  /\ writer = "closed" => buffer = <<>>
  /\ writer = "open" => trusted
  /\ \E w, off, e, n : FileIs(w, off, e, n)

(* g is the first part of the units w, and b comes next or is empty. *)
FirstAndNext(w, g, b) ==
  /\ w \in Seq(Unit) /\ g \in Seq(Unit) /\ b \in Seq(Unit)
  /\ Len(g) + Len(b) <= Len(w)
  /\ \A i \in 1 .. Len(g) : g[i] = w[i]
  /\ \A i \in 1 .. Len(b) : b[i] = w[Len(g) + i]

(* The first m of the units u are handed over, and the rest of them may be *)
(* kept.                                                                   *)
HandedOver(f, u, m, g, b) ==
  /\ g = f \o SubSeq(u, 1, m)
  /\ b \in {<<>>, SubSeq(u, m + 1, Len(u))}

LEMMA PartWritten ==
  ASSUME NEW f \in Seq(Unit), NEW u \in Seq(Unit), NEW m \in 0 .. Len(u),
         NEW g, NEW b, HandedOver(f, u, m, g, b)
  PROVE  FirstAndNext(f \o u, g, b) /\ Len(g) = Len(f) + m
<1> USE DEF HandedOver
<1>0. Len(f) \in Nat /\ Len(u) \in Nat /\ m \in Nat
  OBVIOUS
<1>1. PICK s : s = SubSeq(u, 1, m)
  OBVIOUS
<1>2. s \in Seq(Unit) /\ Len(s) = m /\ \A i \in 1 .. m : s[i] = u[i]
  BY <1>0, <1>1
<1>3. /\ g \in Seq(Unit) /\ Len(g) = Len(f) + m
      /\ \A i \in 1 .. Len(f) + m : g[i] = IF i <= Len(f) THEN f[i] ELSE s[i - Len(f)]
  BY <1>1, <1>2, ConcatProperties
<1>4. PICK w : w = f \o u
  OBVIOUS
<1>5. /\ w \in Seq(Unit) /\ Len(w) = Len(f) + Len(u)
      /\ \A i \in 1 .. Len(f) + Len(u) : w[i] = IF i <= Len(f) THEN f[i] ELSE u[i - Len(f)]
  BY <1>4, ConcatProperties
<1>6. /\ b \in Seq(Unit) /\ Len(b) \in {0, Len(u) - m}
      /\ \A i \in 1 .. Len(b) : b[i] = u[m + i]
  <2>1. CASE b = <<>>
    BY <2>1
  <2>2. CASE b = SubSeq(u, m + 1, Len(u))
    BY <1>0, <2>2
  <2> QED BY <2>1, <2>2
<1>7. ASSUME NEW i \in 1 .. Len(g) PROVE g[i] = w[i]
  <2>1. i \in 1 .. Len(f) + m /\ i \in 1 .. Len(f) + Len(u)
    BY <1>0, <1>3
  <2>2. CASE i <= Len(f)
    BY <1>3, <1>5, <2>1, <2>2
  <2>3. CASE ~(i <= Len(f))
    <3>1. i - Len(f) \in 1 .. m
      BY <1>0, <2>1, <2>3
    <3>2. g[i] = s[i - Len(f)] /\ w[i] = u[i - Len(f)]
      BY <1>3, <1>5, <2>1, <2>3
    <3> QED BY <1>2, <3>1, <3>2
  <2> QED BY <2>2, <2>3
<1>8. ASSUME NEW i \in 1 .. Len(b) PROVE b[i] = w[Len(g) + i]
  <2>1. /\ Len(g) + i \in 1 .. Len(f) + Len(u) /\ ~(Len(g) + i <= Len(f))
        /\ (Len(g) + i) - Len(f) = m + i
    <3>1. PICK a, c, d, e : a = Len(f) /\ c = Len(u) /\ d = Len(g) /\ e = Len(b)
      OBVIOUS
    <3>2. /\ a \in Nat /\ c \in Nat /\ m \in Nat /\ d = a + m
          /\ e \in {0, c - m} /\ i \in 1 .. e
      BY <1>0, <1>3, <1>6, <3>1
    <3>3. d + i \in 1 .. a + c /\ ~(d + i <= a) /\ (d + i) - a = m + i
      BY <3>2
    <3> QED BY <3>1, <3>3
  <2>2. w[Len(g) + i] = u[(Len(g) + i) - Len(f)]
    BY <1>5, <2>1
  <2> QED BY <1>6, <2>1, <2>2
<1>9. Len(g) + Len(b) <= Len(w)
  BY <1>0, <1>3, <1>5, <1>6
<1>10. FirstAndNext(w, g, b)
  BY <1>3, <1>5, <1>6, <1>7, <1>8, <1>9 DEF FirstAndNext
<1> QED BY <1>3, <1>4, <1>10

(* A new file: nothing was submitted, and it has a part of the header. *)
LEMMA NewFileHolds ==
  ASSUME NEW cap \in Capacities, NEW d \in Seq(Unit), NEW good,
         Len(d) <= 4, \A i \in 1 .. Len(d) : d[i] = encode_header(cap)[i]
  PROVE  Holds(d, cap, <<>>, <<>>, good, encode_header(cap), [i \in 0 .. 0 |-> 4], 0, 0)
<1>1. Len(encode_header(cap)) = 4
  BY HeaderType
<1>2. Copies(d, encode_header(cap), 0)
  BY <1>1 DEF Copies
<1>3. SubSeq(<<>>, 1, 0) = <<>> /\ Len(<<>>) = 0 /\ <<>> \in Seq(Commands)
  BY SubSeqEmpty
<1>4. IsJournal(encode_header(cap), [i \in 0 .. 0 |-> 4], cap, SubSeq(<<>>, 1, 0))
  BY <1>3, HeaderIsJournal
<1> HIDE DEF IsJournal, Copies
<1> QED BY <1>2, <1>3, <1>4 DEF Holds

LEMMA OpenStep ==
  ASSUME NEW cap \in Capacities, Open(cap)
  PROVE  WriterInv'
<1>1. PICK h \in Seq(Unit) : h = encode_header(cap) /\ Len(h) = 4
  BY HeaderType
<1>2. <<>> \in Seq(Unit) /\ Len(<<>>) = 0 /\ <<>> \o h = h
  BY ConcatEmptySeq
<1>3. /\ FirstAndNext(h, file', buffer')
      /\ failed' \in BOOLEAN
      /\ failed' \/ Len(file') = 4
  <2>1. CASE WriteOk(<<>>, encode_header(cap))
    <3>1. file' = h /\ buffer' = <<>> /\ failed' = FALSE
      BY <1>1, <1>2, <2>1 DEF WriteOk
    <3>2. FirstAndNext(h, h, <<>>)
      BY <1>1, <1>2 DEF FirstAndNext
    <3> QED BY <1>1, <3>1, <3>2
  <2>2. CASE WriteFails(<<>>, encode_header(cap))
    <3>1. PICK m \in 0 .. Len(h) : HandedOver(<<>>, h, m, file', buffer') /\ failed' = TRUE
      BY <1>1, <2>2 DEF WriteFails, HandedOver
    <3>2. FirstAndNext(<<>> \o h, file', buffer')
      BY <1>2, <3>1, PartWritten
    <3> QED BY <1>2, <3>1, <3>2
  <2> QED BY <2>1, <2>2 DEF Open
<1>4. /\ capacity' = cap /\ writer' = "open" /\ submitted' = <<>>
      /\ acked' = <<>> /\ trusted' = TRUE
  BY DEF Open
<1>5. Holds(file', cap, <<>>, <<>>, TRUE, h, [i \in 0 .. 0 |-> 4], 0, 0)
  <2>1. /\ file' \in Seq(Unit) /\ Len(file') <= 4
        /\ \A i \in 1 .. Len(file') : file'[i] = encode_header(cap)[i]
    BY <1>1, <1>3 DEF FirstAndNext
  <2> QED BY <1>1, <2>1, NewFileHolds
<1>6. FileIs(h, [i \in 0 .. 0 |-> 4], 0, 0)'
  <2> HIDE DEF Holds
  <2> QED BY <1>1, <1>3, <1>4, <1>5 DEF FileIs, Refuses, FirstAndNext
<1> QED BY <1>3, <1>4, <1>6 DEF WriterInv

(* The first commands submitted stay the first. *)
LEMMA FirstOfAppend ==
  ASSUME NEW S, NEW s \in Seq(S), NEW c \in S, NEW m \in 0 .. Len(s)
  PROVE  SubSeq(Append(s, c), 1, m) = SubSeq(s, 1, m)
<1>1. PICK t \in Seq(S) : t = Append(s, c)
  BY AppendProperties
<1>2. Len(t) = Len(s) + 1 /\ \A i \in 1 .. Len(s) : t[i] = s[i]
  BY <1>1, AppendProperties
<1>3. \A i \in 1 .. m : t[i] = s[i] /\ s[i] \in S
  BY <1>2
<1>4. /\ SubSeq(t, 1, m) \in Seq(S) /\ Len(SubSeq(t, 1, m)) = m
      /\ SubSeq(s, 1, m) \in Seq(S) /\ Len(SubSeq(s, 1, m)) = m
      /\ \A i \in 1 .. m : SubSeq(t, 1, m)[i] = t[i] /\ SubSeq(s, 1, m)[i] = s[i]
  BY <1>2, <1>3
<1>5. SubSeq(t, 1, m) = SubSeq(s, 1, m)
  BY <1>3, <1>4, SeqEqual
<1> QED BY <1>1, <1>5

(* A writer that accepts an append has a complete and undamaged file. *)
LEMMA AcceptingFile ==
  ASSUME WriterInv, ~Refuses
  PROVE  /\ writer = "open" /\ failed = FALSE /\ trusted = TRUE
         /\ submitted = acked /\ acked \in Seq(Commands)
         /\ \E off : IsJournal(file, off, capacity, acked)
<1>1. writer = "open" /\ failed = FALSE /\ trusted = TRUE
  BY DEF WriterInv, Refuses
<1>2. PICK w, off, e, n : FileIs(w, off, e, n)
  BY DEF WriterInv
<1>3. /\ submitted = acked /\ Len(file) = Len(w)
      /\ acked \in Seq(Commands) /\ n = Len(acked) /\ e = 0
      /\ IsJournal(w, off, capacity, SubSeq(submitted, 1, n))
      /\ Copies(file, w, e)
  BY <1>1, <1>2 DEF FileIs, Holds
<1>4. file = w
  <2>1. /\ file \in Seq(Unit) /\ w \in Seq(Unit)
        /\ \A i \in 1 .. Len(file) : file[i] = w[i]
    BY <1>3 DEF Copies, IsJournal
  <2> QED BY <1>3, <2>1, SeqEqual
<1>5. SubSeq(submitted, 1, n) = acked
  BY <1>3, SubSeqFull
<1> QED BY <1>1, <1>3, <1>4, <1>5

LEMMA AppendOkStep ==
  ASSUME WriterInv, NEW c \in Commands, AppendOk(c)
  PROVE  WriterInv'
<1>1. /\ ~Refuses /\ submitted' = Append(submitted, c) /\ acked' = Append(acked, c)
      /\ file' = file \o encode(c) /\ buffer' = <<>> /\ failed' = FALSE
      /\ UNCHANGED <<writer, capacity, trusted>>
  BY DEF AppendOk, Submit, WriteOk
<1>2. /\ writer = "open" /\ trusted = TRUE
      /\ submitted = acked /\ acked \in Seq(Commands)
      /\ \E off : IsJournal(file, off, capacity, acked)
  BY <1>1, AcceptingFile
<1>3. PICK off : IsJournal(file, off, capacity, acked)
  BY <1>2
<1>4. PICK longer :
        /\ IsJournal(file', longer, capacity', acked')
        /\ longer[Len(acked')] = Len(file')
  <2>1. \E longer : IsJournal(file \o encode(c), longer, capacity, Append(acked, c))
    BY <1>3, JournalExtends
  <2> QED BY <1>1, <2>1 DEF IsJournal
<1>5. /\ acked' \in Seq(Commands) /\ Len(acked') \in Nat
      /\ SubSeq(acked', 1, Len(acked')) = acked'
      /\ file' \in Seq(Unit) /\ Len(file') \in Nat
  BY <1>4, SubSeqFull DEF IsJournal
<1>6. Copies(file', file', 0)
  BY <1>5 DEF Copies
<1>7. Holds(file', capacity', acked', acked', TRUE, file', longer, 0, Len(acked'))
  <2>1. IsJournal(file', longer, capacity', SubSeq(acked', 1, Len(acked')))
    BY <1>4, <1>5
  <2>2. Len(acked') <= Len(acked') /\ Len(file') <= Len(file')
    BY <1>5
  <2> QED BY <1>4, <1>5, <1>6, <2>1, <2>2 DEF Holds
<1>8. PICK w, n : w = file' /\ n = Len(acked')
  OBVIOUS
<1>9. FileIs(w, longer, 0, n)'
  <2>1. <<>> \in Seq(Unit) /\ Len(<<>>) = 0 /\ submitted' = acked' /\ trusted' = TRUE
    BY <1>1, <1>2
  <2>2. Len(file') + Len(buffer') <= Len(w) /\ Len(buffer') = 0
    BY <1>1, <1>5, <1>8, <2>1
  <2> HIDE DEF Holds
  <2>3. Holds(file', capacity', submitted', acked', trusted', w, longer, 0, n)
    BY <1>7, <1>8, <2>1
  <2>4. buffer' \in Seq(Unit) /\ \A i \in 1 .. Len(buffer') : buffer'[i] = w[Len(file') + i]
    BY <1>1, <2>1
  <2>5. Len(file') = Len(w)
    BY <1>8
  <2> QED BY <2>1, <2>2, <2>3, <2>4, <2>5 DEF FileIs
<1>10. (\E v, o, e, m : FileIs(v, o, e, m))'
  BY <1>9
<1> QED BY <1>1, <1>2, <1>10 DEF WriterInv

LEMMA AppendFailsStep ==
  ASSUME WriterInv, NEW c \in Commands, AppendFails(c)
  PROVE  WriterInv'
<1>1. /\ ~Refuses /\ submitted' = Append(submitted, c) /\ acked' = acked
      /\ WriteFails(file, encode(c))
      /\ UNCHANGED <<writer, capacity, trusted>>
  BY DEF AppendFails, Submit
<1>2. /\ writer = "open" /\ trusted = TRUE
      /\ submitted = acked /\ acked \in Seq(Commands)
      /\ \E off : IsJournal(file, off, capacity, acked)
  BY <1>1, AcceptingFile
<1>3. PICK off : IsJournal(file, off, capacity, acked)
  BY <1>2
<1>4. PICK r \in Seq(Unit) : r = encode(c)
  <2>1. c \in Command
    BY JournalAssumption
  <2> QED BY <2>1, EncodeType
<1>5. PICK p \in 0 .. Len(r) : HandedOver(file, r, p, file', buffer') /\ failed' = TRUE
  BY <1>1, <1>4 DEF WriteFails, HandedOver
<1>6. file \in Seq(Unit) /\ off[Len(acked)] = Len(file) /\ Len(acked) \in Nat
  BY <1>3 DEF IsJournal
<1>7. FirstAndNext(file \o r, file', buffer') /\ Len(file') = Len(file) + p
  BY <1>5, <1>6, PartWritten
<1>8. PICK longer :
        /\ IsJournal(file \o r, longer, capacity, Append(acked, c))
        /\ longer[Len(acked)] = Len(file)
  <2> DEFINE n == Len(acked)
             more == [i \in 0 .. n + 1 |-> IF i = n + 1 THEN Len(file) + Len(encode(c))
                                                       ELSE off[i]]
  <2>1. IsJournal(file \o encode(c), more, capacity, Append(acked, c))
    BY <1>3, JournalExtends
  <2>2. more[Len(acked)] = off[Len(acked)]
    BY <1>6
  <2> HIDE DEF more
  <2> QED BY <1>4, <1>6, <2>1, <2>2
<1>9. Copies(file', file \o r, 0)
  BY <1>7 DEF FirstAndNext, Copies
<1>10. /\ Append(acked, c) \in Seq(Commands)
       /\ Len(Append(acked, c)) = Len(acked) + 1
       /\ SubSeq(Append(acked, c), 1, Len(acked) + 1) = Append(acked, c)
       /\ SubSeq(Append(acked, c), 1, Len(acked)) = acked
  <2>1. /\ Append(acked, c) \in Seq(Commands)
        /\ Len(Append(acked, c)) = Len(acked) + 1
    BY <1>2, AppendProperties
  <2>2. SubSeq(Append(acked, c), 1, Len(acked)) = SubSeq(acked, 1, Len(acked))
    BY <1>2, <1>6, FirstOfAppend
  <2>3. SubSeq(acked, 1, Len(acked)) = acked
    BY <1>2, SubSeqFull
  <2>4. SubSeq(Append(acked, c), 1, Len(Append(acked, c))) = Append(acked, c)
    BY <2>1, SubSeqFull
  <2> QED BY <2>1, <2>2, <2>3, <2>4
<1>11. Holds(file', capacity, Append(acked, c), acked, TRUE, file \o r, longer, 0,
             Len(acked) + 1)
  <2>1. longer[Len(acked)] <= Len(file')
    BY <1>5, <1>6, <1>7, <1>8
  <2>2. Len(acked) <= Len(Append(acked, c)) /\ Len(acked) + 1 <= Len(Append(acked, c))
    BY <1>6, <1>10
  <2> HIDE DEF IsJournal, Copies
  <2>3. IsJournal(file \o r, longer, capacity, SubSeq(Append(acked, c), 1, Len(acked) + 1))
    BY <1>8, <1>10
  <2> QED BY <1>2, <1>9, <1>10, <2>1, <2>2, <2>3 DEF Holds
<1>12. PICK w, n : w = file \o r /\ n = Len(acked) + 1
  OBVIOUS
<1>13. FileIs(w, longer, 0, n)'
  <2>1. submitted' = Append(acked, c) /\ trusted' = TRUE /\ capacity' = capacity
        /\ acked' = acked /\ Refuses'
    BY <1>1, <1>2, <1>5 DEF Refuses
  <2> HIDE DEF Holds
  <2> QED BY <1>7, <1>11, <1>12, <2>1 DEF FileIs, FirstAndNext
<1>14. (\E v, o, e, m : FileIs(v, o, e, m))'
  BY <1>13
<1> QED BY <1>1, <1>2, <1>5, <1>14 DEF WriterInv

(* What is refused is submitted and changes nothing else. *)
LEMMA RefusedStep ==
  ASSUME WriterInv, NEW c \in Commands, AppendRefused(c)
  PROVE  WriterInv'
<1>1. /\ Refuses /\ submitted' = Append(submitted, c)
      /\ UNCHANGED <<file, writer, failed, buffer, capacity, acked, trusted>>
  BY DEF AppendRefused, Submit
<1>2. PICK w, off, e, n : FileIs(w, off, e, n)
  BY DEF WriterInv
<1>3. /\ submitted \in Seq(Commands) /\ acked \in Seq(Commands)
      /\ Len(acked) \in 0 .. Len(submitted) /\ n \in 0 .. Len(submitted)
      /\ n \in Nat /\ Len(submitted) \in Nat
      /\ acked = SubSeq(submitted, 1, Len(acked))
      /\ IsJournal(w, off, capacity, SubSeq(submitted, 1, n))
  BY <1>2 DEF FileIs, Holds
<1>4. /\ SubSeq(submitted', 1, n) = SubSeq(submitted, 1, n)
      /\ SubSeq(submitted', 1, Len(acked)) = SubSeq(submitted, 1, Len(acked))
  BY <1>1, <1>3, FirstOfAppend
<1>5. submitted' \in Seq(Commands) /\ Len(submitted') = Len(submitted) + 1
  BY <1>1, <1>3, AppendProperties
<1>6. /\ acked' = SubSeq(submitted', 1, Len(acked'))
      /\ IsJournal(w, off, capacity', SubSeq(submitted', 1, n))
  BY <1>1, <1>3, <1>4
<1>7. Len(acked') <= Len(submitted') /\ n <= Len(submitted')
  BY <1>1, <1>3, <1>5
<1>8. Holds(file', capacity', submitted', acked', trusted', w, off, e, n)
  <2>1. /\ n \in {Len(acked'), Len(acked') + 1} /\ Copies(file', w, e)
        /\ (trusted' => e = 0) /\ (trusted' /\ acked' # <<>> => off[Len(acked')] <= Len(file'))
        /\ acked' \in Seq(Commands)
    BY <1>1, <1>2, <1>3 DEF FileIs, Holds
  <2> QED BY <1>5, <1>6, <1>7, <2>1 DEF Holds
<1>9. FileIs(w, off, e, n)'
  <2> HIDE DEF Holds
  <2> QED BY <1>1, <1>2, <1>8 DEF FileIs, Refuses
<1>10. (\E v, o, x, m : FileIs(v, o, x, m))'
  BY <1>9
<1> QED BY <1>1, <1>10 DEF WriterInv

(* A closed file is a part of a journal, and that is all. *)
LEMMA ClosedFile ==
  ASSUME NEW w, NEW off, NEW e, NEW n,
         Holds(file', capacity', submitted', acked', trusted', w, off, e, n),
         buffer' = <<>>, writer' = "closed", failed' \in BOOLEAN, trusted' \in BOOLEAN
  PROVE  WriterInv'
<1>1. file' \in Seq(Unit) /\ w \in Seq(Unit) /\ Len(file') <= Len(w)
  BY DEF Holds, Copies, IsJournal
<1>2. <<>> \in Seq(Unit) /\ Len(<<>>) = 0
  OBVIOUS
<1>3. FileIs(w, off, e, n)'
  <2>1. buffer' \in Seq(Unit) /\ Len(file') + Len(buffer') <= Len(w)
    BY <1>1, <1>2
  <2>2. \A i \in 1 .. Len(buffer') : buffer'[i] = w[Len(file') + i]
    BY <1>2
  <2> HIDE DEF Holds
  <2> QED BY <2>1, <2>2 DEF FileIs, Refuses
<1>4. (\E v, o, x, m : FileIs(v, o, x, m))'
  BY <1>3
<1> QED BY <1>4 DEF WriterInv

(* A part of what was kept makes the file longer. *)
LEMMA fcloseStep ==
  ASSUME WriterInv, fclose, UNCHANGED <<capacity, submitted, acked, trusted>>,
         failed' \in BOOLEAN
  PROVE  WriterInv'
<1>1. PICK k \in 0 .. Len(buffer) : file' = file \o SubSeq(buffer, 1, k)
  BY DEF fclose
<1>2. PICK w, off, e, n : FileIs(w, off, e, n)
  BY DEF WriterInv
<1>3. /\ Copies(file, w, e) /\ IsJournal(w, off, capacity, SubSeq(submitted, 1, n))
      /\ buffer \in Seq(Unit) /\ file \in Seq(Unit) /\ w \in Seq(Unit)
      /\ Len(file) + Len(buffer) <= Len(w)
      /\ \A i \in 1 .. Len(buffer) : buffer[i] = w[Len(file) + i]
      /\ trusted => e = 0
  BY <1>2 DEF FileIs, Holds, Copies, IsJournal
<1>4. Copies(file', w, e) /\ Len(file) <= Len(file')
  <2>1. CASE buffer = <<>>
    <3>1. Len(buffer) = 0 /\ k = 0
      BY <1>1, <2>1
    <3>2. file' = file
      BY <1>1, <1>3, <2>1, <3>1, SubSeqEmpty, ConcatEmptySeq
    <3> QED BY <1>3, <3>2
  <2>2. CASE buffer # <<>>
    <3>1. e = 0
      BY <1>3, <2>2 DEF WriterInv
    <3>2. HandedOver(file, buffer, k, file', <<>>)
      BY <1>1 DEF HandedOver
    <3>3. FirstAndNext(file \o buffer, file', <<>>) /\ Len(file') = Len(file) + k
      BY <1>1, <1>3, <3>2, PartWritten
    <3>4. /\ Len(file \o buffer) = Len(file) + Len(buffer)
          /\ \A i \in 1 .. Len(file) + Len(buffer) :
               (file \o buffer)[i] = IF i <= Len(file) THEN file[i] ELSE buffer[i - Len(file)]
      BY <1>3, ConcatProperties
    <3>5. /\ Len(file) \in Nat /\ Len(buffer) \in Nat /\ Len(w) \in Nat /\ k \in Nat
          /\ k <= Len(buffer)
      BY <1>1, <1>3
    <3>6. file' \in Seq(Unit) /\ \A i \in 1 .. Len(file) + k : file'[i] = (file \o buffer)[i]
      BY <3>3 DEF FirstAndNext
    <3>7. ASSUME NEW i \in 1 .. Len(file) + k PROVE file'[i] = w[i]
      <4>1. i \in 1 .. Len(file) + Len(buffer)
        BY <3>5
      <4>2. CASE i <= Len(file)
        <5>1. i \in 1 .. Len(file) /\ i # e
          BY <3>1, <3>5, <4>2
        <5> QED BY <1>3, <3>4, <3>6, <4>1, <4>2, <5>1 DEF Copies
      <4>3. CASE ~(i <= Len(file))
        <5>1. i - Len(file) \in 1 .. Len(buffer) /\ Len(file) + (i - Len(file)) = i
          BY <3>5, <4>1, <4>3
        <5>2. buffer[i - Len(file)] = w[i]
          BY <1>3, <5>1
        <5> QED BY <3>4, <3>6, <4>1, <4>3, <5>2
      <4> QED BY <4>2, <4>3
    <3> QED BY <1>3, <3>1, <3>3, <3>5, <3>6, <3>7 DEF Copies
  <2> QED BY <2>1, <2>2
<1>5. Holds(file', capacity', submitted', acked', trusted', w, off, e, n)
  <2>1. ASSUME trusted, acked # <<>> PROVE off[Len(acked)] <= Len(file')
    <3>1. off[Len(acked)] <= Len(file)
      BY <1>2, <2>1 DEF FileIs, Holds
    <3>2. Holds(file, capacity, submitted, acked, trusted, w, off, e, n)
      BY <1>2 DEF FileIs
    <3>3. off[Len(acked)] \in Nat
      BY <3>2, HoldsTypes
    <3>4. Len(file) \in Nat /\ Len(file') \in Nat
      BY <1>3, <1>4 DEF Copies
    <3> QED BY <1>4, <3>1, <3>3, <3>4
  <2> QED BY <1>2, <1>4, <2>1 DEF FileIs, Holds
<1> QED BY <1>5, ClosedFile DEF fclose, WriterInv

(* A kill, with nothing lost but what the C library kept. *)
LEMMA KillStep ==
  ASSUME WriterInv, Kill
  PROVE  WriterInv'
<1>1. PICK w, off, e, n : FileIs(w, off, e, n)
  BY DEF WriterInv
<1>2. Holds(file', capacity', submitted', acked', trusted', w, off, e, n)
  <2> HIDE DEF Holds
  <2> QED BY <1>1 DEF FileIs, Kill
<1> QED BY <1>2, ClosedFile DEF Kill, WriterInv

LEMMA PowerCutStep ==
  ASSUME WriterInv, PowerCut
  PROVE  WriterInv'
<1>1. PICK w, off, e, n : FileIs(w, off, e, n)
  BY DEF WriterInv
<1>2. PICK k \in 0 .. Len(file) - 1 : file' = SubSeq(file, 1, k)
  BY DEF PowerCut
<1>3. Copies(file, w, e) /\ file \in Seq(Unit) /\ Len(file) \in Nat
      /\ w \in Seq(Unit) /\ Len(w) \in Nat /\ Len(file) <= Len(w)
  BY <1>1 DEF FileIs, Holds, Copies, IsJournal
<1>4. /\ file' \in Seq(Unit) /\ Len(file') = k
      /\ \A i \in 1 .. k : file'[i] = file[i] /\ i \in 1 .. Len(file)
  BY <1>2, <1>3
<1>5. Copies(file', w, e)
  BY <1>3, <1>4 DEF Copies
<1>6. Holds(file', capacity', submitted', acked', trusted', w, off, e, n)
  BY <1>1, <1>5 DEF FileIs, Holds, PowerCut
<1> QED BY <1>6, ClosedFile DEF PowerCut

LEMMA DamageStep ==
  ASSUME WriterInv, Damage
  PROVE  WriterInv'
<1>1. PICK w, off, e, n : FileIs(w, off, e, n)
  BY DEF WriterInv
<1>2. PICK i \in 1 .. Len(file) :
        \E unit \in Damaged(file[i]) : file' = [file EXCEPT ![i] = unit]
  BY DEF Damage
<1>3. PICK unit \in Damaged(file[i]) : file' = [file EXCEPT ![i] = unit]
  BY <1>2
<1>4. /\ Copies(file, w, 0) /\ file \in Seq(Unit) /\ Len(file) \in Nat
      /\ w \in Seq(Unit) /\ Len(w) \in Nat /\ Len(file) <= Len(w)
      /\ IsJournal(w, off, capacity, SubSeq(submitted, 1, n))
  <2>1. Holds(file, capacity, submitted, acked, trusted, w, off, e, n)
    BY <1>1 DEF FileIs
  <2>2. file \in Seq(Unit) /\ w \in Seq(Unit) /\ Len(file) <= Len(w)
    BY <2>1, HoldsTypes
  <2> QED BY <2>1, <2>2 DEF Holds, Damage
<1>5. file[i] = w[i] /\ i \in 1 .. Len(w) /\ i \in Nat /\ i # 0
  BY <1>2, <1>4 DEF Copies
<1>6. w[i] # [noise |-> TRUE] /\ w[i] \in Unit
  BY <1>4, <1>5, ChecksumsCover
<1>7. unit \in Unit
  BY <1>3, <1>5, <1>6, DamageChanges
<1>8. /\ file' \in Seq(Unit) /\ Len(file') = Len(file)
      /\ file'[i] = unit /\ \A j \in 1 .. Len(file) : j # i => file'[j] = file[j]
  BY <1>3, <1>4, <1>7
<1>9. Copies(file', w, i)
  BY <1>3, <1>4, <1>5, <1>8 DEF Copies
<1>10. Holds(file', capacity', submitted', acked', trusted', w, off, i, n)
  BY <1>1, <1>9 DEF FileIs, Holds, Damage
<1> QED BY <1>10, ClosedFile DEF Damage, WriterInv

-----------------------------------------------------------------------------
(* What the reader makes of a record that is there. *)

LEMMA LayoutInjective ==
  ASSUME NEW kind \in CommandKind,
         NEW a \in 1 .. payload_size(kind), NEW b \in 1 .. payload_size(kind),
         Layout(kind)[a] = Layout(kind)[b]
  PROVE  a = b
<1>1. CASE kind = "Limit"
  BY <1>1 DEF Layout, payload_size
<1>2. CASE kind = "Market"
  BY <1>2 DEF Layout, payload_size
<1>3. CASE kind = "Cancel"
  BY <1>3 DEF Layout, payload_size
<1>4. CASE kind = "Modify"
  BY <1>4 DEF Layout, payload_size
<1> QED BY <1>1, <1>2, <1>3, <1>4 DEF CommandKind

(* The kind byte says where the record ends. *)
LEMMA RecordKind ==
  ASSUME NEW c \in Commands, data[pos + 1] = [kind |-> c.kind]
  PROVE  /\ Kind = c.kind /\ Kind \in CommandKind
         /\ BodyLen \in Nat /\ BodyLen = payload_size(c.kind) + 1 /\ BodyLen > 1
         /\ RecordLen = BodyLen + 1
         /\ Len(encode(c)) = BodyLen + 1
<1>1. c \in Command
  BY JournalAssumption
<1>2. c.kind \in CommandKind
  BY <1>1 DEF Command
<1>3. Kind = c.kind
  BY DEF Kind, get
<1>4. payload_size(c.kind) \in Nat /\ payload_size(c.kind) >= 1
  BY <1>2, LayoutType
<1>5. Len(encode(c)) = payload_size(c.kind) + 2
  BY <1>1, EncodeType
<1> QED BY <1>2, <1>3, <1>4, <1>5 DEF BodyLen, RecordLen

(* The record of c is at pos. *)
RecordAt(c) ==
  /\ pos \in Nat
  /\ data \in Seq(Unit)
  /\ pos + Len(encode(c)) <= Len(data)
  /\ \A j \in 1 .. Len(encode(c)) : data[pos + j] = encode(c)[j]

LEMMA FieldRead ==
  ASSUME NEW c \in Commands, RecordAt(c), NEW m \in 1 .. payload_size(c.kind)
  PROVE  Field(Layout(c.kind)[m]) = c[Layout(c.kind)[m]]
<1>1. c \in Command /\ c.kind \in CommandKind
  BY JournalAssumption DEF Command
<1>2. PICK n : n = payload_size(c.kind)
  OBVIOUS
<1>3. n \in Nat /\ n >= 1
  BY <1>1, <1>2, LayoutType
<1>4. /\ Len(encode(c)) = n + 2
      /\ encode(c)[1] = [kind |-> c.kind]
      /\ encode(c)[m + 1] = [x \in {Layout(c.kind)[m]} |-> c[Layout(c.kind)[m]]]
  BY <1>1, <1>2, EncodeType
<1>5. 1 \in 1 .. n + 2 /\ m + 1 \in 1 .. n + 2
  BY <1>2, <1>3
<1>6. data[pos + 1] = [kind |-> c.kind] /\ data[pos + (m + 1)] = encode(c)[m + 1]
  BY <1>4, <1>5 DEF RecordAt
<1>7. Kind = c.kind
  BY <1>6, RecordKind
<1>8. (CHOOSE k \in 1 .. payload_size(Kind) : Layout(Kind)[k] = Layout(c.kind)[m]) = m
  BY <1>1, <1>7, LayoutInjective
<1>9. pos + 1 + m = pos + (m + 1)
  BY <1>2, <1>3 DEF RecordAt
<1>10. Field(Layout(c.kind)[m]) = get(data[pos + 1 + m], Layout(c.kind)[m])
  BY <1>8 DEF Field
<1>11. PICK f : f = Layout(c.kind)[m]
  OBVIOUS
<1>12. data[pos + 1 + m] = [x \in {f} |-> c[f]]
  BY <1>4, <1>6, <1>9, <1>11
<1>13. get(data[pos + 1 + m], f) = c[f]
  BY <1>12 DEF get
<1> QED BY <1>10, <1>11, <1>13

(* A record that is there is accepted, and read as the command it is of. *)
LEMMA RecordDecodes ==
  ASSUME NEW c \in Commands, RecordAt(c)
  PROVE  RecordStatus = "Ok" /\ Decoded = c /\ RecordLen = Len(encode(c))
<1>1. c \in Command /\ c.kind \in CommandKind
  BY JournalAssumption DEF Command
<1>2. PICK n : n = payload_size(c.kind)
  OBVIOUS
<1>3. n \in Nat /\ n >= 1
  BY <1>1, <1>2, LayoutType
<1>4. PICK r \in Seq(Unit) : r = encode(c)
  BY <1>1, EncodeType
<1>5. /\ Len(r) = n + 2
      /\ r[1] = [kind |-> c.kind]
      /\ r[n + 2] = checksum(SubSeq(r, 1, n + 1))
  BY <1>1, <1>2, <1>4, EncodeType
<1>6. /\ pos \in Nat /\ data \in Seq(Unit) /\ Len(data) \in Nat
      /\ pos + (n + 2) <= Len(data)
      /\ \A j \in 1 .. n + 2 : data[pos + j] = r[j]
  BY <1>4, <1>5 DEF RecordAt
<1>7. data[pos + 1] = [kind |-> c.kind]
  <2>1. 1 \in 1 .. n + 2
    BY <1>3
  <2> QED BY <1>5, <1>6, <2>1
<1>8. /\ Kind = c.kind /\ Kind \in CommandKind
      /\ BodyLen = n + 1 /\ RecordLen = n + 2
  BY <1>2, <1>3, <1>7, RecordKind
<1>9. ChecksumMatches
  <2>1. PICK s : s = SubSeq(data, pos + 1, pos + (n + 1))
    OBVIOUS
  <2>2. s \in Seq(Unit) /\ Len(s) = n + 1 /\ \A j \in 1 .. n + 1 : s[j] = data[pos + j]
    BY <1>3, <1>6, <2>1
  <2>3. PICK t : t = SubSeq(r, 1, n + 1)
    OBVIOUS
  <2>4. t \in Seq(Unit) /\ Len(t) = n + 1 /\ \A j \in 1 .. n + 1 : t[j] = r[j]
    BY <1>3, <1>5, <2>3
  <2>5. ASSUME NEW j \in 1 .. n + 1 PROVE s[j] = t[j]
    <3>1. j \in 1 .. n + 2
      BY <1>3
    <3> QED BY <1>6, <2>2, <2>4, <3>1
  <2>6. s = t
    BY <2>2, <2>4, <2>5, SeqEqual
  <2>7. n + 2 \in 1 .. n + 2 /\ pos + BodyLen + 1 = pos + (n + 2) /\ pos + BodyLen = pos + (n + 1)
    BY <1>3, <1>6, <1>8
  <2>8. data[pos + (n + 2)] = checksum(s)
    BY <1>5, <1>6, <2>3, <2>6, <2>7
  <2> QED BY <2>1, <2>7, <2>8 DEF ChecksumMatches
<1>10. /\ c = CASE c.kind = "Limit"  -> limit_command(c.id, c.side, c.price, c.qty,
                                                      c.account, c.tif)
                [] c.kind = "Market" -> market_command(c.id, c.side, c.qty, c.account)
                [] c.kind = "Cancel" -> cancel_command(c.id)
                [] c.kind = "Modify" -> modify_command(c.id, c.price, c.qty)
  BY ConstructedAssumption
<1>11. Decoded = c /\ FieldsGood
  <2>1. CASE c.kind = "Limit"
    <3>1. /\ payload_size(c.kind) = 6
          /\ Layout(c.kind)[1] = "id" /\ Layout(c.kind)[2] = "side"
          /\ Layout(c.kind)[3] = "tif" /\ Layout(c.kind)[4] = "price"
          /\ Layout(c.kind)[5] = "qty" /\ Layout(c.kind)[6] = "account"
      BY <2>1 DEF Layout, payload_size
    <3>2. /\ Field("id") = c.id /\ Field("side") = c.side /\ Field("tif") = c.tif
          /\ Field("price") = c.price /\ Field("qty") = c.qty
          /\ Field("account") = c.account
      BY <3>1, FieldRead
    <3>3. Decoded = limit_command(c.id, c.side, c.price, c.qty, c.account, c.tif)
      BY <1>8, <2>1, <3>2 DEF Decoded
    <3>4. c.side \in Side /\ c.tif \in TimeInForce
      BY <1>1 DEF Command
    <3> QED BY <1>10, <2>1, <3>2, <3>3, <3>4 DEF FieldsGood
  <2>2. CASE c.kind = "Market"
    <3>1. /\ payload_size(c.kind) = 4
          /\ Layout(c.kind)[1] = "id" /\ Layout(c.kind)[2] = "side"
          /\ Layout(c.kind)[3] = "qty" /\ Layout(c.kind)[4] = "account"
      BY <2>2 DEF Layout, payload_size
    <3>2. /\ Field("id") = c.id /\ Field("side") = c.side
          /\ Field("qty") = c.qty /\ Field("account") = c.account
      BY <3>1, FieldRead
    <3>3. Decoded = market_command(c.id, c.side, c.qty, c.account)
      BY <1>8, <2>2, <3>2 DEF Decoded
    <3>4. c.side \in Side
      BY <1>1 DEF Command
    <3> QED BY <1>8, <1>10, <2>2, <3>2, <3>3, <3>4 DEF FieldsGood
  <2>3. CASE c.kind = "Cancel"
    <3>1. payload_size(c.kind) = 1 /\ Layout(c.kind)[1] = "id"
      BY <2>3 DEF Layout, payload_size
    <3>2. Field("id") = c.id
      BY <3>1, FieldRead
    <3>3. Decoded = cancel_command(c.id)
      BY <1>8, <2>3, <3>2 DEF Decoded
    <3> QED BY <1>8, <1>10, <2>3, <3>3 DEF FieldsGood
  <2>4. CASE c.kind = "Modify"
    <3>1. /\ payload_size(c.kind) = 3 /\ Layout(c.kind)[1] = "id"
          /\ Layout(c.kind)[2] = "price" /\ Layout(c.kind)[3] = "qty"
      BY <2>4 DEF Layout, payload_size
    <3>2. Field("id") = c.id /\ Field("price") = c.price /\ Field("qty") = c.qty
      BY <3>1, FieldRead
    <3>3. Decoded = modify_command(c.id, c.price, c.qty)
      BY <1>8, <2>4, <3>2 DEF Decoded
    <3> QED BY <1>8, <1>10, <2>4, <3>3 DEF FieldsGood
  <2> QED BY <1>1, <2>1, <2>2, <2>3, <2>4 DEF CommandKind
<1>12. pos # Len(data) /\ ~(Len(data) - pos < BodyLen + 1)
  BY <1>3, <1>6, <1>8
<1>13. RecordStatus = "Ok"
  BY <1>8, <1>9, <1>11, <1>12 DEF RecordStatus
<1> QED BY <1>4, <1>5, <1>8, <1>11, <1>13

-----------------------------------------------------------------------------
(* The reader's part of the invariant. *)

CopyIs(w, off, e, n) ==
  Holds(data, copied.capacity, copied.submitted, copied.acked, copied.trusted,
        w, off, e, n)

(* The first k commands have been replayed, and nothing before pos is      *)
(* damaged.                                                                *)
ReadTo(off, e, n, k) ==
  /\ k \in 0 .. n
  /\ replayed = SubSeq(copied.submitted, 1, k)
  /\ pos = off[k]
  /\ pos <= Len(data)
  /\ e = 0 \/ e > pos
  /\ pool_capacity = copied.capacity

Reads(w, off, e, n) ==
  /\ CopyIs(w, off, e, n)
  /\ pos > 0 => \E k : ReadTo(off, e, n, k)

ReaderInv ==
  /\ reader \in {"none", "opening", "reading", "stopped"}
  /\ stop \in Status
  /\ pos \in Nat
  /\ pos = 0 => replayed = <<>> /\ pool_capacity = 0
  /\ reader \in {"none", "opening"} => pos = 0
  /\ reader = "reading" => pos > 0
  /\ reader = "stopped" =>
       stop # "Ok" /\ stop = IF pos = 0 THEN HeaderStatus ELSE RecordStatus
  /\ \E w, off, e, n : Reads(w, off, e, n)

JournalInv == WriterInv /\ ReaderInv

LEMMA StatusTypes == HeaderStatus \in Status /\ RecordStatus \in Status
BY DEF HeaderStatus, RecordStatus, Status

LEMMA JournalInit ==
  ASSUME Init
  PROVE  JournalInv
<1>1. <<>> \in Seq(Unit) /\ Len(<<>>) = 0 /\ capacity \in Capacities
  BY DEF Init
<1>2. PICK h, off : h = encode_header(capacity) /\ off = [i \in 0 .. 0 |-> 4]
  OBVIOUS
<1>3. /\ Holds(<<>>, capacity, <<>>, <<>>, trusted, h, off, 0, 0)
      /\ Holds(<<>>, capacity, <<>>, <<>>, copied.trusted, h, off, 0, 0)
  BY <1>1, <1>2, NewFileHolds
<1>4. Len(h) = 4
  BY <1>1, <1>2, HeaderType
<1>5. FileIs(h, off, 0, 0)
  <2>1. /\ file = <<>> /\ submitted = <<>> /\ acked = <<>> /\ buffer = <<>>
        /\ writer = "closed"
    BY DEF Init
  <2> HIDE DEF Holds
  <2> QED BY <1>1, <1>3, <1>4, <2>1 DEF FileIs, Refuses
<1>6. Reads(h, off, 0, 0)
  <2>1. /\ data = <<>> /\ copied.capacity = capacity /\ copied.submitted = <<>>
        /\ copied.acked = <<>> /\ pos = 0
    BY DEF Init
  <2> HIDE DEF Holds
  <2> QED BY <1>3, <2>1 DEF Reads, CopyIs
<1> QED BY <1>5, <1>6 DEF Init, JournalInv, WriterInv, ReaderInv, Status

(* A copy is of what the file is. *)
LEMMA loadStep ==
  ASSUME JournalInv, load
  PROVE  ReaderInv'
<1>1. PICK w, off, e, n : FileIs(w, off, e, n)
  BY DEF JournalInv, WriterInv
<1>2. pos = 0 /\ pos' = 0 /\ replayed' = <<>> /\ pool_capacity' = 0
  BY DEF load, JournalInv, ReaderInv
<1>3. CopyIs(w, off, e, n)'
  <2>1. /\ data' = file /\ copied'.capacity = capacity
        /\ copied'.submitted = submitted /\ copied'.acked = acked
        /\ copied'.trusted = trusted
    BY DEF load
  <2> HIDE DEF Holds
  <2> QED BY <1>1, <2>1 DEF FileIs, CopyIs
<1>4. Reads(w, off, e, n)'
  BY <1>2, <1>3 DEF Reads
<1>5. (\E v, o, x, m : Reads(v, o, x, m))'
  BY <1>4
<1>6. reader' = "opening" /\ stop' \in Status
  BY DEF load, JournalInv, ReaderInv
<1> QED BY <1>2, <1>5, <1>6 DEF ReaderInv

LEMMA ReaderOpenStep ==
  ASSUME ReaderInv, ReaderOpen
  PROVE  ReaderInv'
<1>1. PICK w, off, e, n : Reads(w, off, e, n)
  BY DEF ReaderInv
<1>2. pos = 0 /\ replayed = <<>> /\ pool_capacity = 0 /\ data' = data /\ copied' = copied
      /\ replayed' = replayed
  BY DEF ReaderInv, ReaderOpen
<1>3. CopyIs(w, off, e, n)'
  BY <1>1, <1>2 DEF Reads, CopyIs
<1>4. CASE HeaderStatus # "Ok"
  <2>1. /\ reader' = "stopped" /\ pos' = 0 /\ stop' = HeaderStatus
        /\ pool_capacity' = 0
    BY <1>2, <1>4 DEF ReaderOpen
  <2>2. Reads(w, off, e, n)'
    BY <1>3, <2>1 DEF Reads
  <2>3. (\E v, o, x, m : Reads(v, o, x, m))'
    BY <2>2
  <2>4. HeaderStatus' = HeaderStatus
    BY <1>2 DEF HeaderStatus
  <2> QED BY <1>2, <1>4, <2>1, <2>3, <2>4, StatusTypes DEF ReaderInv
<1>5. CASE HeaderStatus = "Ok"
  <2>1. /\ reader' = "reading" /\ pos' = 4 /\ stop' = "Ok"
        /\ pool_capacity' = get(data[3], "capacity")
    BY <1>5 DEF ReaderOpen, kHeaderSize
  <2>2. /\ ~(Len(data) < 4) /\ data[4] = checksum(SubSeq(data, 1, 3))
    BY <1>5 DEF HeaderStatus, kHeaderSize
  <2>3. PICK d, cap, sub : d = data /\ cap = copied.capacity /\ sub = copied.submitted
    OBVIOUS
  <2>4. Holds(d, cap, sub, copied.acked, copied.trusted, w, off, e, n)
    BY <1>1, <2>3 DEF Reads, CopyIs
  <2>5. /\ n \in Nat /\ off[0] = 4 /\ d \in Seq(Unit) /\ e \in Nat /\ cap \in Capacities
        /\ IsJournal(w, off, cap, SubSeq(sub, 1, n)) /\ Copies(d, w, e)
        /\ sub \in Seq(Commands)
    <3>1. /\ IsJournal(w, off, cap, SubSeq(sub, 1, n)) /\ Copies(d, w, e)
          /\ sub \in Seq(Commands)
      BY <2>4 DEF Holds
    <3> HIDE DEF Holds
    <3>2. n \in Nat /\ off[0] = 4 /\ d \in Seq(Unit) /\ e \in Nat /\ cap \in Capacities
      BY <2>4, HoldsTypes
    <3> QED BY <3>1, <3>2
  <2>6. Len(d) >= 4 /\ 4 \in 1 .. Len(d)
    BY <2>2, <2>3, <2>5
  <2>7. d[4] = checksum(SubSeq(d, 0 + 1, 4 - 1))
    BY <2>2, <2>3
  <2>8. \A i \in 1 .. 4 : i # e /\ d[i] = w[i]
    <3>1. PICK a, p, cs : a = 0 /\ p = 4 /\ cs = SubSeq(sub, 1, n)
      OBVIOUS
    <3>2. a \in Nat /\ p \in 1 .. Len(d) /\ a < p - 1
      BY <2>6, <3>1
    <3>3. d[p] = checksum(SubSeq(d, a + 1, p - 1)) /\ IsJournal(w, off, cap, cs)
      BY <2>5, <2>7, <3>1
    <3>4. \A i \in a + 1 .. p : i # e /\ d[i] = w[i]
      BY <2>5, <3>2, <3>3, MatchIsIntact
    <3> QED BY <3>1, <3>4
  <2>9. w[3] = encode_header(cap)[3]
    BY <2>5 DEF IsJournal
  <2>10. d[3] = [capacity |-> cap]
    BY <2>5, <2>8, <2>9, HeaderType
  <2>11. pool_capacity' = cap
    BY <2>1, <2>3, <2>10 DEF get
  <2>12. e = 0 \/ e > 4
    BY <2>5, <2>8
  <2>13. SubSeq(sub, 1, 0) = <<>>
    BY <2>5, SubSeqEmpty
  <2>14. ReadTo(off, e, n, 0)'
    BY <1>2, <2>1, <2>3, <2>5, <2>6, <2>11, <2>12, <2>13 DEF ReadTo
  <2>15. (\E k : ReadTo(off, e, n, k))'
    BY <2>14
  <2>16. Reads(w, off, e, n)'
    BY <1>3, <2>15 DEF Reads
  <2>17. (\E v, o, x, m : Reads(v, o, x, m))'
    BY <2>16
  <2> QED BY <1>2, <2>1, <2>17 DEF ReaderInv, Status
<1> QED BY <1>4, <1>5

(* One more of the first commands. *)
LEMMA OneMore ==
  ASSUME NEW S, NEW s \in Seq(S), NEW k \in 0 .. Len(s) - 1
  PROVE  Append(SubSeq(s, 1, k), s[k + 1]) = SubSeq(s, 1, k + 1)
<1>1. Len(s) \in Nat /\ k \in Nat /\ k + 1 \in 1 .. Len(s)
  OBVIOUS
<1>2. PICK a : a = SubSeq(s, 1, k)
  OBVIOUS
<1>3. a \in Seq(S) /\ Len(a) = k /\ \A i \in 1 .. k : a[i] = s[i]
  BY <1>1, <1>2
<1>4. PICK b : b = SubSeq(s, 1, k + 1)
  OBVIOUS
<1>5. b \in Seq(S) /\ Len(b) = k + 1 /\ \A i \in 1 .. k + 1 : b[i] = s[i]
  BY <1>1, <1>4
<1>6. PICK x \in S : x = s[k + 1]
  BY <1>1
<1>7. PICK t : t = Append(a, x)
  OBVIOUS
<1>8. /\ t \in Seq(S) /\ Len(t) = k + 1 /\ t[k + 1] = x
      /\ \A i \in 1 .. k : t[i] = a[i]
  BY <1>1, <1>3, <1>7, AppendProperties
<1>9. ASSUME NEW i \in 1 .. k + 1 PROVE t[i] = b[i]
  <2>1. CASE i = k + 1
    BY <1>5, <1>6, <1>8, <2>1
  <2>2. CASE i # k + 1
    <3>1. i \in 1 .. k
      BY <1>1, <2>2
    <3> QED BY <1>3, <1>5, <1>8, <3>1
  <2> QED BY <2>1, <2>2
<1>10. t = b
  BY <1>5, <1>8, <1>9, SeqEqual
<1> QED BY <1>2, <1>4, <1>6, <1>7, <1>10

(* What is known about the copy, whatever has been read of it. *)
LEMMA CopyFacts ==
  ASSUME NEW w, NEW off, NEW e, NEW n, CopyIs(w, off, e, n)
  PROVE  /\ n \in Nat /\ n \in 0 .. Len(copied.submitted)
         /\ copied.submitted \in Seq(Commands) /\ Len(copied.submitted) \in Nat
         /\ copied.acked \in Seq(Commands) /\ Len(copied.acked) \in 0 .. n
         /\ n <= Len(copied.acked) + 1
         /\ copied.acked = SubSeq(copied.submitted, 1, Len(copied.acked))
         /\ off \in [0 .. n -> Nat] /\ off[0] = 4 /\ off[n] = Len(w)
         /\ data \in Seq(Unit) /\ Len(data) \in Nat /\ Len(data) <= Len(w)
         /\ w \in Seq(Unit) /\ Len(w) \in Nat
         /\ e \in Nat /\ copied.capacity \in Capacities
         /\ Copies(data, w, e)
         /\ IsJournal(w, off, copied.capacity, SubSeq(copied.submitted, 1, n))
         /\ \A j \in 0 .. n : \A i \in 0 .. j : off[i] <= off[j]
<1>1. PICK d, cap, sub, ack, good :
        /\ d = data /\ cap = copied.capacity /\ sub = copied.submitted
        /\ ack = copied.acked /\ good = copied.trusted
  OBVIOUS
<1>2. Holds(d, cap, sub, ack, good, w, off, e, n)
  BY <1>1 DEF CopyIs
<1>3. /\ sub \in Seq(Commands) /\ ack \in Seq(Commands)
      /\ ack = SubSeq(sub, 1, Len(ack)) /\ n \in {Len(ack), Len(ack) + 1}
      /\ Copies(d, w, e) /\ IsJournal(w, off, cap, SubSeq(sub, 1, n))
  BY <1>2 DEF Holds
<1> HIDE DEF Holds
<1>4. /\ n \in Nat /\ Len(ack) \in 0 .. n /\ n \in 0 .. Len(sub)
      /\ SubSeq(sub, 1, n) \in Seq(Commands) /\ Len(SubSeq(sub, 1, n)) = n
      /\ off \in [0 .. n -> Nat] /\ off[0] = 4 /\ off[n] = Len(w)
      /\ d \in Seq(Unit) /\ w \in Seq(Unit) /\ Len(d) <= Len(w)
      /\ e \in Nat /\ cap \in Capacities
  BY <1>2, HoldsTypes
<1>5. PICK cs : cs = SubSeq(sub, 1, n)
  OBVIOUS
<1>6. \A j \in 0 .. n : \A i \in 0 .. j : off[i] <= off[j]
  <2>1. IsJournal(w, off, cap, cs) /\ Len(cs) = n
    BY <1>3, <1>4, <1>5
  <2>2. \A j \in 0 .. Len(cs) : \A i \in 0 .. j : off[i] <= off[j]
    BY <2>1, EndsInOrder
  <2> QED BY <2>1, <2>2
<1>7. n <= Len(ack) + 1 /\ Len(d) \in Nat /\ Len(w) \in Nat /\ Len(sub) \in Nat
  <2>1. Len(ack) \in Nat /\ n \in {Len(ack), Len(ack) + 1}
    BY <1>3
  <2>2. n <= Len(ack) + 1
    BY <2>1
  <2>3. d \in Seq(Unit) /\ w \in Seq(Unit) /\ sub \in Seq(Commands)
    BY <1>3, <1>4
  <2>4. Len(d) \in Nat /\ Len(w) \in Nat /\ Len(sub) \in Nat
    BY <2>3
  <2> QED BY <2>2, <2>4
<1> QED BY <1>1, <1>3, <1>4, <1>6, <1>7

(* Record k + 1 of the journal w is of the command c. *)
RecordOf(w, off, k, c) ==
  /\ c \in Commands
  /\ Len(encode(c)) \in Nat /\ Len(encode(c)) > 2
  /\ encode(c)[1] = [kind |-> c.kind]
  /\ off[k + 1] = off[k] + Len(encode(c))
  /\ \A j \in 1 .. Len(encode(c)) : w[off[k] + j] = encode(c)[j]

(* The record of the command that was submitted next. *)
LEMMA NextInJournal ==
  ASSUME NEW w, NEW off, NEW e, NEW n, CopyIs(w, off, e, n), NEW k \in 0 .. n - 1
  PROVE  RecordOf(w, off, k, copied.submitted[k + 1])
<1>1. /\ n \in 0 .. Len(copied.submitted) /\ n \in Nat
      /\ copied.submitted \in Seq(Commands) /\ Len(copied.submitted) \in Nat
      /\ IsJournal(w, off, copied.capacity, SubSeq(copied.submitted, 1, n))
  BY CopyFacts
<1>2. PICK sub, cs, c :
        /\ sub = copied.submitted /\ cs = SubSeq(copied.submitted, 1, n)
        /\ c = copied.submitted[k + 1]
  OBVIOUS
<1>3. Len(cs) = n /\ \A i \in 1 .. n : cs[i] = sub[i] /\ sub[i] \in Commands
  BY <1>1, <1>2
<1>4. k + 1 \in 1 .. n /\ (k + 1) - 1 = k
  BY <1>1
<1>5. c = cs[k + 1] /\ c \in Commands
  BY <1>2, <1>3, <1>4
<1>6. c \in Command /\ c.kind \in CommandKind
  BY <1>5, JournalAssumption DEF Command
<1>7. /\ Len(encode(c)) = payload_size(c.kind) + 2
      /\ encode(c)[1] = [kind |-> c.kind]
  BY <1>6, EncodeType
<1>8. payload_size(c.kind) \in Nat /\ payload_size(c.kind) >= 1
  BY <1>6, LayoutType
<1>9. IsJournal(w, off, copied.capacity, cs)
  BY <1>1, <1>2
<1>10. /\ off[k + 1] = off[(k + 1) - 1] + Len(encode(cs[k + 1]))
       /\ \A j \in 1 .. Len(encode(cs[k + 1])) :
            w[off[(k + 1) - 1] + j] = encode(cs[k + 1])[j]
  BY <1>3, <1>4, <1>9 DEF IsJournal
<1>11. /\ off[k + 1] = off[k] + Len(encode(c))
       /\ \A j \in 1 .. Len(encode(c)) : w[off[k] + j] = encode(c)[j]
  BY <1>4, <1>5, <1>10
<1>12. Len(encode(c)) \in Nat /\ Len(encode(c)) > 2
  BY <1>7, <1>8
<1>13. RecordOf(w, off, k, c)
  BY <1>5, <1>7, <1>11, <1>12 DEF RecordOf
<1> QED BY <1>2, <1>13

(***************************************************************************)
(* A record that is accepted is the one of the next command: its checksum  *)
(* matches, so not one of its units is damaged.                            *)
(***************************************************************************)
LEMMA AcceptedIsNext ==
  ASSUME NEW w, NEW off, NEW e, NEW n, CopyIs(w, off, e, n),
         NEW k, ReadTo(off, e, n, k), RecordStatus = "Ok"
  PROVE  /\ k \in 0 .. n - 1
         /\ copied.submitted[k + 1] \in Commands
         /\ RecordAt(copied.submitted[k + 1])
         /\ off[k + 1] = pos + Len(encode(copied.submitted[k + 1]))
         /\ off[k + 1] <= Len(data)
         /\ e = 0 \/ e > off[k + 1]
<1>1. /\ n \in Nat /\ off \in [0 .. n -> Nat] /\ off[n] = Len(w)
      /\ data \in Seq(Unit) /\ Len(data) \in Nat /\ Len(data) <= Len(w)
      /\ w \in Seq(Unit) /\ Len(w) \in Nat /\ e \in Nat /\ Copies(data, w, e)
      /\ IsJournal(w, off, copied.capacity, SubSeq(copied.submitted, 1, n))
  BY CopyFacts
<1>2. /\ k \in 0 .. n /\ pos = off[k] /\ pos <= Len(data) /\ (e = 0 \/ e > pos)
  BY DEF ReadTo
<1>3. pos \in Nat /\ k \in Nat
  BY <1>1, <1>2
<1>4. /\ pos # Len(data) /\ Kind \in CommandKind
      /\ ~(Len(data) - pos < BodyLen + 1) /\ ChecksumMatches
  BY DEF RecordStatus
<1>5. k \in 0 .. n - 1
  <2>1. pos < Len(w)
    BY <1>1, <1>2, <1>3, <1>4
  <2>2. k # n
    BY <1>1, <1>2, <1>3, <2>1
  <2> QED BY <1>1, <1>2, <2>2
<1>6. PICK c : c = copied.submitted[k + 1]
  OBVIOUS
<1>7. /\ c \in Commands
      /\ Len(encode(c)) \in Nat /\ Len(encode(c)) > 2
      /\ encode(c)[1] = [kind |-> c.kind]
      /\ off[k + 1] = pos + Len(encode(c))
      /\ \A j \in 1 .. Len(encode(c)) : w[pos + j] = encode(c)[j]
  <2>1. RecordOf(w, off, k, c)
    BY <1>5, <1>6, NextInJournal
  <2> QED BY <1>2, <2>1 DEF RecordOf
<1>8. PICK b : b = BodyLen
  OBVIOUS
<1>9. b \in Nat /\ b > 1
  <2>1. payload_size(Kind) \in Nat /\ payload_size(Kind) >= 1
    BY <1>4, LayoutType
  <2> QED BY <1>8, <2>1 DEF BodyLen
<1>10. PICK p : p = pos + b + 1
  OBVIOUS
<1>11. p \in 1 .. Len(data) /\ p \in Nat /\ pos < p - 1 /\ p - 1 = pos + b
  BY <1>1, <1>3, <1>4, <1>8, <1>9, <1>10
<1>12. data[p] = checksum(SubSeq(data, pos + 1, p - 1))
  BY <1>4, <1>8, <1>10, <1>11 DEF ChecksumMatches
<1>13. \A i \in pos + 1 .. p : i # e /\ data[i] = w[i]
  <2>1. PICK d, cap, cs, a : /\ d = data /\ cap = copied.capacity
                             /\ cs = SubSeq(copied.submitted, 1, n) /\ a = pos
    OBVIOUS
  <2>2. IsJournal(w, off, cap, cs) /\ Copies(d, w, e) /\ a \in Nat
        /\ p \in 1 .. Len(d) /\ a < p - 1
    BY <1>1, <1>3, <1>11, <2>1
  <2>3. d[p] = checksum(SubSeq(d, a + 1, p - 1))
    BY <1>12, <2>1
  <2>4. \A i \in a + 1 .. p : i # e /\ d[i] = w[i]
    BY <2>2, <2>3, MatchIsIntact
  <2> QED BY <2>1, <2>4
<1>14. data[pos + 1] = [kind |-> c.kind]
  <2>1. pos + 1 \in pos + 1 .. p /\ 1 \in 1 .. Len(encode(c))
    BY <1>3, <1>7, <1>11
  <2> QED BY <1>7, <1>13, <2>1
<1>15. Len(encode(c)) = b + 1
  BY <1>7, <1>8, <1>14, RecordKind
<1>16. p = off[k + 1]
  BY <1>3, <1>7, <1>9, <1>10, <1>15
<1>17. ASSUME NEW j \in 1 .. Len(encode(c)) PROVE data[pos + j] = encode(c)[j]
  <2>1. pos + j \in pos + 1 .. p
    BY <1>3, <1>7, <1>16
  <2> QED BY <1>7, <1>13, <2>1
<1>18. off[k + 1] <= Len(data)
  BY <1>1, <1>11, <1>16
<1>19. RecordAt(c)
  BY <1>1, <1>3, <1>7, <1>17, <1>18 DEF RecordAt
<1>20. e = 0 \/ e > p
  <2>1. e \notin pos + 1 .. p
    BY <1>13
  <2> QED BY <1>1, <1>2, <1>3, <1>11, <2>1
<1> QED BY <1>5, <1>6, <1>7, <1>16, <1>18, <1>19, <1>20

LEMMA ReaderNextStep ==
  ASSUME ReaderInv, ReaderNext
  PROVE  ReaderInv'
<1>1. PICK w, off, e, n : Reads(w, off, e, n)
  BY DEF ReaderInv
<1>2. /\ pos \in Nat /\ pos > 0 /\ data' = data /\ copied' = copied
      /\ pool_capacity' = pool_capacity /\ stop' = RecordStatus
  BY DEF ReaderInv, ReaderNext
<1>3. CopyIs(w, off, e, n) /\ CopyIs(w, off, e, n)'
  BY <1>1, <1>2 DEF Reads, CopyIs
<1>4. PICK k : ReadTo(off, e, n, k)
  BY <1>1, <1>2 DEF Reads
<1>5. CASE RecordStatus # "Ok"
  <2>1. reader' = "stopped" /\ replayed' = replayed /\ pos' = pos
    BY <1>5 DEF ReaderNext
  <2>2. ReadTo(off, e, n, k)'
    BY <1>2, <1>4, <2>1 DEF ReadTo
  <2>3. (\E m : ReadTo(off, e, n, m))'
    BY <2>2
  <2>4. Reads(w, off, e, n)'
    BY <1>3, <2>3 DEF Reads
  <2>5. (\E v, o, x, m : Reads(v, o, x, m))'
    BY <2>4
  <2>6. RecordStatus' = RecordStatus
    BY <1>2, <2>1 DEF RecordStatus, Kind, BodyLen, ChecksumMatches, FieldsGood, Field
  <2> QED BY <1>2, <1>5, <2>1, <2>5, <2>6, StatusTypes DEF ReaderInv
<1>6. CASE RecordStatus = "Ok"
  <2>1. PICK c : c = copied.submitted[k + 1]
    OBVIOUS
  <2>2. /\ k \in 0 .. n - 1 /\ c \in Commands /\ RecordAt(c)
        /\ off[k + 1] = pos + Len(encode(c)) /\ off[k + 1] <= Len(data)
        /\ (e = 0 \/ e > off[k + 1])
    BY <1>3, <1>4, <1>6, <2>1, AcceptedIsNext
  <2>3. Decoded = c /\ RecordLen = Len(encode(c))
    BY <2>2, RecordDecodes
  <2>4. /\ replayed' = Append(replayed, c) /\ pos' = off[k + 1]
        /\ reader' = "reading"
    BY <1>6, <2>2, <2>3 DEF ReaderNext
  <2>5. /\ n \in 0 .. Len(copied.submitted) /\ copied.submitted \in Seq(Commands)
        /\ n \in Nat /\ off \in [0 .. n -> Nat] /\ Len(copied.submitted) \in Nat
    BY <1>3, CopyFacts
  <2>6. /\ k \in 0 .. Len(copied.submitted) - 1 /\ k + 1 \in 0 .. n
    BY <2>2, <2>5
  <2>7. replayed' = SubSeq(copied.submitted, 1, k + 1)
    <3>1. replayed = SubSeq(copied.submitted, 1, k)
      BY <1>4 DEF ReadTo
    <3>2. Append(SubSeq(copied.submitted, 1, k), copied.submitted[k + 1])
            = SubSeq(copied.submitted, 1, k + 1)
      BY <2>5, <2>6, OneMore
    <3> QED BY <2>1, <2>4, <3>1, <3>2
  <2>8. PICK l : l = k + 1
    OBVIOUS
  <2>9. ReadTo(off, e, n, l)'
    BY <1>2, <1>4, <2>2, <2>4, <2>6, <2>7, <2>8 DEF ReadTo
  <2>10. (\E m : ReadTo(off, e, n, m))'
    BY <2>9
  <2>11. Reads(w, off, e, n)'
    BY <1>3, <2>10 DEF Reads
  <2>12. (\E v, o, x, m : Reads(v, o, x, m))'
    BY <2>11
  <2>13. pos' \in Nat /\ pos' > 0
    <3>1. Len(encode(c)) \in Nat
      BY <1>3, <2>1, <2>2, NextInJournal DEF RecordOf
    <3> QED BY <1>2, <2>2, <2>4, <3>1
  <2>14. stop' \in Status
    BY <1>2, StatusTypes
  <2> QED BY <2>4, <2>12, <2>13, <2>14 DEF ReaderInv
<1> QED BY <1>5, <1>6

-----------------------------------------------------------------------------

(* What the writer does is nothing to the reader, and the other way round. *)
LEMMA WriterLeavesReader ==
  ASSUME ReaderInv, UNCHANGED readerVars
  PROVE  ReaderInv'
<1>1. UNCHANGED <<data, reader, pos, pool_capacity, replayed, stop, copied>>
  BY DEF readerVars
<1>2. HeaderStatus' = HeaderStatus
  BY <1>1 DEF HeaderStatus
<1>3. RecordStatus' = RecordStatus
  BY <1>1 DEF RecordStatus, Kind, BodyLen, ChecksumMatches, FieldsGood, Field
<1>4. PICK w, off, e, n : Reads(w, off, e, n)
  BY DEF ReaderInv
<1>5. Reads(w, off, e, n)'
  <2>1. CopyIs(w, off, e, n)'
    BY <1>1, <1>4 DEF Reads, CopyIs
  <2>2. ASSUME pos > 0 PROVE (\E k : ReadTo(off, e, n, k))'
    <3>1. PICK k : ReadTo(off, e, n, k)
      BY <1>4, <2>2 DEF Reads
    <3>2. ReadTo(off, e, n, k)'
      BY <1>1, <3>1 DEF ReadTo
    <3> QED BY <3>2
  <2> QED BY <1>1, <2>1, <2>2 DEF Reads
<1>6. (\E v, o, x, m : Reads(v, o, x, m))'
  BY <1>5
<1> QED BY <1>1, <1>2, <1>3, <1>6 DEF ReaderInv

LEMMA ReaderLeavesWriter ==
  ASSUME WriterInv, UNCHANGED writerVars
  PROVE  WriterInv'
<1>1. UNCHANGED <<file, writer, failed, buffer, capacity, submitted, acked, trusted>>
  BY DEF writerVars
<1>2. PICK w, off, e, n : FileIs(w, off, e, n)
  BY DEF WriterInv
<1>3. FileIs(w, off, e, n)'
  <2> HIDE DEF Holds
  <2> QED BY <1>1, <1>2 DEF FileIs, Refuses
<1>4. (\E v, o, x, m : FileIs(v, o, x, m))'
  BY <1>3
<1> QED BY <1>1, <1>4 DEF WriterInv

(***************************************************************************)
(* The invariant holds in every reachable state, whatever order writing,   *)
(* failing, dying, damage and reading come in.                             *)
(***************************************************************************)
THEOREM JournalInvariance == Spec => []JournalInv
<1>1. Init => JournalInv
  BY JournalInit
<1>2. JournalInv /\ [Next]_vars => JournalInv'
  <2> SUFFICES ASSUME JournalInv, [Next]_vars PROVE JournalInv'
    OBVIOUS
  <2>0. WriterInv /\ ReaderInv
    BY DEF JournalInv
  <2> HIDE DEF WriterInv, ReaderInv
  <2>1. CASE \E cap \in Capacities : Open(cap)
    <3>1. PICK cap \in Capacities : Open(cap)
      BY <2>1
    <3>2. WriterInv' /\ UNCHANGED readerVars
      BY <3>1, OpenStep DEF Open
    <3> QED BY <2>0, <3>2, WriterLeavesReader DEF JournalInv
  <2>2. CASE OpenFails
    <3>1. /\ fclose /\ failed' \in BOOLEAN /\ UNCHANGED readerVars
          /\ UNCHANGED <<capacity, submitted, acked, trusted>>
      BY <2>2 DEF OpenFails
    <3> HIDE DEF fclose
    <3> QED BY <2>0, <3>1, fcloseStep, WriterLeavesReader DEF JournalInv
  <2>3. CASE Close
    <3>1. /\ fclose /\ failed' \in BOOLEAN /\ UNCHANGED readerVars
          /\ UNCHANGED <<capacity, submitted, acked, trusted>>
      BY <2>0, <2>3 DEF Close, WriterInv
    <3> HIDE DEF fclose
    <3> QED BY <2>0, <3>1, fcloseStep, WriterLeavesReader DEF JournalInv
  <2>4. CASE \E c \in Commands : AppendRefused(c) \/ AppendOk(c) \/ AppendFails(c)
    <3>1. PICK c \in Commands : AppendRefused(c) \/ AppendOk(c) \/ AppendFails(c)
      BY <2>4
    <3>2. UNCHANGED readerVars
      BY <3>1 DEF AppendRefused, AppendOk, AppendFails
    <3>3. WriterInv'
      BY <2>0, <3>1, RefusedStep, AppendOkStep, AppendFailsStep
    <3> QED BY <2>0, <3>2, <3>3, WriterLeavesReader DEF JournalInv
  <2>5. CASE Kill
    <3>1. UNCHANGED readerVars
      BY <2>5 DEF Kill
    <3> QED BY <2>0, <2>5, <3>1, KillStep, WriterLeavesReader DEF JournalInv
  <2>6. CASE PowerCut
    <3>1. UNCHANGED readerVars
      BY <2>6 DEF PowerCut
    <3> QED BY <2>0, <2>6, <3>1, PowerCutStep, WriterLeavesReader DEF JournalInv
  <2>7. CASE Damage
    <3>1. UNCHANGED readerVars
      BY <2>7 DEF Damage
    <3> QED BY <2>0, <2>7, <3>1, DamageStep, WriterLeavesReader DEF JournalInv
  <2>8. CASE load
    <3>1. UNCHANGED writerVars
      BY <2>8 DEF load
    <3> QED BY <2>0, <2>8, <3>1, loadStep, ReaderLeavesWriter DEF JournalInv
  <2>9. CASE ReaderOpen
    <3>1. UNCHANGED writerVars
      BY <2>9 DEF ReaderOpen
    <3> QED BY <2>0, <2>9, <3>1, ReaderOpenStep, ReaderLeavesWriter DEF JournalInv
  <2>10. CASE ReaderNext
    <3>1. UNCHANGED writerVars
      BY <2>10 DEF ReaderNext
    <3> QED BY <2>0, <2>10, <3>1, ReaderNextStep, ReaderLeavesWriter DEF JournalInv
  <2>11. CASE UNCHANGED vars
    <3>1. UNCHANGED writerVars /\ UNCHANGED readerVars
      BY <2>11 DEF vars
    <3> QED BY <2>0, <3>1, ReaderLeavesWriter, WriterLeavesReader DEF JournalInv
  <2> QED BY <2>1, <2>2, <2>3, <2>4, <2>5, <2>6, <2>7, <2>8, <2>9, <2>10, <2>11 DEF Next
<1> QED BY <1>1, <1>2, PTL DEF Spec

(* What is replayed is the first part of what was submitted. *)
LEMMA ReplayedIsFirst ==
  ASSUME ReaderInv
  PROVE  \E w, off, e, n :
           /\ CopyIs(w, off, e, n)
           /\ Len(replayed) \in 0 .. n
           /\ replayed \in Seq(Commands)
           /\ replayed = SubSeq(copied.submitted, 1, Len(replayed))
           /\ pos > 0 => ReadTo(off, e, n, Len(replayed))
<1>1. PICK w, off, e, n : Reads(w, off, e, n)
  BY DEF ReaderInv
<1>2. CopyIs(w, off, e, n) /\ pos \in Nat
  BY <1>1 DEF Reads, ReaderInv
<1>3. /\ n \in Nat /\ n \in 0 .. Len(copied.submitted)
      /\ copied.submitted \in Seq(Commands) /\ Len(copied.submitted) \in Nat
  BY <1>2, CopyFacts
<1>4. CASE pos = 0
  <2>1. replayed = <<>>
    BY <1>4 DEF ReaderInv
  <2>2. Len(<<>>) = 0 /\ <<>> \in Seq(Commands) /\ SubSeq(copied.submitted, 1, 0) = <<>>
    BY <1>3, SubSeqEmpty
  <2>3. /\ Len(replayed) \in 0 .. n /\ replayed \in Seq(Commands)
        /\ replayed = SubSeq(copied.submitted, 1, Len(replayed))
    BY <1>3, <2>1, <2>2
  <2> QED BY <1>2, <1>4, <2>3
<1>5. CASE pos > 0
  <2>1. PICK k : ReadTo(off, e, n, k)
    BY <1>1, <1>5 DEF Reads
  <2>2. k \in 0 .. n /\ replayed = SubSeq(copied.submitted, 1, k)
    BY <2>1 DEF ReadTo
  <2>3. k \in Nat /\ k <= Len(copied.submitted)
    BY <1>3, <2>2
  <2>4. replayed \in Seq(Commands) /\ Len(replayed) = k
    BY <1>3, <2>2, <2>3
  <2> QED BY <1>2, <2>1, <2>2, <2>4
<1> QED BY <1>2, <1>4, <1>5

(***************************************************************************)
(* The variables of the writer and the reader have their types, and        *)
(* valid_bytes() is never past the end of the data.                        *)
(***************************************************************************)
THEOREM JournalTypeCorrect == Spec => []TypeOK
<1>1. JournalInv => TypeOK
  <2> SUFFICES ASSUME JournalInv PROVE TypeOK
    OBVIOUS
  <2>1. PICK v, o, x, m : FileIs(v, o, x, m)
    BY DEF JournalInv, WriterInv
  <2>2. Holds(file, capacity, submitted, acked, trusted, v, o, x, m)
    BY <2>1 DEF FileIs
  <2>3. submitted \in Seq(Commands) /\ acked \in Seq(Commands) /\ capacity \in Capacities
    BY <2>2 DEF Holds, IsJournal
  <2>4. PICK w, off, e, n :
          /\ CopyIs(w, off, e, n)
          /\ replayed \in Seq(Commands)
          /\ pos > 0 => ReadTo(off, e, n, Len(replayed))
    BY ReplayedIsFirst DEF JournalInv
  <2>5. copied.capacity \in Capacities /\ Len(data) \in Nat
    BY <2>4, CopyFacts
  <2>6. pos \in Nat /\ (pos = 0 => pool_capacity = 0)
    BY DEF JournalInv, ReaderInv
  <2>7. pos > 0 => pos <= Len(data) /\ pool_capacity = copied.capacity
    BY <2>4 DEF ReadTo
  <2>8. pos \in 0 .. Len(data) /\ pool_capacity \in Capacities \cup {0}
    BY <2>5, <2>6, <2>7
  <2> QED BY <2>3, <2>4, <2>8 DEF JournalInv, WriterInv, ReaderInv, TypeOK
<1> QED BY <1>1, JournalInvariance, PTL

(***************************************************************************)
(* Whatever failed, was killed, was cut off or was damaged, Reader and the *)
(* loop of replay give back the commands that were submitted, from the     *)
(* first on and with none left out, and at most one that was not           *)
(* acknowledged.                                                           *)
(***************************************************************************)
THEOREM ReplayIsAlwaysHistory == Spec => []ReplayIsHistory
<1>1. JournalInv => ReplayIsHistory
  <2> SUFFICES ASSUME JournalInv PROVE ReplayIsHistory
    OBVIOUS
  <2>1. PICK w, off, e, n :
          /\ CopyIs(w, off, e, n)
          /\ Len(replayed) \in 0 .. n
          /\ replayed \in Seq(Commands)
          /\ replayed = SubSeq(copied.submitted, 1, Len(replayed))
    BY ReplayedIsFirst DEF JournalInv
  <2>2. /\ n \in Nat /\ n \in 0 .. Len(copied.submitted)
        /\ copied.acked \in Seq(Commands) /\ n <= Len(copied.acked) + 1
        /\ Len(copied.submitted) \in Nat
    BY <2>1, CopyFacts
  <2>3. PICK l, a : l = Len(replayed) /\ a = Len(copied.acked)
    OBVIOUS
  <2>4. a \in Nat /\ l \in 0 .. n
    BY <2>1, <2>2, <2>3
  <2>5. l <= Len(copied.submitted) /\ l <= a + 1
    BY <2>2, <2>3, <2>4
  <2>6. SubSeq(replayed, 1, Len(replayed)) = replayed
    BY <2>1, SubSeqFull
  <2>7. SubSeq(replayed, 1, Len(replayed)) = SubSeq(copied.submitted, 1, Len(replayed))
    BY <2>1, <2>6
  <2> QED BY <2>3, <2>5, <2>7 DEF ReplayIsHistory, IsPrefix
<1> QED BY <1>1, JournalInvariance, PTL

(* A header that is there is accepted. *)
LEMMA HeaderAccepted ==
  ASSUME NEW w, NEW off, NEW n, CopyIs(w, off, 0, n), 4 <= Len(data)
  PROVE  HeaderStatus = "Ok"
<1>1. PICK cap : cap = copied.capacity
  OBVIOUS
<1>2. /\ data \in Seq(Unit) /\ Len(data) \in Nat /\ cap \in Capacities /\ Copies(data, w, 0)
      /\ IsJournal(w, off, cap, SubSeq(copied.submitted, 1, n))
  BY <1>1, CopyFacts
<1>3. PICK h : h = encode_header(cap)
  OBVIOUS
<1>4. /\ h \in Seq(Unit) /\ Len(h) = 4 /\ h[1] = [magic |-> TRUE]
      /\ h[2] = [version |-> kVersion] /\ h[4] = checksum(SubSeq(h, 1, 3))
  BY <1>2, <1>3, HeaderType
<1>5. \A i \in 1 .. 4 : data[i] = h[i]
  <2>1. \A i \in 1 .. 4 : w[i] = h[i]
    BY <1>2, <1>3 DEF IsJournal
  <2>2. \A i \in 1 .. 4 : i \in 1 .. Len(data) /\ i # 0
    BY <1>2
  <2>3. \A i \in 1 .. 4 : data[i] = w[i]
    BY <1>2, <2>2 DEF Copies
  <2> QED BY <2>1, <2>3
<1>6. SubSeq(data, 1, 3) = SubSeq(h, 1, 3)
  <2>1. PICK s, t : s = SubSeq(data, 1, 3) /\ t = SubSeq(h, 1, 3)
    OBVIOUS
  <2>2. s \in Seq(Unit) /\ Len(s) = 3 /\ \A i \in 1 .. 3 : s[i] = data[i]
    BY <1>2, <2>1
  <2>3. t \in Seq(Unit) /\ Len(t) = 3 /\ \A i \in 1 .. 3 : t[i] = h[i]
    <3>1. h \in Seq(Unit) /\ Len(h) = 4 /\ t = SubSeq(h, 1, 3)
      BY <1>4, <2>1
    <3> QED BY <3>1
  <2>4. \A i \in 1 .. 3 : s[i] = t[i]
    BY <1>5, <2>2, <2>3
  <2>5. s = t
    BY <2>2, <2>3, <2>4, SeqEqual
  <2> QED BY <2>1, <2>5
<1>7. ~(Len(data) < kHeaderSize)
  BY <1>2 DEF kHeaderSize
<1>8. data[1] = [magic |-> TRUE] /\ data[2] = [version |-> kVersion]
      /\ data[4] = checksum(SubSeq(data, 1, 3))
  <2>1. data[1] = h[1] /\ data[2] = h[2] /\ data[4] = h[4]
    BY <1>5
  <2> QED BY <1>4, <1>6, <2>1
<1>9. get(data[2], "version") = kVersion
  BY <1>8 DEF get
<1> QED BY <1>7, <1>8, <1>9 DEF HeaderStatus

(***************************************************************************)
(* Short of a power cut or damage, reading does not stop before every      *)
(* acknowledged command is replayed, into a book of the capacity Writer's  *)
(* open was given: append returned true only with the whole record handed  *)
(* over.                                                                   *)
(***************************************************************************)
THEOREM AckedIsAlwaysReplayed == Spec => []AckedIsReplayed
<1>1. JournalInv => AckedIsReplayed
  <2> SUFFICES ASSUME JournalInv, reader = "stopped", copied.trusted, copied.acked # <<>>
               PROVE  IsPrefix(copied.acked, replayed) /\ pool_capacity = copied.capacity
    BY DEF AckedIsReplayed
  <2>1. PICK w, off, e, n :
          /\ CopyIs(w, off, e, n)
          /\ Len(replayed) \in 0 .. n
          /\ replayed \in Seq(Commands)
          /\ replayed = SubSeq(copied.submitted, 1, Len(replayed))
          /\ pos > 0 => ReadTo(off, e, n, Len(replayed))
    BY ReplayedIsFirst DEF JournalInv
  <2>2. PICK k, a : k = Len(replayed) /\ a = Len(copied.acked)
    OBVIOUS
  <2>3. e = 0 /\ off[a] <= Len(data)
    BY <2>1, <2>2 DEF CopyIs, Holds
  <2>4. /\ n \in Nat /\ n \in 0 .. Len(copied.submitted)
        /\ copied.submitted \in Seq(Commands) /\ Len(copied.submitted) \in Nat
        /\ copied.acked \in Seq(Commands) /\ a \in 0 .. n
        /\ copied.acked = SubSeq(copied.submitted, 1, a)
        /\ off \in [0 .. n -> Nat] /\ off[0] = 4
        /\ data \in Seq(Unit) /\ Len(data) \in Nat
        /\ Copies(data, w, e)
        /\ \A j \in 0 .. n : \A i \in 0 .. j : off[i] <= off[j]
    BY <2>1, <2>2, CopyFacts
  <2>5. /\ pos \in Nat /\ stop # "Ok"
        /\ stop = IF pos = 0 THEN HeaderStatus ELSE RecordStatus
    BY DEF JournalInv, ReaderInv
  <2>6. pos > 0
    <3>1. 4 <= Len(data)
      <4>1. off[0] <= off[a] /\ off[a] \in Nat
        BY <2>4
      <4> QED BY <2>3, <2>4, <4>1
    <3>2. HeaderStatus = "Ok"
      BY <2>1, <2>3, <3>1, HeaderAccepted
    <3> QED BY <2>5, <3>2
  <2>7. /\ ReadTo(off, e, n, k) /\ pos = off[k] /\ pool_capacity = copied.capacity
        /\ k \in 0 .. n
    BY <2>1, <2>2, <2>6 DEF ReadTo
  <2>8. a <= k
    <3> SUFFICES ASSUME k < a PROVE FALSE
      BY <2>4, <2>7
    <3>1. k \in 0 .. n - 1 /\ k + 1 \in 0 .. a
      BY <2>4, <2>7
    <3>2. PICK c : c = copied.submitted[k + 1]
      OBVIOUS
    <3>3. /\ c \in Commands /\ Len(encode(c)) \in Nat
          /\ off[k + 1] = pos + Len(encode(c))
          /\ \A j \in 1 .. Len(encode(c)) : w[pos + j] = encode(c)[j]
      <4>1. RecordOf(w, off, k, c)
        BY <2>1, <3>1, <3>2, NextInJournal
      <4> QED BY <2>7, <4>1 DEF RecordOf
    <3>4. off[k + 1] <= Len(data)
      <4>1. off[k + 1] <= off[a] /\ off[a] \in Nat /\ off[k + 1] \in Nat
        BY <2>4, <3>1
      <4> QED BY <2>3, <2>4, <4>1
    <3>5. ASSUME NEW j \in 1 .. Len(encode(c)) PROVE data[pos + j] = encode(c)[j]
      <4>1. pos + j \in 1 .. Len(data) /\ pos + j # 0
        BY <2>4, <2>5, <3>3, <3>4
      <4>2. data[pos + j] = w[pos + j]
        BY <2>3, <2>4, <4>1 DEF Copies
      <4> QED BY <3>3, <4>2
    <3>6. RecordAt(c)
      BY <2>4, <2>5, <3>3, <3>4, <3>5 DEF RecordAt
    <3>7. RecordStatus = "Ok"
      BY <3>3, <3>6, RecordDecodes
    <3> QED BY <2>5, <2>6, <3>7
  <2>9. SubSeq(copied.acked, 1, a) = SubSeq(replayed, 1, a)
    <3>1. PICK sub, ack, rep : sub = copied.submitted /\ ack = copied.acked /\ rep = replayed
      OBVIOUS
    <3>2. a \in Nat /\ a <= k /\ a <= Len(sub) /\ k \in Nat /\ k <= Len(sub)
          /\ Len(sub) \in Nat /\ sub \in Seq(Commands)
      BY <2>4, <2>7, <2>8, <3>1
    <3>3. Len(ack) = a /\ Len(rep) = k /\ ack \in Seq(Commands) /\ rep \in Seq(Commands)
      BY <2>1, <2>2, <2>4, <3>1
    <3>4. \A i \in 1 .. a : ack[i] = sub[i]
      <4>1. ack = SubSeq(sub, 1, a)
        BY <2>4, <3>1
      <4> QED BY <3>2, <4>1
    <3>5. \A i \in 1 .. k : rep[i] = sub[i]
      <4>1. rep = SubSeq(sub, 1, k)
        BY <2>1, <2>2, <3>1
      <4> QED BY <3>2, <4>1
    <3>6. PICK s, t : s = SubSeq(ack, 1, a) /\ t = SubSeq(rep, 1, a)
      OBVIOUS
    <3>7. s \in Seq(Commands) /\ Len(s) = a /\ \A i \in 1 .. a : s[i] = ack[i]
      BY <3>2, <3>3, <3>6
    <3>8. t \in Seq(Commands) /\ Len(t) = a /\ \A i \in 1 .. a : t[i] = rep[i]
      BY <3>2, <3>3, <3>6
    <3>9. ASSUME NEW i \in 1 .. a PROVE s[i] = t[i]
      <4>1. i \in 1 .. k
        BY <3>2
      <4> QED BY <3>4, <3>5, <3>7, <3>8, <4>1
    <3>10. s = t
      BY <3>7, <3>8, <3>9, SeqEqual
    <3> QED BY <3>1, <3>6, <3>10
  <2> QED BY <2>2, <2>7, <2>8, <2>9 DEF IsPrefix
<1> QED BY <1>1, JournalInvariance, PTL

(* Two parts that come one after the other. *)
LEMMA FirstPartsJoin ==
  ASSUME NEW S, NEW d \in Seq(S), NEW r \in Seq(S), NEW a \in Nat,
         a + Len(r) <= Len(d), \A j \in 1 .. Len(r) : d[a + j] = r[j]
  PROVE  SubSeq(d, 1, a + Len(r)) = SubSeq(d, 1, a) \o r
<1>1. Len(d) \in Nat /\ Len(r) \in Nat /\ a <= Len(d)
  OBVIOUS
<1>2. PICK s : s = SubSeq(d, 1, a)
  OBVIOUS
<1>3. s \in Seq(S) /\ Len(s) = a /\ \A i \in 1 .. a : s[i] = d[i]
  BY <1>1, <1>2
<1>4. PICK t : t = SubSeq(d, 1, a + Len(r))
  OBVIOUS
<1>5. t \in Seq(S) /\ Len(t) = a + Len(r) /\ \A i \in 1 .. a + Len(r) : t[i] = d[i]
  BY <1>1, <1>4
<1>6. PICK u : u = s \o r
  OBVIOUS
<1>7. /\ u \in Seq(S) /\ Len(u) = a + Len(r)
      /\ \A i \in 1 .. a + Len(r) : u[i] = IF i <= a THEN s[i] ELSE r[i - a]
  BY <1>3, <1>6, ConcatProperties
<1>8. ASSUME NEW i \in 1 .. a + Len(r) PROVE t[i] = u[i]
  <2>1. CASE i <= a
    BY <1>1, <1>3, <1>5, <1>7, <2>1
  <2>2. CASE ~(i <= a)
    <3>1. i - a \in 1 .. Len(r) /\ a + (i - a) = i
      BY <1>1, <2>2
    <3>2. d[i] = r[i - a]
      BY <3>1
    <3> QED BY <1>5, <1>7, <2>2, <3>2
  <2> QED BY <2>1, <2>2
<1>9. t = u
  BY <1>5, <1>7, <1>8, SeqEqual
<1> QED BY <1>2, <1>4, <1>6, <1>9

(***************************************************************************)
(* What RecordsUpTo is: SubSeq(data, 1, off[m]) satisfies its definition,  *)
(* so it has a value, and the two agree step by step.                      *)
(***************************************************************************)
LEMMA GoodPartIsRead ==
  ASSUME NEW w, NEW off, NEW e, NEW n, CopyIs(w, off, e, n),
         NEW k, k = Len(replayed), ReadTo(off, e, n, k)
  PROVE  SubSeq(data, 1, pos) = GoodPart
<1>1. /\ n \in Nat /\ n \in 0 .. Len(copied.submitted)
      /\ copied.submitted \in Seq(Commands) /\ Len(copied.submitted) \in Nat
      /\ off \in [0 .. n -> Nat] /\ off[0] = 4
      /\ data \in Seq(Unit) /\ Len(data) \in Nat /\ Copies(data, w, e) /\ e \in Nat
      /\ copied.capacity \in Capacities
      /\ IsJournal(w, off, copied.capacity, SubSeq(copied.submitted, 1, n))
      /\ \A j \in 0 .. n : \A i \in 0 .. j : off[i] <= off[j]
  BY CopyFacts
<1>2. /\ k \in 0 .. n /\ replayed = SubSeq(copied.submitted, 1, k)
      /\ pos = off[k] /\ pos <= Len(data) /\ (e = 0 \/ e > pos)
      /\ pool_capacity = copied.capacity
  BY DEF ReadTo
<1>3. k \in Nat /\ pos \in Nat /\ \A m \in 0 .. k : m \in 0 .. n /\ off[m] \in Nat /\ off[m] <= pos
  BY <1>1, <1>2
<1>4. \A i \in 1 .. pos : data[i] = w[i]
  <2>1. \A i \in 1 .. pos : i \in 1 .. Len(data) /\ i # e
    BY <1>1, <1>2, <1>3
  <2> QED BY <1>1, <2>1 DEF Copies
<1>5. \A m \in 1 .. k : replayed[m] = copied.submitted[m]
  BY <1>1, <1>2, <1>3
<1>6. PICK g : g = [m \in 0 .. k |-> SubSeq(data, 1, off[m])]
  OBVIOUS
<1>7. g[0] = encode_header(pool_capacity)
  <2>1. PICK h : h = encode_header(pool_capacity)
    OBVIOUS
  <2>2. h \in Seq(Unit) /\ Len(h) = 4
    BY <1>1, <1>2, <2>1, HeaderType
  <2>3. \A i \in 1 .. 4 : w[i] = h[i]
    BY <1>1, <1>2, <2>1 DEF IsJournal
  <2>4. 0 \in 0 .. k /\ 4 <= pos /\ 4 <= Len(data)
    BY <1>1, <1>2, <1>3
  <2>5. \A i \in 1 .. 4 : i \in 1 .. pos
    BY <1>3, <2>4
  <2>6. PICK s : s = SubSeq(data, 1, 4)
    OBVIOUS
  <2>7. s \in Seq(Unit) /\ Len(s) = 4 /\ \A i \in 1 .. 4 : s[i] = data[i]
    BY <1>1, <2>4, <2>6
  <2>8. \A i \in 1 .. 4 : s[i] = h[i]
    BY <1>4, <2>3, <2>5, <2>7
  <2>9. s = h
    BY <2>2, <2>7, <2>8, SeqEqual
  <2> QED BY <1>1, <1>6, <2>1, <2>4, <2>6, <2>9
<1>8. ASSUME NEW m \in 1 .. k PROVE g[m] = g[m - 1] \o encode(replayed[m])
  <2>1. m - 1 \in 0 .. n - 1 /\ (m - 1) + 1 = m /\ m \in 0 .. k /\ m - 1 \in 0 .. k
    BY <1>1, <1>2, <1>3
  <2>2. PICK c : c = copied.submitted[m]
    OBVIOUS
  <2>3. /\ c \in Commands /\ Len(encode(c)) \in Nat
        /\ off[m] = off[m - 1] + Len(encode(c))
        /\ \A j \in 1 .. Len(encode(c)) : w[off[m - 1] + j] = encode(c)[j]
    <3>1. PICK l : l = m - 1
      OBVIOUS
    <3>2. l \in 0 .. n - 1 /\ l + 1 = m
      BY <2>1, <3>1
    <3>3. RecordOf(w, off, l, copied.submitted[l + 1])
      BY <3>2, NextInJournal
    <3>4. RecordOf(w, off, l, c)
      BY <2>2, <3>2, <3>3
    <3> QED BY <3>1, <3>2, <3>4 DEF RecordOf
  <2>4. PICK r : r = encode(c)
    OBVIOUS
  <2>5. c \in Command
    BY <2>3, JournalAssumption
  <2>6. r \in Seq(Unit)
    BY <2>4, <2>5, EncodeType
  <2>7. off[m - 1] \in Nat /\ off[m] \in Nat /\ off[m] <= pos
    BY <1>3, <2>1
  <2>8. ASSUME NEW j \in 1 .. Len(r) PROVE data[off[m - 1] + j] = r[j]
    <3>1. off[m - 1] + j \in 1 .. pos
      BY <1>3, <2>3, <2>4, <2>7
    <3> QED BY <1>4, <2>3, <2>4, <3>1
  <2>9. PICK a \in Nat : a = off[m - 1]
    BY <2>7
  <2>10. a + Len(r) = off[m] /\ a + Len(r) <= Len(data)
    BY <1>1, <1>2, <1>3, <2>3, <2>4, <2>7, <2>9
  <2>11. SubSeq(data, 1, a + Len(r)) = SubSeq(data, 1, a) \o r
    BY <1>1, <2>6, <2>8, <2>9, <2>10, FirstPartsJoin
  <2>12. g[m] = SubSeq(data, 1, a + Len(r)) /\ g[m - 1] = SubSeq(data, 1, a)
    BY <1>6, <2>1, <2>9, <2>10
  <2>13. encode(replayed[m]) = r
    BY <1>5, <2>2, <2>4
  <2> QED BY <2>11, <2>12, <2>13
<1> DEFINE Records(f) == f = [m \in 0 .. Len(replayed) |->
                                IF m = 0 THEN encode_header(pool_capacity)
                                         ELSE f[m - 1] \o encode(replayed[m])]
<1>9. Records(g)
  <2>1. \A m \in 0 .. k : g[m] = IF m = 0 THEN encode_header(pool_capacity)
                                          ELSE g[m - 1] \o encode(replayed[m])
    <3>1. \A m \in 0 .. k : m # 0 => m \in 1 .. k
      BY <1>3
    <3> QED BY <1>7, <1>8, <3>1
  <2> QED BY <1>6, <2>1
<1>10. RecordsUpTo = CHOOSE f : Records(f)
  BY DEF RecordsUpTo
<1>11. Records(RecordsUpTo)
  <2> HIDE DEF Records
  <2> QED BY <1>9, <1>10
<1>12. PICK f : f = RecordsUpTo
  OBVIOUS
<1>13. f[0] = g[0]
  <2>1. 0 \in 0 .. Len(replayed)
    BY <1>3
  <2> QED BY <1>7, <1>11, <1>12, <2>1
<1>14. ASSUME NEW m \in 1 .. k, f[m - 1] = g[m - 1] PROVE f[m] = g[m]
  <2>1. m \in 0 .. Len(replayed) /\ m # 0
    BY <1>3
  <2>2. f[m] = f[m - 1] \o encode(replayed[m])
    BY <1>11, <1>12, <2>1
  <2> QED BY <1>8, <1>14, <2>2
<1>15. \A m \in 0 .. k : f[m] = g[m]
  <2> HIDE DEF Records
  <2> DEFINE S == {m \in 0 .. k : f[m] = g[m]}
  <2>1. k \in Nat /\ 0 \in S
    BY <1>3, <1>13
  <2>2. ASSUME NEW m \in 1 .. k, m - 1 \in S PROVE m \in S
    <3>1. m \in 0 .. k
      BY <2>1
    <3> QED BY <1>14, <2>2, <3>1
  <2>3. \A m \in 0 .. k : m \in S
    <3> HIDE DEF S
    <3> QED BY <2>1, <2>2, Reaches
  <2> QED BY <2>3
<1>16. f[k] = g[k] /\ g[k] = SubSeq(data, 1, pos)
  <2>1. k \in 0 .. k
    BY <1>3
  <2> QED BY <1>2, <1>6, <1>15, <2>1
<1> QED BY <1>12, <1>16 DEF GoodPart

(***************************************************************************)
(* valid_bytes is where the good records end: a caller that cuts the file  *)
(* there keeps the header and exactly the records that were replayed, and  *)
(* the status is End if and only if there is nothing to cut.               *)
(***************************************************************************)
THEOREM CutIsAlwaysClean == Spec => []CutIsClean
<1>1. JournalInv => CutIsClean
  <2> SUFFICES ASSUME JournalInv, reader = "stopped", pos > 0
               PROVE  /\ SubSeq(data, 1, pos) = GoodPart
                      /\ stop = "End" <=> pos = Len(data)
    BY DEF CutIsClean
  <2>1. PICK w, off, e, n :
          /\ CopyIs(w, off, e, n)
          /\ pos > 0 => ReadTo(off, e, n, Len(replayed))
    BY ReplayedIsFirst DEF JournalInv
  <2>2. SubSeq(data, 1, pos) = GoodPart
    BY <2>1, GoodPartIsRead
  <2>3. stop = RecordStatus
    BY DEF JournalInv, ReaderInv
  <2>4. RecordStatus = "End" <=> pos = Len(data)
    BY DEF RecordStatus
  <2> QED BY <2>2, <2>3, <2>4
<1> QED BY <1>1, JournalInvariance, PTL
=============================================================================
