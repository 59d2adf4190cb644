---------------------------- MODULE SessionProofs ----------------------------
(***************************************************************************)
(* Proofs about sessions, from what the programs say to what they keep:    *)
(*   - a message is read back as it was written, by the fold over its      *)
(*     fields that takes off the front of the body what was put there;     *)
(*   - base64 is the groups of six bits of a text, by an invariant of each *)
(*     of its loops, and the name and the password of a token come back;   *)
(*   - so the server's password file is asked about the option of the      *)
(*     client's command line, and nothing else, and what the client takes  *)
(*     for commands reaches the hub as it was made, in order, but for what *)
(*     an exception drops;                                                 *)
(*   - from SessionInv, which says what is under way in both directions,   *)
(*     every invariant of Session.                                         *)
(***************************************************************************)
EXTENDS Session, FiniteSetTheorems, TLAPS

Fields  == INSTANCE FoldProofs WITH Op <- TakeField
List    == INSTANCE FoldProofs WITH Op <- TakePacket
Encoder == INSTANCE FoldProofs WITH Op <- EncodeNext
Decoder == INSTANCE FoldProofs WITH Op <- DecodeNext

-----------------------------------------------------------------------------
(***************************************************************************)
(* Messages                                                                *)
(***************************************************************************)

\* The lemmas of the instances are about the folds and the concatenation that Messages uses.
LEMMA SameFolds ==
    /\ \A base, s : FoldLeft(TakePacket, base, s) = List!Fold(base, s)
    /\ \A base, s : FoldLeft(TakeField, base, s) = Fields!Fold(base, s)
    /\ \A seqs : FlattenSeq(seqs) = List!FlattenSeq(seqs)
    /\ \A seqs : FlattenSeq(seqs) = Fields!FlattenSeq(seqs)
<1>1. \A base, s : FoldLeft(TakePacket, base, s) = List!Fold(base, s)
  BY DEF FoldLeft, MapThenFoldSet, Max, List!Fold, List!FoldLeft, List!MapThenFoldSet, List!Max
<1>2. \A base, s : FoldLeft(TakeField, base, s) = Fields!Fold(base, s)
  BY DEF FoldLeft, MapThenFoldSet, Max, Fields!Fold, Fields!FoldLeft, Fields!MapThenFoldSet, Fields!Max
<1>3. \A seqs : FlattenSeq(seqs) = List!FlattenSeq(seqs)
  BY DEF FlattenSeq, List!FlattenSeq
<1>4. \A seqs : FlattenSeq(seqs) = Fields!FlattenSeq(seqs)
  BY DEF FlattenSeq, Fields!FlattenSeq
<1> QED BY <1>1, <1>2, <1>3, <1>4

LEMMA SameElements ==
    ASSUME NEW T, NEW s \in Seq(T), NEW t \in Seq(T), Len(s) = Len(t),
           \A i \in 1..Len(s) : s[i] = t[i]
    PROVE  s = t
OBVIOUS

LEMMA Prepended ==
    ASSUME NEW T, NEW e \in T, NEW s \in Seq(T)
    PROVE  <<e>> \o s \in Seq(T) /\ Head(<<e>> \o s) = e /\ Tail(<<e>> \o s) = s
<1> DEFINE t == <<e>> \o s
<1>1. t \in Seq(T) /\ Len(t) = 1 + Len(s) /\ t[1] = e /\ \A i \in 1..Len(s) : t[i + 1] = s[i]
  OBVIOUS
<1> HIDE DEF t
<1>2. Head(t) = e /\ Tail(t) \in Seq(T) /\ Len(Tail(t)) = Len(s) /\ \A i \in 1..Len(s) : Tail(t)[i] = t[i + 1]
  BY <1>1
<1>3. Tail(t) = s
  BY <1>1, <1>2, SameElements
<1> QED BY <1>1, <1>2, <1>3 DEF t

LEMMA Regroup ==
    ASSUME NEW T, NEW a \in Seq(T), NEW b \in Seq(T), NEW c \in Seq(T)
    PROVE  (a \o b) \o c = a \o (b \o c) /\ a \o b \in Seq(T)
<1>1. a \o b \in Seq(T) /\ b \o c \in Seq(T) /\ Len(a \o b) = Len(a) + Len(b)
  OBVIOUS
<1>2. (a \o b) \o c = a \o (b \o c)
  BY List!Regrouped DEF List!Concat
<1> QED BY <1>1, <1>2

\* Concatenation by a name, where what it does is not to be looked at.
Cat(a, b) == a \o b

LEMMA Texts ==
    /\ \A a, b \in Characters : Cat(a, b) \in Characters
    /\ \A a, b, c \in Characters : Cat(Cat(a, b), c) = Cat(a, Cat(b, c))
<1> SUFFICES ASSUME NEW a \in Characters, NEW b \in Characters, NEW c \in Characters
             PROVE  Cat(a, b) \in Characters /\ Cat(Cat(a, b), c) = Cat(a, Cat(b, c))
  OBVIOUS
<1>1. a \in Seq(Int) /\ b \in Seq(Int) /\ c \in Seq(Int)
  BY DEF Characters
<1>2. a \o b \in Seq(Int)
  BY ONLY <1>1
<1>3. (a \o b) \o c = a \o (b \o c)
  BY ONLY <1>1, List!Regrouped DEF List!Concat
<1> QED BY ONLY <1>2, <1>3 DEF Cat, Characters

LEMMA FourTexts ==
    ASSUME NEW a \in Characters, NEW b \in Characters, NEW c \in Characters, NEW d \in Characters
    PROVE  /\ Cat(Cat(Cat(a, b), c), d) = Cat(a, Cat(b, Cat(c, d)))
           /\ Cat(b, Cat(c, d)) \in Characters /\ Cat(Cat(a, b), c) \in Characters
<1>1. Cat(a, b) \in Characters /\ Cat(c, d) \in Characters
  BY Texts
<1>2. Cat(Cat(Cat(a, b), c), d) = Cat(Cat(a, b), Cat(c, d))
  BY <1>1, Texts
<1>3. Cat(Cat(a, b), Cat(c, d)) = Cat(a, Cat(b, Cat(c, d)))
  BY <1>1, Texts
<1> QED BY <1>1, <1>2, <1>3, Texts

LEMMA Parts == \A got, v, r : got = [value |-> v, rest |-> r] => got.value = v /\ got.rest = r
OBVIOUS

\* A string is what its size says of what follows it.
LEMMA StringReadBack ==
    ASSUME NEW s \in Characters, NEW rest \in Characters
    PROVE  /\ PutString(s) \in Characters
           /\ GetString(PutString(s) \o rest) = [value |-> s, rest |-> rest]
<1> DEFINE body == PutString(s) \o rest
           n    == Len(s)
<1>1. PutString(s) \in Characters
  BY DEF PutString, Characters
<1>2. /\ body \in Characters /\ Head(body) = n /\ Len(body) = 1 + n + Len(rest) /\ n \in Nat
      /\ \A i \in 1..n : body[1 + i] = s[i]
      /\ \A i \in 1..Len(rest) : body[1 + n + i] = rest[i]
  BY DEF PutString, Characters
<1> HIDE DEF body
<1>3. SubSeq(body, 2, 1 + n) = s
  <2> DEFINE t == SubSeq(body, 2, 1 + n)
  <2>1. t \in Characters /\ Len(t) = n /\ \A i \in 1..n : t[i] = body[1 + i]
    BY <1>2 DEF Characters
  <2> HIDE DEF t
  <2>2. \A i \in 1..Len(t) : t[i] = s[i]
    BY <1>2, <2>1
  <2>3. t = s
    BY ONLY <2>1, <2>2, s \in Characters, n = Len(s), SameElements DEF Characters
  <2> QED BY <2>3 DEF t
<1>4. SubSeq(body, 2 + n, Len(body)) = rest
  <2> DEFINE t == SubSeq(body, 2 + n, Len(body))
  <2>1. t \in Characters /\ Len(t) = Len(rest) /\ \A i \in 1..Len(rest) : t[i] = body[1 + n + i]
    BY ONLY <1>2, rest \in Characters DEF Characters
  <2> HIDE DEF t
  <2>2. \A i \in 1..Len(t) : t[i] = rest[i]
    BY <1>2, <2>1
  <2>3. t = rest
    BY <2>1, <2>2, SameElements DEF Characters
  <2> QED BY <2>3 DEF t
<1>5. GetString(body) = [value |-> s, rest |-> rest]
  BY <1>2, <1>3, <1>4 DEF GetString, From
<1> QED BY <1>1, <1>5 DEF body

\* So is a packet, in which its entitlement and two strings follow each other.
LEMMA PacketReadBack ==
    ASSUME NEW p \in [entitlement : Int, content_type : Characters, data : Characters],
           NEW rest \in Characters
    PROVE  /\ PutPacket(p) \in Characters
           /\ GetPacket(PutPacket(p) \o rest) = [value |-> p, rest |-> rest]
<1> DEFINE type == PutString(p.content_type)
           data == PutString(p.data)
           body == PutPacket(p) \o rest
<1>1. /\ type \in Characters /\ data \in Characters /\ data \o rest \in Characters
      /\ p.entitlement \in Int
  <2>1. type \in Characters /\ data \in Characters /\ p.entitlement \in Int
    BY StringReadBack
  <2> HIDE DEF type, data
  <2> QED BY <2>1 DEF Characters
<1>2. GetString(type \o (data \o rest)) = [value |-> p.content_type, rest |-> data \o rest]
  BY <1>1, StringReadBack
<1>3. GetString(data \o rest) = [value |-> p.data, rest |-> rest]
  BY <1>1, StringReadBack
<1>4. /\ PutPacket(p) = <<p.entitlement>> \o type \o data
      /\ p = DataPacket(p.entitlement, p.content_type, p.data)
  BY DEF PutPacket, DataPacket
<1> HIDE DEF type, data
<1>5. /\ body = <<p.entitlement>> \o (type \o (data \o rest))
      /\ PutPacket(p) \in Characters /\ type \o (data \o rest) \in Characters
  <2> DEFINE one == <<p.entitlement>>
  <2>1. one \in Characters
    BY <1>1 DEF Characters
  <2> HIDE DEF one
  <2>2. /\ Cat(Cat(Cat(one, type), data), rest) = Cat(one, Cat(type, Cat(data, rest)))
        /\ Cat(type, Cat(data, rest)) \in Characters /\ Cat(Cat(one, type), data) \in Characters
    BY ONLY <1>1, <2>1, rest \in Characters, FourTexts
  <2>3. body = Cat(Cat(Cat(one, type), data), rest) /\ PutPacket(p) = Cat(Cat(one, type), data)
    BY ONLY <1>4, Zenon DEF one, body, Cat
  <2>4. Cat(one, Cat(type, Cat(data, rest))) = <<p.entitlement>> \o (type \o (data \o rest))
    BY ONLY Zenon DEF one, Cat
  <2>5. Cat(type, Cat(data, rest)) = type \o (data \o rest)
    BY ONLY Zenon DEF Cat
  <2> HIDE DEF body
  <2> QED BY ONLY <2>2, <2>3, <2>4, <2>5
<1>6. Head(body) = p.entitlement /\ Tail(body) = type \o (data \o rest)
  <2> DEFINE after == type \o (data \o rest)
  <2>1. after \in Seq(Int) /\ p.entitlement \in Int /\ body = <<p.entitlement>> \o after
    BY <1>1, <1>5 DEF Characters
  <2> HIDE DEF after, body
  <2>2. Head(body) = p.entitlement /\ Tail(body) = after
    BY ONLY <2>1, Prepended
  <2> QED BY <2>2 DEF after
<1> HIDE DEF body
<1>7. GetPacket(body) = [value |-> p, rest |-> rest]
  <2>4. GetString(Tail(body)) = [value |-> p.content_type, rest |-> data \o rest]
    BY ONLY <1>2, <1>6, Zenon
  <2>1. GetString(Tail(body)).value = p.content_type /\ GetString(Tail(body)).rest = data \o rest
    BY ONLY <2>4, Parts, Zenon
  <2> DEFINE got == GetString(GetString(Tail(body)).rest)
  <2>5. got = [value |-> p.data, rest |-> rest]
    BY ONLY <1>3, <2>1, Zenon
  <2> HIDE DEF got
  <2>2. got.value = p.data /\ got.rest = rest
    BY ONLY <2>5, Parts
  <2>3. /\ GetPacket(body).value = DataPacket(p.entitlement, p.content_type, p.data)
        /\ GetPacket(body).rest = rest
        /\ GetPacket(body) = [value |-> GetPacket(body).value, rest |-> GetPacket(body).rest]
    BY ONLY <1>6, <2>1, <2>2 DEF GetPacket, got
  <2> QED BY <1>4, <2>3
<1> QED BY <1>5, <1>7 DEF body

\* And so is a sequence of packets, one packet after the other.
LEMMA PacketsReadBack ==
    ASSUME NEW v \in DataPackets, NEW rest \in Characters
    PROVE  /\ Put("packets", v) \in Characters
           /\ GetPackets(Put("packets", v) \o rest) = [value |-> v, rest |-> rest]
<1> DEFINE Packet == [entitlement : Int, content_type : Characters, data : Characters]
           puts   == [n \in DOMAIN v |-> PutPacket(v[n])]
           all    == FlattenSeq(puts)
           places == [n \in 1..Len(v) |-> n]
           first  == [n \in 0..Len(v) |-> SubSeq(v, 1, n)]
           body   == Put("packets", v) \o rest
<1>1. v \in Seq(Packet) /\ rest \in Seq(Int) /\ Len(v) \in Nat /\ DOMAIN v = 1..Len(v)
  BY DEF DataPackets, Characters
<1>2. ASSUME NEW n \in 1..Len(v)
      PROVE  /\ PutPacket(v[n]) \in Seq(Int)
             /\ \A after \in Seq(Int) :
                    GetPacket(PutPacket(v[n]) \o after) = [value |-> v[n], rest |-> after]
  <2> HIDE DEF Packet
  <2>1. v[n] \in Packet
    BY <1>1
  <2> QED BY ONLY <2>1, PacketReadBack DEF Characters, Packet
<1>3. puts \in Seq(Seq(Int)) /\ Len(puts) = Len(v) /\ \A n \in 1..Len(v) : puts[n] = PutPacket(v[n])
  BY <1>1, <1>2
<1>4. places \in Seq(Nat) /\ Len(places) = Len(v)
  BY <1>1
<1>5. first[0] = <<>> /\ first[Len(v)] = v
  BY <1>1
<1>6. ASSUME NEW k \in 1..Len(v), NEW after \in Seq(Int)
      PROVE  TakePacket([value |-> first[k - 1], rest |-> puts[k] \o after], places[k])
                = [value |-> first[k], rest |-> after]
  <2> HIDE DEF puts, places
  <2>1. GetPacket(puts[k] \o after) = [value |-> v[k], rest |-> after]
    BY <1>2, <1>3
  <2>2. first[k] = Append(first[k - 1], v[k])
    <3>1. SubSeq(v, 1, k) = Append(SubSeq(v, 1, k - 1), v[k])
      BY <1>1
    <3>2. k \in 0..Len(v) /\ k - 1 \in 0..Len(v)
      BY <1>1
    <3>3. first[k] = SubSeq(v, 1, k) /\ first[k - 1] = SubSeq(v, 1, k - 1)
      BY ONLY <3>2 DEF first
    <3> QED BY ONLY <3>1, <3>3
  <2> HIDE DEF first
  <2> QED BY <2>1, <2>2, Parts DEF TakePacket
<1>7. all \in Seq(Int) /\ all = List!FlattenSeq(puts)
  <2>1. List!FlattenSeq(puts) \in Seq(Int)
    BY <1>3, List!FlattenTyped
  <2> QED BY <2>1, SameFolds
<1> HIDE DEF Packet, puts, all, places, first
<1>8. List!Fold([value |-> first[0], rest |-> List!FlattenSeq(puts) \o rest], places)
        = [value |-> first[Len(places)], rest |-> rest]
  <2>1. List!Reads(Int, puts, Nat, places, first)
    BY <1>3, <1>4, <1>6 DEF List!Reads
  <2>2. List!IsReadBack(puts, places, first, rest)
    BY ONLY <1>1, <2>1, List!ReadBack
  <2> QED BY <2>2 DEF List!IsReadBack
<1>9. Put("packets", v) = <<Len(v)>> \o all
  BY DEF Put, puts, all
<1>10. /\ Put("packets", v) \in Characters /\ body = <<Len(v)>> \o (all \o rest)
       /\ all \o rest \in Seq(Int)
  <2> DEFINE one == <<Len(v)>>
  <2>1. one \in Characters /\ all \in Characters /\ rest \in Characters
    BY <1>1, <1>7 DEF Characters
  <2> HIDE DEF one, body
  <2>3. body = Put("packets", v) \o rest
    BY DEF body
  <2>2. Cat(one, all) \in Characters /\ Cat(Cat(one, all), rest) = Cat(one, Cat(all,
            rest)) /\ Cat(all, rest) \in Characters
    BY ONLY <2>1, Texts
  <2> QED BY ONLY <1>9, <2>2, <2>3, Zenon DEF one, Cat, Characters
<1>11. Head(body) = Len(v) /\ Tail(body) = all \o rest
  <2> DEFINE after == all \o rest
  <2>1. after \in Seq(Int) /\ Len(v) \in Int /\ body = <<Len(v)>> \o after
    <3> HIDE DEF body
    <3> QED BY <1>1, <1>10
  <2> HIDE DEF after, body
  <2>2. Head(body) = Len(v) /\ Tail(body) = after
    BY ONLY <2>1, Prepended
  <2> QED BY <2>2 DEF after
<1> HIDE DEF body
<1>12. GetPackets(body) = FoldLeft(TakePacket, [value |-> <<>>, rest |-> all \o rest], places)
  BY ONLY <1>11, Zenon DEF GetPackets, places
<1> QED BY <1>4, <1>5, <1>7, <1>8, <1>10, <1>12, SameFolds DEF body

\* The values of a field, and the messages with certain fields.
Values(type) ==
    CASE type = "string" -> Characters [] type = "bool" -> BOOLEAN [] type = "packets" -> DataPackets

FieldName ==
    {"method", "data", "is_authenticated", "topic", "data_packets", "client_id", "user", "host",
     "topic_pattern", "is_add"}

Field == [name : FieldName, type : {"string", "bool", "packets"}]

Names(fields, k) == {"message_type"} \cup {fields[i].name : i \in 1..k}
Part(message, names) == [f \in names |-> message[f]]

HasFields(message, fields) ==
    /\ fields \in Seq(Field)
    /\ message = Part(message, Names(fields, Len(fields)))
    /\ \A i \in 1..Len(fields) : message[fields[i].name] \in Values(fields[i].type)

LEMMA FieldReadBack ==
    ASSUME NEW type \in {"string", "bool", "packets"}, NEW v \in Values(type),
           NEW rest \in Characters
    PROVE  /\ Put(type, v) \in Characters
           /\ Get(type, Put(type, v) \o rest) = [value |-> v, rest |-> rest]
<1>1. CASE type = "string"
  <2>1. v \in Characters /\ Put(type, v) = PutString(v)
    BY <1>1 DEF Values, Put
  <2>2. \A body : Get(type, body) = GetString(body)
    BY <1>1 DEF Get
  <2> QED BY <2>1, <2>2, StringReadBack
<1>2. CASE type = "bool"
  <2> DEFINE bit == IF v THEN 1 ELSE 0
             body == <<bit>> \o rest
  <2>1. v \in BOOLEAN
    BY <1>2 DEF Values
  <2>2. Put(type, v) = <<bit>>
    BY <1>2 DEF Put
  <2>3. bit \in Int /\ (bit = 1) = v
    BY <2>1
  <2>4. Get(type, body) = [value |-> Head(body) = 1, rest |-> Tail(body)]
    BY <1>2 DEF Get
  <2> HIDE DEF bit
  <2>5. Head(body) = bit /\ Tail(body) = rest /\ <<bit>> \in Characters
    BY <2>3, Prepended DEF Characters
  <2> QED BY <2>2, <2>3, <2>4, <2>5
<1>3. CASE type = "packets"
  <2>1. v \in DataPackets
    BY <1>3 DEF Values
  <2>2. \A body : Get(type, body) = GetPackets(body)
    BY <1>3 DEF Get
  <2> QED BY <1>3, <2>1, <2>2, PacketsReadBack
<1> QED BY <1>1, <1>2, <1>3

\* The type, and the fields that were written, are the message.
LEMMA FieldsReadBack ==
    ASSUME NEW message, NEW fields, HasFields(message, fields), NEW rest \in Characters
    PROVE  LET puts == [n \in DOMAIN fields |-> Put(fields[n].type, message[fields[n].name])]
               base == [value |-> Part(message, {"message_type"}), rest |-> FlattenSeq(puts) \o rest]
           IN  /\ FlattenSeq(puts) \in Characters
               /\ FoldLeft(TakeField, base, fields) = [value |-> message, rest |-> rest]
<1> DEFINE puts  == [n \in DOMAIN fields |-> Put(fields[n].type, message[fields[n].name])]
           value == [k \in 0..Len(fields) |-> Part(message, Names(fields, k))]
<1>1. fields \in Seq(Field) /\ DOMAIN fields = 1..Len(fields) /\ Len(fields) \in Nat
  BY DEF HasFields
<1>2. ASSUME NEW k \in 1..Len(fields)
      PROVE  /\ fields[k] \in Field
             /\ fields[k].type \in {"string", "bool", "packets"}
             /\ message[fields[k].name] \in Values(fields[k].type)
  <2>1. fields[k] \in Field
    BY ONLY <1>1
  <2>2. fields[k].type \in {"string", "bool", "packets"}
    BY ONLY <2>1 DEF Field
  <2> QED BY <2>1, <2>2 DEF HasFields
<1>3. puts \in Seq(Seq(Int)) /\ Len(puts) = Len(fields)
  <2>1. ASSUME NEW k \in 1..Len(fields)
        PROVE  Put(fields[k].type, message[fields[k].name]) \in Seq(Int)
    BY <1>2, FieldReadBack DEF Characters
  <2> QED BY <1>1, <2>1
<1>4. value[0] = Part(message, {"message_type"}) /\ value[Len(fields)] = message
  <2>1. Names(fields, 0) = {"message_type"}
    BY DEF Names
  <2>2. value[0] = Part(message, Names(fields, 0))
    BY <1>1
  <2>3. value[Len(fields)] = Part(message, Names(fields, Len(fields)))
    BY <1>1
  <2> QED BY <2>1, <2>2, <2>3 DEF HasFields
<1>5. ASSUME NEW k \in 1..Len(fields), NEW after \in Seq(Int)
      PROVE  TakeField([value |-> value[k - 1], rest |-> puts[k] \o after], fields[k])
                = [value |-> value[k], rest |-> after]
  <2> DEFINE name == fields[k].name
             part == Part(message, Names(fields, k - 1))
  <2>1. puts[k] = Put(fields[k].type, message[name])
    BY <1>1
  <2>2. value[k - 1] = part /\ value[k] = Part(message, Names(fields, k))
    BY <1>1
  <2> HIDE DEF puts, value
  <2>3. Get(fields[k].type, puts[k] \o after) = [value |-> message[name], rest |-> after]
    <3> DEFINE type == fields[k].type
               v    == message[name]
    <3>1. type \in {"string", "bool", "packets"} /\ v \in Values(type) /\ after \in Characters
      BY <1>2 DEF Characters
    <3>2. puts[k] = Put(type, v)
      BY <2>1
    <3> HIDE DEF type, v
    <3>3. Get(type, Put(type, v) \o after) = [value |-> v, rest |-> after]
      BY ONLY <3>1, FieldReadBack
    <3> QED BY <3>2, <3>3, Zenon DEF type, v
  <2>4. Names(fields, k) = Names(fields, k - 1) \cup {name}
    BY <1>1 DEF Names
  <2>5. SetField(part, name, message[name]) = Part(message, Names(fields, k))
    BY <2>4 DEF SetField, Part
  <2> QED BY <2>2, <2>3, <2>5, Parts DEF TakeField
<1> HIDE DEF puts, value
<1>6. List!FlattenSeq(puts) \in Seq(Int)
  BY <1>3, List!FlattenTyped
<1>7. Fields!Reads(Int, puts, Field, fields, value)
  BY <1>1, <1>3, <1>5 DEF Fields!Reads
<1>8. Fields!IsReadBack(puts, fields, value, rest)
  BY <1>7, Fields!ReadBack DEF Characters
<1>9. Fields!Fold([value |-> value[0], rest |-> FlattenSeq(puts) \o rest], fields)
        = [value |-> value[Len(fields)], rest |-> rest]
  BY <1>8, SameFolds, Zenon DEF Fields!IsReadBack
<1> QED BY <1>4, <1>6, <1>9, SameFolds DEF puts, Characters

LEMMA FieldTyped ==
    /\ \A s \in FieldName : /\ String(s) \in Field /\ Bool(s) \in Field /\ Packets(s) \in Field
                         /\ String(s).name = s /\ Bool(s).name = s /\ Packets(s).name = s
    /\ \A s : /\ Values(String(s).type) = Characters /\ Values(Bool(s).type) = BOOLEAN
              /\ Values(Packets(s).type) = DataPackets
BY DEF String, Bool, Packets, Field, Values

LEMMA Fields1 ==
    ASSUME NEW m, NEW a \in Field,
           m = Part(m, {"message_type", a.name}),
           m[a.name] \in Values(a.type)
    PROVE  HasFields(m, <<a>>)
<1> DEFINE s == <<a>>
<1>1. s \in Seq(Field) /\ Len(s) = 1 /\ s[1] = a
  OBVIOUS
<1> HIDE DEF s
<1>2. \A i \in 1..Len(s) : i = 1
  BY ONLY <1>1
<1>3. Names(s, Len(s)) = {"message_type", a.name}
  BY ONLY <1>1, <1>2 DEF Names
<1>4. HasFields(m, s)
  BY <1>1, <1>2, <1>3 DEF HasFields
<1> QED BY <1>4 DEF s

LEMMA Fields2 ==
    ASSUME NEW m, NEW a \in Field, NEW b \in Field,
           m = Part(m, {"message_type", a.name, b.name}),
           m[a.name] \in Values(a.type), m[b.name] \in Values(b.type)
    PROVE  HasFields(m, <<a, b>>)
<1> DEFINE s == <<a, b>>
<1>1. s \in Seq(Field) /\ Len(s) = 2 /\ s[1] = a /\ s[2] = b
  OBVIOUS
<1> HIDE DEF s
<1>2. \A i \in 1..Len(s) : i = 1 \/ i = 2
  BY ONLY <1>1
<1>3. Names(s, Len(s)) = {"message_type", a.name, b.name}
  BY ONLY <1>1, <1>2 DEF Names
<1>4. HasFields(m, s)
  BY <1>1, <1>2, <1>3 DEF HasFields
<1> QED BY <1>4 DEF s

LEMMA Fields3 ==
    ASSUME NEW m, NEW a \in Field, NEW b \in Field, NEW c \in Field,
           m = Part(m, {"message_type", a.name, b.name, c.name}),
           m[a.name] \in Values(a.type), m[b.name] \in Values(b.type), m[c.name] \in Values(c.type)
    PROVE  HasFields(m, <<a, b, c>>)
<1> DEFINE s == <<a, b, c>>
<1>1. s \in Seq(Field) /\ Len(s) = 3 /\ s[1] = a /\ s[2] = b /\ s[3] = c
  OBVIOUS
<1> HIDE DEF s
<1>2. \A i \in 1..Len(s) : i = 1 \/ i = 2 \/ i = 3
  BY ONLY <1>1
<1>3. Names(s, Len(s)) = {"message_type", a.name, b.name, c.name}
  BY ONLY <1>1, <1>2 DEF Names
<1>4. HasFields(m, s)
  BY <1>1, <1>2, <1>3 DEF HasFields
<1> QED BY <1>4 DEF s

LEMMA Fields4 ==
    ASSUME NEW m, NEW a \in Field, NEW b \in Field, NEW c \in Field, NEW d \in Field,
           m = Part(m, {"message_type", a.name, b.name, c.name, d.name}),
           m[a.name] \in Values(a.type), m[b.name] \in Values(b.type),
               m[c.name] \in Values(c.type), m[d.name] \in Values(d.type)
    PROVE  HasFields(m, <<a, b, c, d>>)
<1> DEFINE s == <<a, b, c, d>>
<1>1. s \in Seq(Field) /\ Len(s) = 4 /\ s[1] = a /\ s[2] = b /\ s[3] = c /\ s[4] = d
  OBVIOUS
<1> HIDE DEF s
<1>2. \A i \in 1..Len(s) : i = 1 \/ i = 2 \/ i = 3 \/ i = 4
  BY ONLY <1>1
<1>3. Names(s, Len(s)) = {"message_type", a.name, b.name, c.name, d.name}
  BY ONLY <1>1, <1>2 DEF Names
<1>4. HasFields(m, s)
  BY <1>1, <1>2, <1>3 DEF HasFields
<1> QED BY <1>4 DEF s

LEMMA Fields5 ==
    ASSUME NEW m, NEW a \in Field, NEW b \in Field, NEW c \in Field, NEW d \in Field, NEW e \in Field,
           m = Part(m, {"message_type", a.name, b.name, c.name, d.name, e.name}),
           m[a.name] \in Values(a.type), m[b.name] \in Values(b.type),
               m[c.name] \in Values(c.type), m[d.name] \in Values(d.type), m[e.name] \in Values(e.type)
    PROVE  HasFields(m, <<a, b, c, d, e>>)
<1> DEFINE s == <<a, b, c, d, e>>
<1>1. s \in Seq(Field) /\ Len(s) = 5 /\ s[1] = a /\ s[2] = b /\ s[3] = c /\ s[4] = d /\ s[5] = e
  OBVIOUS
<1> HIDE DEF s
<1>2. \A i \in 1..Len(s) : i = 1 \/ i = 2 \/ i = 3 \/ i = 4 \/ i = 5
  BY ONLY <1>1
<1>3. Names(s, Len(s)) = {"message_type", a.name, b.name, c.name, d.name, e.name}
  BY ONLY <1>1, <1>2 DEF Names
<1>4. HasFields(m, s)
  BY <1>1, <1>2, <1>3 DEF HasFields
<1> QED BY <1>4 DEF s

LEMMA AuthenticationRequestFields ==
    ASSUME NEW m \in [message_type : {"AuthenticationRequest"}, method : Characters, data : Characters]
    PROVE  HasFields(m, Written["AuthenticationRequest"])
<1>1. m = Part(m, {"message_type", "method", "data"})
  BY DEF Part
<1>2. m["method"] \in Characters /\ m["data"] \in Characters
  OBVIOUS
<1>3. "method" \in FieldName /\ "data" \in FieldName
  BY DEF FieldName
<1>4. Written["AuthenticationRequest"] = <<String("method"), String("data")>>
  BY DEF Written
<1> DEFINE a == String("method")
           b == String("data")
<1>5. a \in Field /\ a.name = "method" /\ Values(a.type) = Characters
  BY <1>3, FieldTyped
<1>6. b \in Field /\ b.name = "data" /\ Values(b.type) = Characters
  BY <1>3, FieldTyped
<1> HIDE DEF a, b
<1>7. HasFields(m, <<a, b>>)
  BY ONLY <1>1, <1>2, <1>5, <1>6, Fields2
<1> QED BY <1>4, <1>7, Zenon DEF a, b

LEMMA AuthenticationResponseFields ==
    ASSUME NEW m \in [message_type : {"AuthenticationResponse"}, is_authenticated : BOOLEAN]
    PROVE  HasFields(m, Written["AuthenticationResponse"])
<1>1. m = Part(m, {"message_type", "is_authenticated"})
  BY DEF Part
<1>2. m["is_authenticated"] \in BOOLEAN
  OBVIOUS
<1>3. "is_authenticated" \in FieldName
  BY DEF FieldName
<1>4. Written["AuthenticationResponse"] = <<Bool("is_authenticated")>>
  BY DEF Written
<1> DEFINE a == Bool("is_authenticated")
<1>5. a \in Field /\ a.name = "is_authenticated" /\ Values(a.type) = BOOLEAN
  BY <1>3, FieldTyped
<1> HIDE DEF a
<1>6. HasFields(m, <<a>>)
  BY ONLY <1>1, <1>2, <1>5, Fields1
<1> QED BY <1>4, <1>6, Zenon DEF a

LEMMA MulticastDataFields ==
    ASSUME NEW m \in [message_type : {"MulticastData"}, topic : Characters, data_packets : DataPackets]
    PROVE  HasFields(m, Written["MulticastData"])
<1>1. m = Part(m, {"message_type", "topic", "data_packets"})
  BY DEF Part
<1>2. m["topic"] \in Characters /\ m["data_packets"] \in DataPackets
  OBVIOUS
<1>3. "topic" \in FieldName /\ "data_packets" \in FieldName
  BY DEF FieldName
<1>4. Written["MulticastData"] = <<String("topic"), Packets("data_packets")>>
  BY DEF Written
<1> DEFINE a == String("topic")
           b == Packets("data_packets")
<1>5. a \in Field /\ a.name = "topic" /\ Values(a.type) = Characters
  BY <1>3, FieldTyped
<1>6. b \in Field /\ b.name = "data_packets" /\ Values(b.type) = DataPackets
  BY <1>3, FieldTyped
<1> HIDE DEF a, b
<1>7. HasFields(m, <<a, b>>)
  BY ONLY <1>1, <1>2, <1>5, <1>6, Fields2
<1> QED BY <1>4, <1>7, Zenon DEF a, b

LEMMA UnicastDataFields ==
    ASSUME NEW m \in [message_type : {"UnicastData"}, client_id : Characters, topic : Characters,
               data_packets : DataPackets]
    PROVE  HasFields(m, Written["UnicastData"])
<1>1. m = Part(m, {"message_type", "client_id", "topic", "data_packets"})
  BY DEF Part
<1>2. m["client_id"] \in Characters /\ m["topic"] \in Characters /\ m["data_packets"] \in DataPackets
  OBVIOUS
<1>3. "client_id" \in FieldName /\ "topic" \in FieldName /\ "data_packets" \in FieldName
  BY DEF FieldName
<1>4. Written["UnicastData"] = <<String("client_id"), String("topic"), Packets("data_packets")>>
  BY DEF Written
<1> DEFINE a == String("client_id")
           b == String("topic")
           c == Packets("data_packets")
<1>5. a \in Field /\ a.name = "client_id" /\ Values(a.type) = Characters
  BY <1>3, FieldTyped
<1>6. b \in Field /\ b.name = "topic" /\ Values(b.type) = Characters
  BY <1>3, FieldTyped
<1>7. c \in Field /\ c.name = "data_packets" /\ Values(c.type) = DataPackets
  BY <1>3, FieldTyped
<1> HIDE DEF a, b, c
<1>8. HasFields(m, <<a, b, c>>)
  BY ONLY <1>1, <1>2, <1>5, <1>6, <1>7, Fields3
<1> QED BY <1>4, <1>8, Zenon DEF a, b, c

LEMMA ForwardedSubscriptionRequestFields ==
    ASSUME NEW m \in [message_type : {"ForwardedSubscriptionRequest"}, user : Characters,
               host : Characters, client_id : Characters, topic : Characters, is_add : BOOLEAN]
    PROVE  HasFields(m, Written["ForwardedSubscriptionRequest"])
<1>1. m = Part(m, {"message_type", "user", "host", "client_id", "topic", "is_add"})
  BY DEF Part
<1>2. /\ m["user"] \in Characters /\ m["host"] \in Characters
      /\ m["client_id"] \in Characters /\ m["topic"] \in Characters
      /\ m["is_add"] \in BOOLEAN
  OBVIOUS
<1>3. /\ "user" \in FieldName /\ "host" \in FieldName /\ "client_id" \in FieldName
      /\ "topic" \in FieldName /\ "is_add" \in FieldName
  BY DEF FieldName
<1>4. Written["ForwardedSubscriptionRequest"] = <<String("user"), String("host"),
          String("client_id"), String("topic"), Bool("is_add")>>
  BY DEF Written
<1> DEFINE a == String("user")
           b == String("host")
           c == String("client_id")
           d == String("topic")
           e == Bool("is_add")
<1>5. a \in Field /\ a.name = "user" /\ Values(a.type) = Characters
  BY <1>3, FieldTyped
<1>6. b \in Field /\ b.name = "host" /\ Values(b.type) = Characters
  BY <1>3, FieldTyped
<1>7. c \in Field /\ c.name = "client_id" /\ Values(c.type) = Characters
  BY <1>3, FieldTyped
<1>8. d \in Field /\ d.name = "topic" /\ Values(d.type) = Characters
  BY <1>3, FieldTyped
<1>9. e \in Field /\ e.name = "is_add" /\ Values(e.type) = BOOLEAN
  BY <1>3, FieldTyped
<1> HIDE DEF a, b, c, d, e
<1>10. HasFields(m, <<a, b, c, d, e>>)
  BY ONLY <1>1, <1>2, <1>5, <1>6, <1>7, <1>8, <1>9, Fields5
<1> QED BY <1>4, <1>10, Zenon DEF a, b, c, d, e

LEMMA NotificationRequestFields ==
    ASSUME NEW m \in [message_type : {"NotificationRequest"}, topic_pattern : Characters,
               is_add : BOOLEAN]
    PROVE  HasFields(m, Written["NotificationRequest"])
<1>1. m = Part(m, {"message_type", "topic_pattern", "is_add"})
  BY DEF Part
<1>2. m["topic_pattern"] \in Characters /\ m["is_add"] \in BOOLEAN
  OBVIOUS
<1>3. "topic_pattern" \in FieldName /\ "is_add" \in FieldName
  BY DEF FieldName
<1>4. Written["NotificationRequest"] = <<String("topic_pattern"), Bool("is_add")>>
  BY DEF Written
<1> DEFINE a == String("topic_pattern")
           b == Bool("is_add")
<1>5. a \in Field /\ a.name = "topic_pattern" /\ Values(a.type) = Characters
  BY <1>3, FieldTyped
<1>6. b \in Field /\ b.name = "is_add" /\ Values(b.type) = BOOLEAN
  BY <1>3, FieldTyped
<1> HIDE DEF a, b
<1>7. HasFields(m, <<a, b>>)
  BY ONLY <1>1, <1>2, <1>5, <1>6, Fields2
<1> QED BY <1>4, <1>7, Zenon DEF a, b

LEMMA SubscriptionRequestFields ==
    ASSUME NEW m \in [message_type : {"SubscriptionRequest"}, topic : Characters, is_add : BOOLEAN]
    PROVE  HasFields(m, Written["SubscriptionRequest"])
<1>1. m = Part(m, {"message_type", "topic", "is_add"})
  BY DEF Part
<1>2. m["topic"] \in Characters /\ m["is_add"] \in BOOLEAN
  OBVIOUS
<1>3. "topic" \in FieldName /\ "is_add" \in FieldName
  BY DEF FieldName
<1>4. Written["SubscriptionRequest"] = <<String("topic"), Bool("is_add")>>
  BY DEF Written
<1> DEFINE a == String("topic")
           b == Bool("is_add")
<1>5. a \in Field /\ a.name = "topic" /\ Values(a.type) = Characters
  BY <1>3, FieldTyped
<1>6. b \in Field /\ b.name = "is_add" /\ Values(b.type) = BOOLEAN
  BY <1>3, FieldTyped
<1> HIDE DEF a, b
<1>7. HasFields(m, <<a, b>>)
  BY ONLY <1>1, <1>2, <1>5, <1>6, Fields2
<1> QED BY <1>4, <1>7, Zenon DEF a, b

LEMMA ForwardedMulticastDataFields ==
    ASSUME NEW m \in [message_type : {"ForwardedMulticastData"}, user : Characters,
               host : Characters, topic : Characters, data_packets : DataPackets]
    PROVE  HasFields(m, Written["ForwardedMulticastData"])
<1>1. m = Part(m, {"message_type", "user", "host", "topic", "data_packets"})
  BY DEF Part
<1>2. /\ m["user"] \in Characters /\ m["host"] \in Characters /\ m["topic"] \in Characters
      /\ m["data_packets"] \in DataPackets
  OBVIOUS
<1>3. /\ "user" \in FieldName /\ "host" \in FieldName /\ "topic" \in FieldName
      /\ "data_packets" \in FieldName
  BY DEF FieldName
<1>4. Written["ForwardedMulticastData"] = <<String("user"), String("host"), String("topic"),
          Packets("data_packets")>>
  BY DEF Written
<1> DEFINE a == String("user")
           b == String("host")
           c == String("topic")
           d == Packets("data_packets")
<1>5. a \in Field /\ a.name = "user" /\ Values(a.type) = Characters
  BY <1>3, FieldTyped
<1>6. b \in Field /\ b.name = "host" /\ Values(b.type) = Characters
  BY <1>3, FieldTyped
<1>7. c \in Field /\ c.name = "topic" /\ Values(c.type) = Characters
  BY <1>3, FieldTyped
<1>8. d \in Field /\ d.name = "data_packets" /\ Values(d.type) = DataPackets
  BY <1>3, FieldTyped
<1> HIDE DEF a, b, c, d
<1>9. HasFields(m, <<a, b, c, d>>)
  BY ONLY <1>1, <1>2, <1>5, <1>6, <1>7, <1>8, Fields4
<1> QED BY <1>4, <1>9, Zenon DEF a, b, c, d

LEMMA ForwardedUnicastDataFields ==
    ASSUME NEW m \in [message_type : {"ForwardedUnicastData"}, user : Characters,
               host : Characters, client_id : Characters, topic : Characters,
                   data_packets : DataPackets]
    PROVE  HasFields(m, Written["ForwardedUnicastData"])
<1>1. m = Part(m, {"message_type", "user", "host", "client_id", "topic", "data_packets"})
  BY DEF Part
<1>2. /\ m["user"] \in Characters /\ m["host"] \in Characters
      /\ m["client_id"] \in Characters /\ m["topic"] \in Characters
      /\ m["data_packets"] \in DataPackets
  OBVIOUS
<1>3. /\ "user" \in FieldName /\ "host" \in FieldName /\ "client_id" \in FieldName
      /\ "topic" \in FieldName /\ "data_packets" \in FieldName
  BY DEF FieldName
<1>4. Written["ForwardedUnicastData"] = <<String("user"), String("host"), String("client_id"),
          String("topic"), Packets("data_packets")>>
  BY DEF Written
<1> DEFINE a == String("user")
           b == String("host")
           c == String("client_id")
           d == String("topic")
           e == Packets("data_packets")
<1>5. a \in Field /\ a.name = "user" /\ Values(a.type) = Characters
  BY <1>3, FieldTyped
<1>6. b \in Field /\ b.name = "host" /\ Values(b.type) = Characters
  BY <1>3, FieldTyped
<1>7. c \in Field /\ c.name = "client_id" /\ Values(c.type) = Characters
  BY <1>3, FieldTyped
<1>8. d \in Field /\ d.name = "topic" /\ Values(d.type) = Characters
  BY <1>3, FieldTyped
<1>9. e \in Field /\ e.name = "data_packets" /\ Values(e.type) = DataPackets
  BY <1>3, FieldTyped
<1> HIDE DEF a, b, c, d, e
<1>10. HasFields(m, <<a, b, c, d, e>>)
  BY ONLY <1>1, <1>2, <1>5, <1>6, <1>7, <1>8, <1>9, Fields5
<1> QED BY <1>4, <1>10, Zenon DEF a, b, c, d, e

\* A message has the fields of its class, under whatever names the class writes them.
LEMMA EveryClass ==
    ASSUME NEW m \in AnyMessage
    PROVE  m.message_type \in DOMAIN MessageType /\ HasFields(m, Written[m.message_type])
<1>1. CASE m \in [message_type : {"AuthenticationRequest"}, method : Characters, data : Characters]
  <2>1. m.message_type = "AuthenticationRequest" /\ "AuthenticationRequest" \in DOMAIN MessageType
    BY <1>1 DEF MessageType
  <2> QED BY <1>1, <2>1, AuthenticationRequestFields
<1>2. CASE m \in [message_type : {"AuthenticationResponse"}, is_authenticated : BOOLEAN]
  <2>1. m.message_type = "AuthenticationResponse" /\ "AuthenticationResponse" \in DOMAIN MessageType
    BY <1>2 DEF MessageType
  <2> QED BY <1>2, <2>1, AuthenticationResponseFields
<1>3. CASE m \in [message_type : {"MulticastData"}, topic : Characters, data_packets : DataPackets]
  <2>1. m.message_type = "MulticastData" /\ "MulticastData" \in DOMAIN MessageType
    BY <1>3 DEF MessageType
  <2> QED BY <1>3, <2>1, MulticastDataFields
<1>4. CASE m \in [message_type : {"UnicastData"}, client_id : Characters, topic : Characters,
          data_packets : DataPackets]
  <2>1. m.message_type = "UnicastData" /\ "UnicastData" \in DOMAIN MessageType
    BY <1>4 DEF MessageType
  <2> QED BY <1>4, <2>1, UnicastDataFields
<1>5. CASE m \in [message_type : {"ForwardedSubscriptionRequest"}, user : Characters,
          host : Characters, client_id : Characters, topic : Characters, is_add : BOOLEAN]
  <2>1. /\ m.message_type = "ForwardedSubscriptionRequest"
        /\ "ForwardedSubscriptionRequest" \in DOMAIN MessageType
    BY <1>5 DEF MessageType
  <2> QED BY <1>5, <2>1, ForwardedSubscriptionRequestFields
<1>6. CASE m \in [message_type : {"NotificationRequest"}, topic_pattern : Characters, is_add : BOOLEAN]
  <2>1. m.message_type = "NotificationRequest" /\ "NotificationRequest" \in DOMAIN MessageType
    BY <1>6 DEF MessageType
  <2> QED BY <1>6, <2>1, NotificationRequestFields
<1>7. CASE m \in [message_type : {"SubscriptionRequest"}, topic : Characters, is_add : BOOLEAN]
  <2>1. m.message_type = "SubscriptionRequest" /\ "SubscriptionRequest" \in DOMAIN MessageType
    BY <1>7 DEF MessageType
  <2> QED BY <1>7, <2>1, SubscriptionRequestFields
<1>8. CASE m \in [message_type : {"ForwardedMulticastData"}, user : Characters, host : Characters,
          topic : Characters, data_packets : DataPackets]
  <2>1. m.message_type = "ForwardedMulticastData" /\ "ForwardedMulticastData" \in DOMAIN MessageType
    BY <1>8 DEF MessageType
  <2> QED BY <1>8, <2>1, ForwardedMulticastDataFields
<1>9. CASE m \in [message_type : {"ForwardedUnicastData"}, user : Characters, host : Characters,
          client_id : Characters, topic : Characters, data_packets : DataPackets]
  <2>1. m.message_type = "ForwardedUnicastData" /\ "ForwardedUnicastData" \in DOMAIN MessageType
    BY <1>9 DEF MessageType
  <2> QED BY <1>9, <2>1, ForwardedUnicastDataFields
<1> QED BY <1>1, <1>2, <1>3, <1>4, <1>5, <1>6, <1>7, <1>8, <1>9 DEF AnyMessage

\* The number of a type is its own.
LEMMA TypeNumbers ==
    /\ \A t \in DOMAIN MessageType : MessageType[t] \in Int
    /\ \A s, t \in DOMAIN MessageType : MessageType[s] = MessageType[t] => s = t
BY DEF MessageType

\* What deserialize makes of what serialize wrote is the message, whatever its class and the
\* values of its fields: Message::serialize and Message::deserialize are inverses.
LEMMA ReadAsWritten ==
    ASSUME NEW m \in AnyMessage
    PROVE  Serialize(m) \in Characters /\ Deserialize(Serialize(m)) = m
<1> DEFINE t      == m.message_type
           fields == Written[t]
           flat   == FlattenSeq([n \in DOMAIN fields |-> Put(fields[n].type, m[fields[n].name])])
           body   == Serialize(m)
           base   == [value |-> Part(m, {"message_type"}), rest |-> flat \o <<>>]
<1>1. t \in DOMAIN MessageType /\ HasFields(m, fields)
  BY EveryClass
<1>2. /\ flat \in Characters
      /\ FoldLeft(TakeField, base, fields) = [value |-> m, rest |-> <<>>]
  <2>1. <<>> \in Characters
    BY DEF Characters
  <2> QED BY <1>1, <2>1, FieldsReadBack
<1>3. flat \o <<>> = flat
  <2> HIDE DEF flat
  <2> QED BY <1>2 DEF Characters
<1>4. body = <<MessageType[t]>> \o flat
  BY DEF Serialize
<1>5. Part(m, {"message_type"}) = [message_type |-> t]
  BY <1>1 DEF HasFields, Part, Names
<1>6. Read[t] = fields
  BY DEF Read, Written
<1> HIDE DEF t, fields, flat
<1>7. body \in Characters /\ Head(body) = MessageType[t] /\ Tail(body) = flat
  <2>1. MessageType[t] \in Int /\ flat \in Seq(Int)
    BY <1>1, <1>2, TypeNumbers DEF Characters
  <2> HIDE DEF body
  <2> QED BY <1>4, <2>1, Prepended DEF Characters
<1> HIDE DEF body
<1>8. (CHOOSE s \in DOMAIN MessageType : MessageType[s] = Head(body)) = t
  BY <1>1, <1>7, TypeNumbers
<1>9. Deserialize(body) = FoldLeft(TakeField, base, fields).value
  BY <1>3, <1>5, <1>6, <1>7, <1>8 DEF Deserialize
<1> HIDE DEF base
<1> QED BY <1>2, <1>7, <1>9, Parts DEF body

\* [MessagesReadBack] A message of any class is read back as it was written, whatever its
\* fields: of _*.hpp and frame_buffer_io.hpp, no string is cut, no field taken for another,
\* no packet lost.
THEOREM MessagesAlwaysReadBack == Spec => []MessagesReadBack
<1>1. MessagesReadBack
  BY SessionAssumption, ReadAsWritten DEF MessagesReadBack
<1> QED BY <1>1, PTL

-----------------------------------------------------------------------------
(***************************************************************************)
(* Tokens                                                                  *)
(***************************************************************************)

Octets == 0..255

LEMMA Remainders ==
    ASSUME NEW y \in Nat
    PROVE  \E z \in Int : y % IntRange = y - 4096 * z
<1>1. IntRange \in Nat \ {0} /\ IntRange % 4096 = 0
  BY IntAssumption
<1> DEFINE k == IntRange \div 4096
           q == y \div IntRange
<1>2. k \in Nat /\ IntRange = 4096 * k
  BY <1>1
<1>3. q \in Int /\ y % IntRange = y - IntRange * q
  BY <1>1
<1> HIDE DEF k, q
<1>4. IntRange * q = 4096 * (k * q) /\ k * q \in Int
  BY <1>2, <1>3
<1> QED BY <1>3, <1>4

\* What a text has to do with its groups.
LEMMA GroupAt ==
    ASSUME NEW text, NEW q \in Nat, NEW j \in 0..3
    PROVE  Group(text, 4 * q + (j + 1))
            = (Octet(text, 3 * q + j) % 4^j) * 4^(3 - j) + Octet(text, (3 * q + j) + 1) \div 4^(j + 1)
<1> DEFINE m == 4 * q + (j + 1)
<1>1. (m - 1) % 4 = j /\ (m - 1) \div 4 = q
  OBVIOUS
<1> HIDE DEF m
<1>2. Group(text, m) = (Octet(text, 3 * q + j) % 4^j) * 4^(3 - j) + Octet(text,
          (3 * q + j) + 1) \div 4^(j + 1)
  BY ONLY <1>1, Zenon DEF Group
<1> QED BY <1>2 DEF m

LEMMA Powers ==
    /\ 4^0 = 1 /\ 4^1 = 4 /\ 4^2 = 16 /\ 4^3 = 64
    /\ 4^(3 - 0) = 64 /\ 4^(3 - 1) = 16 /\ 4^(3 - 2) = 4 /\ 4^(3 - 3) = 1
    /\ 4^(0 + 1) = 4 /\ 4^(1 + 1) = 16 /\ 4^(2 + 1) = 64 /\ 4^(3 + 1) = 256
OBVIOUS

HasGroups(text, q) ==
    LET first  == Octet(text, 3 * q + 1)
        second == Octet(text, 3 * q + 2)
        third  == Octet(text, 3 * q + 3)
    IN  /\ first \in Octets /\ second \in Octets /\ third \in Octets
        /\ Group(text, 4 * q + 1) = first \div 4
        /\ Group(text, 4 * q + 2) = (first % 4) * 16 + second \div 16
        /\ Group(text, 4 * q + 3) = (second % 16) * 4 + third \div 64
        /\ Group(text, 4 * q + 4) = third % 64

LEMMA GroupsOf ==
    ASSUME NEW text \in Seq(Octets), NEW q \in Nat
    PROVE  HasGroups(text, q)
<1>1. ASSUME NEW n \in Nat PROVE Octet(text, n) \in Octets
  <2>1. CASE n \in DOMAIN text
    <3>1. text[n] \in Octets
      BY <2>1
    <3> QED BY <2>1, <3>1 DEF Octet
  <2>2. CASE n \notin DOMAIN text
    <3>1. 0 \in Octets
      BY DEF Octets
    <3> QED BY <2>2, <3>1 DEF Octet
  <2> QED BY <2>1, <2>2
<1>2. Group(text, 4 * q + 1) = Octet(text, 3 * q + 1) \div 4
  <2>1. Group(text, 4 * q + (0 + 1))
            = (Octet(text, 3 * q + 0) % 4^0) * 4^(3 - 0) + Octet(text, (3 * q + 0) + 1) \div 4^(0 + 1)
    BY GroupAt
  <2>2. 4 * q + (0 + 1) = 4 * q + 1 /\ (3 * q + 0) + 1 = 3 * q + 1 
    OBVIOUS
  <2> DEFINE before == Octet(text, 3 * q + 0)
             first  == Octet(text, 3 * q + 1)
  <2> HIDE DEF before, first
  <2>6. 3 * q + 0 \in Nat /\ 3 * q + 1 \in Nat
    OBVIOUS
  <2>7. before \in Octets /\ first \in Octets
    BY ONLY <1>1, <2>6 DEF before, first
  <2>3. before \in Int /\ first \in Int
    BY ONLY <2>7 DEF Octets
  <2>4. Group(text, 4 * q + 1) = (before % 1) * 64 + first \div 4
    BY ONLY <2>1, <2>2, Powers DEF before, first
  <2>5. (before % 1) * 64 + first \div 4 = first \div 4
    BY ONLY <2>3
  <2> QED BY <2>4, <2>5 DEF first
<1>3. Group(text, 4 * q + 2) = (Octet(text, 3 * q + 1) % 4) * 16 + Octet(text, 3 * q + 2) \div 16
  <2>1. Group(text, 4 * q + (1 + 1))
            = (Octet(text, 3 * q + 1) % 4^1) * 4^(3 - 1) + Octet(text, (3 * q + 1) + 1) \div 4^(1 + 1)
    BY GroupAt
  <2>2. 4 * q + (1 + 1) = 4 * q + 2 /\ (3 * q + 1) + 1 = 3 * q + 2
    OBVIOUS
  <2> QED BY <2>1, <2>2, Powers
<1>4. Group(text, 4 * q + 3) = (Octet(text, 3 * q + 2) % 16) * 4 + Octet(text, 3 * q + 3) \div 64
  <2>1. Group(text, 4 * q + (2 + 1))
            = (Octet(text, 3 * q + 2) % 4^2) * 4^(3 - 2) + Octet(text, (3 * q + 2) + 1) \div 4^(2 + 1)
    BY GroupAt
  <2>2. 4 * q + (2 + 1) = 4 * q + 3 /\ (3 * q + 2) + 1 = 3 * q + 3
    OBVIOUS
  <2> QED BY <2>1, <2>2, Powers
<1>5. Group(text, 4 * q + 4) = Octet(text, 3 * q + 3) % 64
  <2>1. Group(text, 4 * q + (3 + 1))
            = (Octet(text, 3 * q + 3) % 4^3) * 4^(3 - 3) + Octet(text, (3 * q + 3) + 1) \div 4^(3 + 1)
    BY GroupAt
  <2>2. 4 * q + (3 + 1) = 4 * q + 4
    OBVIOUS
  <2> DEFINE third == Octet(text, 3 * q + 3)
             after == Octet(text, (3 * q + 3) + 1)
  <2>6. 3 * q + 3 \in Nat /\ (3 * q + 3) + 1 \in Nat
    OBVIOUS
  <2>7. third \in Octets /\ after \in Octets
    BY ONLY <1>1, <2>6
  <2>3. third \in 0..255 /\ after \in 0..255
    BY ONLY <2>7 DEF Octets
  <2> HIDE DEF third, after
  <2>4. Group(text, 4 * q + 4) = (third % 64) * 1 + after \div 256
    BY ONLY <2>1, <2>2, Powers DEF third, after
  <2>5. (third % 64) * 1 + after \div 256 = third % 64
    BY ONLY <2>3
  <2> QED BY <2>4, <2>5 DEF third
<1>6. 3 * q + 1 \in Nat /\ 3 * q + 2 \in Nat /\ 3 * q + 3 \in Nat
  OBVIOUS
<1> QED BY <1>1, <1>2, <1>3, <1>4, <1>5, <1>6 DEF HasGroups

\* The loop of base64_encode after n of the octets of a text.
Encoded(text, n, s) ==
    /\ s = [a |-> s.a, b |-> s.b, out |-> s.out]
    /\ s.a \in Nat /\ s.a % 256 = Octet(text, n)
    /\ s.b = 2 * (n % 3) - 6
    /\ s.out = [m \in 1..((4 * n) \div 3) |-> Group(text, m)]

LEMMA GroupsMore ==
    ASSUME NEW text, NEW k \in Nat
    PROVE  [m \in 1..k |-> Group(text, m)] \o <<Group(text, k + 1)>>
            = [m \in 1..(k + 1) |-> Group(text, m)]
<1> DEFINE T == {Group(text, m) : m \in Nat}
           s == [m \in 1..k |-> Group(text, m)]
           t == [m \in 1..(k + 1) |-> Group(text, m)]
           g == Group(text, k + 1)
           u == s \o <<g>>
<1>1. s \in Seq(T) /\ Len(s) = k /\ t \in Seq(T) /\ Len(t) = k + 1 /\ g \in T
  OBVIOUS
<1>2. (\A i \in 1..k : s[i] = t[i]) /\ t[k + 1] = g
  OBVIOUS
<1> HIDE DEF T, s, t, g
<1>3. u \in Seq(T) /\ Len(u) = k + 1 /\ u[k + 1] = g /\ \A i \in 1..k : u[i] = s[i]
  BY <1>1
<1> HIDE DEF u
<1>4. \A i \in 1..(k + 1) : i \in 1..k \/ i = k + 1
  OBVIOUS
<1>5. u = t
  BY <1>1, <1>2, <1>3, <1>4
<1> QED BY <1>5 DEF u, s, t, g

\* The bits that a turn of each loop takes, when o are the last eight of the accumulator
\* before it, or p the last six, and c is what the turn adds.
TakesSextets(r, c) ==
    LET a == Shift(r, 8, c)
        o == r % 256
    IN  /\ a \in Nat /\ a % 256 = c
        /\ Bits(a, 2, 6) = c \div 4 /\ Bits(a, 4, 6) = (o % 4) * 16 + c \div 16
        /\ Bits(a, 6, 6) = (o % 16) * 4 + c \div 64 /\ Bits(a, 0, 6) = c % 64

TakesOctets(r, c) ==
    LET a == Shift(r, 6, c)
        p == r % 64
    IN  /\ a \in Nat /\ a % 64 = c
        /\ Bits(a, 4, 8) = p * 4 + c \div 16 /\ Bits(a, 2, 8) = (p % 16) * 16 + c \div 4
        /\ Bits(a, 0, 8) = (p % 4) * 64 + c

LEMMA TakenSextets ==
    ASSUME NEW r \in Nat, NEW c \in Octets
    PROVE  TakesSextets(r, c)
<1> DEFINE a == Shift(r, 8, c)
           o == r % 256
           x == (o % 16) * 256 + c
<1>1. o \in 0..255 /\ c \in 0..255 /\ IntRange \in Nat \ {0}
  BY IntAssumption DEF Octets
<1>2. r % 16 = o % 16
  OBVIOUS
<1> HIDE DEF o
<1>3. PICK z \in Int : (r * 256) % IntRange = r * 256 - 4096 * z
  BY Remainders
<1>4. a = ((r * 256) % IntRange) + c
  BY DEF Shift
<1>5. a \in Nat
  BY <1>1, <1>4
<1> HIDE DEF a
<1>6. a % 4096 = x
  BY ONLY <1>1, <1>2, <1>3, <1>4, r \in Nat
<1>7. x \in Nat /\ (x \div 4) % 64 = c \div 4
  BY ONLY <1>1
<1>8. (x \div 16) % 64 = (o % 4) * 16 + c \div 16
  BY ONLY <1>1
<1>9. x \div 64 = (o % 16) * 4 + c \div 64 /\ x % 64 = c % 64 /\ x % 256 = c
  BY ONLY <1>1
<1> HIDE DEF x
<1>10. a % 256 = x % 256
  BY ONLY <1>5, <1>6, <1>7
<1>11. Bits(a, 2, 6) = (x \div 4) % 64
  BY ONLY <1>5, <1>6, <1>7 DEF Bits
<1>12. Bits(a, 4, 6) = (x \div 16) % 64
  BY ONLY <1>5, <1>6, <1>7 DEF Bits
<1>13. Bits(a, 6, 6) = x \div 64
  BY ONLY <1>5, <1>6, <1>7 DEF Bits
<1>14. Bits(a, 0, 6) = x % 64
  BY ONLY <1>5, <1>6, <1>7 DEF Bits
<1>15. /\ a % 256 = c
       /\ Bits(a, 2, 6) = c \div 4 /\ Bits(a, 4, 6) = (o % 4) * 16 + c \div 16
       /\ Bits(a, 6, 6) = (o % 16) * 4 + c \div 64 /\ Bits(a, 0, 6) = c % 64
  BY ONLY <1>7, <1>8, <1>9, <1>10, <1>11, <1>12, <1>13, <1>14
<1> QED BY ONLY <1>5, <1>15 DEF a, o, TakesSextets

LEMMA TakenOctets ==
    ASSUME NEW r \in Nat, NEW c \in 0..63
    PROVE  TakesOctets(r, c)
<1> DEFINE a == Shift(r, 6, c)
           p == r % 64
           x == p * 64 + c
<1>1. p \in 0..63 /\ c \in 0..63 /\ IntRange \in Nat \ {0}
  BY IntAssumption
<1>2. p = r % 64
  OBVIOUS
<1> HIDE DEF p
<1>3. PICK z \in Int : (r * 64) % IntRange = r * 64 - 4096 * z
  BY Remainders
<1>4. a = ((r * 64) % IntRange) + c
  BY DEF Shift
<1>5. a \in Nat
  BY <1>1, <1>4
<1> HIDE DEF a
<1>6. a % 4096 = x
  BY ONLY <1>1, <1>3, <1>4, <1>2, r \in Nat
<1>7. x \in Nat /\ x \div 16 = p * 4 + c \div 16
  BY ONLY <1>1
<1>8. (x \div 4) % 256 = (p % 16) * 16 + c \div 4
  BY ONLY <1>1
<1>9. x % 256 = (p % 4) * 64 + c /\ x % 64 = c
  BY ONLY <1>1
<1> HIDE DEF x
<1>10. a % 64 = x % 64
  BY ONLY <1>5, <1>6, <1>7
<1>11. Bits(a, 4, 8) = x \div 16
  BY ONLY <1>5, <1>6, <1>7 DEF Bits
<1>12. Bits(a, 2, 8) = (x \div 4) % 256
  BY ONLY <1>5, <1>6, <1>7 DEF Bits
<1>13. Bits(a, 0, 8) = x % 256
  BY ONLY <1>5, <1>6, <1>7 DEF Bits
<1>14. /\ a % 64 = c
       /\ Bits(a, 4, 8) = p * 4 + c \div 16 /\ Bits(a, 2, 8) = (p % 16) * 16 + c \div 4
       /\ Bits(a, 0, 8) = (p % 4) * 64 + c
  BY ONLY <1>7, <1>8, <1>9, <1>10, <1>11, <1>12, <1>13
<1> QED BY ONLY <1>5, <1>14 DEF a, p, TakesOctets

LEMMA EncodedMore ==
    ASSUME NEW text \in Seq(Octets), NEW n \in Nat, n < Len(text), NEW s, Encoded(text, n, s)
    PROVE  Encoded(text, n + 1, EncodeNext(s, text[n + 1]))
<1> DEFINE c  == text[n + 1]
           a  == Shift(s.a, 8, c)
           o  == Octet(text, n)
           q  == n \div 3
           t  == EncodeNext(s, c)
           gs(k) == [m \in 1..k |-> Group(text, m)]
<1> SUFFICES Encoded(text, n + 1, t)
  OBVIOUS
<1>1. c \in Octets /\ c = Octet(text, n + 1)
  BY DEF Octet
<1>2. s.a \in Nat /\ s.a % 256 = o /\ s.b = 2 * (n % 3) - 6 /\ s.out = gs((4 * n) \div 3)
  BY DEF Encoded
<1>3. TakesSextets(s.a, c)
  BY ONLY <1>1, <1>2, TakenSextets
<1> HIDE DEF c, o
<1>4. /\ a \in Nat /\ a % 256 = c
      /\ Bits(a, 2, 6) = c \div 4 /\ Bits(a, 4, 6) = (o % 4) * 16 + c \div 16
      /\ Bits(a, 6, 6) = (o % 16) * 4 + c \div 64 /\ Bits(a, 0, 6) = c % 64
  BY ONLY <1>2, <1>3 DEF TakesSextets
<1>5. /\ t = [a |-> t.a, b |-> t.b, out |-> t.out] /\ t.a = a
      /\ t.b = IF s.b + 8 < 6 THEN (s.b + 8) - 6 ELSE (s.b + 8) - 12
      /\ t.out = s.out \o Sextets(a, s.b + 8)
  <2> HIDE DEF a
  <2>1. t = [a |-> a, b |-> IF s.b + 8 < 6 THEN (s.b + 8) - 6 ELSE (s.b + 8) - 12,
             out |-> s.out \o Sextets(a, s.b + 8)]
    BY DEF EncodeNext, a
  <2> HIDE DEF t
  <2> QED BY ONLY <2>1
<1>12. /\ Sextets(a, 2) = <<Bits(a, 2, 6)>> /\ Sextets(a, 4) = <<Bits(a, 4, 6)>>
       /\ Sextets(a, 6) = <<Bits(a, 6, 6), Bits(a, 0, 6)>>
  BY ONLY DEF Sextets
<1>6. q \in Nat /\ HasGroups(text, q)
  BY GroupsOf
<1>7. \A k \in Nat : gs(k) \o <<Group(text, k + 1)>> = gs(k + 1)
  BY GroupsMore
<1> HIDE DEF a, t, q, gs
<1>13. t.a \in Nat /\ t.a % 256 = Octet(text, n + 1)
  BY ONLY <1>1, <1>4, <1>5
<1>14. ASSUME t.b = 2 * ((n + 1) % 3) - 6, t.out = gs((4 * (n + 1)) \div 3)
       PROVE  Encoded(text, n + 1, t)
  BY ONLY <1>5, <1>13, <1>14, Zenon DEF Encoded, gs
<1>8. CASE n % 3 = 0
  <2>1. n = 3 * q /\ (n + 1) % 3 = 1 /\ (4 * n) \div 3 = 4 * q /\ (4 * (n + 1)) \div 3 = 4 * q + 1
    BY <1>8 DEF q
  <2>2. s.b = -6 /\ t.b = -4 /\ t.out = s.out \o <<Bits(a, 2, 6)>>
    <3>1. s.b = -6 /\ s.b + 8 = 2
      BY ONLY <1>2, <1>8
    <3>2. t.out = s.out \o Sextets(a, s.b + 8)
      BY ONLY <1>5
    <3>3. t.b = IF s.b + 8 < 6 THEN (s.b + 8) - 6 ELSE (s.b + 8) - 12
      BY ONLY <1>5
    <3>4. t.b = -4
      BY ONLY <3>1, <3>3
    <3>5. t.out = s.out \o Sextets(a, 2)
      BY ONLY <3>1, <3>2, Zenon
    <3>6. Sextets(a, 2) = <<Bits(a, 2, 6)>>
      BY ONLY <1>12
    <3> QED BY ONLY <3>1, <3>4, <3>5, <3>6, Zenon
  <2>3. Bits(a, 2, 6) = Group(text, 4 * q + 1)
    BY ONLY <1>1, <1>4, <1>6, <2>1 DEF HasGroups
  <2>4. t.out = gs(4 * q + 1)
    <3>1. gs(4 * q) \o <<Group(text, 4 * q + 1)>> = gs(4 * q + 1)
      BY ONLY <1>6, <1>7
    <3>2. s.out = gs(4 * q)
      BY ONLY <1>2, <2>1, Zenon
    <3> QED BY ONLY <2>2, <2>3, <3>1, <3>2, Zenon
  <2>5. t.b = 2 * ((n + 1) % 3) - 6
    BY ONLY <2>1, <2>2
  <2>6. t.out = gs((4 * (n + 1)) \div 3)
    BY ONLY <2>1, <2>4, Zenon
  <2> QED BY ONLY <1>14, <2>5, <2>6
<1>9. CASE n % 3 = 1
  <2>1. /\ n = 3 * q + 1 /\ (n + 1) % 3 = 2 /\ (4 * n) \div 3 = 4 * q + 1
        /\ (4 * (n + 1)) \div 3 = 4 * q + 2 /\ n + 1 = 3 * q + 2
    BY <1>9 DEF q
  <2>2. s.b = -4 /\ t.b = -2 /\ t.out = s.out \o <<Bits(a, 4, 6)>>
    <3>1. s.b = -4 /\ s.b + 8 = 4
      BY ONLY <1>2, <1>9
    <3>2. t.out = s.out \o Sextets(a, s.b + 8)
      BY ONLY <1>5
    <3>3. t.b = IF s.b + 8 < 6 THEN (s.b + 8) - 6 ELSE (s.b + 8) - 12
      BY ONLY <1>5
    <3>4. t.b = -2
      BY ONLY <3>1, <3>3
    <3>5. t.out = s.out \o Sextets(a, 4)
      BY ONLY <3>1, <3>2, Zenon
    <3>6. Sextets(a, 4) = <<Bits(a, 4, 6)>>
      BY ONLY <1>12
    <3> QED BY ONLY <3>1, <3>4, <3>5, <3>6, Zenon
  <2>3. Bits(a, 4, 6) = Group(text, 4 * q + 2)
    BY ONLY <1>1, <1>4, <1>6, <2>1 DEF HasGroups, o
  <2>4. t.out = gs(4 * q + 2)
    <3>1. gs(4 * q + 1) \o <<Group(text, (4 * q + 1) + 1)>> = gs((4 * q + 1) + 1)
      BY ONLY <1>6, <1>7
    <3>2. (4 * q + 1) + 1 = 4 * q + 2
      BY ONLY <1>6
    <3> QED BY ONLY <1>2, <2>1, <2>2, <2>3, <3>1, <3>2
  <2>5. t.b = 2 * ((n + 1) % 3) - 6
    BY ONLY <2>1, <2>2
  <2>6. t.out = gs((4 * (n + 1)) \div 3)
    BY ONLY <2>1, <2>4, Zenon
  <2> QED BY ONLY <1>14, <2>5, <2>6
<1>10. CASE n % 3 = 2
  <2>1. /\ n = 3 * q + 2 /\ (n + 1) % 3 = 0 /\ (4 * n) \div 3 = 4 * q + 2
        /\ (4 * (n + 1)) \div 3 = 4 * q + 4 /\ n + 1 = 3 * q + 3
    BY <1>10 DEF q
  <2>2. s.b = -2 /\ t.b = -6 /\ t.out = s.out \o <<Bits(a, 6, 6), Bits(a, 0, 6)>>
    <3>1. s.b = -2 /\ s.b + 8 = 6
      BY ONLY <1>2, <1>10
    <3>2. t.out = s.out \o Sextets(a, s.b + 8)
      BY ONLY <1>5
    <3>3. t.b = IF s.b + 8 < 6 THEN (s.b + 8) - 6 ELSE (s.b + 8) - 12
      BY ONLY <1>5
    <3>4. t.b = -6
      BY ONLY <3>1, <3>3
    <3>5. t.out = s.out \o Sextets(a, 6)
      BY ONLY <3>1, <3>2, Zenon
    <3>6. Sextets(a, 6) = <<Bits(a, 6, 6), Bits(a, 0, 6)>>
      BY ONLY <1>12
    <3> QED BY ONLY <3>1, <3>4, <3>5, <3>6, Zenon
  <2>3. Bits(a, 6, 6) = Group(text, 4 * q + 3) /\ Bits(a, 0, 6) = Group(text, 4 * q + 4)
    BY ONLY <1>1, <1>4, <1>6, <2>1 DEF HasGroups, o
  <2>4. t.out = gs(4 * q + 4)
    <3>1. gs(4 * q + 2) \o <<Group(text, (4 * q + 2) + 1)>> = gs((4 * q + 2) + 1)
      BY ONLY <1>6, <1>7
    <3>2. gs(4 * q + 3) \o <<Group(text, (4 * q + 3) + 1)>> = gs((4 * q + 3) + 1)
      BY ONLY <1>6, <1>7
    <3>3. (4 * q + 2) + 1 = 4 * q + 3 /\ (4 * q + 3) + 1 = 4 * q + 4
      BY ONLY <1>6
    <3>4. s.out = gs(4 * q + 2)
      BY ONLY <1>2, <2>1
    <3> DEFINE T == {Group(text, m) : m \in Nat}
               u == s.out
    <3>7. /\ 4 * q + 2 \in Nat /\ 4 * q + 3 \in Nat /\ 4 * q + 4 \in Nat
          /\ \A m \in Nat : Group(text, m) \in T
      BY ONLY <1>6
    <3>8. gs(4 * q + 2) \in Seq(T)
      <4> HIDE DEF T
      <4> QED BY ONLY <3>7 DEF gs
    <3> HIDE DEF T, u
    <3>5. u \in Seq(T) /\ Group(text, 4 * q + 3) \in T /\ Group(text, 4 * q + 4) \in T
      BY ONLY <3>4, <3>7, <3>8 DEF u
    <3>6. u \o <<Group(text, 4 * q + 3), Group(text, 4 * q + 4)>>
            = (u \o <<Group(text, 4 * q + 3)>>) \o <<Group(text, 4 * q + 4)>>
      BY ONLY <3>5
    <3> QED BY ONLY <2>2, <2>3, <3>1, <3>2, <3>3, <3>4, <3>6 DEF u
  <2>5. t.b = 2 * ((n + 1) % 3) - 6
    BY ONLY <2>1, <2>2
  <2>6. t.out = gs((4 * (n + 1)) \div 3)
    BY ONLY <2>1, <2>4, Zenon
  <2> QED BY ONLY <1>14, <2>5, <2>6
<1>11. n % 3 \in {0, 1, 2}
  OBVIOUS
<1> QED BY <1>8, <1>9, <1>10, <1>11

LEMMA SameLoops ==
    /\ \A base, s : FoldLeft(EncodeNext, base, s) = Encoder!Fold(base, s)
    /\ \A base, s : FoldLeft(DecodeNext, base, s) = Decoder!Fold(base, s)
<1>1. \A base, s : FoldLeft(EncodeNext, base, s) = Encoder!Fold(base, s)
  BY DEF FoldLeft, MapThenFoldSet, Max, Encoder!Fold, Encoder!FoldLeft, Encoder!MapThenFoldSet,
         Encoder!Max
<1>2. \A base, s : FoldLeft(DecodeNext, base, s) = Decoder!Fold(base, s)
  BY DEF FoldLeft, MapThenFoldSet, Max, Decoder!Fold, Decoder!FoldLeft, Decoder!MapThenFoldSet,
         Decoder!Max
<1> QED BY <1>1, <1>2

LEMMA LoopEncoded ==
    ASSUME NEW text \in Seq(Octets)
    PROVE  Encoded(text, Len(text), FoldLeft(EncodeNext, [a |-> 0, b |-> -6, out |-> <<>>], text))
<1> DEFINE base == [a |-> 0, b |-> -6, out |-> <<>>]
           N == {n \in Nat : n <= Len(text) => Encoded(text, n, Encoder!Fold(base, SubSeq(text, 1, n)))}
<1>1. 0 \in N
  <2>1. Encoder!Fold(base, SubSeq(text, 1, 0)) = base
    <3>1. SubSeq(text, 1, 0) = <<>>
      OBVIOUS
    <3> QED BY <3>1, Encoder!FoldNothing
  <2>2. Octet(text, 0) = 0
    BY DEF Octet
  <2>3. [m \in 1..((4 * 0) \div 3) |-> Group(text, m)] = <<>>
    OBVIOUS
  <2>4. Encoded(text, 0, base)
    BY <2>2, <2>3 DEF Encoded
  <2> QED BY <2>1, <2>4
<1>2. ASSUME NEW n \in N PROVE n + 1 \in N
  <2> SUFFICES ASSUME n + 1 <= Len(text)
               PROVE  Encoded(text, n + 1, Encoder!Fold(base, SubSeq(text, 1, n + 1)))
    OBVIOUS
  <2> DEFINE m == n + 1
             s == Encoder!Fold(base, SubSeq(text, 1, n))
  <2>1. n \in Nat /\ n < Len(text) /\ Encoded(text, n, s) /\ m \in 1..Len(text) /\ m - 1 = n
    OBVIOUS
  <2>2. Encoded(text, n + 1, EncodeNext(s, text[n + 1]))
    BY <2>1, EncodedMore
  <2> HIDE DEF m, base
  <2>3. Encoder!Fold(base, SubSeq(text, 1, m)) = EncodeNext(Encoder!Fold(base, SubSeq(text, 1,
            m - 1)), text[m])
    BY <2>1, Encoder!FoldUpTo
  <2> QED BY <2>1, <2>2, <2>3 DEF m
<1>3. N \in SUBSET Nat
  OBVIOUS
<1> HIDE DEF N
<1>4. N = Nat
  BY <1>1, <1>2, <1>3, Encoder!Induction
<1>5. Len(text) \in Nat /\ SubSeq(text, 1, Len(text)) = text
  OBVIOUS
<1> HIDE DEF base
<1>6. Encoded(text, Len(text), Encoder!Fold(base, SubSeq(text, 1, Len(text))))
  BY <1>4, <1>5 DEF N
<1>7. Encoded(text, Len(text), Encoder!Fold(base, text))
  BY ONLY <1>5, <1>6, Zenon
<1> QED BY <1>7, SameLoops DEF base

Pads(n) == [m \in 1..((-n) % 4) |-> Pad]

\* base64_encode writes the groups of the text and the padding, whatever its length, although
\* the accumulator overflows.
LEMMA EncodedGroups ==
    ASSUME NEW text \in Seq(Octets)
    PROVE  Encode(text) = Groups(text) \o Pads(Len(Groups(text)))
<1> DEFINE n    == Len(text)
           q    == n \div 3
           last == FoldLeft(EncodeNext, [a |-> 0, b |-> -6, out |-> <<>>], text)
           rest == IF last.b > -6 THEN <<Bits(Shift(last.a, 8, 0), last.b + 8, 6)>> ELSE <<>>
           gs(k) == [m \in 1..k |-> Group(text, m)]
<1>1. n \in Nat /\ q \in Nat /\ HasGroups(text, q)
  BY GroupsOf
<1>2. Encode(text) = (last.out \o rest) \o Pads(Len(last.out \o rest))
  BY DEF Encode, Pads
<1>3. Encoded(text, n, last)
  BY LoopEncoded
<1>4. Groups(text) = gs((4 * n + 2) \div 3)
  BY DEF Groups
<1>5. \A k \in Nat : gs(k) \o <<Group(text, k + 1)>> = gs(k + 1)
  BY GroupsMore
<1> HIDE DEF last, gs, q, n
<1>6. last.a \in Nat /\ last.a % 256 = Octet(text,
          n) /\ last.b = 2 * (n % 3) - 6 /\ last.out = gs((4 * n) \div 3)
  BY <1>3 DEF Encoded, gs
<1> DEFINE a == Shift(last.a, 8, 0)
           o == Octet(text, n)
<1> HIDE DEF a, o
<1>7. /\ Bits(a, 4, 6) = (o % 4) * 16 + 0 \div 16
      /\ Bits(a, 6, 6) = (o % 16) * 4 + 0 \div 64
  <2>1. 0 \in Octets
    BY DEF Octets
  <2>2. TakesSextets(last.a, 0)
    BY ONLY <1>6, <2>1, TakenSextets
  <2> QED BY ONLY <1>6, <2>2 DEF TakesSextets, a, o
<1>8. \A k \in Nat : k > n => Octet(text, k) = 0
  BY DEF n, Octet
<1>9. last.out \o rest = Groups(text)
  <2>1. CASE n % 3 = 0
    <3>1. last.b = -6 /\ (4 * n + 2) \div 3 = (4 * n) \div 3 /\ (4 * n) \div 3 \in Nat
      BY ONLY <1>1, <1>6, <2>1
    <3>2. rest = <<>>
      BY ONLY <3>1
    <3>3. gs((4 * n) \div 3) \o <<>> = gs((4 * n) \div 3)
      BY ONLY <3>1 DEF gs
    <3> QED BY ONLY <1>4, <1>6, <3>1, <3>2, <3>3, Zenon
  <2>2. CASE n % 3 = 1
    <3>1. /\ n = 3 * q + 1 /\ 3 * q + 2 > n /\ last.b = -4 /\ last.b + 8 = 4
          /\ (4 * n) \div 3 = 4 * q + 1 /\ (4 * n + 2) \div 3 = (4 * q + 1) + 1 /\ (4 * q + 1) + 1 = 4 * q + 2
      BY ONLY <1>1, <1>6, <2>2 DEF q
    <3>2. rest = <<Bits(a, 4, 6)>>
      BY ONLY <3>1 DEF a
    <3>3. Bits(a, 4, 6) = Group(text, (4 * q + 1) + 1)
      <4>1. Octet(text, 3 * q + 2) = 0
        BY ONLY <1>1, <1>8, <3>1
      <4> QED BY ONLY <1>1, <1>7, <3>1, <4>1 DEF HasGroups, o
    <3>4. gs(4 * q + 1) \o <<Group(text, (4 * q + 1) + 1)>> = gs((4 * q + 1) + 1)
      BY ONLY <1>1, <1>5
    <3> QED BY ONLY <1>4, <1>6, <3>1, <3>2, <3>3, <3>4, Zenon
  <2>3. CASE n % 3 = 2
    <3>1. /\ n = 3 * q + 2 /\ 3 * q + 3 > n /\ last.b = -2 /\ last.b + 8 = 6
          /\ (4 * n) \div 3 = 4 * q + 2 /\ (4 * n + 2) \div 3 = (4 * q + 2) + 1 /\ (4 * q + 2) + 1 = 4 * q + 3
      BY ONLY <1>1, <1>6, <2>3 DEF q
    <3>2. rest = <<Bits(a, 6, 6)>>
      BY ONLY <3>1 DEF a
    <3>3. Bits(a, 6, 6) = Group(text, (4 * q + 2) + 1)
      <4>1. Octet(text, 3 * q + 3) = 0
        BY ONLY <1>1, <1>8, <3>1
      <4> QED BY ONLY <1>1, <1>7, <3>1, <4>1 DEF HasGroups, o
    <3>4. gs(4 * q + 2) \o <<Group(text, (4 * q + 2) + 1)>> = gs((4 * q + 2) + 1)
      BY ONLY <1>1, <1>5
    <3> QED BY ONLY <1>4, <1>6, <3>1, <3>2, <3>3, <3>4, Zenon
  <2>4. n % 3 \in {0, 1, 2}
    BY <1>1
  <2> QED BY <2>1, <2>2, <2>3, <2>4
<1> QED BY <1>2, <1>9

-----------------------------------------------------------------------------

\* The loop of base64_decode after k of the groups of a text.
Decoded(text, k, s) ==
    /\ s = [a |-> s.a, b |-> s.b, out |-> s.out]
    /\ s.a \in Nat /\ (k > 0 => s.a % 64 = Group(text, k))
    /\ s.b = IF k % 4 = 0 THEN -8 ELSE -2 * (k % 4)
    /\ s.out = SubSeq(text, 1, (3 * k) \div 4)

LEMMA GroupRange ==
    ASSUME NEW text \in Seq(Octets), NEW m \in Nat, m > 0
    PROVE  Group(text, m) \in 0..63
<1> DEFINE q == (m - 1) \div 4
<1>1. q \in Nat /\ (m = 4 * q + 1 \/ m = 4 * q + 2 \/ m = 4 * q + 3 \/ m = 4 * q + 4)
  OBVIOUS
<1>2. HasGroups(text, q)
  BY <1>1, GroupsOf
<1> HIDE DEF q
<1> DEFINE first  == Octet(text, 3 * q + 1)
           second == Octet(text, 3 * q + 2)
           third  == Octet(text, 3 * q + 3)
<1>3. first \in 0..255 /\ second \in 0..255 /\ third \in 0..255
  BY <1>2 DEF HasGroups, Octets
<1>4. /\ Group(text, 4 * q + 1) = first \div 4
      /\ Group(text, 4 * q + 2) = (first % 4) * 16 + second \div 16
      /\ Group(text, 4 * q + 3) = (second % 16) * 4 + third \div 64
      /\ Group(text, 4 * q + 4) = third % 64
  BY <1>2 DEF HasGroups
<1> HIDE DEF first, second, third
<1>5. /\ first \div 4 \in 0..63 /\ (first % 4) * 16 + second \div 16 \in 0..63
      /\ (second % 16) * 4 + third \div 64 \in 0..63 /\ third % 64 \in 0..63
  BY ONLY <1>3
<1> QED BY ONLY <1>1, <1>4, <1>5

LEMMA DecodedMore ==
    ASSUME NEW text \in Seq(Octets), NEW k \in Nat, k < (4 * Len(text) + 2) \div 3,
           NEW s, Decoded(text, k, s)
    PROVE  Decoded(text, k + 1, DecodeNext(s, Group(text, k + 1)))
<1> DEFINE c  == Group(text, k + 1)
           p  == Group(text, k)
           a  == Shift(s.a, 6, c)
           q  == k \div 4
           t  == DecodeNext(s, c)
           b  == s.b + 6
           upto(n) == SubSeq(text, 1, n)
<1> SUFFICES Decoded(text, k + 1, t)
  OBVIOUS
<1>1. c \in 0..63
  <2> DEFINE m == k + 1
  <2>1. m \in Nat /\ m > 0
    OBVIOUS
  <2> HIDE DEF m
  <2>2. Group(text, m) \in 0..63
    BY ONLY <2>1, text \in Seq(Octets), GroupRange
  <2> QED BY <2>2 DEF m
<1>2. /\ s.a \in Nat /\ (k > 0 => s.a % 64 = p) /\ s.out = upto((3 * k) \div 4)
      /\ s.b = IF k % 4 = 0 THEN -8 ELSE -2 * (k % 4)
  BY DEF Decoded
<1>3. TakesOctets(s.a, c)
  BY ONLY <1>1, <1>2, TakenOctets
<1>4. /\ a \in Nat /\ a % 64 = c
      /\ k > 0 => /\ Bits(a, 4, 8) = p * 4 + c \div 16 /\ Bits(a, 2, 8) = (p % 16) * 16 + c \div 4
                  /\ Bits(a, 0, 8) = (p % 4) * 64 + c
  <2> HIDE DEF p, c
  <2> QED BY ONLY <1>2, <1>3 DEF TakesOctets, a
<1>5. /\ t = [a |-> t.a, b |-> t.b, out |-> t.out] /\ t.a = a
      /\ t.b = IF b >= 0 THEN b - 8 ELSE b
      /\ t.out = IF b >= 0 THEN Append(s.out, Bits(a, b, 8)) ELSE s.out
  <2> HIDE DEF a, c
  <2>1. t = IF b >= 0 THEN [a |-> a, b |-> b - 8, out |-> Append(s.out, Bits(a, b, 8))]
            ELSE [a |-> a, b |-> b, out |-> s.out]
    BY DEF DecodeNext, a
  <2> HIDE DEF t, b
  <2> QED BY ONLY <2>1
<1>6. q \in Nat /\ HasGroups(text, q) /\ Len(text) \in Nat
  BY GroupsOf
<1>7. ASSUME NEW n \in Nat, n < Len(text)
      PROVE  Append(upto(n), Octet(text, n + 1)) = upto(n + 1)
  <2>1. n + 1 \in DOMAIN text
    BY <1>7
  <2>2. Octet(text, n + 1) = text[n + 1]
    BY ONLY <2>1 DEF Octet
  <2>3. Append(SubSeq(text, 1, n), text[n + 1]) = SubSeq(text, 1, n + 1)
    BY <1>7
  <2> QED BY ONLY <2>2, <2>3, Zenon DEF upto
<1> HIDE DEF a, t, q, c, p, b, upto
<1>8. t.a \in Nat /\ t.a % 64 = Group(text, k + 1)
  BY ONLY <1>4, <1>5 DEF c
<1>9. ASSUME t.b = (IF (k + 1) % 4 = 0 THEN -8 ELSE -2 * ((k + 1) % 4)),
                 t.out = upto((3 * (k + 1)) \div 4)
      PROVE  Decoded(text, k + 1, t)
  BY ONLY <1>5, <1>8, <1>9, Zenon DEF Decoded, upto
<1>15. Octet(text, 3 * q + 1) \in 0..255 /\ Octet(text, 3 * q + 2) \in 0..255 /\ Octet(text,
           3 * q + 3) \in 0..255
  BY ONLY <1>6 DEF HasGroups, Octets
<1> DEFINE first  == Octet(text, 3 * q + 1)
           second == Octet(text, 3 * q + 2)
           third  == Octet(text, 3 * q + 3)
<1>16. /\ Group(text, 4 * q + 1) = first \div 4
       /\ Group(text, 4 * q + 2) = (first % 4) * 16 + second \div 16
       /\ Group(text, 4 * q + 3) = (second % 16) * 4 + third \div 64
       /\ Group(text, 4 * q + 4) = third % 64
  BY ONLY <1>6 DEF HasGroups
<1> HIDE DEF first, second, third
<1>17. first \in 0..255 /\ second \in 0..255 /\ third \in 0..255
  BY ONLY <1>15 DEF first, second, third
<1>10. CASE k % 4 = 0
  <2>1. (k + 1) % 4 = 1 /\ (3 * (k + 1)) \div 4 = (3 * k) \div 4
    BY ONLY <1>10, k \in Nat
  <2>2. s.b = -8 /\ b = -2
    BY ONLY <1>2, <1>10 DEF b
  <2>3. t.b = -2 /\ t.out = s.out
    BY ONLY <1>5, <2>2
  <2>4. t.b = IF (k + 1) % 4 = 0 THEN -8 ELSE -2 * ((k + 1) % 4)
    BY ONLY <2>1, <2>3
  <2>5. t.out = upto((3 * (k + 1)) \div 4)
    BY ONLY <1>2, <2>1, <2>3, Zenon
  <2> QED BY ONLY <1>9, <2>4, <2>5
<1>11. CASE k % 4 = 1
  <2>1. k = 4 * q + 1 /\ k + 1 = 4 * q + 2 /\ k > 0
    BY ONLY <1>6, <1>11, k \in Nat DEF q
  <2>2. (k + 1) % 4 = 2
    BY ONLY <1>6, <2>1
  <2>3. /\ (3 * k) \div 4 = 3 * q /\ (3 * (k + 1)) \div 4 = 3 * q + 1
        /\ 3 * q \in Nat /\ 3 * q < Len(text)
    BY ONLY <1>6, <2>1, k < (4 * Len(text) + 2) \div 3
  <2>4. s.b = -2 /\ b = 4
    BY ONLY <1>2, <1>11 DEF b
  <2>5. t.b = -4
    BY ONLY <1>5, <2>4
  <2>6. t.out = Append(s.out, Bits(a, 4, 8))
    <3>1. t.out = Append(s.out, Bits(a, b, 8))
      BY ONLY <1>5, <2>4
    <3> QED BY ONLY <2>4, <3>1, Zenon
  <2>7. Bits(a, 4, 8) = first
    <3>1. Bits(a, 4, 8) = p * 4 + c \div 16
      BY ONLY <1>4, <2>1
    <3>2. p * 4 + c \div 16 = (first \div 4) * 4 + ((first % 4) * 16 + second \div 16) \div 16
      BY ONLY <1>16, <2>1 DEF c, p
    <3>3. (first \div 4) * 4 + ((first % 4) * 16 + second \div 16) \div 16 = first
      BY ONLY <1>17
    <3> QED BY ONLY <3>1, <3>2, <3>3, Zenon
  <2>8. t.b = IF (k + 1) % 4 = 0 THEN -8 ELSE -2 * ((k + 1) % 4)
    BY ONLY <2>2, <2>5
  <2>9. t.out = upto((3 * (k + 1)) \div 4)
    <3>1. Append(upto(3 * q), first) = upto(3 * q + 1)
      BY ONLY <1>7, <2>3 DEF first
    <3> QED BY ONLY <1>2, <2>3, <2>6, <2>7, <3>1, Zenon
  <2> QED BY ONLY <1>9, <2>8, <2>9
<1>12. CASE k % 4 = 2
  <2>1. k = 4 * q + 2 /\ k + 1 = 4 * q + 3 /\ k > 0
    BY ONLY <1>6, <1>12, k \in Nat DEF q
  <2>2. (k + 1) % 4 = 3
    BY ONLY <1>6, <2>1
  <2>3. /\ (3 * k) \div 4 = 3 * q + 1 /\ (3 * (k + 1)) \div 4 = 3 * q + 2
        /\ 3 * q + 1 \in Nat /\ 3 * q + 1 < Len(text) /\ (3 * q + 1) + 1 = 3 * q + 2
    BY ONLY <1>6, <2>1, k < (4 * Len(text) + 2) \div 3
  <2>4. s.b = -4 /\ b = 2
    BY ONLY <1>2, <1>12 DEF b
  <2>5. t.b = -6
    BY ONLY <1>5, <2>4
  <2>6. t.out = Append(s.out, Bits(a, 2, 8))
    <3>1. t.out = Append(s.out, Bits(a, b, 8))
      BY ONLY <1>5, <2>4
    <3> QED BY ONLY <2>4, <3>1, Zenon
  <2>7. Bits(a, 2, 8) = second
    <3>1. Bits(a, 2, 8) = (p % 16) * 16 + c \div 4
      BY ONLY <1>4, <2>1
    <3>2. (p % 16) * 16 + c \div 4 = (((first % 4) * 16 + second \div 16) % 16) * 16 + ((second % 16) * 4 + third \div 64) \div 4
      BY ONLY <1>16, <2>1 DEF c, p
    <3>3. (((first % 4) * 16 + second \div 16) % 16) * 16 + ((second % 16) * 4 + third \div 64) \div 4 = second
      BY ONLY <1>17
    <3> QED BY ONLY <3>1, <3>2, <3>3, Zenon
  <2>8. t.b = IF (k + 1) % 4 = 0 THEN -8 ELSE -2 * ((k + 1) % 4)
    BY ONLY <2>2, <2>5
  <2>9. t.out = upto((3 * (k + 1)) \div 4)
    <3>1. Append(upto(3 * q + 1), second) = upto(3 * q + 2)
      BY ONLY <1>7, <2>3 DEF second
    <3> QED BY ONLY <1>2, <2>3, <2>6, <2>7, <3>1, Zenon
  <2> QED BY ONLY <1>9, <2>8, <2>9
<1>13. CASE k % 4 = 3
  <2>1. k = 4 * q + 3 /\ k + 1 = 4 * q + 4 /\ k > 0
    BY ONLY <1>6, <1>13, k \in Nat DEF q
  <2>2. (k + 1) % 4 = 0
    BY ONLY <1>6, <2>1
  <2>3. /\ (3 * k) \div 4 = 3 * q + 2 /\ (3 * (k + 1)) \div 4 = 3 * q + 3
        /\ 3 * q + 2 \in Nat /\ 3 * q + 2 < Len(text) /\ (3 * q + 2) + 1 = 3 * q + 3
    BY ONLY <1>6, <2>1, k < (4 * Len(text) + 2) \div 3
  <2>4. s.b = -6 /\ b = 0
    BY ONLY <1>2, <1>13 DEF b
  <2>5. t.b = -8
    BY ONLY <1>5, <2>4
  <2>6. t.out = Append(s.out, Bits(a, 0, 8))
    <3>1. t.out = Append(s.out, Bits(a, b, 8))
      BY ONLY <1>5, <2>4
    <3> QED BY ONLY <2>4, <3>1, Zenon
  <2>7. Bits(a, 0, 8) = third
    <3>1. Bits(a, 0, 8) = (p % 4) * 64 + c
      BY ONLY <1>4, <2>1
    <3>2. (p % 4) * 64 + c = (((second % 16) * 4 + third \div 64) % 4) * 64 + (third % 64)
      BY ONLY <1>16, <2>1 DEF c, p
    <3>3. (((second % 16) * 4 + third \div 64) % 4) * 64 + (third % 64) = third
      BY ONLY <1>17
    <3> QED BY ONLY <3>1, <3>2, <3>3, Zenon
  <2>8. t.b = IF (k + 1) % 4 = 0 THEN -8 ELSE -2 * ((k + 1) % 4)
    BY ONLY <2>2, <2>5
  <2>9. t.out = upto((3 * (k + 1)) \div 4)
    <3>1. Append(upto(3 * q + 2), third) = upto(3 * q + 3)
      BY ONLY <1>7, <2>3 DEF third
    <3> QED BY ONLY <1>2, <2>3, <2>6, <2>7, <3>1, Zenon
  <2> QED BY ONLY <1>9, <2>8, <2>9
<1>14. k % 4 \in {0, 1, 2, 3}
  OBVIOUS
<1> QED BY ONLY <1>10, <1>11, <1>12, <1>13, <1>14

LEMMA LoopDecoded ==
    ASSUME NEW text \in Seq(Octets)
    PROVE  FoldLeft(DecodeNext, [a |-> 0, b |-> -8, out |-> <<>>], Groups(text)).out = text
<1> DEFINE base == [a |-> 0, b |-> -8, out |-> <<>>]
           g == Groups(text)
           l == (4 * Len(text) + 2) \div 3
           N == {k \in Nat : k <= l => Decoded(text, k, Decoder!Fold(base, SubSeq(g, 1, k)))}
<1>1. Len(text) \in Nat /\ l \in Nat /\ (3 * l) \div 4 = Len(text)
  OBVIOUS
<1>2. /\ g \in Seq(0..63) /\ Len(g) = l
      /\ \A k \in 1..l : g[k] = Group(text, k)
  <2>1. ASSUME NEW k \in 1..l PROVE Group(text, k) \in 0..63
    <3>1. k \in Nat /\ k > 0
      BY <1>1
    <3> QED BY ONLY <3>1, text \in Seq(Octets), GroupRange
  <2> QED BY <1>1, <2>1 DEF Groups
<1>3. 0 \in N
  <2>1. Decoder!Fold(base, SubSeq(g, 1, 0)) = base
    <3>1. SubSeq(g, 1, 0) = <<>>
      BY ONLY <1>2
    <3> QED BY <3>1, Decoder!FoldNothing
  <2>2. SubSeq(text, 1, (3 * 0) \div 4) = <<>>
    OBVIOUS
  <2>3. Decoded(text, 0, base)
    BY <2>2 DEF Decoded
  <2> QED BY <2>1, <2>3
<1>4. ASSUME NEW k \in N PROVE k + 1 \in N
  <2> HIDE DEF base, g
  <2> SUFFICES ASSUME k + 1 <= l
               PROVE  Decoded(text, k + 1, Decoder!Fold(base, SubSeq(g, 1, k + 1)))
    OBVIOUS
  <2> DEFINE m == k + 1
             s == Decoder!Fold(base, SubSeq(g, 1, k))
  <2>1. k \in Nat /\ k < l /\ Decoded(text, k, s) /\ m \in 1..l /\ m - 1 = k
    OBVIOUS
  <2>2. Decoded(text, k + 1, DecodeNext(s, Group(text, k + 1)))
    BY <2>1, DecodedMore
  <2> HIDE DEF m, s
  <2>3. Decoder!Fold(base, SubSeq(g, 1, m)) = DecodeNext(Decoder!Fold(base, SubSeq(g, 1, m - 1)), g[m])
    BY <1>2, <2>1, Decoder!FoldUpTo
  <2>4. Decoder!Fold(base, SubSeq(g, 1, m - 1)) = s /\ g[m] = Group(text, k + 1)
    BY <1>2, <2>1 DEF s, m
  <2>5. Decoder!Fold(base, SubSeq(g, 1, m)) = DecodeNext(s, Group(text, k + 1))
    BY ONLY <2>3, <2>4, Zenon
  <2> QED BY ONLY <2>2, <2>5, Zenon DEF m
<1>5. N \in SUBSET Nat
  OBVIOUS
<1> HIDE DEF N, base
<1>6. N = Nat
  BY <1>3, <1>4, <1>5, Decoder!Induction
<1>7. SubSeq(g, 1, l) = g /\ SubSeq(text, 1, Len(text)) = text
  <2>1. SubSeq(g, 1, Len(g)) = g
    <3> HIDE DEF g
    <3> QED BY ONLY <1>2
  <2>2. SubSeq(text, 1, Len(text)) = text
    OBVIOUS
  <2> QED BY ONLY <1>2, <2>1, <2>2, Zenon
<1> HIDE DEF l, g
<1>8. Decoded(text, l, Decoder!Fold(base, SubSeq(g, 1, l)))
  BY <1>1, <1>6 DEF N
<1>9. Decoded(text, l, Decoder!Fold(base, g))
  BY ONLY <1>7, <1>8, Zenon
<1>10. Decoder!Fold(base, g).out = text
  BY ONLY <1>1, <1>7, <1>9, Zenon DEF Decoded
<1> QED BY <1>10, SameLoops DEF base, g

LEMMA Sextet == \A x \in 0..63 : x \in Int /\ x # Pad
BY DEF Pad

\* base64_decode reads the groups up to the padding, and gives the text back.
LEMMA DecodedText ==
    ASSUME NEW text \in Seq(Octets)
    PROVE  Decode(Encode(text)) = text
<1> DEFINE g    == Groups(text)
           l    == (4 * Len(text) + 2) \div 3
           pads == Pads(Len(g))
           in   == Encode(text)
           P    == {i \in 1..Len(in) : in[i] = Pad}
           end  == SelectInSeq(in, LAMBDA c : c = Pad)
           read == IF end = 0 THEN in ELSE SubSeq(in, 1, end - 1)
<1>1. /\ g \in Seq(Int) /\ Len(g) = l /\ l \in Nat
      /\ \A i \in 1..l : g[i] \in 0..63
  <2>1. l \in Nat /\ g = [k \in 1..l |-> Group(text, k)]
    BY DEF Groups
  <2> HIDE DEF l, g
  <2>2. ASSUME NEW k \in 1..l PROVE Group(text, k) \in 0..63 /\ Group(text, k) \in Int
    <3>1. k \in Nat /\ k > 0
      BY <2>1
    <3>2. Group(text, k) \in 0..63
      BY ONLY <3>1, text \in Seq(Octets), GroupRange
    <3> QED BY ONLY <3>2, Sextet, Zenon
  <2>3. g \in Seq(Int) /\ Len(g) = l
    BY ONLY <2>1, <2>2
  <2>4. \A i \in 1..l : g[i] \in 0..63
    BY ONLY <2>1, <2>2
  <2> QED BY ONLY <2>1, <2>3, <2>4
<1>2. in = g \o pads
  BY EncodedGroups
<1> HIDE DEF g, in, l
<1> DEFINE n == (-Len(g)) % 4
<1>3. pads \in Seq({Pad}) /\ Len(pads) = n /\ n \in Nat
  BY <1>1 DEF Pads
<1> HIDE DEF pads, n
<1>4. in \in Seq(Int) /\ Len(in) = l + n
  <2>1. g \in Seq(Int) /\ pads \in Seq(Int)
    BY ONLY <1>1, <1>3 DEF Pad
  <2>2. g \o pads \in Seq(Int) /\ Len(g \o pads) = Len(g) + Len(pads)
    BY ONLY <2>1
  <2> QED BY ONLY <1>1, <1>2, <1>3, <2>2
<1>10. ASSUME NEW i \in 1..l PROVE in[i] = g[i] /\ in[i] # Pad
  <2>4. g[i] \in 0..63
    BY <1>1
  <2>1. g[i] # Pad
    BY ONLY <2>4, Sextet, Zenon
  <2>2. (g \o pads)[i] = g[i]
    BY ONLY <1>1, <1>3, i \in 1..l
  <2>3. in[i] = g[i]
    BY ONLY <1>2, <2>2, Zenon
  <2> QED BY ONLY <2>1, <2>3, Zenon
<1>11. ASSUME NEW i \in (l + 1)..(l + n) PROVE in[i] = Pad
  <2> DEFINE k == i - l
  <2>1. k \in 1..n /\ i = l + k
    BY <1>1, <1>3
  <2> HIDE DEF k
  <2>2. (g \o pads)[Len(g) + k] = pads[k]
    BY ONLY <1>1, <1>3, <2>1
  <2>3. pads[k] = Pad
    BY ONLY <1>3, <2>1
  <2> QED BY ONLY <1>1, <1>2, <2>1, <2>2, <2>3
<1>5. P = (l + 1)..(l + n)
  <2>1. \A i \in 1..(l + n) : i \in 1..l \/ i \in (l + 1)..(l + n)
    BY <1>1, <1>3
  <2>2. (l + 1)..(l + n) \subseteq 1..(l + n)
    BY <1>1, <1>3
  <2>3. 1..Len(in) = 1..(l + n)
    BY <1>4
  <2> HIDE DEF in
  <2> QED BY ONLY <1>10, <1>11, <2>1, <2>2, <2>3 DEF P
<1>6. end = IF P # {} THEN Min(P) ELSE 0
  BY DEF SelectInSeq
<1> HIDE DEF P, end
<1>7. read = g
  <2>1. CASE n = 0
    <3>1. P = {}
      BY <1>1, <1>5, <2>1
    <3>2. read = in
      BY <1>6, <3>1
    <3>3. pads = <<>>
      BY <1>3, <2>1
    <3>4. g \o <<>> = g
      BY <1>1
    <3> QED BY <1>2, <3>2, <3>3, <3>4
  <2>2. CASE n # 0
    <3>1. l + 1 \in P /\ \A i \in P : l + 1 <= i
      BY <1>1, <1>3, <1>5, <2>2
    <3>2. ASSUME NEW i \in P, \A k \in P : i <= k PROVE i = l + 1
      <4>1. i \in Int /\ l \in Int
        BY ONLY <1>1, <1>3, <1>5, i \in P
      <4>2. l + 1 <= i /\ i <= l + 1
        BY ONLY <3>1, <3>2
      <4> QED BY ONLY <4>1, <4>2
    <3>3. Min(P) = l + 1
      BY <3>1, <3>2 DEF Min
    <3>4. end = l + 1
      BY <1>6, <3>1, <3>3
    <3>5. read = SubSeq(in, 1, l)
      BY <1>1, <3>4
    <3>6. SubSeq(in, 1, l) = g
      <4> DEFINE u == SubSeq(in, 1, l)
      <4>1. u \in Seq(Int) /\ Len(u) = l /\ \A i \in 1..l : u[i] = in[i]
        <5>1. in \in Seq(Int) /\ l \in 0..Len(in)
          BY ONLY <1>1, <1>3, <1>4
        <5>2. u \in Seq(Int)
          BY ONLY <5>1
        <5>3. Len(u) = l
          BY ONLY <5>1
        <5>4. \A i \in 1..l : u[i] = in[i]
          BY ONLY <5>1
        <5> QED BY ONLY <5>2, <5>3, <5>4
      <4> HIDE DEF u
      <4>2. g \in Seq(Int)
        BY <1>1
      <4>5. \A i \in 1..l : u[i] = g[i]
        BY ONLY <1>10, <4>1
      <4>3. u = g
        BY ONLY <1>1, <4>1, <4>2, <4>5
      <4> QED BY <4>3 DEF u
    <3> QED BY <3>5, <3>6
  <2> QED BY <2>1, <2>2
<1>8. Decode(in) = FoldLeft(DecodeNext, [a |-> 0, b |-> -8, out |-> <<>>], read).out
  BY DEF Decode, end
<1> HIDE DEF read
<1> QED BY <1>7, <1>8, LoopDecoded DEF g, in

\* The name and the password of a token are those it was made of.
LEMMA TokenReadBack ==
    ASSUME NEW name \in Seq(Octets), NEW password \in Seq(Octets),
           \A n \in DOMAIN name : name[n] # Colon
    PROVE  /\ HasColon(EncodeToken(name, password))
           /\ DecodeToken(EncodeToken(name, password)) = <<name, password>>
<1> DEFINE s == name \o <<Colon>> \o password
           token == EncodeToken(name, password)
           i == Len(name) + 1
<1>1. /\ s \in Seq(Octets) /\ Len(s) = i + Len(password) /\ DOMAIN s = 1..Len(s)
      /\ Len(name) \in Nat /\ Len(password) \in Nat /\ DOMAIN name = 1..Len(name)
  <2>1. Colon \in Octets
    BY DEF Colon, Octets
  <2> QED BY <2>1
<1>2. ASSUME NEW n \in 1..Len(name) PROVE s[n] = name[n]
  OBVIOUS
<1>3. s[i] = Colon
  OBVIOUS
<1>4. ASSUME NEW n \in 1..Len(password) PROVE s[i + n] = password[n]
  OBVIOUS
<1>5. Decode(token) = s
  BY <1>1, DecodedText DEF EncodeToken
<1> HIDE DEF s, token
<1>6. i \in Colons(s) /\ \A n \in Colons(s) : i <= n
  <2>1. i \in Colons(s)
    BY <1>1, <1>3 DEF Colons
  <2>2. ASSUME NEW n \in Colons(s) PROVE i <= n
    <3>1. n \in 1..Len(s) /\ s[n] = Colon
      BY <1>1 DEF Colons
    <3>2. n \notin 1..Len(name)
      BY <1>1, <1>2, <3>1
    <3> QED BY <1>1, <3>1, <3>2
  <2> QED BY <2>1, <2>2
<1>7. ASSUME NEW n \in Colons(s), \A m \in Colons(s) : n <= m PROVE n = i
  <2>1. n \in Int /\ i \in Int /\ n <= i /\ i <= n
    BY <1>1, <1>6, <1>7 DEF Colons
  <2> QED BY ONLY <2>1
<1>8. (CHOOSE n \in Colons(s) : \A m \in Colons(s) : n <= m) = i
  BY ONLY <1>6, <1>7
<1>9. DecodeToken(token) = <<SubSeq(s, 1, i - 1), SubSeq(s, i + 1, Len(s))>>
  BY ONLY <1>5, <1>8, Zenon DEF DecodeToken
<1>10. SubSeq(s, 1, i - 1) = name
  <2> DEFINE t == SubSeq(s, 1, i - 1)
  <2>1. t \in Seq(Octets) /\ Len(t) = Len(name) /\ \A n \in 1..Len(t) : t[n] = s[n]
    BY <1>1
  <2> HIDE DEF t
  <2> QED BY <1>1, <1>2, <2>1 DEF t
<1>11. SubSeq(s, i + 1, Len(s)) = password
  <2> DEFINE t == SubSeq(s, i + 1, Len(s))
  <2>1. t \in Seq(Octets) /\ Len(t) = Len(password) /\ \A n \in 1..Len(t) : t[n] = s[i + n]
    BY <1>1
  <2> HIDE DEF t
  <2> QED BY <1>1, <1>4, <2>1, SMTT(30) DEF t
<1> QED BY <1>5, <1>6, <1>9, <1>10, <1>11 DEF HasColon, token

\* [TokensExact] The base64 of a text is its groups of six bits and the padding, and is decoded
\* to the text, although the accumulators of b64.hpp overflow; the name and the password of a
\* token are those it was made of (basic_token.hpp).
THEOREM TokensAlwaysExact == Spec => []TokensExact
<1>1. TokensExact
  <2> SUFFICES ASSUME NEW text \in Text, NEW name \in Text, NEW password \in Text
               PROVE  /\ Encode(text) = Groups(text) \o [n \in 1..((-Len(Groups(text))) % 4) |-> Pad]
                      /\ Decode(Encode(text)) = text
                      /\ (\A n \in DOMAIN name : name[n] # Colon) =>
                            LET token == EncodeToken(name, password)
                            IN  HasColon(token) /\ DecodeToken(token) = <<name, password>>
    BY Zenon DEF TokensExact
  <2>1. text \in Seq(Octets) /\ name \in Seq(Octets) /\ password \in Seq(Octets)
    BY SessionAssumption DEF Octets
  <2>2. Encode(text) = Groups(text) \o [n \in 1..((-Len(Groups(text))) % 4) |-> Pad]
    BY <2>1, EncodedGroups DEF Pads
  <2>3. Decode(Encode(text)) = text
    BY <2>1, DecodedText
  <2>4. ASSUME \A n \in DOMAIN name : name[n] # Colon
        PROVE  HasColon(EncodeToken(name, password)) /\ DecodeToken(EncodeToken(name,
                   password)) = <<name, password>>
    BY ONLY <2>1, <2>4, TokenReadBack
  <2> QED BY <2>2, <2>3, <2>4
<1> QED BY <1>1, PTL

-----------------------------------------------------------------------------
(***************************************************************************)
(* Who a client is                                                         *)
(***************************************************************************)

\* The groups of a text are six bits each, and its base64 is characters.
LEMMA EncodedTyped ==
    ASSUME NEW text \in Seq(Octets)
    PROVE  Encode(text) \in Characters
<1> DEFINE g    == Groups(text)
           l    == (4 * Len(text) + 2) \div 3
           pads == Pads(Len(g))
<1>1. l \in Nat /\ g = [k \in 1..l |-> Group(text, k)]
  BY DEF Groups
<1> HIDE DEF l, g
<1>2. ASSUME NEW k \in 1..l PROVE Group(text, k) \in Int
  <2>1. k \in Nat /\ k > 0
    BY <1>1
  <2>2. Group(text, k) \in 0..63
    BY ONLY <2>1, text \in Seq(Octets), GroupRange
  <2> QED BY ONLY <2>2, Sextet, Zenon
<1>3. g \in Seq(Int)
  BY ONLY <1>1, <1>2
<1>4. pads \in Seq(Int)
  BY <1>3 DEF Pads, Pad
<1>5. g \o pads \in Seq(Int)
  BY ONLY <1>3, <1>4
<1>6. Encode(text) = g \o pads
  BY EncodedGroups DEF g
<1> QED BY ONLY <1>5, <1>6 DEF Characters

\* The request that AuthenticationManager is to get for an option.
Request(option) ==
    IF option.method = "none" THEN [method |-> "none"]
    ELSE [method |-> "basic", name |-> option.username, password |-> option.password]

LEMMA Spelt ==
    ASSUME NEW option \in Option, option.method # "none"
    PROVE  /\ option.username \in DOMAIN Spelling /\ option.password \in DOMAIN Spelling
           /\ Spelling[option.username] \in Seq(Octets) /\ Spelling[option.password] \in Seq(Octets)
           /\ \A n \in DOMAIN Spelling[option.username] : Spelling[option.username][n] # Colon
           /\ option.username \notin {NoUser, "nobody", "refused", "throws"}
<1>1. /\ \A n \in DOMAIN Spelling : Spelling[n] \in Seq(Octets)
      /\ {"no user", "nobody", "stranger", "refused", "throws"} \cap DOMAIN Spelling = {}
  BY SessionAssumption DEF Octets
<1>2. /\ option.username \in DOMAIN Spelling /\ option.password \in DOMAIN Spelling
      /\ \A n \in DOMAIN Spelling[option.username] : Spelling[option.username][n] # Colon
  BY SessionAssumption
<1>3. option.username \notin {NoUser, "nobody", "refused", "throws"}
  BY ONLY <1>1, <1>2 DEF NoUser
<1> QED BY ONLY <1>1, <1>2, <1>3

LEMMA SpeltOnce ==
    ASSUME NEW n \in DOMAIN Spelling
    PROVE  Named(Spelling[n]) = n
BY SessionAssumption DEF Named

\* What a client writes of its option is what AuthenticationManager makes of it: over the
\* token, the name and the password get there.
LEMMA OptionConveyed ==
    ASSUME NEW option \in Option
    PROVE  /\ AuthenticationOf(option) \in AnyMessage
           /\ AuthenticationOf(option).message_type = "AuthenticationRequest"
           /\ RequestOf(AuthenticationOf(option)) = Request(option)
<1> DEFINE m == AuthenticationOf(option)
<1>1. <<>> \in Characters /\ None \in Characters /\ Basic \in Characters /\ None # Basic
  BY DEF Characters, None, Basic
<1>2. CASE option.method = "none"
  <2>1. m = [message_type |-> "AuthenticationRequest", method |-> None, data |-> <<>>]
    BY <1>2 DEF AuthenticationOf, AuthenticationRequest
  <2>2. m \in [message_type : {"AuthenticationRequest"}, method : Characters, data : Characters]
    BY ONLY <1>1, <2>1
  <2>3. m \in AnyMessage
    BY <2>2 DEF AnyMessage
  <2>4. RequestOf(m) = [method |-> "none"]
    BY <2>1 DEF RequestOf
  <2> QED BY <1>2, <2>1, <2>3, <2>4 DEF Request
<1>3. CASE option.method # "none"
  <2> DEFINE name     == Spelling[option.username]
             password == Spelling[option.password]
             token    == EncodeToken(name, password)
  <2>1. /\ option.username \in DOMAIN Spelling /\ option.password \in DOMAIN Spelling
        /\ name \in Seq(Octets) /\ password \in Seq(Octets)
        /\ \A n \in DOMAIN name : name[n] # Colon
    BY <1>3, Spelt
  <2>2. HasColon(token) /\ DecodeToken(token) = <<name, password>>
    BY ONLY <2>1, TokenReadBack
  <2>3. token \in Characters
    <3>1. Colon \in Octets
      BY DEF Colon, Octets
    <3>2. name \o <<Colon>> \o password \in Seq(Octets)
      BY ONLY <2>1, <3>1
    <3> QED BY ONLY <3>2, EncodedTyped DEF EncodeToken
  <2>4. Named(name) = option.username /\ Named(password) = option.password
    BY <2>1, SpeltOnce
  <2> HIDE DEF name, password, token
  <2>5. m = [message_type |-> "AuthenticationRequest", method |-> Basic, data |-> token]
    BY <1>3 DEF AuthenticationOf, AuthenticationRequest, name, password, token
  <2>6. m \in [message_type : {"AuthenticationRequest"}, method : Characters, data : Characters]
    BY ONLY <1>1, <2>3, <2>5
  <2>7. m \in AnyMessage
    BY <2>6 DEF AnyMessage
  <2>8. m.method = Basic /\ m.data = token
    BY <2>5
  <2>9. DecodeToken(token)[1] = name /\ DecodeToken(token)[2] = password
    BY <2>2
  <2>10. RequestOf(m) = [method |-> "basic", name |-> Named(name), password |-> Named(password)]
    BY <1>1, <2>2, <2>8, <2>9 DEF RequestOf
  <2> QED BY <1>3, <2>4, <2>5, <2>7, <2>10 DEF Request
<1> QED BY <1>2, <1>3

\* The verdict on an option: the name it stands for if the password file knows it.
LEMMA Judgement ==
    ASSUME NEW option \in Option, has_password_file \in BOOLEAN
    PROVE  LET request == Request(option)
               verdict == IF has_password_file THEN Protected!Authenticate(request)
                                               ELSE Unprotected!Authenticate(request)
           IN  /\ verdict # "refused" /\ verdict # "throws" =>
                    /\ Known(option)
                    /\ verdict = IF option.method = "none" THEN "nobody" ELSE option.username
                    /\ verdict # NoUser
                    /\ verdict \in {"nobody"} \cup DOMAIN Spelling
               /\ verdict = "refused" => ~Known(option)
<1> DEFINE request == Request(option)
           verdict == IF has_password_file THEN Protected!Authenticate(request)
                                           ELSE Unprotected!Authenticate(request)
<1>1. CASE option.method = "none"
  <2>1. request.method = "none"
    BY <1>1 DEF Request
  <2>2. verdict = IF has_password_file THEN "refused" ELSE "nobody"
    BY <2>1 DEF Protected!Authenticate, Unprotected!Authenticate, Protected!Refused, Unprotected!Nobody
  <2> QED BY <1>1, <2>2 DEF Known, NoUser
<1>2. CASE option.method # "none"
  <2> DEFINE name     == option.username
             password == option.password
  <2>1. /\ name \in DOMAIN Spelling /\ name # "refused" /\ name # "throws" /\ name # NoUser
    BY <1>2, Spelt
  <2>2. request = [method |-> "basic", name |-> name, password |-> password]
    BY <1>2 DEF Request
  <2>3. CASE ~has_password_file
    <3>1. verdict = "refused"
      BY <2>2, <2>3 DEF Unprotected!Authenticate, Unprotected!Refused
    <3> QED BY <1>2, <2>3, <3>1 DEF Known
  <2>4. CASE has_password_file
    <3>1. CASE name \notin DOMAIN Accounts
      <4>1. verdict = "refused"
        BY <2>2, <2>4, <3>1 DEF Protected!Authenticate, Protected!Refused
      <4> QED BY <1>2, <3>1, <4>1 DEF Known
    <3>2. CASE name \in DOMAIN Accounts
      <4>1. verdict = IF Accounts[name].cipher # "apr1" THEN "throws"
                      ELSE IF Accounts[name].password = password THEN name ELSE "refused"
        BY <2>2, <2>4, <3>2 DEF Protected!Authenticate, Protected!Refused, Protected!Throws
      <4>2. Accounts[name] = [cipher |-> Accounts[name].cipher, password |-> Accounts[name].password]
        BY <3>2, SessionAssumption
      <4>3. Known(option) = (Accounts[name] = [cipher |-> "apr1", password |-> password])
        BY <1>2, <2>4, <3>2 DEF Known
      <4>4. Known(option) = (Accounts[name].cipher = "apr1" /\ Accounts[name].password = password)
        BY ONLY <4>2, <4>3
      <4> HIDE DEF name, password, verdict
      <4> QED BY <1>2, <2>1, <4>1, <4>4 DEF name, verdict
    <3> QED BY <3>1, <3>2
  <2> QED BY <2>3, <2>4
<1> QED BY <1>1, <1>2

-----------------------------------------------------------------------------
(***************************************************************************)
(* Sequences                                                               *)
(***************************************************************************)

Begins(s, t) == Len(s) <= Len(t) /\ \A n \in 1..Len(s) : s[n] = t[n]
Ends(s, t)   == Len(s) <= Len(t) /\ \A n \in 1..Len(s) : s[n] = t[Len(t) - Len(s) + n]

LEMMA PrefixIs ==
    ASSUME NEW T, NEW s \in Seq(T), NEW t \in Seq(T), Begins(s, t)
    PROVE  IsPrefix(s, t)
<1> DEFINE u == SubSeq(s, 1, Len(s))
           v == SubSeq(t, 1, Len(s))
<1>1. Len(s) \in Nat /\ Len(t) \in Nat /\ Len(s) <= Len(t) /\ \A n \in 1..Len(s) : s[n] = t[n]
  BY DEF Begins
<1>2. u \in Seq(T) /\ Len(u) = Len(s) /\ \A n \in 1..Len(s) : u[n] = s[n]
  OBVIOUS
<1>3. v \in Seq(T) /\ Len(v) = Len(s) /\ \A n \in 1..Len(s) : v[n] = t[n]
  BY <1>1
<1> HIDE DEF u, v
<1>4. u = v
  BY <1>1, <1>2, <1>3, SameElements
<1> QED BY <1>1, <1>4 DEF IsPrefix, u, v

LEMMA SuffixIs ==
    ASSUME NEW T, NEW s \in Seq(T), NEW t \in Seq(T), Ends(s, t)
    PROVE  IsSuffix(s, t)
<1> DEFINE u == Reverse(s)
           v == Reverse(t)
<1>1. Len(s) \in Nat /\ Len(t) \in Nat /\ Len(s) <= Len(t)
  BY DEF Ends
<1>2. u \in Seq(T) /\ Len(u) = Len(s) /\ \A n \in 1..Len(s) : u[n] = s[(Len(s) - n) + 1]
  BY DEF Reverse
<1>3. v \in Seq(T) /\ Len(v) = Len(t) /\ \A n \in 1..Len(t) : v[n] = t[(Len(t) - n) + 1]
  BY DEF Reverse
<1> HIDE DEF u, v
<1>4. ASSUME NEW n \in 1..Len(s) PROVE u[n] = v[n]
  <2> DEFINE m == (Len(s) - n) + 1
  <2>1. m \in 1..Len(s) /\ Len(t) - Len(s) + m = (Len(t) - n) + 1 /\ n \in 1..Len(t)
    BY <1>1
  <2> HIDE DEF m
  <2>2. s[m] = t[(Len(t) - n) + 1]
    BY <2>1 DEF Ends
  <2> QED BY <1>2, <1>3, <2>1, <2>2 DEF m
<1>5. Begins(u, v)
  BY <1>1, <1>2, <1>3, <1>4 DEF Begins
<1>6. IsPrefix(u, v)
  BY <1>2, <1>3, <1>5, PrefixIs
<1> QED BY <1>6 DEF IsSuffix, u, v

\* One more at both ends.
LEMMA EndsMore ==
    ASSUME NEW T, NEW s \in Seq(T), NEW t \in Seq(T), NEW e \in T, Ends(s, t)
    PROVE  Ends(Append(s, e), Append(t, e))
<1> DEFINE u == Append(s, e)
           v == Append(t, e)
<1>1. Len(s) \in Nat /\ Len(t) \in Nat /\ Len(s) <= Len(t)
  BY DEF Ends
<1>2. Len(u) = Len(s) + 1 /\ u[Len(s) + 1] = e /\ \A n \in 1..Len(s) : u[n] = s[n]
  OBVIOUS
<1>3. Len(v) = Len(t) + 1 /\ v[Len(t) + 1] = e /\ \A n \in 1..Len(t) : v[n] = t[n]
  OBVIOUS
<1> HIDE DEF u, v
<1>4. ASSUME NEW n \in 1..Len(u) PROVE u[n] = v[Len(v) - Len(u) + n]
  <2>1. Len(v) - Len(u) = Len(t) - Len(s)
    BY <1>1, <1>2, <1>3
  <2>2. CASE n \in 1..Len(s)
    <3>1. s[n] = t[Len(t) - Len(s) + n]
      BY <2>2 DEF Ends
    <3>2. Len(t) - Len(s) + n \in 1..Len(t)
      BY <1>1, <2>2
    <3> QED BY <1>2, <1>3, <2>1, <2>2, <3>1, <3>2
  <2>3. CASE n = Len(s) + 1
    <3>1. Len(t) - Len(s) + n = Len(t) + 1
      BY <1>1, <2>3
    <3> QED BY <1>2, <1>3, <2>1, <2>3, <3>1
  <2> QED BY <1>1, <1>2, <2>2, <2>3
<1>5. Len(u) <= Len(v)
  BY <1>1, <1>2, <1>3
<1> QED BY <1>4, <1>5 DEF Ends, u, v

\* The sequence a sequence ends with, and what is before it.
LEMMA BeforeEnd ==
    ASSUME NEW T, NEW s \in Seq(T), NEW t \in Seq(T), Ends(s, t)
    PROVE  LET u == SubSeq(t, 1, Len(t) - Len(s))
           IN  u \in Seq(T) /\ u \o s = t
<1> DEFINE n == Len(t) - Len(s)
           u == SubSeq(t, 1, n)
           v == u \o s
<1>1. n \in Nat /\ n <= Len(t) /\ Len(s) \in Nat /\ Len(t) = n + Len(s)
  BY DEF Ends
<1>2. u \in Seq(T) /\ Len(u) = n /\ \A i \in 1..n : u[i] = t[i]
  BY <1>1
<1> HIDE DEF u, n
<1>3. v \in Seq(T) /\ Len(v) = Len(t)
  BY <1>1, <1>2
<1>4. ASSUME NEW i \in 1..Len(t) PROVE v[i] = t[i]
  <2>1. CASE i <= n
    <3>1. i \in 1..n
      BY <1>1, <2>1
    <3>2. v[i] = u[i]
      BY <1>2, <3>1
    <3> QED BY <1>2, <3>1, <3>2
  <2>2. CASE i > n
    <3> DEFINE k == i - n
    <3>1. k \in 1..Len(s) /\ i = n + k
      BY <1>1, <2>2
    <3> HIDE DEF k
    <3>2. s[k] = t[n + k]
      BY <3>1 DEF Ends, n
    <3>3. v[n + k] = s[k]
      BY <1>1, <1>2, <3>1
    <3> QED BY <3>1, <3>2, <3>3
  <2>3. i <= n \/ i > n
    BY <1>1
  <2> QED BY ONLY <2>1, <2>2, <2>3
<1> HIDE DEF v
<1>5. v = t
  BY <1>3, <1>4, SameElements
<1> QED BY <1>2, <1>5 DEF u, n, v

\* What is taken out of a sequence is taken out of a longer one, and what is added to both
\* is added to what is left.
LEMMA LeftOfMore ==
    ASSUME NEW T, NEW s \in Seq(T), NEW t \in Seq(T), NEW x \in Seq(T), NEW u \in Seq(T),
           IsSubsequence(s, t)
    PROVE  IsSubsequence(s \o x, t \o (x \o u))
<1> DEFINE sx == s \o x
           tx == t \o (x \o u)
           l  == Len(s)
           k  == Len(t)
<1>1. PICK place \in [DOMAIN s -> DOMAIN t] :
        \A n \in DOMAIN s : s[n] = t[place[n]] /\ (n > 1 => place[n - 1] < place[n])
  BY DEF IsSubsequence
<1>2. /\ l \in Nat /\ k \in Nat /\ Len(x) \in Nat /\ Len(u) \in Nat
      /\ DOMAIN s = 1..l /\ DOMAIN t = 1..k
      /\ DOMAIN sx = 1..(l + Len(x)) /\ DOMAIN tx = 1..(k + (Len(x) + Len(u)))
  OBVIOUS
<1>3. /\ \A n \in 1..l : sx[n] = s[n]
      /\ \A n \in 1..Len(x) : sx[l + n] = x[n]
  OBVIOUS
<1>4. /\ \A n \in 1..k : tx[n] = t[n]
      /\ \A n \in 1..Len(x) : tx[k + n] = x[n]
  <2> DEFINE xu == x \o u
  <2>1. xu \in Seq(T) /\ Len(xu) = Len(x) + Len(u) /\ \A n \in 1..Len(x) : xu[n] = x[n]
    OBVIOUS
  <2> HIDE DEF xu
  <2>2. \A n \in 1..k : (t \o xu)[n] = t[n]
    BY <2>1
  <2>3. \A n \in 1..Len(x) : (t \o xu)[k + n] = xu[n]
    BY <2>1
  <2> QED BY <2>1, <2>2, <2>3 DEF xu
<1> HIDE DEF sx, tx, l, k
<1> DEFINE at == [n \in 1..(l + Len(x)) |-> IF n <= l THEN place[n] ELSE k + (n - l)]
<1>5. \A n \in 1..l : place[n] \in 1..k /\ s[n] = t[place[n]] /\ (n > 1 => place[n - 1] < place[n])
  BY <1>1, <1>2
<1>6. ASSUME NEW n \in 1..(l + Len(x)) PROVE at[n] \in 1..(k + (Len(x) + Len(u)))
  BY <1>2, <1>5
<1>7. at \in [DOMAIN sx -> DOMAIN tx]
  BY ONLY <1>2, <1>6
<1>8. ASSUME NEW n \in 1..(l + Len(x)) PROVE sx[n] = tx[at[n]]
  <2>1. CASE n <= l
    <3>1. n \in 1..l /\ at[n] = place[n]
      BY <1>2, <2>1
    <3> QED BY ONLY <1>3, <1>4, <1>5, <3>1
  <2>2. CASE n > l
    <3> DEFINE i == n - l
    <3>1. i \in 1..Len(x) /\ n = l + i /\ at[n] = k + i
      BY <1>2, <2>2
    <3> QED BY ONLY <1>3, <1>4, <3>1
  <2> QED BY <1>2, <2>1, <2>2
<1>9. ASSUME NEW n \in 1..(l + Len(x)), n > 1 PROVE at[n - 1] < at[n]
  <2>1. CASE n <= l
    BY <1>2, <1>5, <1>9, <2>1
  <2>2. CASE n > l
    <3>1. CASE n - 1 <= l
      <4>1. at[n - 1] = place[n - 1] /\ n - 1 \in 1..l /\ at[n] = k + (n - l)
        BY <1>2, <1>9, <2>2, <3>1
      <4>2. place[n - 1] \in 1..k
        BY ONLY <1>5, <4>1
      <4> QED BY ONLY <1>2, <2>2, <4>1, <4>2, n \in 1..(l + Len(x))
    <3>2. CASE n - 1 > l
      BY <1>2, <1>9, <2>2, <3>2
    <3> QED BY <1>2, <3>1, <3>2
  <2> QED BY <1>2, <2>1, <2>2
<1> HIDE DEF at
<1>10. IsSubsequence(sx, tx)
  BY ONLY <1>2, <1>7, <1>8, <1>9 DEF IsSubsequence
<1> QED BY <1>10 DEF sx, tx

LEMMA LeftAtFirst ==
    ASSUME NEW T, NEW s \in Seq(T), NEW t \in Seq(T), NEW u, Begins(s, t), IsSubsequence(t, u)
    PROVE  IsSubsequence(s, u)
<1>1. PICK place \in [DOMAIN t -> DOMAIN u] :
        \A n \in DOMAIN t : t[n] = u[place[n]] /\ (n > 1 => place[n - 1] < place[n])
  BY DEF IsSubsequence
<1>2. /\ DOMAIN s = 1..Len(s) /\ DOMAIN t = 1..Len(t) /\ Len(s) \in Nat /\ Len(t) \in Nat
      /\ Len(s) <= Len(t) /\ \A n \in 1..Len(s) : s[n] = t[n]
  BY DEF Begins
<1> DEFINE at == [n \in DOMAIN s |-> place[n]]
<1>3. at \in [DOMAIN s -> DOMAIN u]
  BY <1>2
<1>4. ASSUME NEW n \in DOMAIN s PROVE s[n] = u[at[n]] /\ (n > 1 => at[n - 1] < at[n])
  BY <1>1, <1>2
<1> QED BY ONLY <1>3, <1>4 DEF IsSubsequence

LEMMA LeftOfAll ==
    ASSUME NEW T, NEW s \in Seq(T)
    PROVE  IsSubsequence(s, s) /\ IsSubsequence(<<>>, s)
<1>1. DOMAIN s = 1..Len(s) /\ Len(s) \in Nat
  OBVIOUS
<1>2. IsSubsequence(s, s)
  <2> DEFINE at == [n \in DOMAIN s |-> n]
  <2>1. at \in [DOMAIN s -> DOMAIN s]
    OBVIOUS
  <2>2. \A n \in DOMAIN s : s[n] = s[at[n]] /\ (n > 1 => at[n - 1] < at[n])
    BY <1>1
  <2> QED BY ONLY <2>1, <2>2 DEF IsSubsequence
<1>3. <<>> \in Seq(T) /\ Begins(<<>>, s)
  BY DEF Begins
<1> QED BY <1>2, <1>3, LeftAtFirst

\* Taking each element or none, one after the other.
LEMMA LeftOneByOne ==
    ASSUME NEW T, NEW s \in Seq(T), NEW t \in Seq(T), IsSubsequence(s, t),
           NEW u \in Seq(T), NEW p \in Seq(Seq(T)), Len(p) = Len(u),
           \A n \in 1..Len(u) : p[n] = <<>> \/ p[n] = <<u[n]>>
    PROVE  IsSubsequence(s \o List!FlattenSeq(p), t \o u)
<1> DEFINE P(k) == SubSeq(p, 1, k)
           F(k) == List!FlattenSeq(P(k))
           U(k) == SubSeq(u, 1, k)
           S    == {k \in Nat : k <= Len(u) => IsSubsequence(s \o F(k), t \o U(k))}
<1>1. Len(u) \in Nat /\ P(Len(u)) = p /\ U(Len(u)) = u /\ P(0) = <<>> /\ U(0) = <<>>
  OBVIOUS
<1>2. 0 \in S
  <2>1. F(0) = <<>>
    <3>1. P(0) = <<>>
      BY <1>1
    <3> HIDE DEF P
    <3> QED BY <3>1, List!FlattenNothing
  <2>2. s \o <<>> = s /\ t \o <<>> = t /\ U(0) = <<>>
    BY <1>1
  <2> HIDE DEF F, U
  <2>3. s \o F(0) = s /\ t \o U(0) = t
    BY ONLY <2>1, <2>2
  <2> QED BY ONLY <2>3, IsSubsequence(s, t)
<1>3. ASSUME NEW k \in S PROVE k + 1 \in S
  <2> SUFFICES ASSUME k + 1 <= Len(u) PROVE IsSubsequence(s \o F(k + 1), t \o U(k + 1))
    OBVIOUS
  <2>1. k \in Nat /\ k + 1 \in 1..Len(u) /\ IsSubsequence(s \o F(k), t \o U(k))
    BY <1>1
  <2> DEFINE x == p[k + 1]
             e == u[k + 1]
  <2>2. /\ P(k) \in Seq(Seq(T)) /\ x \in Seq(T) /\ P(k + 1) = Append(P(k), x)
        /\ U(k) \in Seq(T) /\ e \in T /\ U(k + 1) = U(k) \o <<e>>
    BY <2>1
  <2> HIDE DEF P, U
  <2>3. F(k) \in Seq(T) /\ F(k + 1) = F(k) \o x
    BY ONLY <2>2, List!FlattenTyped, List!FlattenAppend
  <2>4. x = <<>> \/ x = <<e>>
    BY <2>1
  <2> HIDE DEF x, e, F
  <2>5. PICK y \in Seq(T) : x \o y = <<e>>
    <3>1. CASE x = <<>>
      <4>1. <<e>> \in Seq(T) /\ x \o <<e>> = <<e>>
        BY <2>2, <3>1
      <4> QED BY ONLY <4>1
    <3>2. CASE x = <<e>>
      <4>1. <<>> \in Seq(T) /\ x \o <<>> = <<e>>
        BY <2>2, <3>2
      <4> QED BY ONLY <4>1
    <3> QED BY <2>4, <3>1, <3>2
  <2>6. s \o F(k) \in Seq(T) /\ t \o U(k) \in Seq(T)
    BY <2>2, <2>3
  <2>7. IsSubsequence((s \o F(k)) \o x, (t \o U(k)) \o (x \o y))
    BY ONLY <2>1, <2>2, <2>6, y \in Seq(T), LeftOfMore
  <2>8. (s \o F(k)) \o x = s \o (F(k) \o x)
    <3>1. F(k) \in Seq(T) /\ x \in Seq(T)
      BY <2>2, <2>3
    <3> HIDE DEF F, x
    <3> QED BY ONLY s \in Seq(T), <3>1, SMTT(30)
  <2>9. (t \o U(k)) \o <<e>> = t \o (U(k) \o <<e>>)
    <3>1. <<e>> \in Seq(T) /\ U(k) \in Seq(T)
      BY <2>2, <2>3
    <3> DEFINE w == <<e>>
    <3>2. w \in Seq(T)
      BY <3>1
    <3> HIDE DEF U, w
    <3>3. (t \o U(k)) \o w = t \o (U(k) \o w)
      BY ONLY t \in Seq(T), <3>1, <3>2, SMTT(30)
    <3> QED BY ONLY <3>3 DEF w
  <2> QED BY ONLY <2>2, <2>3, <2>5, <2>7, <2>8, <2>9
<1> HIDE DEF S
<1>4. S = Nat
  <2>1. S \in SUBSET Nat
    BY DEF S
  <2> QED BY ONLY <1>2, <1>3, <2>1, List!Induction
<1>5. Len(u) \in S
  BY <1>1, <1>4
<1>6. IsSubsequence(s \o F(Len(u)), t \o U(Len(u)))
  BY <1>1, <1>5 DEF S
<1> QED BY ONLY <1>1, <1>6

\* Taking each element.
LEMMA EachInTurn ==
    ASSUME NEW T, NEW u \in Seq(T), NEW p \in Seq(Seq(T)), Len(p) = Len(u),
           \A n \in 1..Len(u) : p[n] = <<u[n]>>
    PROVE  List!FlattenSeq(p) = u
<1> DEFINE P(k) == SubSeq(p, 1, k)
           U(k) == SubSeq(u, 1, k)
           S    == {k \in Nat : k <= Len(u) => List!FlattenSeq(P(k)) = U(k)}
<1>1. Len(u) \in Nat /\ P(Len(u)) = p /\ U(Len(u)) = u /\ P(0) = <<>> /\ U(0) = <<>>
  OBVIOUS
<1>2. 0 \in S
  BY <1>1, List!FlattenNothing
<1>3. ASSUME NEW k \in S PROVE k + 1 \in S
  <2> SUFFICES ASSUME k + 1 <= Len(u) PROVE List!FlattenSeq(P(k + 1)) = U(k + 1)
    OBVIOUS
  <2>1. k \in Nat /\ k + 1 \in 1..Len(u) /\ List!FlattenSeq(P(k)) = U(k)
    BY <1>1
  <2>2. p[k + 1] = <<u[k + 1]>>
    BY <2>1
  <2>3. /\ P(k) \in Seq(Seq(T)) /\ p[k + 1] \in Seq(T) /\ P(k + 1) = Append(P(k), p[k + 1])
        /\ U(k + 1) = U(k) \o <<u[k + 1]>>
    BY <2>1, SMTT(30)
  <2> HIDE DEF P, U
  <2>4. List!FlattenSeq(Append(P(k), p[k + 1])) = List!FlattenSeq(P(k)) \o p[k + 1]
    BY ONLY <2>3, List!FlattenAppend
  <2> QED BY ONLY <2>1, <2>2, <2>3, <2>4
<1> HIDE DEF S
<1>4. S = Nat
  <2>1. S \in SUBSET Nat
    BY DEF S
  <2> QED BY ONLY <1>2, <1>3, <2>1, List!Induction
<1>5. Len(u) \in S
  BY <1>1, <1>4
<1>6. List!FlattenSeq(P(Len(u))) = U(Len(u))
  BY <1>1, <1>5 DEF S
<1> QED BY ONLY <1>1, <1>6

LEMMA Listed ==
    ASSUME NEW T, NEW k \in Nat, NEW f \in [1..k -> T]
    PROVE  f \in Seq(T) /\ Len(f) = k
OBVIOUS

LEMMA Appended ==
    ASSUME NEW T, NEW s \in Seq(T), NEW e \in T
    PROVE  /\ Append(s, e) \in Seq(T) /\ Append(s, e) # <<>> /\ Len(Append(s, e)) = Len(s) + 1
           /\ Append(s, e)[Len(s) + 1] = e /\ \A n \in 1..Len(s) : Append(s, e)[n] = s[n]
OBVIOUS

\* A sequence that begins with one and goes on with the other is the two in a row.
IsJoined(u, s, t) == u = s \o t

LEMMA Joined ==
    ASSUME NEW T, NEW s \in Seq(T), NEW t \in Seq(T), NEW u \in Seq(T), Len(u) = Len(s) + Len(t),
           \A n \in 1..Len(s) : u[n] = s[n],
           \A n \in 1..Len(t) : u[Len(s) + n] = t[n]
    PROVE  IsJoined(u, s, t)
<1> DEFINE v == s \o t
<1>1. Len(s) \in Nat /\ Len(t) \in Nat
  OBVIOUS
<1>2. v \in Seq(T) /\ Len(v) = Len(u)
  OBVIOUS
<1>3. ASSUME NEW n \in 1..Len(u) PROVE v[n] = u[n]
  <2>1. CASE n \in 1..Len(s)
    BY <2>1
  <2>2. CASE n \notin 1..Len(s)
    <3> DEFINE k == n - Len(s)
    <3>1. k \in 1..Len(t) /\ n = Len(s) + k
      BY <1>1, <2>2
    <3> HIDE DEF k
    <3>2. v[Len(s) + k] = t[k]
      BY <3>1
    <3> QED BY <3>1, <3>2
  <2> QED BY <2>1, <2>2
<1> HIDE DEF v
<1>4. v = u
  BY <1>2, <1>3, SameElements
<1> QED BY <1>4 DEF IsJoined, v

-----------------------------------------------------------------------------
(***************************************************************************)
(* What a client asks                                                      *)
(***************************************************************************)

Asking == {m \in AnyMessage : m.message_type # "AuthenticationRequest"}

\* What may be taken for a command.
Word == Command \cup Fragment

\* Bodies as messages, and messages as bodies.
Heard(bodies)   == [n \in DOMAIN bodies |-> Deserialize(bodies[n])]
Wires(messages) == [n \in DOMAIN messages |-> Serialize(messages[n])]

\* What is asked by these lines, if all are commands.
Requested(lines) == FlattenSeq([n \in DOMAIN lines |-> RequestsOf(lines[n])])

LEMMA CommandAsks ==
    ASSUME NEW command \in Word
    PROVE  RequestsOf(command) \in Seq(Asking)
<1>1. command.topic \in Characters
  BY SessionAssumption DEF Word
<1>2. \A b \in BOOLEAN : SubscriptionRequest(command.topic, b) \in Asking
  BY <1>1 DEF SubscriptionRequest, Asking, AnyMessage
<1>3. \A b \in BOOLEAN : NotificationRequest(command.topic, b) \in Asking
  BY <1>1 DEF NotificationRequest, Asking, AnyMessage
<1>4. MulticastData(command.topic, <<DataPacket(0, TextPlain, Content)>>) \in Asking
  <2> DEFINE packets == <<DataPacket(0, TextPlain, Content)>>
             m       == MulticastData(command.topic, packets)
  <2>1. TextPlain \in Characters /\ Content \in Characters
    BY DEF Characters, TextPlain, Content
  <2>2. DataPacket(0, TextPlain, Content)
            \in [entitlement : Int, content_type : Characters, data : Characters]
    BY ONLY <2>1 DEF DataPacket
  <2>3. packets \in DataPackets
    BY ONLY <2>2 DEF DataPackets
  <2> HIDE DEF packets
  <2>4. m = [message_type |-> "MulticastData", topic |-> command.topic, data_packets |-> packets]
    BY DEF MulticastData
  <2>5. m \in [message_type : {"MulticastData"}, topic : Characters, data_packets : DataPackets]
    BY ONLY <1>1, <2>3, <2>4
  <2>6. m \in AnyMessage
    BY ONLY <2>5 DEF AnyMessage
  <2> QED BY ONLY <2>4, <2>6 DEF Asking, packets
<1> DEFINE requests == {SubscriptionRequest(command.topic, TRUE),
        SubscriptionRequest(command.topic, FALSE),
                        NotificationRequest(command.topic, TRUE),
                            NotificationRequest(command.topic, FALSE),
                        MulticastData(command.topic, <<DataPacket(0, TextPlain, Content)>>)}
<1>5. requests \subseteq Asking
  BY <1>2, <1>3, <1>4
<1>6. RequestsOf(command) = <<>> \/ \E m \in requests : RequestsOf(command) = <<m>>
  BY DEF RequestsOf
<1> HIDE DEF requests
<1>7. CASE RequestsOf(command) = <<>>
  BY ONLY <1>7
<1>8. CASE \E m \in requests : RequestsOf(command) = <<m>>
  <2>1. PICK m \in requests : RequestsOf(command) = <<m>>
    BY <1>8
  <2>2. m \in Asking
    BY ONLY <1>5, m \in requests
  <2> QED BY ONLY <2>1, <2>2
<1> QED BY ONLY <1>6, <1>7, <1>8

LEMMA RequestsTyped ==
    ASSUME NEW lines \in Seq(Word)
    PROVE  [n \in DOMAIN lines |-> RequestsOf(lines[n])] \in Seq(Seq(Asking))
<1>1. \A n \in 1..Len(lines) : RequestsOf(lines[n]) \in Seq(Asking)
  BY CommandAsks
<1> QED BY ONLY lines \in Seq(Word), <1>1

LEMMA RequestedTyped ==
    ASSUME NEW lines \in Seq(Word)
    PROVE  Requested(lines) \in Seq(Asking)
<1> DEFINE r == [n \in DOMAIN lines |-> RequestsOf(lines[n])]
<1>1. r \in Seq(Seq(Asking))
  BY RequestsTyped
<1> HIDE DEF r
<1>2. List!FlattenSeq(r) \in Seq(Asking)
  BY ONLY <1>1, List!FlattenTyped
<1> QED BY <1>2, SameFolds DEF Requested, r

\* More lines ask for more.
LEMMA RequestedMore ==
    ASSUME NEW a \in Seq(Word), NEW b \in Seq(Word)
    PROVE  Requested(a \o b) = Requested(a) \o Requested(b)
<1> DEFINE r == [n \in DOMAIN a |-> RequestsOf(a[n])]
           s == [n \in DOMAIN b |-> RequestsOf(b[n])]
           t == [n \in DOMAIN (a \o b) |-> RequestsOf((a \o b)[n])]
<1>1. r \in Seq(Seq(Asking)) /\ s \in Seq(Seq(Asking)) /\ t \in Seq(Seq(Asking))
  BY RequestsTyped
<1>2. t = r \o s
  <2>1. /\ Len(t) = Len(a) + Len(b) /\ Len(r) = Len(a) /\ Len(s) = Len(b)
        /\ Len(a) \in Nat /\ Len(b) \in Nat
    OBVIOUS
  <2>2. ASSUME NEW n \in 1..Len(a) PROVE t[n] = r[n]
    OBVIOUS
  <2>3. ASSUME NEW n \in 1..Len(b) PROVE t[Len(a) + n] = s[n]
    OBVIOUS
  <2> HIDE DEF r, s, t
  <2>4. IsJoined(t, r, s)
    BY ONLY <1>1, <2>1, <2>2, <2>3, Joined
  <2> QED BY <2>4 DEF IsJoined
<1> HIDE DEF r, s, t
<1>3. List!FlattenSeq(r \o s) = List!FlattenSeq(r) \o List!FlattenSeq(s)
  BY <1>1, List!FlattenConcat
<1>4. FlattenSeq(t) = FlattenSeq(r) \o FlattenSeq(s)
  BY ONLY <1>2, <1>3, SameFolds
<1> QED BY <1>4 DEF Requested, r, s, t

LEMMA HeardMore ==
    ASSUME NEW a \in Seq(Characters), NEW b \in Seq(Characters)
    PROVE  Heard(a \o b) = Heard(a) \o Heard(b)
<1> DEFINE T == {Deserialize(c) : c \in Characters}
           s == Heard(a)
           t == Heard(b)
           u == Heard(a \o b)
<1>1. s \in Seq(T) /\ t \in Seq(T) /\ Len(s) = Len(a) /\ Len(t) = Len(b)
  BY DEF Heard
<1>2. u \in Seq(T) /\ Len(u) = Len(a) + Len(b) /\ Len(a) \in Nat /\ Len(b) \in Nat
  BY DEF Heard
<1>3. \A n \in 1..Len(a) : u[n] = s[n]
  BY DEF Heard
<1>4. \A n \in 1..Len(b) : u[Len(a) + n] = t[n]
  BY DEF Heard
<1> HIDE DEF s, t, u, T
<1>5. IsJoined(u, s, t)
  BY ONLY <1>1, <1>2, <1>3, <1>4, Joined
<1> QED BY <1>5 DEF IsJoined, s, t, u

\* Messages are heard as they were sent.
LEMMA HeardAsSent ==
    ASSUME NEW messages \in Seq(AnyMessage)
    PROVE  Wires(messages) \in Seq(Characters) /\ Heard(Wires(messages)) = messages
<1> DEFINE w == Wires(messages)
<1>1. /\ DOMAIN messages = 1..Len(messages) /\ Len(messages) \in Nat
      /\ \A n \in DOMAIN messages : messages[n] \in AnyMessage
  OBVIOUS
<1>2. \A n \in DOMAIN messages : Serialize(messages[n]) \in Characters
  BY <1>1, ReadAsWritten
<1>3. w \in Seq(Characters) /\ DOMAIN w = DOMAIN messages
  BY ONLY <1>1, <1>2 DEF Wires
<1>4. \A n \in DOMAIN messages : Deserialize(w[n]) = messages[n]
  BY <1>1, ReadAsWritten DEF Wires
<1>5. Heard(w) = [n \in DOMAIN messages |-> messages[n]]
  BY ONLY <1>3, <1>4 DEF Heard
<1> QED BY <1>1, <1>3, <1>5

\* What is queued for these lines is what they ask.
Queued(lines) == FlattenSeq([n \in DOMAIN lines |-> Requests(lines[n])])

LEMMA QueuedAsRequested ==
    ASSUME NEW lines \in Seq(Word)
    PROVE  Queued(lines) \in Seq(Characters) /\ Heard(Queued(lines)) = Requested(lines)
<1> DEFINE r == [n \in DOMAIN lines |-> RequestsOf(lines[n])]
           w(p) == [n \in DOMAIN p |-> Wires(p[n])]
           S == {p \in Seq(Seq(Asking)) : List!FlattenSeq(w(p)) = Wires(List!FlattenSeq(p))}
<1>1. r \in Seq(Seq(Asking))
  BY RequestsTyped
<1>2. ASSUME NEW s \in Seq(Asking) PROVE Wires(s) \in Seq(Characters)
  <2>1. s \in Seq(AnyMessage)
    BY DEF Asking
  <2> QED BY <2>1, HeardAsSent
<1>3. ASSUME NEW p \in Seq(Seq(Asking)) PROVE w(p) \in Seq(Seq(Characters)) /\ Len(w(p)) = Len(p)
  <2>1. \A n \in 1..Len(p) : Wires(p[n]) \in Seq(Characters)
    BY <1>2
  <2>2. \A s, T : s \in Seq(T) => Len(s) \in Nat /\ DOMAIN s = 1..Len(s)
    OBVIOUS
  <2>3. DOMAIN p = 1..Len(p) /\ Len(p) \in Nat
    BY <2>2
  <2>4. w(p) \in [1..Len(p) -> Seq(Characters)]
    BY ONLY <2>1, <2>3
  <2> HIDE DEF w
  <2> QED BY ONLY <2>3, <2>4, Listed
<1>4. <<>> \in S
  <2>1. w(<<>>) = <<>> /\ Wires(<<>>) = <<>> /\ <<>> \in Seq(Seq(Asking))
    BY DEF Wires
  <2> QED BY <2>1, List!FlattenNothing
<1>5. ASSUME NEW p \in S, NEW e \in Seq(Asking) PROVE Append(p, e) \in S
  <2>1. p \in Seq(Seq(Asking)) /\ Append(p, e) \in Seq(Seq(Asking))
    OBVIOUS
  <2>2. List!FlattenSeq(w(p)) = Wires(List!FlattenSeq(p))
    OBVIOUS
  <2>3. w(Append(p, e)) = Append(w(p), Wires(e))
    <3> DEFINE a == w(Append(p, e))
               b == Append(w(p), Wires(e))
    <3>1. a \in Seq(Seq(Characters)) /\ Len(a) = Len(p) + 1 /\ Len(p) \in Nat
      <4>1. Len(Append(p, e)) = Len(p) + 1 /\ Len(p) \in Nat
        BY <2>1
      <4> QED BY ONLY <1>3, <2>1, <4>1
    <3>2. w(p) \in Seq(Seq(Characters)) /\ Len(w(p)) = Len(p) /\ Wires(e) \in Seq(Characters)
      BY <1>2, <1>3, <2>1
    <3>3. \A n \in 1..Len(p) : a[n] = w(p)[n]
      BY <2>1
    <3>4. a[Len(p) + 1] = Wires(e)
      BY <2>1
    <3> HIDE DEF a, w
    <3>5. b \in Seq(Seq(Characters)) /\ Len(b) = Len(p) + 1
      BY ONLY <3>2
    <3>6. \A n \in 1..Len(p) : b[n] = w(p)[n]
      BY ONLY <3>2
    <3>7. b[Len(p) + 1] = Wires(e)
      BY ONLY <3>2
    <3> HIDE DEF b
    <3>8. ASSUME NEW n \in 1..Len(a) PROVE a[n] = b[n]
      <4>1. n \in 1..Len(p) \/ n = Len(p) + 1
        BY ONLY <3>1, n \in 1..Len(a)
      <4> QED BY ONLY <3>3, <3>4, <3>6, <3>7, <4>1
    <3>9. a = b
      BY ONLY <3>1, <3>5, <3>8, SameElements
    <3> QED BY <3>9 DEF a, b
  <2> HIDE DEF w, S
  <2>4. List!FlattenSeq(Append(w(p), Wires(e))) = List!FlattenSeq(w(p)) \o Wires(e)
    <3>1. w(p) \in Seq(Seq(Characters)) /\ Wires(e) \in Seq(Characters)
      BY <1>2, <1>3, <2>1
    <3> QED BY ONLY <3>1, List!FlattenAppend
  <2>5. List!FlattenSeq(Append(p, e)) = List!FlattenSeq(p) \o e /\ List!FlattenSeq(p) \in Seq(Asking)
    BY ONLY <2>1, e \in Seq(Asking), List!FlattenAppend, List!FlattenTyped
  <2>6. ASSUME NEW a \in Seq(Asking), NEW b \in Seq(Asking) PROVE Wires(a \o b) = Wires(a) \o Wires(b)
    <3> DEFINE s == Wires(a)
               t == Wires(b)
               u == Wires(a \o b)
    <3>1. s \in Seq(Characters) /\ t \in Seq(Characters) /\ u \in Seq(Characters)
      <4>1. a \o b \in Seq(Asking)
        OBVIOUS
      <4> QED BY <1>2, <4>1
    <3>2. Len(s) = Len(a) /\ Len(t) = Len(b) /\ Len(u) = Len(a) + Len(b)
      BY DEF Wires
    <3>3. \A n \in 1..Len(a) : u[n] = s[n]
      BY DEF Wires
    <3>4. \A n \in 1..Len(b) : u[Len(a) + n] = t[n]
      BY DEF Wires
    <3> HIDE DEF s, t, u
    <3>5. IsJoined(u, s, t)
      BY ONLY <3>1, <3>2, <3>3, <3>4, Joined
    <3> QED BY <3>5 DEF IsJoined, s, t, u
  <2>7. Wires(List!FlattenSeq(p) \o e) = Wires(List!FlattenSeq(p)) \o Wires(e)
    BY ONLY <2>5, <2>6, e \in Seq(Asking)
  <2>8. List!FlattenSeq(w(Append(p, e))) = Wires(List!FlattenSeq(Append(p, e)))
    BY ONLY <2>2, <2>3, <2>4, <2>5, <2>7
  <2> QED BY ONLY <2>1, <2>8 DEF S
<1>6. \A n \in 1..Len(r) : r[n] \in Seq(Asking)
  <2> HIDE DEF r
  <2> QED BY <1>1
<1>7. [n \in DOMAIN lines |-> Requests(lines[n])] = w(r)
  <2>1. \A n \in DOMAIN lines : Requests(lines[n]) = Wires(r[n])
    BY DEF Requests, Wires
  <2> QED BY <2>1
<1> HIDE DEF S, r, w
<1>8. r \in S
  <2>1. ASSUME NEW n \in 1..Len(r), SubSeq(r, 1, n - 1) \in S
        PROVE  Append(SubSeq(r, 1, n - 1), r[n]) \in S
    BY <1>5, <1>6, <2>1
  <2> QED BY ONLY <1>1, <1>4, <2>1, List!GrowingPrefixes
<1>9. Queued(lines) = Wires(Requested(lines))
  <2>1. List!FlattenSeq(w(r)) = Wires(List!FlattenSeq(r))
    BY <1>8 DEF S
  <2>2. FlattenSeq(w(r)) = Wires(FlattenSeq(r))
    BY ONLY <2>1, SameFolds
  <2> QED BY ONLY <1>7, <2>2 DEF Queued, Requested, r
<1>10. Requested(lines) \in Seq(AnyMessage)
  <2>1. Requested(lines) \in Seq(Asking)
    BY RequestedTyped
  <2> QED BY <2>1 DEF Asking
<1> QED BY ONLY <1>9, <1>10, HeardAsSent

-----------------------------------------------------------------------------
(***************************************************************************)
(* The invariant                                                           *)
(***************************************************************************)

\* All the client wrote or will write, and the lines it has read.
Bodies    == written \o write_queue
ReadLines == SubSeq(typed, 1, Len(typed) - Len(input))

\* The request to authenticate is the first of the bodies, and behind it there is what was
\* taken for commands asked, in order.
Asks ==
    /\ written \in Seq(Characters) /\ write_queue \in Seq(Characters)
    /\ executed \in Seq(Word)
    /\ Heard(Bodies) = <<AuthenticationOf(authentication)>> \o Requested(executed)

\* Unless a line was cut, what was taken for commands are the lines that were read, or some
\* of them.
Reads ==
    /\ typed \in Seq(Command) /\ input \in Seq(Command) /\ Ends(input, typed)
    /\ cut \in BOOLEAN
    /\ ~cut => IF piped THEN IsSubsequence(executed, ReadLines) ELSE executed = ReadLines

asksVars == <<authentication, piped, typed, input, executed, cut, written, write_queue>>

\* Who changes what the client asks.
LEMMA AsksWriters ==
    ASSUME [Next]_sessionVars
    PROVE  \/ UNCHANGED asksVars
           \/ (\E command \in Command : Type(command)) \/ HandleInput \/ HandleWrite
<1>1. CASE ClientSteps
  <2>1. CASE EndInput
    BY <2>1 DEF EndInput, asksVars, socketVars
  <2>2. CASE Poll
    BY <2>2 DEF Poll, asksVars, socketVars, inputVars
  <2>3. CASE HandleMessage
    BY <2>3 DEF HandleMessage, asksVars, socketVars, inputVars
  <2>4. CASE EndRead
    BY <2>4 DEF EndRead, ReadEnd, asksVars, socketVars, inputVars
  <2>5. CASE EndTurn
    BY <2>5 DEF EndTurn, asksVars, socketVars, inputVars
  <2> QED BY <1>1, <2>1, <2>2, <2>3, <2>4, <2>5 DEF ClientSteps, Turn
<1>2. CASE UNCHANGED clientVars
  BY <1>2 DEF clientVars, asksVars, socketVars, inputVars
<1>3. CASE ServerReads \/ ServerAuthenticates \/ HubReceives \/ ServerMisreads \/ BrokenPipe \/ Removed
  BY <1>2, <1>3 DEF ServerReads, ServerAuthenticates, HubReceives, ServerMisreads, Handles,
                    BrokenPipe, Removed
<1>4. CASE \E message \in HubMessage : HubSends(message)
  BY <1>2, <1>4 DEF HubSends
<1>5. CASE UNCHANGED sessionVars
  BY <1>2, <1>5 DEF sessionVars
<1> QED BY <1>1, <1>3, <1>4, <1>5 DEF Next

LEMMA AsksAtFirst ==
    ASSUME SessionInit
    PROVE  Asks /\ Reads
<1> DEFINE a == AuthenticationOf(authentication)
           s == Serialize(a)
<1>1. a \in AnyMessage
  BY OptionConveyed DEF SessionInit, Init
<1>2. s \in Characters /\ Deserialize(s) = a
  BY <1>1, ReadAsWritten
<1>3. /\ written = <<>> /\ write_queue = <<s>> /\ typed = <<>> /\ input = <<>>
      /\ executed = <<>> /\ cut = FALSE
  BY DEF SessionInit, Init
<1> HIDE DEF a, s
<1>4. Bodies = <<s>>
  BY <1>2, <1>3 DEF Bodies
<1>5. Heard(<<s>>) = <<a>> \o <<>>
  BY <1>2 DEF Heard
<1>6. ReadLines = <<>>
  BY <1>3 DEF ReadLines
<1>7. Requested(<<>>) = <<>>
  BY SameFolds, List!FlattenNothing DEF Requested
<1>8. IsSubsequence(<<>>, <<>>)
  <2>1. <<>> \in Seq(Word)
    OBVIOUS
  <2> QED BY ONLY <2>1, LeftOfAll
<1>9. Heard(Bodies) = <<a>> \o Requested(executed)
  BY <1>3, <1>4, <1>5, <1>7
<1>10. Ends(<<>>, <<>>)
  BY DEF Ends
<1>11. Reads
  <2>1. /\ typed \in Seq(Command) /\ input \in Seq(Command) /\ Ends(input, typed)
        /\ cut \in BOOLEAN
    <3>1. <<>> \in Seq(Command)
      OBVIOUS
    <3> QED BY ONLY <1>3, <1>10, <3>1
  <2>2. IF piped THEN IsSubsequence(executed, ReadLines) ELSE executed = ReadLines
    BY <1>3, <1>6, <1>8
  <2> QED BY <2>1, <2>2 DEF Reads
<1>12. written \in Seq(Characters) /\ write_queue \in Seq(Characters) /\ executed \in Seq(Word)
  BY <1>2, <1>3
<1> QED BY <1>9, <1>11, <1>12 DEF Asks, a

LEMMA TypeAsks ==
    ASSUME Asks, Reads, NEW command \in Command, Type(command)
    PROVE  Asks' /\ Reads'
<1>1. /\ input' = Append(input, command) /\ typed' = Append(typed, command)
      /\ UNCHANGED <<authentication, piped, executed, cut, written, write_queue>>
  BY DEF Type, socketVars
<1>2. typed \in Seq(Command) /\ input \in Seq(Command) /\ Ends(input, typed)
  BY DEF Reads
<1>3. typed' \in Seq(Command) /\ input' \in Seq(Command)
  BY <1>1, <1>2
<1>4. Ends(input', typed')
  BY <1>1, <1>2, EndsMore
<1>5. SubSeq(typed', 1, Len(typed') - Len(input')) = SubSeq(typed, 1, Len(typed) - Len(input))
  <2>1. Len(typed) \in Nat /\ Len(input) \in Nat /\ Len(input) <= Len(typed)
    BY <1>2 DEF Ends
  <2>2. Len(typed') - Len(input') = Len(typed) - Len(input)
    BY <1>1, <1>2, <2>1
  <2> DEFINE n == Len(typed) - Len(input)
             s == SubSeq(typed', 1, n)
             t == SubSeq(typed, 1, n)
  <2>3. n \in 0..Len(typed)
    BY <2>1
  <2> HIDE DEF n
  <2>4. t \in Seq(Command) /\ Len(t) = n /\ \A i \in 1..n : t[i] = typed[i]
    BY <1>2, <2>3
  <2>5. Len(typed') = Len(typed) + 1 /\ \A i \in 1..Len(typed) : typed'[i] = typed[i]
    BY <1>1, <1>2
  <2>6. s \in Seq(Command) /\ Len(s) = n /\ \A i \in 1..n : s[i] = typed'[i]
    BY <1>3, <2>1, <2>3, <2>5
  <2>7. \A i \in 1..n : i \in 1..Len(typed)
    BY <2>1, <2>3
  <2> HIDE DEF s, t
  <2>8. s = t
    BY <2>4, <2>5, <2>6, <2>7, SameElements
  <2> QED BY <2>2, <2>8 DEF s, t, n
<1>6. ReadLines' = ReadLines /\ Bodies' = Bodies
  BY <1>1, <1>5 DEF ReadLines, Bodies
<1>7. Asks'
  BY <1>1, <1>6 DEF Asks
<1>8. Reads'
  BY <1>1, <1>3, <1>4, <1>6 DEF Reads
<1> QED BY <1>7, <1>8

LEMMA ReadingTyped ==
    ASSUME NEW n, NEW line \in Command, NEW parts \in Readings(n, line)
    PROVE  parts \in Seq(Word) /\ (~piped /\ parts # <<line>> => Len(parts) >= 2)
<1>1. CASE parts = <<line>>
  BY <1>1 DEF Word
<1>2. CASE parts # <<line>>
  <2>1. /\ parts \in BoundedSeq(Fragment, MaxParts)
        /\ Len(parts) >= IF ~piped THEN 2 ELSE IF n = 1 THEN 1 ELSE 0
    BY <1>2 DEF Readings
  <2>2. parts \in Seq(Word)
    <3>1. PICK m \in 0..MaxParts : parts \in [1..m -> Fragment]
      BY <2>1 DEF BoundedSeq, SeqOf
    <3>2. m \in Nat
      <4>1. MaxParts \in Nat
        BY SessionAssumption
      <4> QED BY ONLY <4>1
    <3>3. parts \in [1..m -> Word]
      <4>1. Fragment \subseteq Word
        BY DEF Word
      <4> QED BY ONLY <3>1, <4>1
    <3> QED BY ONLY <3>2, <3>3
  <2> QED BY <2>1, <2>2
<1> QED BY <1>1, <1>2

\* What is taken for commands when the input is read.
LEMMA InputRead ==
    ASSUME Reads, HandleInput
    PROVE  \E reading \in Seq(Seq(Word)) :
                /\ Len(reading) = Len(input)
                /\ \A n \in 1..Len(input) : reading[n] \in Readings(n, input[n])
                /\ FlattenSeq(reading) \in Seq(Word)
                /\ executed' = executed \o FlattenSeq(reading)
                /\ cut' = (cut \/ CutIn(reading))
                /\ write_queue' = write_queue \o Queued(FlattenSeq(reading))
                /\ is_open' \in BOOLEAN
<1>1. input \in Seq(Command) /\ DOMAIN input = 1..Len(input) /\ Len(input) \in Nat
  BY DEF Reads
<1>2. PICK reading \in [DOMAIN input -> UNION {Readings(n, input[n]) : n \in DOMAIN input}] :
        LET commands == Executed(reading)
        IN  /\ \A n \in DOMAIN input : reading[n] \in Readings(n, input[n])
            /\ executed' = executed \o commands
            /\ cut' = (cut \/ CutIn(reading))
            /\ Enqueue(FlattenSeq([n \in DOMAIN commands |-> Requests(commands[n])]))
            /\ is_open' = (is_open /\ \A n \in DOMAIN commands : commands[n].word # "CLOSE")
  BY DEF HandleInput
<1>3. \A n \in 1..Len(input) : reading[n] \in Readings(n, input[n]) /\ reading[n] \in Seq(Word)
  BY <1>1, <1>2, ReadingTyped
<1>4. reading \in Seq(Seq(Word)) /\ Len(reading) = Len(input)
  <2>1. reading \in [1..Len(input) -> Seq(Word)]
    BY ONLY <1>1, <1>3,
            reading \in [DOMAIN input -> UNION {Readings(n, input[n]) : n \in DOMAIN input}]
  <2> QED BY ONLY <1>1, <2>1, Listed
<1>5. FlattenSeq(reading) \in Seq(Word)
  <2>1. List!FlattenSeq(reading) \in Seq(Word)
    BY ONLY <1>4, List!FlattenTyped
  <2> QED BY <2>1, SameFolds
<1>6. /\ executed' = executed \o FlattenSeq(reading)
      /\ cut' = (cut \/ CutIn(reading))
      /\ write_queue' = write_queue \o Queued(FlattenSeq(reading))
      /\ is_open' \in BOOLEAN
  BY <1>2 DEF Executed, Enqueue, Queued
<1> QED BY ONLY <1>3, <1>4, <1>5, <1>6

LEMMA HandleInputAsks ==
    ASSUME Asks, Reads, HandleInput, authentication \in Option
    PROVE  Asks'
<1> DEFINE a == AuthenticationOf(authentication)
<1>1. /\ written \in Seq(Characters) /\ write_queue \in Seq(Characters)
      /\ executed \in Seq(Word) /\ Heard(Bodies) = <<a>> \o Requested(executed)
  BY DEF Asks
<1>2. PICK E \in Seq(Word) : executed' = executed \o E /\ write_queue' = write_queue \o Queued(E)
  BY InputRead
<1>3. UNCHANGED <<authentication, written>>
  BY DEF HandleInput
<1> DEFINE q == Queued(E)
<1>4. q \in Seq(Characters) /\ Heard(q) = Requested(E)
  BY QueuedAsRequested
<1> HIDE DEF q
<1>5. Bodies \in Seq(Characters) /\ Bodies' = Bodies \o q
  <2>1. (written \o write_queue) \o q = written \o (write_queue \o q)
    BY ONLY <1>1, <1>4, SMTT(30)
  <2>2. written \o write_queue \in Seq(Characters)
    BY ONLY <1>1
  <2> QED BY <1>2, <1>3, <2>1, <2>2 DEF Bodies, q
<1>6. Requested(E) \in Seq(Asking) /\ Requested(executed) \in Seq(Asking)
  BY <1>1, RequestedTyped
<1>7. Heard(Bodies') = <<a>> \o Requested(executed')
  <2>1. Heard(Bodies \o q) = Heard(Bodies) \o Heard(q)
    BY ONLY <1>4, <1>5, HeardMore
  <2>2. a \in AnyMessage
    BY OptionConveyed
  <2> HIDE DEF a
  <2>3. /\ <<a>> \in Seq(AnyMessage) /\ Requested(executed) \in Seq(AnyMessage)
        /\ Requested(E) \in Seq(AnyMessage)
    BY <1>6, <2>2 DEF Asking
  <2>4. (<<a>> \o Requested(executed)) \o Requested(E)
            = <<a>> \o (Requested(executed) \o Requested(E))
    BY ONLY <2>3, Regroup
  <2>5. Requested(executed \o E) = Requested(executed) \o Requested(E)
    BY <1>1, RequestedMore
  <2> QED BY ONLY <1>1, <1>2, <1>4, <1>5, <2>1, <2>4, <2>5
<1>8. write_queue' \in Seq(Characters) /\ written' \in Seq(Characters) /\ executed' \in Seq(Word)
  <2>1. write_queue \o q \in Seq(Characters)
    BY ONLY <1>1, <1>4
  <2>2. executed \o E \in Seq(Word)
    BY ONLY <1>1, E \in Seq(Word)
  <2> QED BY <1>1, <1>2, <1>3, <2>1, <2>2 DEF q
<1>9. a = AuthenticationOf(authentication')
  BY <1>3
<1> QED BY <1>7, <1>8, <1>9 DEF Asks

LEMMA HandleInputReads ==
    ASSUME Asks, Reads, HandleInput
    PROVE  Reads'
<1>1. /\ typed \in Seq(Command) /\ input \in Seq(Command) /\ Ends(input, typed)
      /\ cut \in BOOLEAN /\ executed \in Seq(Word)
  BY DEF Reads, Asks
<1>2. input' = <<>> /\ UNCHANGED <<piped, typed>>
  BY DEF HandleInput
<1>3. PICK reading \in Seq(Seq(Word)) :
        /\ Len(reading) = Len(input)
        /\ \A n \in 1..Len(input) : reading[n] \in Readings(n, input[n])
        /\ executed' = executed \o FlattenSeq(reading)
        /\ cut' = (cut \/ CutIn(reading))
  BY InputRead
<1>4. cut' \in BOOLEAN
  BY <1>1, <1>3 DEF CutIn
<1>5. ReadLines \in Seq(Command) /\ ReadLines \o input = typed
  BY <1>1, BeforeEnd DEF ReadLines
<1>6. ReadLines' = typed
  <2>1. SubSeq(typed, 1, Len(typed) - Len(<<>>)) = typed
    BY <1>1
  <2> QED BY <1>2, <2>1 DEF ReadLines
<1>7. ASSUME ~cut' PROVE IF piped THEN IsSubsequence(executed', typed) ELSE executed' = typed
  <2>1. ~cut /\ ~CutIn(reading)
    BY <1>3, <1>7
  <2>2. \A n \in 1..Len(input) : reading[n] = <<>> \/ reading[n] = <<input[n]>>
    <3>1. DOMAIN reading = 1..Len(input)
      BY <1>3
    <3> QED BY <2>1, <3>1 DEF CutIn
  <2>3. executed' = executed \o List!FlattenSeq(reading)
    BY <1>3, SameFolds
  <2>4. input \in Seq(Word) /\ ReadLines \in Seq(Word)
    BY <1>1, <1>5 DEF Word
  <2>5. CASE piped
    <3>1. IsSubsequence(executed, ReadLines)
      BY <2>1, <2>5 DEF Reads
    <3>2. IsSubsequence(executed \o List!FlattenSeq(reading), ReadLines \o input)
      BY ONLY <1>1, <1>3, <2>2, <2>4, <3>1, reading \in Seq(Seq(Word)), LeftOneByOne
    <3> QED BY ONLY <1>5, <2>3, <2>5, <3>2
  <2>6. CASE ~piped
    <3>1. executed = ReadLines
      BY <2>1, <2>6 DEF Reads
    <3>2. ASSUME NEW n \in 1..Len(input) PROVE reading[n] = <<input[n]>>
      <4>1. input[n] \in Command /\ reading[n] \in Readings(n, input[n])
        BY <1>1, <1>3
      <4>2. reading[n] # <<input[n]>> => Len(reading[n]) >= 2
        BY ONLY <2>6, <4>1, ReadingTyped
      <4>3. Len(<<>>) = 0
        OBVIOUS
      <4>4. reading[n] # <<>> \/ reading[n] = <<input[n]>>
        BY ONLY <4>2, <4>3
      <4> QED BY <2>2, <4>4
    <3>3. List!FlattenSeq(reading) = input
      BY ONLY <1>3, <2>4, <3>2, reading \in Seq(Seq(Word)), EachInTurn
    <3> QED BY ONLY <1>5, <2>3, <2>6, <3>1, <3>3
  <2> QED BY <2>5, <2>6
<1>8. Ends(<<>>, typed) /\ <<>> \in Seq(Command)
  BY <1>1 DEF Ends
<1>9. typed' \in Seq(Command) /\ input' \in Seq(Command) /\ Ends(input', typed')
  BY <1>1, <1>2, <1>8
<1> QED BY <1>2, <1>4, <1>6, <1>7, <1>9 DEF Reads

LEMMA HandleWriteAsks ==
    ASSUME Asks, Reads, HandleWrite
    PROVE  Asks' /\ Reads'
<1>1. UNCHANGED <<authentication, piped, typed, input, executed, cut>>
  BY DEF HandleWrite, inputVars
<1>2. written \in Seq(Characters) /\ write_queue \in Seq(Characters)
  BY DEF Asks
<1>3. Bodies' = Bodies /\ written' \in Seq(Characters) /\ write_queue' \in Seq(Characters)
  <2>1. CASE is_open
    <3>1. written' = written \o write_queue /\ write_queue' = <<>>
      BY <2>1 DEF HandleWrite
    <3>2. written \o write_queue \in Seq(Characters)
      BY <1>2
    <3>3. (written \o write_queue) \o <<>> = written \o write_queue
      BY <3>2
    <3> QED BY <3>1, <3>2, <3>3 DEF Bodies
  <2>2. CASE ~is_open
    BY <1>2, <2>2 DEF HandleWrite, Bodies
  <2> QED BY <2>1, <2>2
<1>4. ReadLines' = ReadLines
  BY <1>1 DEF ReadLines
<1>5. Asks'
  BY <1>1, <1>3 DEF Asks
<1>6. Reads'
  BY <1>1, <1>4 DEF Reads
<1> QED BY <1>5, <1>6

LEMMA AsksKept ==
    ASSUME Asks, Reads, authentication \in Option, [Next]_sessionVars
    PROVE  Asks' /\ Reads'
<1>1. CASE UNCHANGED asksVars
  <2>1. ReadLines' = ReadLines /\ Bodies' = Bodies
    BY <1>1 DEF asksVars, ReadLines, Bodies
  <2>2. Asks'
    BY <1>1, <2>1 DEF Asks, asksVars
  <2>3. Reads'
    BY <1>1, <2>1 DEF Reads, asksVars
  <2> QED BY <2>2, <2>3
<1> QED BY <1>1, AsksWriters, TypeAsks, HandleInputAsks, HandleInputReads, HandleWriteAsks

\* What the server has handled is in the order in which it was written, from the first on,
\* and before what it has not; nothing is passed over unless an exception dropped it.
Places ==
    /\ handled \in Seq(Nat) /\ dropped \subseteq 1..Len(written)
    /\ garbled \in BOOLEAN /\ batch \in 0..Len(written) /\ (garbled => batch = 0)
    /\ \A n \in 1..Len(handled) :
        /\ handled[n] \in 1..Len(written)
        /\ n > 1 => handled[n - 1] < handled[n]
        /\ \A m \in Left : handled[n] < m
    /\ handled # <<>> => handled[1] = 1
    /\ handled = <<>> => dropped = {} /\ ~garbled
    /\ dropped = {} => \A n \in 1..Len(handled) : handled[n] = n

\* The first that is handled is the request to authenticate, and what the hub got is what was
\* handled behind it.
Hears ==
    /\ outcome \in {"none", "granted", "refused", "throws"}
    /\ (handled = <<>>) = (outcome = "none")
    /\ (user # NoUser) = (outcome = "granted")
    /\ hub \in Seq(Asking)
    /\ ~garbled => /\ Len(hub) = IF user = NoUser THEN 0 ELSE Len(handled) - 1
                   /\ \A n \in 1..Len(hub) : hub[n] = Deserialize(written[handled[n + 1]])

\* Who an option is when it is known.
Identity(option) == IF option.method = "none" THEN "nobody" ELSE option.username

Judges ==
    /\ user \in {NoUser, "nobody"} \cup DOMAIN Spelling
    /\ ~garbled =>
        /\ outcome = "granted" => Known(authentication) /\ user = Identity(authentication)
        /\ outcome = "refused" => ~Known(authentication)

\* The bodies under way are the messages told, in order, and the client knows that it is
\* authenticated from the first on.
Answers ==
    /\ told \in Seq(AnyMessage) /\ Len(told) <= MaxForwarded + 1
    /\ incoming = Wires(told) /\ taken \in Seq(Characters) /\ Begins(taken, incoming)
    /\ (told # <<>>) = (user # NoUser)
    /\ told # <<>> => told[1] = AuthenticationResponse(TRUE)
    /\ authenticated = (taken # <<>>)

Event == {"input", "read", "write"}

Runs ==
    /\ authentication \in Option /\ piped \in BOOLEAN /\ ended \in BOOLEAN
    /\ Len(typed) <= MaxLines
    /\ events \in Seq(Event) /\ Len(events) <= 3
    /\ polling \in BOOLEAN /\ input_open \in BOOLEAN /\ is_open \in BOOLEAN
    /\ running \in BOOLEAN
    /\ has_password_file \in BOOLEAN
    /\ session \in {"open", "closed", "gone"} /\ server_up \in BOOLEAN
    /\ hung_up = (session # "open")

SessionInv == Runs /\ Asks /\ Reads /\ Places /\ Hears /\ Judges /\ Answers

\* What is under way to the server.
LEMMA UnderWay ==
    ASSUME Asks, authentication \in Option
    PROVE  LET asked == Requested(executed)
           IN  /\ asked \in Seq(Asking) /\ Len(written) <= 1 + Len(asked)
               /\ \A n \in 1..Len(written) :
                        Deserialize(written[n]) = IF n = 1 THEN AuthenticationOf(authentication)
                                                  ELSE asked[n - 1]
<1> DEFINE a     == AuthenticationOf(authentication)
           asked == Requested(executed)
<1>1. asked \in Seq(Asking) /\ Heard(Bodies) = <<a>> \o asked
  BY RequestedTyped DEF Asks
<1>2. written \in Seq(Characters) /\ write_queue \in Seq(Characters)
  BY DEF Asks
<1> HIDE DEF a, asked
<1> DEFINE s == <<a>> \o asked
<1>3. Len(s) = 1 + Len(asked) /\ s[1] = a /\ \A n \in 1..Len(asked) : s[n + 1] = asked[n]
  <2> DEFINE T == Asking \cup {a}
  <2>1. a \in T /\ asked \in Seq(T)
    BY <1>1
  <2> HIDE DEF T
  <2> QED BY ONLY <2>1
<1>4. /\ DOMAIN Heard(Bodies) = 1..(Len(written) + Len(write_queue))
      /\ Len(written) \in Nat /\ Len(write_queue) \in Nat
      /\ \A n \in 1..Len(written) : Heard(Bodies)[n] = Deserialize(written[n])
  BY <1>2 DEF Heard, Bodies
<1>5. DOMAIN s = 1..(1 + Len(asked)) /\ Len(asked) \in Nat
  BY <1>1, <1>3
<1> HIDE DEF s
<1>6. Heard(Bodies) = s
  BY <1>1 DEF s
<1>7. Len(written) <= 1 + Len(asked)
  BY ONLY <1>4, <1>5, <1>6
<1>8. ASSUME NEW n \in 1..Len(written)
      PROVE  Deserialize(written[n]) = IF n = 1 THEN a ELSE asked[n - 1]
  <2>1. Deserialize(written[n]) = s[n]
    BY <1>4, <1>6
  <2>2. CASE n = 1
    BY <1>3, <2>1, <2>2
  <2>3. CASE n # 1
    <3>1. n - 1 \in 1..Len(asked) /\ (n - 1) + 1 = n
      BY <1>4, <1>5, <1>7, <2>3
    <3> QED BY ONLY <1>3, <2>1, <2>3, <3>1
  <2> QED BY <2>2, <2>3
<1> QED BY <1>1, <1>7, <1>8 DEF a, asked

\* The place of the body that comes next.
LEMMA NextPlace ==
    ASSUME Asks, Places, Left # {}
    PROVE  /\ NextBody \in 1..Len(written) /\ Len(written) \in Nat /\ NextBody \in Left
           /\ \A m \in Left : NextBody <= m
           /\ handled = <<>> => NextBody = 1
           /\ handled # <<>> => NextBody > 1
           /\ dropped = {} => NextBody = Len(handled) + 1
<1>1. /\ written \in Seq(Characters) /\ handled \in Seq(Nat)
      /\ Len(written) \in Nat /\ Len(handled) \in Nat
      /\ DOMAIN written = 1..Len(written) /\ DOMAIN handled = 1..Len(handled)
  BY DEF Asks, Places
<1>2. Left \in SUBSET Nat /\ Left \subseteq 1..Len(written)
  BY <1>1 DEF Left
<1>3. \E n \in Left : \A m \in Left : n <= m
  BY ONLY <1>2, Left # {}, List!Smallest
<1>4. NextBody \in Left /\ \A m \in Left : NextBody <= m
  BY <1>3 DEF NextBody
<1>5. NextBody \in 1..Len(written)
  BY <1>2, <1>4
<1>6. \A m \in 1..Len(written) : m \in Left <=> m \notin dropped /\ \A n \in 1..Len(handled) : handled[n] # m
  BY <1>1 DEF Left, Range
<1>7. ASSUME handled = <<>> PROVE NextBody = 1
  <2>1. dropped = {} /\ Len(handled) = 0
    BY <1>7 DEF Places
  <2>2. 1 \in 1..Len(written)
    BY <1>1, <1>5
  <2>3. 1 \in Left
    BY <1>6, <2>1, <2>2
  <2> QED BY <1>4, <1>5, <2>3
<1>8. ASSUME handled # <<>> PROVE NextBody > 1
  <2>1. 1 \in 1..Len(handled) /\ handled[1] = 1
    BY <1>1, <1>8 DEF Places
  <2> QED BY <1>4, <2>1 DEF Places
<1>9. ASSUME dropped = {} PROVE NextBody = Len(handled) + 1
  <2>1. \A n \in 1..Len(handled) : handled[n] = n /\ n < NextBody
    BY <1>4, <1>9 DEF Places
  <2>2. Len(handled) < NextBody
    <3>1. Len(handled) = 0 \/ Len(handled) \in 1..Len(handled)
      BY <1>1
    <3> QED BY <1>5, <2>1, <3>1
  <2>3. Len(handled) + 1 \in 1..Len(written)
    BY <1>1, <1>5, <2>2
  <2>4. Len(handled) + 1 \in Left
    BY <1>1, <1>6, <1>9, <2>1, <2>3
  <2>5. NextBody <= Len(handled) + 1
    BY <1>4, <2>4
  <2> QED BY <1>1, <1>5, <2>2, <2>5
<1> QED BY <1>1, <1>4, <1>5, <1>7, <1>8, <1>9

\* The next body, as the server sees it.
LEMMA Delivered ==
    ASSUME Asks, Places, authentication \in Option, Left # {}
    PROVE  /\ handled = <<>> => Message = AuthenticationOf(authentication)
           /\ handled # <<>> => Message \in Asking
<1> DEFINE asked == Requested(executed)
<1>1. /\ asked \in Seq(Asking) /\ Len(written) <= 1 + Len(asked)
      /\ \A n \in 1..Len(written) :
                Deserialize(written[n]) = IF n = 1 THEN AuthenticationOf(authentication)
                                          ELSE asked[n - 1]
  BY UnderWay
<1>2. /\ NextBody \in 1..Len(written) /\ Len(written) \in Nat
      /\ handled = <<>> => NextBody = 1
      /\ handled # <<>> => NextBody > 1
  BY NextPlace
<1> HIDE DEF asked
<1>3. Message = IF NextBody = 1 THEN AuthenticationOf(authentication) ELSE asked[NextBody - 1]
  BY <1>1, <1>2 DEF Message
<1>4. ASSUME NextBody > 1 PROVE asked[NextBody - 1] \in Asking
  <2>1. NextBody - 1 \in 1..Len(asked)
    BY <1>1, <1>2, <1>4
  <2> QED BY <1>1, <2>1
<1> QED BY <1>2, <1>3, <1>4

\* What is dropped when a handler returns, or throws.
LEMMA Dropping ==
    ASSUME Asks, Places, batch > 0,
           Returns \/ Throws \/ (batch' = 0 /\ UNCHANGED <<dropped, garbled>>)
    PROVE  /\ batch' \in {0, batch - 1} /\ garbled' \in BOOLEAN /\ (garbled' => batch' = 0)
           /\ dropped \subseteq dropped' /\ dropped' \subseteq dropped \cup Left
<1>1. garbled = FALSE
  BY DEF Places
<1>2. CASE Returns \/ (batch' = 0 /\ UNCHANGED <<dropped, garbled>>)
  BY <1>1, <1>2 DEF Returns
<1>3. CASE Throws
  <2>1. batch' = 0 /\ garbled' \in {FALSE, Behind # {}}
    BY <1>3 DEF Throws
  <2>2. PICK gone \in SUBSET Behind : dropped' = dropped \cup gone
    BY <1>3 DEF Throws
  <2>3. Behind \subseteq Left
    BY DEF Behind
  <2> QED BY <2>1, <2>2, <2>3
<1> QED BY <1>2, <1>3

\* One more body is handled, and some may be dropped.
LEMMA HandledPlaces ==
    ASSUME Asks, Places, Left # {}, handled' = Append(handled, NextBody), written' = written,
           batch > 0, batch' \in {0, batch - 1}, garbled' \in BOOLEAN, garbled' => batch' = 0,
           dropped \subseteq dropped', dropped' \subseteq dropped \cup Left
    PROVE  Places' /\ handled' # <<>> /\ Len(handled') = Len(handled) + 1
<1> DEFINE k == Len(handled)
<1>1. /\ handled \in Seq(Nat) /\ dropped \subseteq 1..Len(written) /\ k \in Nat
      /\ batch \in 0..Len(written)
  BY DEF Places
<1>2. /\ NextBody \in 1..Len(written) /\ Len(written) \in Nat /\ NextBody \in Left
      /\ \A m \in Left : NextBody <= m
      /\ handled = <<>> => NextBody = 1
      /\ dropped = {} => NextBody = k + 1
  BY NextPlace
<1>3. /\ handled' \in Seq(Nat) /\ handled' # <<>> /\ Len(handled') = k + 1
      /\ handled'[k + 1] = NextBody /\ \A n \in 1..k : handled'[n] = handled[n]
  <2>1. NextBody \in Nat
    BY <1>2
  <2> QED BY ONLY handled' = Append(handled, NextBody), <1>1, <2>1, Appended
<1>4. Left' \subseteq Left \ {NextBody} /\ Left \subseteq 1..Len(written)
  <2>1. DOMAIN handled = 1..k /\ DOMAIN handled' = 1..(k + 1) /\ DOMAIN written = 1..Len(written)
    BY <1>1, <1>3 DEF Asks
  <2>2. Range(handled) \subseteq Range(handled') /\ NextBody \in Range(handled')
    BY <1>1, <1>3, <2>1 DEF Range
  <2> QED BY <2>1, <2>2 DEF Left
<1>5. dropped' \subseteq 1..Len(written')
  BY <1>1, <1>4
<1>6. batch' \in 0..Len(written')
  BY <1>1, <1>2
<1>7. \A n \in 1..(k + 1) : n \in 1..k \/ n = k + 1
  BY <1>1
<1>8. \A n \in 1..k : handled[n] \in 1..Len(written) /\ (n > 1 => handled[n - 1] < handled[n])
                     /\ \A m \in Left : handled[n] < m
  BY DEF Places
<1>9. ASSUME NEW n \in 1..Len(handled')
      PROVE  /\ handled'[n] \in 1..Len(written')
             /\ n > 1 => handled'[n - 1] < handled'[n]
             /\ \A m \in Left' : handled'[n] < m
  <2>1. CASE n \in 1..k
    <3>1. n > 1 => n - 1 \in 1..k
      BY <1>1, <2>1
    <3> QED BY <1>3, <1>4, <1>8, <2>1, <3>1
  <2>2. CASE n = k + 1
    <3>1. handled'[n] = NextBody
      BY <1>3, <2>2
    <3>2. n > 1 => n - 1 \in 1..k
      BY <1>1, <2>2
    <3>3. \A m \in Left' : NextBody < m
      BY <1>2, <1>4
    <3> QED BY <1>2, <1>3, <1>8, <3>1, <3>2, <3>3
  <2> QED BY <1>3, <1>7, <2>1, <2>2
<1>10. handled'[1] = 1
  <2>1. CASE handled = <<>>
    BY <1>2, <1>3, <2>1
  <2>2. CASE handled # <<>>
    <3>1. 1 \in 1..k
      BY <1>1, <2>2
    <3> QED BY <1>3, <2>2, <3>1 DEF Places
  <2> QED BY <2>1, <2>2
<1>11. ASSUME dropped' = {} PROVE \A n \in 1..Len(handled') : handled'[n] = n
  <2>1. dropped = {}
    BY <1>11
  <2> QED BY <1>2, <1>3, <1>7, <2>1 DEF Places
<1> QED BY <1>3, <1>5, <1>6, <1>9, <1>10, <1>11 DEF Places

\* What becomes of a body while nobody is authenticated: the first is the request to, and
\* any other ends the server.
LEMMA Authenticates ==
    ASSUME Asks, Places, authentication \in Option, has_password_file \in BOOLEAN,
           ServerAuthenticates
    PROVE  /\ server_up /\ user = NoUser /\ batch > 0 /\ Left # {}
           /\ handled' = Append(handled, NextBody)
           /\ UNCHANGED <<clientVars, has_password_file, hub>>
           /\ Returns \/ Throws \/ (batch' = 0 /\ UNCHANGED <<dropped, garbled>>)
           /\ \/ handled # <<>> /\ Crash
              \/ handled = <<>> /\ Refuse /\ ~Known(authentication)
              \/ /\ handled = <<>> /\ outcome' = "throws"
                 /\ UNCHANGED <<told, incoming, session, hung_up, user, server_up>>
              \/ /\ handled = <<>> /\ Grant(Identity(authentication)) /\ Known(authentication)
                 /\ Identity(authentication) # NoUser
                 /\ Identity(authentication) \in {"nobody"} \cup DOMAIN Spelling
<1>1. /\ server_up /\ user = NoUser /\ batch > 0 /\ Left # {}
      /\ handled' = Append(handled, NextBody)
      /\ UNCHANGED <<clientVars, has_password_file, hub>>
  BY DEF ServerAuthenticates, Handles
<1>2. \/ /\ Message.message_type # "AuthenticationRequest"
         /\ Crash /\ batch' = 0 /\ UNCHANGED <<dropped, garbled>>
      \/ /\ Message.message_type = "AuthenticationRequest"
         /\ \/ Verdict = "refused" /\ Refuse /\ Returns
            \/ /\ Verdict = "throws" /\ outcome' = "throws" /\ Throws /\ Tells
               /\ UNCHANGED <<session, hung_up, user, server_up>>
            \/ Verdict # "refused" /\ Verdict # "throws" /\ Grant(Verdict) /\ Returns
  BY DEF ServerAuthenticates, Handles
<1>3. Returns \/ Throws \/ (batch' = 0 /\ UNCHANGED <<dropped, garbled>>)
  BY ONLY <1>2
<1>4. Tells => UNCHANGED <<told, incoming>>
  BY DEF Tells
<1>5. CASE handled # <<>>
  <2>1. Message.message_type # "AuthenticationRequest"
    BY <1>1, <1>5, Delivered DEF Asking
  <2> QED BY ONLY <1>1, <1>2, <1>3, <1>5, <2>1
<1>6. CASE handled = <<>>
  <2>1. Message = AuthenticationOf(authentication)
    BY <1>1, <1>6, Delivered
  <2>2. Message.message_type = "AuthenticationRequest" /\ RequestOf(Message) = Request(authentication)
    BY <2>1, OptionConveyed
  <2> DEFINE request == Request(authentication)
  <2>3. Verdict = IF has_password_file THEN Protected!Authenticate(request)
                                       ELSE Unprotected!Authenticate(request)
    BY <2>2 DEF Verdict
  <2>4. /\ Verdict # "refused" /\ Verdict # "throws" =>
            /\ Known(authentication) /\ Verdict = Identity(authentication) /\ Verdict # NoUser
            /\ Verdict \in {"nobody"} \cup DOMAIN Spelling
        /\ Verdict = "refused" => ~Known(authentication)
    BY <2>3, Judgement DEF Identity
  <2>5. CASE Verdict = "refused"
    <3>1. Refuse /\ Returns
      BY <1>2, <2>2, <2>5
    <3> QED BY ONLY <1>1, <1>3, <1>6, <2>4, <2>5, <3>1
  <2>6. CASE Verdict = "throws"
    <3>1. outcome' = "throws" /\ Throws /\ Tells /\ UNCHANGED <<session, hung_up, user, server_up>>
      BY <1>2, <2>2, <2>6
    <3> QED BY ONLY <1>1, <1>3, <1>4, <1>6, <3>1
  <2>7. CASE Verdict # "refused" /\ Verdict # "throws"
    <3>1. Grant(Verdict) /\ Returns
      BY <1>2, <2>2, <2>7
    <3>2. Grant(Identity(authentication))
      BY <2>4, <2>7, <3>1
    <3> QED BY ONLY <1>1, <1>3, <1>6, <2>4, <2>7, <3>1, <3>2
  <2> QED BY <2>5, <2>6, <2>7
<1> QED BY <1>5, <1>6

placesVars  == <<handled, dropped, garbled, batch>>
hearsVars   == <<user, outcome, hub>>
judgesVars  == <<authentication, has_password_file>>
answersVars == <<user, told, incoming, taken, authenticated>>

\* Who changes what the server knows, and what the client is told.
LEMMA Writers ==
    ASSUME [Next]_sessionVars
    PROVE  /\ UNCHANGED <<authentication, piped, has_password_file>>
           /\ \/ UNCHANGED <<placesVars, hearsVars, server_up, written>>
              \/ HandleWrite /\ UNCHANGED <<placesVars, hearsVars, server_up>>
              \/ ServerReads \/ ServerAuthenticates \/ HubReceives \/ ServerMisreads
              \/ BrokenPipe /\ UNCHANGED <<placesVars, hearsVars, written>>
           /\ \/ UNCHANGED answersVars
              \/ HandleMessage /\ UNCHANGED <<user, told>>
              \/ ServerAuthenticates \/ ServerMisreads
              \/ \E message \in HubMessage : HubSends(message)
<1> USE DEF placesVars, hearsVars, answersVars
<1>1. CASE ClientSteps
  <2>1. UNCHANGED <<has_password_file, handled, dropped, garbled, batch, user, outcome, hub,
                    server_up, told, incoming>>
    BY <1>1 DEF ClientSteps, serverVars
  <2>2. CASE \E command \in Command : Type(command)
    BY <2>1, <2>2 DEF Type
  <2>3. CASE EndInput
    BY <2>1, <2>3 DEF EndInput
  <2>4. CASE Poll
    BY <2>1, <2>4 DEF Poll, inputVars
  <2>5. CASE HandleInput
    BY <2>1, <2>5 DEF HandleInput
  <2>6. CASE HandleMessage
    BY <2>1, <2>6 DEF HandleMessage, inputVars
  <2>7. CASE EndRead
    BY <2>1, <2>7 DEF EndRead, inputVars
  <2>8. CASE HandleWrite
    BY <2>1, <2>8 DEF HandleWrite, inputVars
  <2>9. CASE EndTurn
    BY <2>1, <2>9 DEF EndTurn, inputVars
  <2> QED BY <1>1, <2>2, <2>3, <2>4, <2>5, <2>6, <2>7, <2>8, <2>9 DEF ClientSteps, Turn
<1>2. UNCHANGED clientVars => UNCHANGED <<authentication, piped, written, taken, authenticated>>
  BY DEF clientVars, inputVars
<1>3. CASE ServerReads
  BY <1>2, <1>3 DEF ServerReads
<1>4. CASE ServerAuthenticates
  BY <1>2, <1>4 DEF ServerAuthenticates, Handles
<1>5. CASE HubReceives
  BY <1>2, <1>5 DEF HubReceives, Handles, Tells
<1>6. CASE ServerMisreads
  BY <1>2, <1>6 DEF ServerMisreads
<1>7. CASE \E message \in HubMessage : HubSends(message)
  BY <1>2, <1>7 DEF HubSends
<1>8. CASE BrokenPipe
  BY <1>2, <1>8 DEF BrokenPipe, Crash, Tells
<1>9. CASE Removed
  BY <1>2, <1>9 DEF Removed
<1>10. CASE UNCHANGED sessionVars
  BY <1>2, <1>10 DEF sessionVars, serverVars
<1> QED BY <1>1, <1>3, <1>4, <1>5, <1>6, <1>7, <1>8, <1>9, <1>10 DEF Next

\* More is written.
LEMMA HandleWritePlaces ==
    ASSUME Asks, Places, Hears, HandleWrite, UNCHANGED <<placesVars, hearsVars>>
    PROVE  Places' /\ Hears'
<1>1. /\ written \in Seq(Characters) /\ write_queue \in Seq(Characters)
      /\ Len(written) \in Nat /\ DOMAIN written = 1..Len(written)
  BY DEF Asks
<1>2. UNCHANGED <<handled, dropped, garbled, batch, user, outcome, hub>>
  BY DEF placesVars, hearsVars
<1>3. /\ Len(written') \in Nat /\ Len(written) <= Len(written') /\ DOMAIN written' = 1..Len(written')
      /\ \A n \in 1..Len(written) : written'[n] = written[n]
  <2>1. CASE written' = written
    BY <1>1, <2>1
  <2>2. CASE written' = written \o write_queue
    BY <1>1, <2>2
  <2> QED BY <2>1, <2>2 DEF HandleWrite
<1>4. \A m \in Left' : m \in Left \/ m > Len(written)
  BY <1>1, <1>2, <1>3 DEF Left
<1>5. handled \in Seq(Nat) /\ \A n \in 1..Len(handled) : handled[n] \in 1..Len(written)
  BY DEF Places
<1>6. ASSUME NEW n \in 1..Len(handled), NEW m \in Left' PROVE handled[n] < m
  <2>1. CASE m \in Left
    BY <2>1 DEF Places
  <2>2. CASE m > Len(written)
    <3>1. m \in 1..Len(written')
      BY <1>3 DEF Left
    <3> QED BY <1>1, <1>3, <1>5, <2>2, <3>1
  <2> QED BY <1>4, <2>1, <2>2
<1>7. /\ dropped \subseteq 1..Len(written') /\ batch \in 0..Len(written')
      /\ \A n \in 1..Len(handled) : handled[n] \in 1..Len(written')
  BY <1>1, <1>3, <1>5 DEF Places
<1>8. Places'
  BY <1>2, <1>6, <1>7 DEF Places
<1>9. Hears'
  <2>1. ASSUME ~garbled, NEW n \in 1..Len(hub)
        PROVE  written'[handled[n + 1]] = written[handled[n + 1]]
    <3>1. Len(hub) = IF user = NoUser THEN 0 ELSE Len(handled) - 1
      BY <2>1 DEF Hears
    <3>2. n + 1 \in 1..Len(handled)
      <4>1. Len(handled) \in Nat
        BY <1>5
      <4>2. n \in Nat /\ 1 <= n /\ n <= Len(hub)
        <5>1. Len(hub) \in Nat
          BY DEF Hears
        <5> QED BY <2>1, <5>1
      <4>3. n <= Len(handled) - 1
        BY ONLY <3>1, <4>1, <4>2
      <4> QED BY ONLY <4>1, <4>2, <4>3
    <3> QED BY <1>3, <1>5, <3>2
  <2> QED BY <1>2, <2>1 DEF Hears
<1> QED BY <1>8, <1>9

LEMMA ServerAuthenticatesHears ==
    ASSUME Asks, Places, Hears, authentication \in Option, has_password_file \in BOOLEAN,
           ServerAuthenticates
    PROVE  Places' /\ Hears'
<1>1. /\ user = NoUser /\ batch > 0 /\ Left # {} /\ hub' = hub /\ written' = written
      /\ handled' = Append(handled, NextBody)
      /\ Returns \/ Throws \/ (batch' = 0 /\ UNCHANGED <<dropped, garbled>>)
  BY Authenticates DEF clientVars
<1>2. Places' /\ handled' # <<>> /\ Len(handled') = Len(handled) + 1 /\ Len(handled) \in Nat
  <2>1. /\ batch' \in {0, batch - 1} /\ garbled' \in BOOLEAN /\ (garbled' => batch' = 0)
        /\ dropped \subseteq dropped' /\ dropped' \subseteq dropped \cup Left
    BY <1>1, Dropping
  <2>2. Len(handled) \in Nat
    BY DEF Places
  <2> QED BY <1>1, <2>1, <2>2, HandledPlaces
<1>3. /\ outcome \in {"none", "granted", "refused", "throws"}
      /\ (handled = <<>>) = (outcome = "none")
      /\ (user # NoUser) = (outcome = "granted")
      /\ hub \in Seq(Asking) /\ Len(hub) = 0
  BY <1>1 DEF Hears, Places
<1>4. /\ outcome' \in {"granted", "refused", "throws"}
      /\ (user' # NoUser) = (outcome' = "granted")
      /\ user' # NoUser => handled = <<>>
  <2>1. CASE handled # <<>> /\ Crash
    BY <1>1, <1>3, <2>1 DEF Crash
  <2>2. CASE Refuse
    BY <1>1, <2>2 DEF Refuse
  <2>3. CASE outcome' = "throws" /\ UNCHANGED <<told, incoming, session, hung_up, user, server_up>>
    BY <1>1, <2>3
  <2>4. CASE /\ handled = <<>> /\ Grant(Identity(authentication))
             /\ Identity(authentication) # NoUser
    BY <1>1, <2>4 DEF Grant
  <2> QED BY Authenticates, <2>1, <2>2, <2>3, <2>4
<1>5. Len(hub') = IF user' = NoUser THEN 0 ELSE Len(handled') - 1
  <2>1. handled = <<>> => Len(handled) = 0
    OBVIOUS
  <2> QED BY <1>1, <1>2, <1>3, <1>4, <2>1
<1>6. hub' \in Seq(Asking) /\ \A n \in 1..Len(hub') : FALSE
  BY <1>1, <1>3
<1>7. (handled' = <<>>) = (outcome' = "none")
  BY <1>2, <1>4
<1> QED BY <1>2, <1>4, <1>5, <1>6, <1>7 DEF Hears

LEMMA HubReceivesHears ==
    ASSUME Asks, Places, Hears, authentication \in Option, HubReceives
    PROVE  Places' /\ Hears'
<1>1. /\ user # NoUser /\ batch > 0 /\ Left # {} /\ hub' = Append(hub, Message)
      /\ written' = written /\ handled' = Append(handled, NextBody)
      /\ UNCHANGED <<user, outcome>> /\ (Returns \/ Throws)
  BY DEF HubReceives, Handles, clientVars
<1>2. /\ handled \in Seq(Nat) /\ ~garbled /\ Len(handled) \in Nat
  BY <1>1 DEF Places
<1>3. /\ outcome = "granted" /\ handled # <<>>
      /\ hub \in Seq(Asking) /\ Len(hub) = Len(handled) - 1
      /\ \A n \in 1..Len(hub) : hub[n] = Deserialize(written[handled[n + 1]])
  BY <1>1, <1>2 DEF Hears
<1>4. Message \in Asking
  BY <1>1, <1>3, Delivered
<1>5. Places' /\ handled' # <<>> /\ Len(handled') = Len(handled) + 1
  <2>1. /\ batch' \in {0, batch - 1} /\ garbled' \in BOOLEAN /\ (garbled' => batch' = 0)
        /\ dropped \subseteq dropped' /\ dropped' \subseteq dropped \cup Left
    BY <1>1, Dropping
  <2> QED BY <1>1, <2>1, HandledPlaces
<1>6. /\ hub' \in Seq(Asking) /\ Len(hub') = Len(hub) + 1
      /\ hub'[Len(hub) + 1] = Message /\ \A n \in 1..Len(hub) : hub'[n] = hub[n]
  BY ONLY <1>1, <1>3, <1>4, Appended
<1>7. /\ \A n \in 1..Len(handled) : handled'[n] = handled[n]
      /\ handled'[Len(handled) + 1] = NextBody
  <2>1. NextBody \in Nat
    BY <1>1, NextPlace
  <2> QED BY ONLY <1>1, <1>2, <2>1, Appended
<1>8. ASSUME NEW n \in 1..Len(hub') PROVE hub'[n] = Deserialize(written'[handled'[n + 1]])
  <2>0. Len(hub) \in Nat
    BY <1>3
  <2>1. CASE n \in 1..Len(hub)
    <3>1. n + 1 \in 1..Len(handled)
      BY <1>2, <1>3, <2>1
    <3> QED BY ONLY <1>1, <1>3, <1>6, <1>7, <2>1, <3>1
  <2>2. CASE n = Len(hub) + 1
    <3>1. n + 1 = Len(handled) + 1
      BY <1>2, <1>3, <2>2
    <3> QED BY ONLY <1>1, <1>6, <1>7, <2>2, <3>1 DEF Message
  <2> QED BY <1>6, <2>0, <2>1, <2>2
<1>9. Len(hub') = Len(handled') - 1
  BY <1>2, <1>3, <1>5, <1>6
<1> QED BY <1>1, <1>3, <1>5, <1>6, <1>8, <1>9 DEF Hears

\* What an unreadable stream may make of the session.
LEMMA Misread ==
    ASSUME Asks, Places, Hears, ServerMisreads
    PROVE  /\ Places' /\ Hears' /\ garbled /\ garbled'
           /\ UNCHANGED <<clientVars, has_password_file, handled, hub>>
           /\ \/ UNCHANGED <<user, outcome, told, incoming>>
              \/ user = NoUser /\ \E name \in {"nobody"} \cup DOMAIN Spelling : Grant(name)
              \/ user = NoUser /\ Refuse
<1>1. /\ garbled /\ garbled' = garbled /\ dropped' = dropped \cup Left
      /\ UNCHANGED <<clientVars, has_password_file, handled, batch, hub>> /\ written' = written
      /\ Left # {}
  BY DEF ServerMisreads, clientVars
<1>2. \/ UNCHANGED <<user, outcome, told, incoming>>
      \/ user = NoUser /\ \E name \in {"nobody"} \cup DOMAIN Spelling : Grant(name)
      \/ user = NoUser /\ Refuse
  BY DEF ServerMisreads, Crash, Tells
<1>3. Left' \subseteq Left /\ Left \subseteq 1..Len(written)
  <2>1. DOMAIN written = 1..Len(written)
    BY DEF Asks
  <2> QED BY <1>1, <2>1 DEF Left
<1>4. dropped' \subseteq 1..Len(written') /\ dropped' # {}
  BY <1>1, <1>3 DEF Places
<1>5. \A n \in 1..Len(handled) : \A m \in Left' : handled[n] < m
  BY <1>3 DEF Places
<1>6. handled # <<>>
  BY <1>1 DEF Places
<1>7. Places'
  BY <1>1, <1>4, <1>5, <1>6 DEF Places
<1>8. /\ outcome' \in {"none", "granted", "refused", "throws"}
      /\ outcome' # "none" /\ (user' # NoUser) = (outcome' = "granted")
  <2>1. outcome # "none"
    BY <1>6 DEF Hears
  <2>2. CASE UNCHANGED <<user, outcome, told, incoming>>
    BY <2>1, <2>2 DEF Hears
  <2>3. CASE user = NoUser /\ \E name \in {"nobody"} \cup DOMAIN Spelling : Grant(name)
    <3>1. PICK name \in {"nobody"} \cup DOMAIN Spelling : Grant(name)
      BY <2>3
    <3>2. name # NoUser
      BY SessionAssumption DEF NoUser
    <3> QED BY <3>1, <3>2 DEF Grant
  <2>4. CASE user = NoUser /\ Refuse
    BY <2>4 DEF Refuse
  <2> QED BY <1>2, <2>2, <2>3, <2>4
<1>9. Hears'
  BY <1>1, <1>6, <1>8 DEF Hears
<1> QED BY <1>1, <1>2, <1>7, <1>9

LEMMA ServerReadsPlaces ==
    ASSUME Asks, Places, ServerReads
    PROVE  Places'
<1>1. /\ UNCHANGED <<handled, dropped, garbled, written>> /\ ~garbled
      /\ batch' \in 1..Cardinality(Left)
  BY DEF ServerReads, clientVars
<1>2. Left \subseteq 1..Len(written) /\ Len(written) \in Nat
  BY DEF Left, Asks
<1>3. Cardinality(Left) \in Nat /\ Cardinality(Left) <= Len(written)
  <2>1. IsFiniteSet(1..Len(written)) /\ Cardinality(1..Len(written)) = Len(written)
    <3>1. Cardinality(1..Len(written)) = IF 1 > Len(written) THEN 0 ELSE Len(written) - 1 + 1
      BY <1>2, FS_Interval
    <3>2. IsFiniteSet(1..Len(written))
      BY <1>2, FS_Interval
    <3> QED BY ONLY <1>2, <3>1, <3>2
  <2> QED BY <1>2, <2>1, FS_Subset, FS_CardinalityType
<1>4. batch' \in 0..Len(written)
  BY <1>1, <1>2, <1>3
<1>5. Left' = Left
  BY <1>1 DEF Left
<1> QED BY <1>1, <1>4, <1>5 DEF Places

LEMMA HearsKept ==
    ASSUME Runs, Asks, Places, Hears, [Next]_sessionVars
    PROVE  Places' /\ Hears'
<1>1. authentication \in Option /\ has_password_file \in BOOLEAN
  BY DEF Runs
<1>2. CASE UNCHANGED <<placesVars, hearsVars, written>>
  <2>1. Left' = Left
    BY <1>2 DEF Left, placesVars
  <2>2. Places'
    BY <1>2, <2>1 DEF Places, placesVars
  <2>3. Hears'
    BY <1>2 DEF Hears, placesVars, hearsVars
  <2> QED BY <2>2, <2>3
<1>3. CASE ServerReads
  <2>1. UNCHANGED <<handled, garbled, user, outcome, hub, written>>
    BY <1>3 DEF ServerReads, clientVars
  <2>2. Hears'
    BY <2>1 DEF Hears
  <2> QED BY <1>3, <2>2, ServerReadsPlaces
<1> QED BY <1>1, <1>2, <1>3, Writers, HandleWritePlaces, ServerAuthenticatesHears, HubReceivesHears,
           Misread

LEMMA JudgesKept ==
    ASSUME Runs, Asks, Places, Hears, Judges, [Next]_sessionVars
    PROVE  Judges'
<1>1. authentication \in Option /\ has_password_file \in BOOLEAN
  BY DEF Runs
<1>2. /\ UNCHANGED <<authentication, has_password_file>> /\ Known(authentication)' = Known(authentication)
      /\ Identity(authentication)' = Identity(authentication)
  <2>1. authentication' = authentication /\ has_password_file' = has_password_file
    BY Writers
  <2>2. Known(authentication)' = Known(authentication)
    BY ONLY <2>1 DEF Known
  <2>3. Identity(authentication)' = Identity(authentication)
    BY ONLY <2>1 DEF Identity
  <2> QED BY <2>1, <2>2, <2>3
<1>3. CASE UNCHANGED <<user, outcome>> /\ (garbled => garbled')
  BY <1>2, <1>3 DEF Judges
<1>4. CASE ServerAuthenticates
  <2>0. ~garbled
    BY <1>1, <1>4, Authenticates DEF Places
  <2>1. CASE Crash
    BY <1>3, <2>0, <2>1 DEF Crash
  <2>2. CASE Refuse /\ ~Known(authentication)
    BY <1>2, <2>2 DEF Refuse, Judges
  <2>3. CASE outcome' = "throws" /\ UNCHANGED <<told, incoming, session, hung_up, user, server_up>>
    BY <1>2, <2>3 DEF Judges
  <2>4. CASE /\ Grant(Identity(authentication)) /\ Known(authentication)
             /\ Identity(authentication) \in {"nobody"} \cup DOMAIN Spelling
    BY <1>2, <2>4 DEF Grant, Judges
  <2> QED BY <1>1, <1>4, Authenticates, <2>1, <2>2, <2>3, <2>4
<1>5. CASE UNCHANGED <<placesVars, hearsVars>>
  BY <1>3, <1>5 DEF placesVars, hearsVars
<1>6. CASE ServerReads
  BY <1>3, <1>6 DEF ServerReads
<1>7. CASE HubReceives
  <2>1. batch > 0 /\ ~garbled /\ UNCHANGED <<user, outcome>>
    BY <1>7 DEF HubReceives, Handles, Places
  <2> QED BY <1>3, <2>1
<1>8. CASE ServerMisreads
  <2>1. garbled' /\ user' \in {NoUser, "nobody"} \cup DOMAIN Spelling
    BY <1>8, Misread DEF Judges, Grant, Refuse
  <2> QED BY <2>1 DEF Judges
<1> QED BY <1>4, <1>5, <1>6, <1>7, <1>8, Writers

LEMMA Bounds == MaxLines \in Nat /\ MaxForwarded \in Nat
BY SessionAssumption

\* One more message is told.
LEMMA Told ==
    ASSUME Answers, NEW message \in AnyMessage, Tell(message), UNCHANGED <<taken, authenticated>>,
           user' # NoUser, told = <<>> => message = AuthenticationResponse(TRUE),
           Len(told) <= MaxForwarded
    PROVE  Answers'
<1>1. /\ told' = Append(told, message) /\ incoming' = Append(incoming, Serialize(message))
  BY DEF Tell
<1>2. /\ told \in Seq(AnyMessage) /\ incoming = Wires(told) /\ taken \in Seq(Characters)
      /\ Begins(taken, incoming)
  BY DEF Answers
<1>3. /\ told' \in Seq(AnyMessage) /\ told' # <<>> /\ Len(told') = Len(told) + 1
      /\ told'[Len(told) + 1] = message /\ \A n \in 1..Len(told) : told'[n] = told[n]
  BY ONLY <1>1, <1>2, message \in AnyMessage, Appended
<1>4. /\ incoming \in Seq(Characters) /\ DOMAIN incoming = DOMAIN told /\ Serialize(message) \in Characters
      /\ \A n \in 1..Len(told) : incoming[n] = Serialize(told[n])
  <2>1. DOMAIN told = 1..Len(told)
    BY <1>2
  <2> QED BY <1>2, <2>1, HeardAsSent, ReadAsWritten DEF Wires
<1>5. incoming' \in Seq(Characters) /\ incoming' = Wires(told')
  <2>1. Len(incoming) = Len(told) /\ Len(told) \in Nat
    BY <1>2, <1>4
  <2>2. /\ incoming' \in Seq(Characters) /\ Len(incoming') = Len(told')
        /\ incoming'[Len(told) + 1] = Serialize(message)
        /\ \A n \in 1..Len(told) : incoming'[n] = incoming[n]
    BY <1>1, <1>3, <1>4, <2>1
  <2>3. Wires(told') \in Seq(Characters)
    BY <1>3, HeardAsSent
  <2>4. Len(Wires(told')) = Len(told') /\ \A n \in 1..Len(told') : Wires(told')[n] = Serialize(told'[n])
    <3>1. DOMAIN told' = 1..Len(told') /\ Len(told') \in Nat
      BY <1>3
    <3> QED BY <3>1 DEF Wires
  <2>5. ASSUME NEW n \in 1..Len(told') PROVE incoming'[n] = Wires(told')[n]
    <3>1. n \in 1..Len(told) \/ n = Len(told) + 1
      BY <1>3, <2>1
    <3> QED BY ONLY n \in 1..Len(told'), <1>3, <1>4, <2>2, <2>4, <3>1
  <2>6. incoming' = Wires(told')
    BY <2>2, <2>3, <2>4, <2>5, SameElements
  <2> QED BY <2>2, <2>6
<1>6. Begins(taken', incoming')
  <2>1. Len(incoming') = Len(incoming) + 1 /\ \A n \in 1..Len(incoming) : incoming'[n] = incoming[n]
    BY <1>1, <1>4
  <2> QED BY <1>2, <1>4, <2>1 DEF Begins
<1>7. told'[1] = AuthenticationResponse(TRUE)
  <2>1. CASE told = <<>>
    <3>1. Len(told) + 1 = 1 /\ message = AuthenticationResponse(TRUE)
      BY <2>1
    <3>2. told'[Len(told) + 1] = message
      BY <1>3
    <3> QED BY ONLY <3>1, <3>2, Zenon
  <2>2. CASE told # <<>>
    <3>1. 1 \in 1..Len(told)
      BY <1>2, <2>2
    <3> QED BY <1>3, <2>2, <3>1 DEF Answers
  <2> QED BY <2>1, <2>2
<1>8. Len(told') <= MaxForwarded + 1
  <2>1. Len(told) \in Nat /\ MaxForwarded \in Nat
    BY <1>2, Bounds
  <2> QED BY <1>3, <2>1
<1>9. taken' \in Seq(Characters) /\ authenticated' = (taken' # <<>>)
  BY DEF Answers
<1> QED BY <1>3, <1>5, <1>6, <1>7, <1>8, <1>9 DEF Answers

LEMMA HandleMessageAnswers ==
    ASSUME Answers, HandleMessage, UNCHANGED <<user, told>>
    PROVE  Answers'
<1> DEFINE k == Len(taken) + 1
<1>1. /\ Incoming!Deliver
      /\ authenticated' = (authenticated
            \/ Deserialize(Incoming!NextFrame) = AuthenticationResponse(TRUE))
  BY DEF HandleMessage
<1>2. /\ told \in Seq(AnyMessage) /\ incoming = Wires(told) /\ taken \in Seq(Characters)
      /\ Begins(taken, incoming)
  BY DEF Answers
<1>3. incoming \in Seq(Characters) /\ DOMAIN incoming = DOMAIN told
  BY <1>2, HeardAsSent DEF Wires
<1>4. /\ taken' = Append(taken, incoming[k]) /\ incoming' = incoming
      /\ Len(taken) < Len(incoming) /\ Incoming!NextFrame = incoming[k]
  BY <1>1 DEF Incoming!Deliver, Incoming!NextFrame, Incoming!Pending
<1>5. k \in 1..Len(incoming) /\ Len(taken) \in Nat /\ Len(incoming) \in Nat
  BY <1>2, <1>3, <1>4
<1>6. incoming[k] \in Characters
  BY <1>3, <1>5
<1>7. /\ taken' \in Seq(Characters) /\ taken' # <<>> /\ Len(taken') = k
      /\ taken'[k] = incoming[k] /\ \A n \in 1..Len(taken) : taken'[n] = taken[n]
  BY <1>2, <1>4, <1>6
<1>8. Begins(taken', incoming')
  <2>1. \A n \in 1..k : n \in 1..Len(taken) \/ n = k
    BY <1>5
  <2> HIDE DEF k
  <2>2. \A n \in 1..k : taken'[n] = incoming[n]
    BY <1>2, <1>7, <2>1 DEF Begins
  <2> QED BY <1>4, <1>5, <1>7, <2>2 DEF Begins
<1>9. authenticated' = TRUE
  <2>1. CASE taken # <<>>
    BY <1>1, <2>1 DEF Answers
  <2>2. CASE taken = <<>>
    <3>1. k = 1 /\ 1 \in DOMAIN told /\ told # <<>>
      BY <1>2, <1>3, <1>5, <2>2
    <3>2. incoming[1] = Serialize(told[1])
      BY <1>2, <3>1 DEF Wires
    <3>3. told[1] \in AnyMessage
      BY <1>2, <3>1
    <3>4. Deserialize(incoming[1]) = told[1]
      BY <3>2, <3>3, ReadAsWritten
    <3> QED BY <1>1, <1>4, <3>1, <3>4 DEF Answers
  <2> QED BY <2>1, <2>2
<1>10. incoming' = Wires(told')
  BY <1>2, <1>4
<1> QED BY <1>7, <1>8, <1>9, <1>10 DEF Answers

LEMMA AnswersKept ==
    ASSUME Runs, Asks, Places, Hears, Answers, [Next]_sessionVars
    PROVE  Answers'
<1>1. authentication \in Option /\ has_password_file \in BOOLEAN
  BY DEF Runs
<1>2. CASE UNCHANGED answersVars
  BY <1>2 DEF Answers, answersVars
<1>3. ASSUME user = NoUser, NEW name, name # NoUser, Grant(name), UNCHANGED <<taken, authenticated>>
      PROVE  Answers'
  <2>1. told = <<>>
    BY <1>3 DEF Answers
  <2>2. Tell(AuthenticationResponse(TRUE)) /\ user' # NoUser
    BY <1>3 DEF Grant
  <2>3. AuthenticationResponse(TRUE) \in AnyMessage
    BY DEF AuthenticationResponse, AnyMessage
  <2>4. Len(told) <= MaxForwarded
    <3>1. Len(told) = 0 /\ MaxForwarded \in Nat
      BY <2>1, Bounds
    <3> QED BY <3>1
  <2> QED BY <1>3, <2>2, <2>3, <2>4, Told
<1>5. CASE ServerAuthenticates
  <2>1. user = NoUser /\ UNCHANGED <<taken, authenticated>>
    BY <1>1, <1>5, Authenticates DEF clientVars
  <2>2. CASE UNCHANGED <<user, told, incoming>>
    BY <1>2, <2>1, <2>2 DEF answersVars
  <2>3. CASE Grant(Identity(authentication)) /\ Identity(authentication) # NoUser
    BY <1>3, <2>1, <2>3
  <2>4. CASE Crash
    BY <2>2, <2>4 DEF Crash, Tells
  <2>5. CASE Refuse
    BY <2>2, <2>5 DEF Refuse, Tells
  <2> QED BY <1>1, <1>5, Authenticates, <2>2, <2>3, <2>4, <2>5
<1>6. CASE ServerMisreads
  <2>1. UNCHANGED <<taken, authenticated>>
    BY <1>6, Misread DEF clientVars
  <2>2. CASE UNCHANGED <<user, outcome, told, incoming>>
    BY <1>2, <2>1, <2>2 DEF answersVars
  <2>3. CASE user = NoUser /\ \E name \in {"nobody"} \cup DOMAIN Spelling : Grant(name)
    <3>1. PICK name \in {"nobody"} \cup DOMAIN Spelling : Grant(name)
      BY <2>3
    <3>2. name # NoUser
      BY SessionAssumption DEF NoUser
    <3> QED BY <1>3, <2>1, <2>3, <3>1, <3>2
  <2>4. CASE user = NoUser /\ Refuse
    BY <1>2, <2>1, <2>4 DEF Refuse, Tells, answersVars
  <2> QED BY <1>6, Misread, <2>2, <2>3, <2>4
<1>4. ASSUME NEW message \in HubMessage, HubSends(message) PROVE Answers'
  <2>1. /\ Tell(message) /\ user # NoUser /\ Len(told) <= MaxForwarded
        /\ UNCHANGED <<user, taken, authenticated>>
    BY <1>4 DEF HubSends, clientVars
  <2>2. told # <<>> /\ message \in AnyMessage
    BY <2>1, SessionAssumption DEF Answers
  <2> QED BY <2>1, <2>2, Told
<1> QED BY <1>2, <1>4, <1>5, <1>6, Writers, HandleMessageAnswers

\* The events of a turn are three at most.
LEMMA TurnEvents ==
    ASSUME NEW a \in BOOLEAN, NEW b \in BOOLEAN, NEW c \in BOOLEAN
    PROVE  LET turn == (IF a THEN <<"input">> ELSE <<>>) \o (IF b THEN <<"read">> ELSE <<>>)
                            \o (IF c THEN <<"write">> ELSE <<>>)
           IN  turn \in Seq(Event) /\ Len(turn) <= 3
<1>1. ASSUME NEW e \in Event, NEW p \in BOOLEAN
      PROVE  (IF p THEN <<e>> ELSE <<>>) \in Seq(Event) /\ Len(IF p THEN <<e>> ELSE <<>>) <= 1
  <2>1. CASE p
    BY <2>1
  <2>2. CASE ~p
    BY <2>2
  <2> QED BY <2>1, <2>2
<1>2. "input" \in Event /\ "read" \in Event /\ "write" \in Event
  BY DEF Event
<1> DEFINE x == IF a THEN <<"input">> ELSE <<>>
           y == IF b THEN <<"read">> ELSE <<>>
           z == IF c THEN <<"write">> ELSE <<>>
<1>3. /\ x \in Seq(Event) /\ y \in Seq(Event) /\ z \in Seq(Event)
      /\ Len(x) <= 1 /\ Len(y) <= 1 /\ Len(z) <= 1
  BY ONLY <1>1, <1>2, a \in BOOLEAN, b \in BOOLEAN, c \in BOOLEAN
<1> HIDE DEF x, y, z
<1>4. x \o y \in Seq(Event) /\ Len(x \o y) <= 2
  BY ONLY <1>3
<1>5. (x \o y) \o z \in Seq(Event) /\ Len((x \o y) \o z) <= 3
  BY ONLY <1>3, <1>4
<1> QED BY <1>5 DEF x, y, z

LEMMA PollRuns ==
    ASSUME Runs, Poll
    PROVE  events' \in Seq(Event) /\ Len(events') <= 3
<1>1. PICK readable \in BOOLEAN :
        events' = (IF InputReady THEN <<"input">> ELSE <<>>)
                    \o (IF readable THEN <<"read">> ELSE <<>>)
                    \o (IF write_queue # <<>> THEN <<"write">> ELSE <<>>)
  BY DEF Poll
<1>2. PICK a \in BOOLEAN, c \in BOOLEAN : a = InputReady /\ c = (write_queue # <<>>)
  BY DEF InputReady
<1>3. events' = (IF a THEN <<"input">> ELSE <<>>) \o (IF readable THEN <<"read">> ELSE <<>>)
                    \o (IF c THEN <<"write">> ELSE <<>>)
  BY <1>1, <1>2
<1> QED BY ONLY <1>3, TurnEvents

LEMMA HandledRuns ==
    ASSUME Runs, Handled, events # <<>>
    PROVE  events' \in Seq(Event) /\ Len(events') <= 3 /\ polling' = polling
<1>1. events \in Seq(Event) /\ Len(events) <= 3 /\ events' = Tail(events) /\ polling' = polling
  BY DEF Runs, Handled
<1> QED BY <1>1

LEMMA RunsKept ==
    ASSUME Runs, Asks, Reads, Places, Hears, [Next]_sessionVars
    PROVE  Runs'
<1>1. typed \in Seq(Command) /\ authentication \in Option /\ has_password_file \in BOOLEAN
  BY DEF Reads, Runs
<1>2. CASE ClientSteps
  <2>1. UNCHANGED <<has_password_file, session, server_up, hung_up>>
    BY <1>2 DEF ClientSteps, serverVars
  <2>2. ASSUME NEW command \in Command, Type(command) PROVE Runs'
    <3>1. /\ typed' = Append(typed, command) /\ Len(typed) < MaxLines
          /\ UNCHANGED <<authentication, piped, ended, events, polling, input_open, is_open, running>>
      BY <2>2 DEF Type, loopVars, socketVars
    <3>2. Len(typed') <= MaxLines
      <4>1. Len(typed') = Len(typed) + 1 /\ Len(typed) \in Nat /\ MaxLines \in Nat
        BY <1>1, <3>1, Bounds
      <4> QED BY <3>1, <4>1
    <3> QED BY <2>1, <3>1, <3>2 DEF Runs
  <2>3. CASE EndInput
    BY <2>1, <2>3 DEF Runs, EndInput, loopVars, socketVars
  <2>4. CASE Poll
    <3>1. /\ polling' = FALSE
          /\ UNCHANGED <<authentication, piped, typed, ended, input_open, is_open, running>>
      BY <2>4 DEF Poll, inputVars, socketVars
    <3>2. events' \in Seq(Event) /\ Len(events') <= 3
      BY <2>4, PollRuns
    <3> QED BY ONLY Runs, <2>1, <3>1, <3>2 DEF Runs
  <2>5. CASE HandleInput
    <3>1. /\ Handled /\ events # <<>> /\ input_open' = ~ended
          /\ UNCHANGED <<authentication, piped, typed, ended, running>>
      BY <2>5 DEF HandleInput, Handling
    <3>2. is_open' \in BOOLEAN /\ input_open' \in BOOLEAN
      BY <2>5, <3>1, InputRead DEF Runs
    <3>3. events' \in Seq(Event) /\ Len(events') <= 3 /\ polling' = polling
      BY <3>1, HandledRuns
    <3> QED BY ONLY Runs, <2>1, <3>1, <3>2, <3>3 DEF Runs
  <2>6. CASE HandleMessage
    BY <2>1, <2>6 DEF Runs, HandleMessage, inputVars, loopVars, socketVars
  <2>7. CASE EndRead
    <3>1. /\ Handled /\ events # <<>> /\ is_open' \in BOOLEAN
          /\ UNCHANGED <<authentication, piped, typed, ended, input_open, running>>
      BY <2>7 DEF EndRead, ReadEnd, Handling, inputVars, socketVars, Runs
    <3>2. events' \in Seq(Event) /\ Len(events') <= 3 /\ polling' = polling
      BY <3>1, HandledRuns
    <3> QED BY ONLY Runs, <2>1, <3>1, <3>2 DEF Runs
  <2>8. CASE HandleWrite
    <3>1. /\ Handled /\ events # <<>> /\ running' \in BOOLEAN
          /\ UNCHANGED <<authentication, piped, typed, ended, input_open, is_open>>
      BY <2>8 DEF HandleWrite, Handling, inputVars
    <3>2. events' \in Seq(Event) /\ Len(events') <= 3 /\ polling' = polling
      BY <3>1, HandledRuns
    <3> QED BY ONLY Runs, <2>1, <3>1, <3>2 DEF Runs
  <2>9. CASE EndTurn
    <3>1. /\ running' \in BOOLEAN /\ polling' \in BOOLEAN
          /\ UNCHANGED <<authentication, piped, typed, ended, events, input_open, is_open>>
      BY <2>9 DEF EndTurn, inputVars, socketVars, Runs
    <3> QED BY <2>1, <3>1 DEF Runs
  <2> QED BY <1>2, <2>2, <2>3, <2>4, <2>5, <2>6, <2>7, <2>8, <2>9 DEF ClientSteps, Turn
<1> DEFINE clientRuns == <<authentication, piped, typed, ended, events, polling, input_open,
                           is_open, running>>
<1>3. UNCHANGED clientVars => UNCHANGED clientRuns
  BY DEF clientVars, inputVars, loopVars, socketVars
<1>4. ASSUME UNCHANGED clientRuns, UNCHANGED has_password_file,
             \/ UNCHANGED <<session, hung_up>>
             \/ session' \in {"closed", "gone"} /\ hung_up' = TRUE,
             server_up' \in {FALSE, server_up}
      PROVE  Runs'
  <2>1. /\ session' \in {"open", "closed", "gone"} /\ hung_up' = (session' # "open")
        /\ has_password_file' \in BOOLEAN /\ server_up' \in BOOLEAN
    BY <1>4 DEF Runs
  <2>2. UNCHANGED <<authentication, piped, typed, ended, events, polling, input_open, is_open, running>>
    BY <1>4
  <2> QED BY <2>1, <2>2 DEF Runs
<1>5. CASE ServerReads
  BY <1>3, <1>4, <1>5 DEF ServerReads
<1>6. CASE ServerAuthenticates
  <2>1. UNCHANGED clientVars /\ UNCHANGED has_password_file
    BY <1>1, <1>6, Authenticates
  <2>2. CASE Crash
    BY <1>3, <1>4, <2>1, <2>2 DEF Crash, Hangs
  <2>3. CASE Refuse
    BY <1>3, <1>4, <2>1, <2>3 DEF Refuse, Hangs
  <2>4. CASE UNCHANGED <<session, hung_up, server_up>>
    BY <1>3, <1>4, <2>1, <2>4
  <2>5. CASE Grant(Identity(authentication))
    BY <2>4, <2>5 DEF Grant
  <2> QED BY <1>1, <1>6, <2>2, <2>3, <2>4, <2>5, Authenticates
<1>7. CASE HubReceives
  <2>1. UNCHANGED clientVars /\ UNCHANGED <<has_password_file, session, hung_up, server_up>>
    BY <1>7 DEF HubReceives, Handles
  <2> QED BY <1>3, <1>4, <2>1
<1>8. CASE \E message \in HubMessage : HubSends(message)
  BY <1>3, <1>4, <1>8 DEF HubSends
<1>9. CASE Removed
  BY <1>3, <1>4, <1>9 DEF Removed, Hangs
<1>10. CASE UNCHANGED sessionVars
  BY <1>3, <1>4, <1>10 DEF sessionVars, serverVars
<1>11. CASE ServerMisreads
  <2>1. UNCHANGED clientVars /\ UNCHANGED has_password_file
    BY <1>11 DEF ServerMisreads
  <2>2. CASE UNCHANGED <<session, hung_up, user, outcome, server_up>>
    BY <1>3, <1>4, <2>1, <2>2
  <2>3. CASE Crash
    BY <1>3, <1>4, <2>1, <2>3 DEF Crash, Hangs
  <2>4. CASE Refuse
    BY <1>3, <1>4, <2>1, <2>4 DEF Refuse, Hangs
  <2>5. CASE \E name \in {"nobody"} \cup DOMAIN Spelling : Grant(name)
    BY <1>3, <1>4, <2>1, <2>5 DEF Grant
  <2> QED BY <1>11, <2>2, <2>3, <2>4, <2>5 DEF ServerMisreads
<1>12. CASE BrokenPipe
  BY <1>3, <1>4, <1>12 DEF BrokenPipe, Crash, Hangs
<1> QED BY <1>2, <1>5, <1>6, <1>7, <1>8, <1>9, <1>10, <1>11, <1>12 DEF Next

LEMMA SessionInvAtFirst == SessionInit => SessionInv
<1> SUFFICES ASSUME SessionInit PROVE SessionInv
  OBVIOUS
<1>1. Runs
  <2>1. /\ authentication \in Option /\ piped \in BOOLEAN /\ ended = FALSE /\ typed = <<>>
        /\ events = <<>> /\ polling = TRUE /\ input_open = TRUE /\ is_open = TRUE /\ running = TRUE
        /\ has_password_file \in BOOLEAN /\ session = "open"
        /\ server_up = TRUE /\ hung_up = FALSE
    BY DEF SessionInit, Init
  <2>2. Len(typed) <= MaxLines
    BY <2>1, Bounds
  <2>3. <<>> \in Seq(Event) /\ Len(<<>>) <= 3
    OBVIOUS
  <2>4. events \in Seq(Event) /\ Len(events) <= 3
    BY ONLY <2>1, <2>3
  <2>5. hung_up = (session # "open")
    BY ONLY <2>1
  <2> QED BY ONLY <2>1, <2>2, <2>4, <2>5 DEF Runs
<1>2. /\ handled = <<>> /\ dropped = {} /\ garbled = FALSE /\ batch = 0 /\ user = NoUser /\ outcome = "none" /\ hub = <<>>
      /\ told = <<>> /\ incoming = <<>> /\ taken = <<>> /\ written = <<>>
      /\ authenticated = FALSE /\ server_up = TRUE
  BY DEF SessionInit, Init
<1>3. Begins(<<>>, <<>>)
  BY DEF Begins
<1>4. Hears /\ Places
  <2>1. Hears
    BY <1>2 DEF Hears
  <2>2. /\ handled \in Seq(Nat) /\ Len(handled) = 0 /\ Len(written) = 0
    BY ONLY <1>2
  <2>3. Places
    <3>1. /\ handled \in Seq(Nat) /\ dropped \subseteq 1..Len(written)
          /\ garbled \in BOOLEAN /\ (garbled => batch = 0)
      BY ONLY <1>2, <2>2
    <3>2. batch \in 0..Len(written)
      BY ONLY <1>2, <2>2
    <3>3. \A n \in 1..Len(handled) : FALSE
      BY ONLY <2>2
    <3>4. handled = <<>> /\ dropped = {} /\ ~garbled
      BY ONLY <1>2
    <3> QED BY ONLY <3>1, <3>2, <3>3, <3>4 DEF Places
  <2> QED BY <2>1, <2>3
<1>5. Judges
  BY <1>2 DEF Judges
<1>6. Answers
  <2>1. Wires(<<>>) = <<>>
    BY DEF Wires
  <2>2. Len(<<>>) <= MaxForwarded + 1
    BY Bounds
  <2>3. <<>> \in Seq(AnyMessage) /\ <<>> \in Seq(Characters)
    OBVIOUS
  <2>4. told \in Seq(AnyMessage) /\ Len(told) <= MaxForwarded + 1 /\ taken \in Seq(Characters)
    BY ONLY <1>2, <2>2, <2>3
  <2>5. incoming = Wires(told) /\ Begins(taken, incoming)
    BY ONLY <1>2, <1>3, <2>1
  <2> QED BY ONLY <1>2, <2>4, <2>5 DEF Answers
<1> QED BY <1>1, <1>4, <1>5, <1>6, AsksAtFirst DEF SessionInv

\* In every state of a session, what is under way between the two programs is what they say
\* it is: the invariant that the properties of Session follow from.
THEOREM SessionInvariant == Spec => []SessionInv
<1>1. SessionInit => SessionInv
  BY SessionInvAtFirst
<1>2. SessionInv /\ [Next]_sessionVars => SessionInv'
  <2> SUFFICES ASSUME SessionInv, [Next]_sessionVars PROVE SessionInv'
    OBVIOUS
  <2>1. authentication \in Option
    <3>1. Runs
      BY DEF SessionInv
    <3> QED BY ONLY <3>1 DEF Runs
  <2> QED BY <2>1, RunsKept, AsksKept, HearsKept, JudgesKept, AnswersKept DEF SessionInv
<1> QED BY <1>1, <1>2, PTL DEF Spec

LEMMA Bounded ==
    ASSUME NEW S, NEW n \in Nat, NEW s \in Seq(S), Len(s) <= n
    PROVE  s \in BoundedSeq(S, n)
<1>1. Len(s) \in 0..n /\ s \in [1..Len(s) -> S]
  OBVIOUS
<1> QED BY <1>1 DEF BoundedSeq, SeqOf

\* [TypeOK] The types of both programs; a batch is no longer than what was written, and a
\* session is that of a user exactly when he was granted it (Interactor::authenticate).
THEOREM TypeAlwaysOK == Spec => []TypeOK
<1>1. SessionInv => TypeOK
  <2> SUFFICES ASSUME SessionInv PROVE TypeOK
    OBVIOUS
  <2>1. typed \in BoundedSeq(Command, MaxLines) /\ IsSuffix(input, typed)
    <3>1. /\ typed \in Seq(Command) /\ input \in Seq(Command)
          /\ Ends(input, typed) /\ Len(typed) <= MaxLines
      BY DEF SessionInv, Reads, Runs
    <3> QED BY <3>1, Bounded, Bounds, SuffixIs
  <2>2. events \in BoundedSeq({"input", "read", "write"}, 3)
    <3>1. events \in Seq({"input", "read", "write"}) /\ Len(events) <= 3 /\ 3 \in Nat
      BY DEF SessionInv, Runs, Event
    <3> QED BY ONLY <3>1, Bounded
  <2>3. ClientTypeOK
    <3>1. executed \in Seq(Command \cup Fragment) /\ cut \in BOOLEAN
      BY DEF SessionInv, Asks, Reads, Word
    <3>2. /\ authentication \in Option /\ piped \in BOOLEAN /\ ended \in BOOLEAN
          /\ polling \in BOOLEAN /\ input_open \in BOOLEAN /\ is_open \in BOOLEAN
          /\ authenticated \in BOOLEAN /\ running \in BOOLEAN
      BY DEF SessionInv, Runs, Answers
    <3> QED BY ONLY <2>1, <2>2, <3>1, <3>2 DEF ClientTypeOK
  <2>4. Range(handled) \subseteq DOMAIN written /\ dropped \subseteq DOMAIN written
    <3>1. /\ handled \in Seq(Nat) /\ \A n \in 1..Len(handled) : handled[n] \in 1..Len(written)
          /\ dropped \subseteq 1..Len(written) /\ written \in Seq(Characters)
      BY DEF SessionInv, Places, Asks
    <3> QED BY <3>1 DEF Range
  <2>5. /\ garbled \in BOOLEAN /\ batch \in 0..Len(written)
    BY DEF SessionInv, Places
  <2> QED BY <2>3, <2>4, <2>5 DEF TypeOK, SessionInv, Runs, Hears, Judges, Answers
<1> QED BY <1>1, SessionInvariant, PTL

\* [Agreement] A client that prints "Authenticated" is one that the password file knows under
\* the name and the password of its command line, and the session has its name; one that is
\* refused is not known (options.cpp, interactor.cpp, authentication_manager.cpp).
THEOREM AgreementAlways == Spec => []Agreement
<1>1. SessionInv => Agreement
  <2> SUFFICES ASSUME SessionInv PROVE Agreement
    OBVIOUS
  <2>1. authenticated => outcome = "granted"
    <3> SUFFICES ASSUME authenticated PROVE outcome = "granted"
      OBVIOUS
    <3>1. /\ taken # <<>> /\ taken \in Seq(Characters) /\ told \in Seq(AnyMessage)
          /\ incoming = Wires(told) /\ Begins(taken, incoming)
      BY DEF SessionInv, Answers
    <3>2. Len(incoming) = Len(told)
      <4>1. DOMAIN told = 1..Len(told) /\ Len(told) \in Nat
        BY <3>1
      <4> QED BY <3>1, <4>1 DEF Wires
    <3>3. told # <<>>
      BY <3>1, <3>2 DEF Begins
    <3> QED BY <3>3 DEF SessionInv, Answers, Hears
  <2> QED BY <2>1 DEF SessionInv, Judges, Identity, Agreement
<1> QED BY <1>1, SessionInvariant, PTL

\* [ServerSurvives] The request to authenticate is the first body the server handles, so that
\* the cast of Interactor::authenticate fails only for a client that was not authenticated by
\* it and goes on; a user's session ends the server only by bytes that an exception has left
\* without a beginning (Message::make_shared), or by SIGPIPE (TcpStream::write).
THEOREM ServerAlwaysSurvives == Spec => ServerSurvives
<1> DEFINE Why == outcome \in {"refused", "throws"} \/ garbled \/ ~running
<1>1. SessionInv /\ [Next]_sessionVars => [server_up /\ ~server_up' => Why]_sessionVars
  <2> SUFFICES ASSUME SessionInv, [Next]_sessionVars, server_up, ~server_up' PROVE Why
    OBVIOUS
  <2>1. /\ Runs /\ Asks /\ Places /\ Hears /\ authentication \in Option
        /\ has_password_file \in BOOLEAN
    BY DEF SessionInv, Runs
  <2>2. CASE ServerAuthenticates
    <3>1. user = NoUser /\ handled # <<>>
      BY <2>1, <2>2, Authenticates DEF Refuse, Grant
    <3> QED BY <2>1, <3>1 DEF Hears
  <2>3. CASE ServerMisreads
    BY <2>3 DEF ServerMisreads
  <2>4. CASE BrokenPipe
    BY <2>4 DEF BrokenPipe
  <2>5. CASE UNCHANGED server_up
    BY <2>5
  <2> HIDE DEF Why
  <2> QED BY <2>2, <2>3, <2>4, <2>5, Writers DEF ServerReads, HubReceives
<1> QED BY <1>1, SessionInvariant, PTL DEF Spec, ServerSurvives

\* [MessagesHeard] The client prints a beginning of what the server told it, and nothing
\* before it is told that it is authenticated (SquawkbusClient::handle_message).
THEOREM MessagesAlwaysHeard == Spec => []MessagesHeard
<1>1. SessionInv => MessagesHeard
  <2> SUFFICES ASSUME SessionInv PROVE MessagesHeard
    OBVIOUS
  <2> DEFINE printed == [n \in DOMAIN taken |-> Deserialize(taken[n])]
  <2>1. /\ told \in Seq(AnyMessage) /\ incoming = Wires(told) /\ taken \in Seq(Characters)
        /\ Begins(taken, incoming)
        /\ told # <<>> => told[1] = AuthenticationResponse(TRUE)
        /\ authenticated = (taken # <<>>)
    BY DEF SessionInv, Answers
  <2>2. Len(taken) \in Nat /\ DOMAIN taken = 1..Len(taken) /\ DOMAIN told = 1..Len(told) /\ Len(told) \in Nat
    BY <2>1
  <2>3. Len(taken) <= Len(told) /\ \A n \in 1..Len(taken) : taken[n] = Serialize(told[n])
    <3>1. Len(incoming) = Len(told) /\ \A n \in 1..Len(told) : incoming[n] = Serialize(told[n])
      BY <2>1, <2>2 DEF Wires
    <3>2. Len(taken) <= Len(incoming) /\ \A n \in 1..Len(taken) : taken[n] = incoming[n]
      BY <2>1 DEF Begins
    <3> QED BY ONLY <2>2, <3>1, <3>2
  <2>4. ASSUME NEW n \in 1..Len(taken) PROVE Deserialize(taken[n]) = told[n] /\ told[n] \in AnyMessage
    <3>1. told[n] \in AnyMessage
      BY <2>1, <2>2, <2>3
    <3> QED BY <2>3, <3>1, ReadAsWritten
  <2>5. printed \in Seq(AnyMessage) /\ Len(printed) = Len(taken) /\ \A n \in 1..Len(taken) : printed[n] = told[n]
    BY ONLY <2>2, <2>4
  <2> HIDE DEF printed
  <2>6. IsPrefix(printed, told)
    <3>1. Begins(printed, told)
      BY <2>3, <2>5 DEF Begins
    <3> QED BY <2>1, <2>5, <3>1, PrefixIs
  <2>7. told # <<>> => Head(told) = AuthenticationResponse(TRUE)
    <3>1. told # <<>> => Head(told) = told[1]
      BY ONLY <2>1
    <3> QED BY ONLY <2>1, <3>1
  <2> QED BY <2>1, <2>6, <2>7 DEF MessagesHeard, printed
<1> QED BY <1>1, SessionInvariant, PTL

\* [CommandsConveyed] The hub gets what the client took for commands, field by field, in order
\* and from the first on: none is doubled or overtaken between handle_command and
\* Hub::on_message, and none is left out but by an exception's dropping a batch
\* (Distributor::on_read). Those commands are the lines typed, unless a buffer cut one.
THEOREM CommandsAlwaysConveyed == Spec => []CommandsConveyed
<1>1. SessionInv => CommandsConveyed
  <2> SUFFICES ASSUME SessionInv PROVE CommandsConveyed
    OBVIOUS
  <2> DEFINE wanted == Requested(executed)
  <2>1. /\ wanted \in Seq(Asking) /\ Len(written) <= 1 + Len(wanted)
        /\ \A n \in 1..Len(written) :
                Deserialize(written[n]) = IF n = 1 THEN AuthenticationOf(authentication)
                                          ELSE wanted[n - 1]
    BY UnderWay DEF SessionInv, Runs
  <2> HIDE DEF wanted
  <2>2. ASSUME ~garbled
        PROVE  IF dropped = {} THEN IsPrefix(hub, wanted) ELSE IsSubsequence(hub, wanted)
    <3>1. /\ handled \in Seq(Nat) /\ Len(handled) \in Nat /\ handled # <<>> => handled[1] = 1
          /\ \A n \in 1..Len(handled) :
                /\ handled[n] \in 1..Len(written)
                /\ n > 1 => handled[n - 1] < handled[n]
          /\ dropped = {} => \A n \in 1..Len(handled) : handled[n] = n
      BY DEF SessionInv, Places
    <3>2. /\ hub \in Seq(Asking) /\ (Len(hub) = 0 \/ Len(hub) = Len(handled) - 1) /\ Len(hub) \in Nat
          /\ \A n \in 1..Len(hub) : hub[n] = Deserialize(written[handled[n + 1]])
      BY <2>2 DEF SessionInv, Hears
    <3>3. Len(written) \in Nat /\ Len(wanted) \in Nat
      BY <2>1 DEF SessionInv, Asks
    <3>4. ASSUME NEW n \in 1..Len(hub)
          PROVE  /\ n + 1 \in 1..Len(handled) /\ n \in 1..Len(handled)
                 /\ handled[n] < handled[n + 1] /\ handled[n] >= 1
      <4>1. n + 1 \in 1..Len(handled) /\ n \in 1..Len(handled) /\ n + 1 > 1 /\ (n + 1) - 1 = n
        BY <3>1, <3>2
      <4> QED BY <3>1, <4>1
    <3>5. ASSUME NEW n \in 1..Len(hub)
          PROVE  handled[n + 1] - 1 \in 1..Len(wanted) /\ hub[n] = wanted[handled[n + 1] - 1]
      <4>1. /\ handled[n + 1] \in 1..Len(written) /\ handled[n] \in 1..Len(written)
            /\ handled[n] < handled[n + 1]
        BY <3>1, <3>4
      <4>2. handled[n + 1] # 1 /\ handled[n + 1] - 1 \in 1..Len(wanted)
        BY <2>1, <3>3, <4>1
      <4> QED BY <2>1, <3>2, <4>1, <4>2
    <3>6. CASE dropped = {}
      <4>1. Len(hub) <= Len(wanted)
        <5>1. Len(hub) = 0 \/ Len(hub) \in 1..Len(hub)
          BY <3>2
        <5>2. \A n \in 1..Len(hub) : handled[n + 1] - 1 = n
          BY <3>1, <3>2, <3>4, <3>6
        <5> QED BY <3>2, <3>3, <3>5, <5>1, <5>2
      <4>2. ASSUME NEW n \in 1..Len(hub) PROVE hub[n] = wanted[n]
        <5>1. handled[n + 1] = n + 1
          BY <3>1, <3>4, <3>6
        <5>2. (n + 1) - 1 = n
          BY <3>2
        <5> QED BY <3>5, <5>1, <5>2
      <4>3. Begins(hub, wanted)
        BY <4>1, <4>2 DEF Begins
      <4> QED BY <2>1, <3>2, <3>6, <4>3, PrefixIs
    <3>7. CASE dropped # {}
      <4> DEFINE place == [n \in 1..Len(hub) |-> handled[n + 1] - 1]
      <4>1. DOMAIN hub = 1..Len(hub) /\ DOMAIN wanted = 1..Len(wanted)
        BY <2>1, <3>2
      <4>2. place \in [DOMAIN hub -> DOMAIN wanted]
        BY <3>5, <4>1
      <4>3. ASSUME NEW n \in 1..Len(hub)
            PROVE  hub[n] = wanted[place[n]] /\ (n > 1 => place[n - 1] < place[n])
        <5>1. hub[n] = wanted[place[n]]
          BY <3>5
        <5>2. ASSUME n > 1 PROVE place[n - 1] < place[n]
          <6>1. n - 1 \in 1..Len(hub) /\ (n - 1) + 1 = n
            BY <3>2, <5>2
          <6>2. place[n - 1] = handled[n] - 1 /\ place[n] = handled[n + 1] - 1
            BY <6>1
          <6>3. handled[n] < handled[n + 1] /\ handled[n] \in Nat /\ handled[n + 1] \in Nat
            BY <3>1, <3>4
          <6> QED BY ONLY <6>2, <6>3
        <5> QED BY <5>1, <5>2
      <4> HIDE DEF place
      <4>4. IsSubsequence(hub, wanted)
        BY ONLY <4>1, <4>2, <4>3 DEF IsSubsequence
      <4> QED BY <3>7, <4>4
    <3> QED BY <3>6, <3>7
  <2>3. ASSUME ~cut PROVE IF piped THEN IsSubsequence(executed, typed) ELSE IsPrefix(executed, typed)
    <3>1. /\ typed \in Seq(Command) /\ input \in Seq(Command) /\ Ends(input, typed)
          /\ IF piped THEN IsSubsequence(executed, ReadLines) ELSE executed = ReadLines
      BY <2>3 DEF SessionInv, Reads
    <3>2. ReadLines \in Seq(Command) /\ ReadLines \o input = typed
      BY <3>1, BeforeEnd DEF ReadLines
    <3>3. /\ typed \in Seq(Word) /\ input \in Seq(Word) /\ ReadLines \in Seq(Word)
          /\ executed \in Seq(Word)
      BY <3>1, <3>2 DEF Word, SessionInv, Asks
    <3>4. CASE piped
      <4>1. <<>> \in Seq(Word) /\ executed \o <<>> = executed /\ <<>> \o input = input
        BY <3>3
      <4>2. IsSubsequence(executed \o <<>>, ReadLines \o (<<>> \o input))
        BY ONLY <3>1, <3>3, <3>4, <4>1, LeftOfMore
      <4> QED BY ONLY <3>2, <3>4, <4>1, <4>2
    <3>5. CASE ~piped
      <4>1. Begins(ReadLines, ReadLines \o input)
        BY <3>3 DEF Begins
      <4>2. Begins(executed, typed)
        BY ONLY <3>1, <3>2, <3>5, <4>1
      <4>3. IsPrefix(executed, typed)
        BY ONLY <3>3, <4>2, PrefixIs
      <4> QED BY <3>5, <4>3
    <3> QED BY <3>4, <3>5
  <2> QED BY <2>2, <2>3 DEF CommandsConveyed, wanted, Requested
<1> QED BY <1>1, SessionInvariant, PTL

=============================================================================
