------------------------------ MODULE Messages ------------------------------
(***************************************************************************)
(* The messages of the protocol and their bodies on the wire:              *)
(* messages/_*.hpp over serialization/frame_buffer_io.hpp. Each class      *)
(* names its fields twice, in serialize_body and in deserialize_body, and  *)
(* so does this module.                                                    *)
(*                                                                         *)
(* A body is a sequence of numbers, one for each character, truth value,   *)
(* size and entitlement (the four bytes of these in network order are the  *)
(* number). A string is a sequence of characters.                          *)
(***************************************************************************)
EXTENDS Integers, SequencesExt

MessageType == [
    AuthenticationRequest        |-> 1,
    AuthenticationResponse       |-> 2,
    MulticastData                |-> 3,
    UnicastData                  |-> 4,
    ForwardedSubscriptionRequest |-> 5,
    NotificationRequest          |-> 6,
    SubscriptionRequest          |-> 7,
    ForwardedMulticastData       |-> 8,
    ForwardedUnicastData         |-> 9]

AuthenticationRequest(method, data) ==
    [message_type |-> "AuthenticationRequest", method |-> method, data |-> data]
AuthenticationResponse(is_authenticated) ==
    [message_type |-> "AuthenticationResponse", is_authenticated |-> is_authenticated]
SubscriptionRequest(topic, is_add) ==
    [message_type |-> "SubscriptionRequest", topic |-> topic, is_add |-> is_add]
NotificationRequest(topic_pattern, is_add) ==
    [message_type |-> "NotificationRequest", topic_pattern |-> topic_pattern, is_add |-> is_add]
MulticastData(topic, data_packets) ==
    [message_type |-> "MulticastData", topic |-> topic, data_packets |-> data_packets]
DataPacket(entitlement, content_type, data) ==
    [entitlement |-> entitlement, content_type |-> content_type, data |-> data]

\* The messages there may be: the members of the classes.
Characters == Seq(Int)
DataPackets ==
    Seq([entitlement : Int, content_type : Characters, data : Characters])

AnyMessage ==
    [message_type : {"AuthenticationRequest"}, method : Characters, data : Characters]
    \cup [message_type : {"AuthenticationResponse"}, is_authenticated : BOOLEAN]
    \cup [message_type : {"MulticastData"}, topic : Characters, data_packets : DataPackets]
    \cup [message_type : {"UnicastData"}, client_id : Characters, topic : Characters,
          data_packets : DataPackets]
    \cup [message_type : {"ForwardedSubscriptionRequest"}, user : Characters,
          host : Characters, client_id : Characters, topic : Characters, is_add : BOOLEAN]
    \cup [message_type : {"NotificationRequest"}, topic_pattern : Characters, is_add : BOOLEAN]
    \cup [message_type : {"SubscriptionRequest"}, topic : Characters, is_add : BOOLEAN]
    \cup [message_type : {"ForwardedMulticastData"}, user : Characters, host : Characters,
          topic : Characters, data_packets : DataPackets]
    \cup [message_type : {"ForwardedUnicastData"}, user : Characters, host : Characters,
          client_id : Characters, topic : Characters, data_packets : DataPackets]

\* The fields of a message and their types.
String(field)  == [name |-> field, type |-> "string"]
Bool(field)    == [name |-> field, type |-> "bool"]
Packets(field) == [name |-> field, type |-> "packets"]

\* serialize_body: the fields, in the order in which each class writes them.
Written == [
    AuthenticationRequest  |-> <<String("method"), String("data")>>,
    AuthenticationResponse |-> <<Bool("is_authenticated")>>,
    MulticastData          |-> <<String("topic"), Packets("data_packets")>>,
    UnicastData            |-> <<String("client_id"), String("topic"), Packets("data_packets")>>,
    ForwardedSubscriptionRequest |->
        <<String("user"), String("host"), String("client_id"), String("topic"), Bool("is_add")>>,
    NotificationRequest    |-> <<String("topic_pattern"), Bool("is_add")>>,
    SubscriptionRequest    |-> <<String("topic"), Bool("is_add")>>,
    ForwardedMulticastData |->
        <<String("user"), String("host"), String("topic"), Packets("data_packets")>>,
    ForwardedUnicastData   |->
        <<String("user"), String("host"), String("client_id"), String("topic"),
          Packets("data_packets")>>]

PutString(s) == <<Len(s)>> \o s
PutPacket(p) == <<p.entitlement>> \o PutString(p.content_type) \o PutString(p.data)

\* operator<<, for each type of a field. A vector is its size and its elements.
Put(type, v) ==
    CASE type = "string"  -> PutString(v)
      [] type = "bool"    -> <<IF v THEN 1 ELSE 0>>
      [] type = "packets" -> <<Len(v)>> \o FlattenSeq([n \in DOMAIN v |-> PutPacket(v[n])])

\* operator>>: what is read from the front of a body, and the rest of it.
From(n, body) == SubSeq(body, n, Len(body))

GetString(body) ==
    [value |-> SubSeq(body, 2, 1 + Head(body)), rest |-> From(2 + Head(body), body)]

GetPacket(body) ==
    LET content_type == GetString(Tail(body))
        data         == GetString(content_type.rest)
    IN  [value |-> DataPacket(Head(body), content_type.value, data.value), rest |-> data.rest]

TakePacket(got, n) ==
    LET packet == GetPacket(got.rest)
    IN  [value |-> Append(got.value, packet.value), rest |-> packet.rest]

(***************************************************************************)
(* Plausible faults of the code, used to test the properties.              *)
(***************************************************************************)

\* the last packet is not read
GetPackets_LastLost(body) ==
    FoldLeft(TakePacket, [value |-> <<>>, rest |-> Tail(body)], [n \in 1..(Head(body) - 1) |-> n])

\* deserialize_body reads the host before the user
Read_HostFirst == [Written EXCEPT
    !.ForwardedMulticastData =
        <<String("host"), String("user"), String("topic"), Packets("data_packets")>>]

-----------------------------------------------------------------------------

\* deserialize_body: the fields, in the order in which each class reads them.
Read == [
    AuthenticationRequest  |-> <<String("method"), String("data")>>,
    AuthenticationResponse |-> <<Bool("is_authenticated")>>,
    MulticastData          |-> <<String("topic"), Packets("data_packets")>>,
    UnicastData            |-> <<String("client_id"), String("topic"), Packets("data_packets")>>,
    ForwardedSubscriptionRequest |->
        <<String("user"), String("host"), String("client_id"), String("topic"), Bool("is_add")>>,
    NotificationRequest    |-> <<String("topic_pattern"), Bool("is_add")>>,
    SubscriptionRequest    |-> <<String("topic"), Bool("is_add")>>,
    ForwardedMulticastData |->
        <<String("user"), String("host"), String("topic"), Packets("data_packets")>>,
    ForwardedUnicastData   |->
        <<String("user"), String("host"), String("client_id"), String("topic"),
          Packets("data_packets")>>]

GetPackets(body) ==
    FoldLeft(TakePacket, [value |-> <<>>, rest |-> Tail(body)], [n \in 1..Head(body) |-> n])

Get(type, body) ==
    CASE type = "string"  -> GetString(body)
      [] type = "bool"    -> [value |-> Head(body) = 1, rest |-> Tail(body)]
      [] type = "packets" -> GetPackets(body)

\* The message gets a field.
SetField(message, field, v) ==
    [f \in DOMAIN message \cup {field} |-> IF f = field THEN v ELSE message[f]]

TakeField(got, field) ==
    LET next == Get(field.type, got.rest)
    IN  [value |-> SetField(got.value, field.name, next.value), rest |-> next.rest]

\* Message::serialize: the type, and the fields.
Serialize(message) ==
    LET fields == Written[message.message_type]
    IN  <<MessageType[message.message_type]>>
            \o FlattenSeq([n \in DOMAIN fields |-> Put(fields[n].type, message[fields[n].name])])

\* Message::deserialize. make_shared throws for a type that there is none of, which no
\* program writes; nor does any write a body that ends too soon.
Deserialize(body) ==
    LET type == CHOOSE t \in DOMAIN MessageType : MessageType[t] = Head(body)
    IN  FoldLeft(TakeField, [value |-> [message_type |-> type], rest |-> Tail(body)],
                 Read[type]).value

=============================================================================
