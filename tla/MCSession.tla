----------------------------- MODULE MCSession -----------------------------
(* Clients of a user with a colon in his password, who may get it wrong, of   *)
(* one whose hash the server cannot compare, and of nobody; two lines, whole  *)
(* or cut into up to two parts; one message of the hub's. Beside the          *)
(* sessions, messages of all classes and tokens of up to three characters are *)
(* converted and read back.                                                   *)
EXTENDS Session

Users == "alice" :> <<97>> @@ "bob" :> <<98>> @@ "pw" :> <<112>> @@ "pw:x" :> <<112, Colon, 120>>

File == "alice" :> [cipher |-> "apr1", password |-> "pw:x"]
            @@ "bob" :> [cipher |-> "other", password |-> "pw"]

With(username, password) == [method |-> "basic", username |-> username, password |-> password]
Options ==
    {[method |-> "none"], With("alice", "pw:x"), With("alice", "pw"), With("bob", "pw")}

Topic == <<116>>
Bad   == <<91>>
BadPatterns == {Bad}
Line(word, topic) == [word |-> word, topic |-> topic]
Lines ==
    {Line("SUBSCRIBE", Topic), Line("LISTEN", Bad), Line("CLOSE", <<>>)}
Parts == {Line("LISTEN", Bad)}

\* A message of the class with these values of its fields, in the order of Written.
MessageOf(class, values) ==
    FoldLeft(LAMBDA got, n : got @@ (Written[class][n].name :> values[n]),
             "message_type" :> class, [n \in DOMAIN values |-> n])

Alice == <<97>>
Host  == <<104>>
HubMessages == {MessageOf("ForwardedMulticastData", <<Alice, Host, Topic, <<>>>>)}

-----------------------------------------------------------------------------

\* What is converted beside the sessions.
Strings     == {<<>>, <<1>>, <<2, 1>>}
PacketLists ==
    BoundedSeq({DataPacket(e, t, d) : e \in {-1, 2}, t \in {<<1>>}, d \in {<<>>, <<2, 1>>}}, 2)

Samples ==
    {AuthenticationResponse(b) : b \in BOOLEAN}
    \cup {MessageOf("AuthenticationRequest", <<s, t>>) : s, t \in Strings}
    \cup {MessageOf(class, <<s, b>>) :
            class \in {"SubscriptionRequest", "NotificationRequest"}, s \in Strings, b \in BOOLEAN}
    \cup {MessageOf("MulticastData", <<s, p>>) : s \in Strings, p \in PacketLists}
    \cup {MessageOf("UnicastData", <<s, t, p>>) : s, t \in Strings, p \in PacketLists}
    \cup {MessageOf("ForwardedSubscriptionRequest", <<s, t, u, v, b>>) :
            s, t, u, v \in Strings, b \in BOOLEAN}
    \cup {MessageOf("ForwardedMulticastData", <<s, t, u, p>>) :
            s, t, u \in Strings, p \in PacketLists}
    \cup {MessageOf("ForwardedUnicastData", <<s, t, u, v, p>>) :
            s, t, u, v \in {<<>>, <<2, 1>>}, p \in PacketLists}

Octets == BoundedSeq({0, Colon, 255}, 3)

=============================================================================
