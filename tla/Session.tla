------------------------------ MODULE Session -------------------------------
(***************************************************************************)
(* A session, end to end: the command line client and the server's         *)
(* Interactor talk over the two directions of a connection, in the bytes   *)
(* of the messages. The server reads a batch, the bodies that have come in *)
(* buffers of their own, and handles it message by message; what the hub   *)
(* does with a message, and sends, is Hub's.                               *)
(*                                                                         *)
(* An exception of a handler's drops the buffers of the batch behind the   *)
(* message, and the server reads on. When they end where a body ends, the  *)
(* bodies in them are left out, and the later ones are handled; when they  *)
(* do not, the reader has lost where the bodies begin, and what it makes   *)
(* of the bytes is anything.                                               *)
(***************************************************************************)
EXTENDS Client

CONSTANTS
    Accounts,       \* the password file: users to records [cipher, password]
    Malformed,      \* the patterns that are no regular expressions
    HubMessage,     \* the messages the hub may send
    MaxForwarded,   \* bound: the messages it sends
    Sample, Text    \* the messages and the texts converted to try the conversions

\* The strings of a client and of the password file are octets, none of them spelt like
\* another; a user name has no colon, and is none of the words that stand for an outcome.
ASSUME SessionAssumption ==
    /\ \A n \in DOMAIN Spelling :
        /\ Spelling[n] \in Seq(0..255)
        /\ \A m \in DOMAIN Spelling : Spelling[m] = Spelling[n] => m = n
    /\ \A option \in Option :
        option.method = "none" \/ (/\ option.method = "basic"
                                   /\ option.username \in DOMAIN Spelling
                                   /\ option.password \in DOMAIN Spelling
                                   /\ \A n \in DOMAIN Spelling[option.username] :
                                        Spelling[option.username][n] # Colon)
    /\ {"no user", "nobody", "stranger", "refused", "throws"} \cap DOMAIN Spelling = {}
    /\ \A name \in DOMAIN Accounts :
        /\ Accounts[name].cipher \in {"apr1", "other"}
        /\ Accounts[name] = [cipher |-> Accounts[name].cipher, password |-> Accounts[name].password]
    /\ \A command \in Command \cup Fragment : command.topic \in Characters
    /\ HubMessage \subseteq AnyMessage /\ Sample \subseteq AnyMessage
    /\ MaxLines \in Nat /\ MaxParts \in Nat /\ MaxForwarded \in Nat
    /\ Text \subseteq Seq(0..255)

VARIABLES
    has_password_file,    \* was the server started with --password-file?
    handled,              \* the places, among those written, of the bodies handled
    dropped,              \* the places of those an exception dropped
    garbled,              \* has the reader lost where the bodies begin?
    batch,                \* the bodies of this batch not handled yet
    session,              \* "open", "closed" (Poller::close) or "gone" (removed)
    user,                 \* user_, or NoUser
    outcome,              \* history: what became of the request to authenticate
    hub,                  \* history: the messages handed to the hub, unless garbled
    told,                 \* history: the messages sent to the client
    server_up

serverVars  == <<has_password_file, handled, dropped, garbled, batch, session, user, outcome,
                 hub, told, incoming, hung_up, server_up>>
sessionVars == <<clientVars, serverVars>>

NoUser   == "no user"
Stranger == "stranger"

\* The bodies the server has not handled yet; the first of them comes next.
Left == DOMAIN written \ (Range(handled) \cup dropped)
NextBody == CHOOSE n \in Left : \A m \in Left : n <= m
Behind == Left \ {NextBody}

Protected == INSTANCE AuthenticationManager WITH
    Client <- DOMAIN Spelling, Password <- DOMAIN Spelling, HasPasswordFile <- TRUE,
    PasswordFiles <- {Accounts}, BadFile <- "bad", passwords <- Accounts, entries <- Accounts
Unprotected == INSTANCE AuthenticationManager WITH
    Client <- DOMAIN Spelling, Password <- DOMAIN Spelling, HasPasswordFile <- FALSE,
    PasswordFiles <- {Accounts}, BadFile <- "bad", passwords <- Accounts, entries <- <<>>

\* Who these characters name.
Named(characters) ==
    IF \E n \in DOMAIN Spelling : Spelling[n] = characters
    THEN CHOOSE n \in DOMAIN Spelling : Spelling[n] = characters
    ELSE Stranger

\* AuthenticationManager's request for a message of this kind.
RequestOf(message) ==
    IF message.method = None THEN [method |-> "none"]
    ELSE IF message.method # Basic THEN [method |-> "other"]
    ELSE IF ~HasColon(message.data) THEN [method |-> "garbled"]
    ELSE LET token == DecodeToken(message.data)
         IN  [method |-> "basic", name |-> Named(token[1]), password |-> Named(token[2])]

SessionInit ==
    /\ Init
    /\ has_password_file \in BOOLEAN
    /\ handled = <<>> /\ dropped = {} /\ garbled = FALSE /\ batch = 0
    /\ session = "open" /\ user = NoUser /\ outcome = "none"
    /\ hub = <<>> /\ told = <<>> /\ incoming = <<>>
    /\ hung_up = FALSE /\ server_up = TRUE

\* Interactor::send: the message goes to the client.
Tell(message) ==
    /\ told' = Append(told, message)
    /\ incoming' = Append(incoming, Serialize(message))

Tells == UNCHANGED <<told, incoming>>    \* tells nothing

\* Poller::close, or the end of the process: the client sees the end of the connection.
Hangs(state) == session' = state /\ hung_up' = TRUE

(***************************************************************************)
(* Plausible faults of the code, used to test the properties.              *)
(***************************************************************************)

\* who the client is is not kept
Grant_NoUser(name) ==
    /\ outcome' = "granted"
    /\ Tell(AuthenticationResponse(TRUE))
    /\ UNCHANGED <<session, hung_up, user, server_up>>

-----------------------------------------------------------------------------

\* Interactor::authenticate. The session is closed before the response is queued, so
\* that it is not sent.
Refuse ==
    /\ Hangs("closed") /\ outcome' = "refused"
    /\ Tells /\ UNCHANGED <<user, server_up>>

Grant(name) ==
    /\ user' = name /\ outcome' = "granted"
    /\ Tell(AuthenticationResponse(TRUE))
    /\ UNCHANGED <<session, hung_up, server_up>>

\* The server ends.
Crash ==
    /\ Hangs("gone") /\ server_up' = FALSE
    /\ Tells /\ UNCHANGED <<user, outcome>>

\* The server takes what has come; a body behind the first may be kept back.
ServerReads ==
    /\ server_up /\ session = "open" /\ batch = 0 /\ ~garbled
    /\ batch' \in 1..Cardinality(Left)
    /\ UNCHANGED <<clientVars, has_password_file, handled, dropped, garbled, session, user,
                   outcome, hub, told, incoming, hung_up, server_up>>

\* What becomes of the next body, whether or not its handler throws.
Handles(step) ==
    /\ server_up /\ batch > 0 /\ Left # {}
    /\ step
    /\ handled' = Append(handled, NextBody)
    /\ UNCHANGED <<clientVars, has_password_file>>

Returns == batch' = batch - 1 /\ UNCHANGED <<dropped, garbled>>

\* The buffers behind it are dropped: bodies that follow each other, but for those that are
\* in the reader, and perhaps part of another.
Throws ==
    /\ batch' = 0
    /\ garbled' \in {FALSE, Behind # {}}
    /\ \E gone \in SUBSET Behind :
        /\ \A m, n \in gone : (m..n) \cap Behind \subseteq gone
        /\ batch > 1 => gone # {} \/ garbled'
        /\ dropped' = dropped \cup gone

Message == Deserialize(written[NextBody])
Verdict ==
    IF has_password_file
    THEN Protected!Authenticate(RequestOf(Message))
    ELSE Unprotected!Authenticate(RequestOf(Message))

\* The cast of a message that is no AuthenticationRequest gives a null pointer.
ServerAuthenticates ==
    /\ user = NoUser
    /\ Handles(
        IF Message.message_type # "AuthenticationRequest"
        THEN Crash /\ batch' = 0 /\ UNCHANGED <<dropped, garbled>>
        ELSE IF Verdict = "refused" THEN Refuse /\ Returns
        ELSE IF Verdict = "throws"
        THEN outcome' = "throws" /\ Throws /\ Tells /\ UNCHANGED <<session, hung_up, user, server_up>>
        ELSE Grant(Verdict) /\ Returns)
    /\ UNCHANGED hub

\* Hub::on_message, which throws when a listener's pattern is malformed and not known yet.
HubReceives ==
    /\ user # NoUser
    /\ Handles(\/ Returns
               \/ /\ Message.message_type = "NotificationRequest"
                  /\ Message.is_add /\ Message.topic_pattern \in Malformed
                  /\ Throws)
    /\ hub' = Append(hub, Message)
    /\ Tells /\ UNCHANGED <<session, user, outcome, hung_up, server_up>>

\* What comes is taken for whatever its bytes say: for nothing yet, for messages to the hub
\* or an exception, for a request to authenticate, for a message of a type that is none,
\* which throws what nothing catches, or for no AuthenticationRequest before one.
ServerMisreads ==
    /\ server_up /\ session = "open" /\ garbled /\ Left # {}
    /\ dropped' = dropped \cup Left
    /\ \/ Tells /\ UNCHANGED <<session, hung_up, user, outcome, server_up>>
       \/ Crash
       \/ user = NoUser /\ (Refuse \/ \E name \in {"nobody"} \cup DOMAIN Spelling : Grant(name))
    /\ UNCHANGED <<clientVars, has_password_file, handled, garbled, batch, hub>>

\* The hub has a message for the session.
HubSends(message) ==
    /\ server_up /\ session = "open" /\ user # NoUser /\ running
    /\ Len(told) <= MaxForwarded
    /\ Tell(message)
    /\ UNCHANGED <<clientVars, has_password_file, handled, dropped, garbled, batch, session, user,
                   outcome, hub, hung_up, server_up>>

\* The second write to a client that has gone raises SIGPIPE.
BrokenPipe ==
    /\ server_up /\ session = "open" /\ user # NoUser /\ ~running /\ batch = 0
    /\ Crash
    /\ UNCHANGED <<clientVars, has_password_file, handled, dropped, garbled, batch, hub>>

\* The client has gone, what it wrote last perhaps with it; or the session was closed.
Removed ==
    /\ server_up /\ batch = 0
    /\ session = "closed" \/ (session = "open" /\ ~running)
    /\ Hangs("gone")
    /\ UNCHANGED <<clientVars, has_password_file, handled, dropped, garbled, batch, user, outcome,
                   hub, told, incoming, server_up>>

ClientSteps ==
    /\ (\E command \in Command : Type(command)) \/ EndInput \/ Turn
    /\ UNCHANGED serverVars

Next ==
    \/ ClientSteps
    \/ ServerReads \/ ServerAuthenticates \/ HubReceives \/ ServerMisreads
    \/ \E message \in HubMessage : HubSends(message)
    \/ BrokenPipe \/ Removed

\* Both programs go on polling as long as they run, and handle what poll() reports; that
\* the first body has come is always reported. The bodies of a batch are handled, whatever
\* the handlers do. Nothing makes a line come.
Fairness ==
    /\ WF_sessionVars(Turn /\ UNCHANGED serverVars)
    /\ WF_sessionVars(ServerReads /\ handled = <<>>)
    /\ WF_handled(Handles(TRUE))
    /\ WF_sessionVars(Removed)

Spec == SessionInit /\ [][Next]_sessionVars /\ Fairness

-----------------------------------------------------------------------------

TypeOK ==
    /\ ClientTypeOK
    /\ has_password_file \in BOOLEAN /\ garbled \in BOOLEAN
    /\ Range(handled) \subseteq DOMAIN written /\ dropped \subseteq DOMAIN written
    /\ batch \in 0..Len(written)
    /\ session \in {"open", "closed", "gone"} /\ server_up \in BOOLEAN
    /\ user \in {NoUser, "nobody"} \cup DOMAIN Spelling
    /\ outcome \in {"none", "granted", "refused", "throws"}
    /\ (outcome = "granted") = (user # NoUser)
    /\ hung_up = (session # "open")
    /\ Len(told) <= MaxForwarded + 1

\* Who an option is, by the password file and not by the way there.
Known(option) ==
    IF option.method = "none" THEN ~has_password_file
    ELSE /\ has_password_file
         /\ option.username \in DOMAIN Accounts
         /\ Accounts[option.username] = [cipher |-> "apr1", password |-> option.password]

\* Over the token, its base64, the frames and the server's tables, a client that prints
\* "Authenticated" is one the password file knows under the name and password of its
\* command line, colons in the password included, and the server's session has its name,
\* as long as the server knows where the bodies begin.
Agreement ==
    /\ authenticated => outcome = "granted"
    /\ ~garbled =>
        /\ outcome = "granted" =>
            /\ Known(authentication)
            /\ user = IF authentication.method = "none" THEN "nobody" ELSE authentication.username
        /\ outcome = "refused" => ~Known(authentication)

\* Whatever is typed, and however early, a client ends the server only when its
\* authentication has failed and commands follow, when an exception has lost the server its
\* place in what the client sends, or by being gone when it is written to: the request to
\* authenticate gets there before any command.
ServerSurvives ==
    [][server_up /\ ~server_up' => outcome \in {"refused", "throws"} \/ garbled \/ ~running]_sessionVars

\* Is s what is left of t when some of its elements are taken out?
IsSubsequence(s, t) ==
    \E place \in [DOMAIN s -> DOMAIN t] :
        \A n \in DOMAIN s : s[n] = t[place[n]] /\ (n > 1 => place[n - 1] < place[n])

\* The hub gets what the client took for commands, field by field, in the order of the input
\* and from the first on, with nothing left out unless an exception dropped it, and then
\* still in order. What the client takes for commands, unless a line is cut, are the lines
\* typed at a terminal, and some of the lines of a pipe's, in order.
CommandsConveyed ==
    /\ ~garbled =>
        LET wanted == FlattenSeq([n \in DOMAIN executed |-> RequestsOf(executed[n])])
        IN  IF dropped = {} THEN IsPrefix(hub, wanted) ELSE IsSubsequence(hub, wanted)
    /\ ~cut => IF piped THEN IsSubsequence(executed, typed) ELSE IsPrefix(executed, typed)

\* The client prints what the server told it, field by field and in order, and nothing
\* before it is told that it is authenticated.
MessagesHeard ==
    LET printed == [n \in DOMAIN taken |-> Deserialize(taken[n])]
    IN  /\ IsPrefix(printed, told)
        /\ (told # <<>>) => Head(told) = AuthenticationResponse(TRUE)
        /\ authenticated = (taken # <<>>)

\* The conversions do not depend on the state: they are checked where a session starts.
Starting == polling /\ ~ended /\ typed = <<>> /\ written = <<>>

\* A message of any class is read back as it was written, whatever its fields: no string is
\* cut, no field is taken for another, and no packet is lost.
MessagesReadBack ==
    Starting => \A message \in Sample : Deserialize(Serialize(message)) = message

\* The groups of six bits of a text: each has the last bits of one octet, where j octets of
\* a triple have left some over, and the first of the next; behind the end there are zeros.
Octet(text, n) == IF n \in DOMAIN text THEN text[n] ELSE 0
Group(text, m) ==
    LET j == (m - 1) % 4
        n == 3 * ((m - 1) \div 4) + j
    IN  (Octet(text, n) % 4^j) * 4^(3 - j) + Octet(text, n + 1) \div 4^(j + 1)
Groups(text) == [m \in 1..((4 * Len(text) + 2) \div 3) |-> Group(text, m)]

\* base64 is the groups of six bits of the text, padded to a multiple of four, and the
\* text is read back from it, although the accumulator of both loops overflows. The name
\* and the password of a token are those it was made of, whatever colons the password has,
\* if the name has none.
TokensExact ==
    Starting =>
        /\ \A text \in Text :
            /\ Encode(text) = Groups(text) \o [n \in 1..((-Len(Groups(text))) % 4) |-> Pad]
            /\ Decode(Encode(text)) = text
        /\ \A name, password \in Text :
            (\A n \in DOMAIN name : name[n] # Colon) =>
                LET token == EncodeToken(name, password)
                IN  HasColon(token) /\ DecodeToken(token) = <<name, password>>

\* A client gets an answer or ends, unless the server's handler throws: then nothing is
\* answered, and the client waits.
Settled == <>(authenticated \/ ~running \/ outcome = "throws")

=============================================================================
