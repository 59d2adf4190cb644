---------------------------- MODULE Distributor ----------------------------
(***************************************************************************)
(* The event loop of io/poller.hpp with its listener, its sockets and its  *)
(* client, server/distributor.cpp, and the sessions' part in it,           *)
(* server/interactor.cpp.                                                  *)
(*                                                                         *)
(* Four tables hold what belongs to one connection: the kernel's           *)
(* descriptors, the handlers of the poller and the interactors of the      *)
(* distributor, all by descriptor, and what the hub was handed of each     *)
(* session. A descriptor that is closed is the next one accept() returns.  *)
(*                                                                         *)
(* The loop's steps are taken one after the other. Connections, signals,   *)
(* edits and the going of peers come between any two of them.              *)
(***************************************************************************)
EXTENDS Integers, FiniteSetsExt, Functions

CONSTANTS
    Client, Password, HasPasswordFile, PasswordFiles, BadFile,
    Fd,              \* the descriptors sockets can have
    Listener,        \* the listener's: opened first, the lowest
    NoUser,          \* a session that has not authenticated
    MaxConnections,  \* bound: the connections accepted
    MaxMessages      \* bound: the messages of one read

ASSUME DistributorAssumption ==
    /\ Fd \subseteq Nat /\ Listener \in Nat /\ \A fd \in Fd : Listener < fd
    /\ MaxConnections \in Nat /\ MaxMessages \in Nat
    /\ NoUser \notin Client

VARIABLES
    passwords, entries,   \* authentication_manager_
    descriptors,  \* the connection at each open descriptor
    handlers,     \* handlers_: [connection, is_open, answer]; answer: is a success queued?
    interactors,  \* interactors_: [connection, user]
    phase,        \* the step of event_loop
    readable, writable,   \* the descriptors whose revents are still to be handled
    reading,      \* the descriptor whose messages on_read is handling, and how many are left
    signal,       \* last_signal
    up,           \* FALSE once event_loop was left, or a null pointer dereferenced
    accepted,     \* the number of connections accepted
    gone,         \* the connections whose peer has closed
    hub,          \* history: the connections the hub got messages of, and may point to for good
    disconnected, \* history: the connections on_disconnected was called for
    granted,      \* history: the connections that authenticated
    told,         \* history: the connections that were sent a success
    read,         \* history: the contents of the password file when it was last read
    asked,        \* history: has there been a signal since the file was last edited?
    applied       \* history: were the authorizations loaded since the last signal?

eventState == <<readable, writable, reading>>
tables     == <<descriptors, handlers, interactors, hub, disconnected>>
outside    == <<passwords, signal, gone, asked, applied>>
histories  == <<granted, told, read>>
distributorVars ==
    <<eventState, tables, outside, histories, entries, phase, up, accepted>>

AuthenticationManager == INSTANCE AuthenticationManager

ASSUME PasswordAssumption ==
    /\ HasPasswordFile \in BOOLEAN
    /\ \A contents \in PasswordFiles :
        /\ DOMAIN contents \subseteq Client
        /\ \A c \in DOMAIN contents : contents[c] \in AuthenticationManager!Record
    /\ BadFile \notin PasswordFiles
    /\ {AuthenticationManager!Nobody, AuthenticationManager!Refused,
        AuthenticationManager!Throws} \cap Client = {}

NotReading == [fd |-> Listener, left |-> 0]

Without(table, fd) == Restrict(table, DOMAIN table \ {fd})

\* std::map::insert: an entry that is there stays. operator[] replaces it.
Insert(table, fd, entry) ==
    [x \in DOMAIN table \cup {fd} |-> IF x \in DOMAIN table THEN table[x] ELSE entry]
Assign(table, fd, entry) ==
    [x \in DOMAIN table \cup {fd} |-> IF x = fd THEN entry ELSE table[x]]

\* The lowest of these descriptors.
First(fd, fds) == fd \in fds /\ \A x \in fds : fd <= x

Closed == {fd \in DOMAIN handlers : ~handlers[fd].is_open}

Init ==
    /\ AuthenticationManager!Init
    /\ descriptors = <<>> /\ handlers = <<>> /\ interactors = <<>>
    /\ hub = {} /\ disconnected = {}
    /\ phase = "poll" /\ readable = {} /\ writable = {} /\ reading = NotReading
    /\ signal = FALSE /\ up = TRUE /\ accepted = 0 /\ gone = {}
    /\ granted = {} /\ told = {} /\ read = passwords /\ asked = TRUE /\ applied = TRUE

(***************************************************************************)
(* Plausible faults of the code, used to test the properties.              *)
(***************************************************************************)

\* the distributor keeps the interactor of a connection that was closed
Forget_KeepsInteractor(fd) ==
    /\ disconnected' = disconnected \cup {interactors[fd].connection}
    /\ UNCHANGED interactors

\* the hub is not told
Forget_NotDisconnected(fd) ==
    /\ interactors' = Without(interactors, fd)
    /\ UNCHANGED disconnected

\* the end of the stream is not noticed
StartRead_IgnoresEnd(fd, n) ==
    /\ phase = "events" /\ reading = NotReading /\ up
    /\ fd \in readable \ {Listener} /\ First(fd, readable \cup writable)
    /\ readable' = readable \ {fd}
    /\ reading' = IF n = 0 THEN NotReading ELSE [fd |-> fd, left |-> n]
    /\ UNCHANGED <<writable, tables, outside, histories, entries, phase, up, accepted>>

\* the events of clients are handled before the listener's
Turn_ClientsFirst(fd) ==
    /\ phase = "events" /\ reading = NotReading /\ up
    /\ readable \cup writable # {} /\ fd = Max(readable \cup writable)

\* a session that is refused is not closed
CloseSocket_Skipped(fd) ==
    /\ handlers' = [handlers EXCEPT ![fd].answer = TRUE]
    /\ UNCHANGED descriptors

\* the signal is reset when the configuration has been loaded
LoadAuthorizations_Resets ==
    /\ phase = "authorizations" /\ up
    /\ phase' = "events"
    /\ signal' = FALSE /\ applied' = TRUE
    /\ UNCHANGED <<eventState, tables, passwords, gone, asked, histories, entries, up, accepted>>

\* the authorizations are not loaded when the passwords are what they were
LoadPasswords_OnlyNews ==
    /\ phase = "passwords" /\ up
    /\ AuthenticationManager!Load
    /\ read' = passwords
    /\ phase' = IF AuthenticationManager!Loads /\ passwords # read THEN "authorizations" ELSE "events"
    /\ UNCHANGED <<eventState, tables, signal, gone, asked, applied, granted, told, up, accepted>>

\* the loop over the batch misses its end
NextMessage_Overruns ==
    /\ reading' = [reading EXCEPT !.left = @ - 1]
    /\ UNCHANGED writable

\* the signal is looked at when no socket is ready
CheckSignal_Idle ==
    LET idle == readable \cup writable = {}
    IN  /\ phase = "signal" /\ up
        /\ phase' = IF signal /\ idle THEN "passwords" ELSE "events"
        /\ signal' = (signal /\ ~idle)
        /\ UNCHANGED <<eventState, tables, passwords, gone, asked, applied, histories, entries, up,
                       accepted>>

-----------------------------------------------------------------------------

\* make_poll_fds and poll: sockets that want to be read and are ready, those whose peer
\* has closed among them, and sockets that are writable and have something to write: an
\* answer, or what the hub sends.
Poll ==
    /\ phase = "poll" /\ up
    /\ \E ready \in SUBSET (DOMAIN handlers) :
        /\ {fd \in DOMAIN handlers : handlers[fd].connection \in gone} \subseteq ready
        /\ readable' \in {ready} \cup {ready \cup {Listener} : c \in (accepted + 1)..MaxConnections}
    /\ writable' \in SUBSET (DOMAIN handlers)
    /\ phase' = "signal"
    /\ UNCHANGED <<reading, tables, outside, histories, entries, up, accepted>>

\* The signal is reset before on_interrupt is called.
CheckSignal ==
    /\ phase = "signal" /\ up
    /\ phase' = IF signal THEN "passwords" ELSE "events"
    /\ signal' = FALSE
    /\ UNCHANGED <<eventState, tables, passwords, gone, asked, applied, histories, entries, up,
                   accepted>>

\* on_interrupt: the passwords are loaded first. If that throws, event_loop catches it
\* and the authorizations stay as they are.
LoadPasswords ==
    /\ phase = "passwords" /\ up
    /\ AuthenticationManager!Load
    /\ read' = passwords
    /\ phase' = IF AuthenticationManager!Loads THEN "authorizations" ELSE "events"
    /\ UNCHANGED <<eventState, tables, signal, gone, asked, applied, granted, told, up,
                   accepted>>

\* hub_.on_startup, which Hub!Reload models.
LoadAuthorizations ==
    /\ phase = "authorizations" /\ up
    /\ phase' = "events"
    /\ applied' = TRUE
    /\ UNCHANGED <<eventState, tables, passwords, signal, gone, asked, histories, entries, up,
                   accepted>>

\* The events are handled in the order of the descriptors, and of one descriptor the
\* read before the write.
Turn(fd) ==
    /\ phase = "events" /\ reading = NotReading /\ up
    /\ First(fd, readable \cup writable)

\* The listener: accept() returns the lowest descriptor that is free; add_handler replaces
\* a handler that is still there, whose ~File closes the descriptor, and calls on_open.
Accept(fd) ==
    /\ Turn(Listener)
    /\ accepted < MaxConnections
    /\ fd \notin DOMAIN descriptors /\ \A x \in Fd : x < fd => x \in DOMAIN descriptors
    /\ LET c == accepted + 1
       IN  /\ descriptors' = IF fd \in Closed THEN descriptors ELSE Insert(descriptors, fd, c)
           /\ handlers' = Assign(handlers, fd, [connection |-> c, is_open |-> TRUE, answer |-> FALSE])
           /\ interactors' = Insert(interactors, fd, [connection |-> c, user |-> NoUser])
           /\ accepted' = c
    /\ readable' = readable \ {Listener}
    /\ UNCHANGED <<writable, reading, hub, disconnected, outside, histories, entries, phase, up>>

\* The process ends in the middle of a turn, and what it held goes with it.
Ends ==
    /\ up' = FALSE
    /\ descriptors' = <<>> /\ handlers' = <<>> /\ interactors' = <<>>
    /\ readable' = {} /\ writable' = {} /\ reading' = NotReading
    /\ UNCHANGED <<hub, disconnected, outside, histories, entries, phase, accepted>>

\* accept() fails, for want of descriptors or otherwise, and throws. The listener is
\* read outside handle_read, so that nothing catches it before main.
AcceptFails ==
    /\ Turn(Listener)
    /\ Ends

\* handle_read: the socket is read to the end of what is there, and marked as not open
\* if that is the end of the stream (can_continue); on_read gets n messages.
StartRead(fd, n) ==
    /\ Turn(fd) /\ fd \in readable \ {Listener}
    /\ LET eof == handlers[fd].connection \in gone
       IN  /\ handlers' = [handlers EXCEPT ![fd].is_open = @ /\ ~eof]
           /\ writable' = IF eof THEN writable \ {fd} ELSE writable
    /\ readable' = readable \ {fd}
    /\ reading' = IF n = 0 THEN NotReading ELSE [fd |-> fd, left |-> n]
    /\ UNCHANGED <<descriptors, interactors, hub, disconnected, outside, histories, entries, phase, up,
                   accepted>>

\* The next message of the batch is handled, or the batch is abandoned: an exception ends
\* on_read, and handle_read does not go on to the write.
NextMessage ==
    /\ reading' = IF reading.left = 1 THEN NotReading ELSE [reading EXCEPT !.left = @ - 1]
    /\ UNCHANGED writable

Abandon ==
    /\ reading' = NotReading
    /\ writable' = writable \ {reading.fd}

Handles(fd) == up /\ reading # NotReading /\ fd = reading.fd

\* Poller::close, and the answer that authenticate() queues all the same.
CloseSocket(fd) ==
    /\ descriptors' = IF handlers[fd].is_open THEN Without(descriptors, fd) ELSE descriptors
    /\ handlers' = [handlers EXCEPT ![fd].is_open = FALSE, ![fd].answer = TRUE]

\* Interactor::authenticate
Authenticate(fd, request) ==
    /\ Handles(fd) /\ interactors[fd].user = NoUser
    /\ LET user == AuthenticationManager!Authenticate(request)
       IN  \/ /\ user = AuthenticationManager!Throws
              /\ Abandon
              /\ UNCHANGED <<tables, granted>>
           \/ /\ user = AuthenticationManager!Refused
              /\ CloseSocket(fd)
              /\ NextMessage
              /\ UNCHANGED <<interactors, hub, disconnected, granted>>
           \/ /\ user \notin {AuthenticationManager!Throws, AuthenticationManager!Refused}
              /\ interactors' = [interactors EXCEPT ![fd].user = user]
              /\ handlers' = [handlers EXCEPT ![fd].answer = TRUE]
              /\ granted' = granted \cup {interactors[fd].connection}
              /\ NextMessage
              /\ UNCHANGED <<descriptors, hub, disconnected>>
    /\ UNCHANGED <<readable, outside, told, read, entries, phase, up, accepted>>

\* Interactor::authenticate for a message that is no AuthenticationRequest: the null pointer
\* that dynamic_cast returns is dereferenced.
SpeaksFirst(fd) ==
    /\ Handles(fd) /\ interactors[fd].user = NoUser
    /\ Ends

\* Hub::on_message, which the module Hub models: its managers may keep the interactor,
\* and it may throw (a malformed pattern, a message clients do not send).
HubMessage(fd) ==
    /\ Handles(fd) /\ interactors[fd].user # NoUser
    /\ hub' = hub \cup {interactors[fd].connection}
    /\ NextMessage \/ Abandon
    /\ UNCHANGED <<readable, descriptors, handlers, interactors, disconnected, outside, histories,
                   entries, phase, up, accepted>>

\* The hub does not forget every session that has gone: of one that gave up a topic beside
\* others, subscriptions_ keeps the pointer (the run dangling_subscriber). It follows it for
\* a message, or for the data that another session's going makes stale, and the process
\* may end.
HubFollowsFreed(fd) ==
    /\ \/ Handles(fd) /\ interactors[fd].user # NoUser
       \/ phase = "removal" /\ up /\ First(fd, Closed)
    /\ hub \cap disconnected # {}
    /\ Ends

\* A message of no known type, whoever sends it: make_shared throws a char pointer, and
\* handle_read, which is noexcept, catches exceptions only.
UnknownType(fd) ==
    /\ Handles(fd)
    /\ Ends

\* handle_write: a handler that is open writes its queue, or marks its socket as not open
\* (TcpSocketPollHandler models why).
Write(fd) ==
    /\ Turn(fd) /\ fd \notin readable
    /\ writable' = writable \ {fd}
    /\ IF handlers[fd].is_open
       THEN \/ /\ handlers' = [handlers EXCEPT ![fd].answer = FALSE]
               /\ told' = told \cup {h.connection : h \in {x \in {handlers[fd]} : x.answer}}
            \/ /\ handlers' = [handlers EXCEPT ![fd].is_open = FALSE]
               /\ UNCHANGED told
       ELSE UNCHANGED <<handlers, told>>
    /\ UNCHANGED <<readable, reading, descriptors, interactors, hub, disconnected, outside, granted,
                   read, entries, phase, up, accepted>>

\* A write to a connection that its peer has broken raises SIGPIPE, for which main sets no
\* handler: the process ends.
BrokenPipe(fd) ==
    /\ Turn(fd) /\ fd \notin readable
    /\ handlers[fd].is_open /\ handlers[fd].connection \in gone
    /\ Ends

EndEvents ==
    /\ phase = "events" /\ up
    /\ readable = {} /\ writable = {} /\ reading = NotReading
    /\ phase' = "removal"
    /\ UNCHANGED <<eventState, tables, outside, histories, entries, up, accepted>>

\* Distributor::on_close: the hub is told, and the interactor is freed.
Forget(fd) ==
    /\ disconnected' = disconnected \cup {interactors[fd].connection}
    /\ interactors' = Without(interactors, fd)

\* remove_closed_handlers, in the order of the descriptors: ~File closes the descriptor
\* of the handler, for the second time if Poller::close did.
Remove(fd) ==
    /\ phase = "removal" /\ up
    /\ First(fd, Closed)
    /\ handlers' = Without(handlers, fd)
    /\ Forget(fd)
    /\ descriptors' = Without(descriptors, fd)
    /\ UNCHANGED <<eventState, hub, outside, histories, entries, phase, up, accepted>>

EndRemoval ==
    /\ phase = "removal" /\ up
    /\ Closed = {}
    /\ phase' = "poll"
    /\ UNCHANGED <<eventState, tables, outside, histories, entries, up, accepted>>

\* SIGHUP, at any moment.
Hup ==
    /\ up /\ ~signal
    /\ signal' = TRUE
    /\ asked' = TRUE /\ applied' = FALSE
    /\ UNCHANGED <<eventState, tables, passwords, gone, histories, entries, phase, up, accepted>>

EditPasswords ==
    /\ up
    /\ AuthenticationManager!EditPasswords
    /\ asked' = FALSE
    /\ UNCHANGED <<eventState, tables, signal, gone, applied, histories, phase, up, accepted>>

PeerCloses(c) ==
    /\ up /\ c \in 1..accepted \ gone
    /\ gone' = gone \cup {c}
    /\ UNCHANGED <<eventState, tables, passwords, signal, asked, applied, histories, entries, phase,
                   up, accepted>>

EventLoop ==
    \/ Poll \/ CheckSignal \/ LoadPasswords \/ LoadAuthorizations
    \/ \E fd \in Fd :
        \/ Accept(fd)
        \/ \E n \in 0..MaxMessages : StartRead(fd, n)
        \/ \E request \in AuthenticationManager!Request : Authenticate(fd, request)
        \/ SpeaksFirst(fd)
        \/ HubMessage(fd) \/ HubFollowsFreed(fd) \/ UnknownType(fd)
        \/ Write(fd) \/ BrokenPipe(fd)
        \/ Remove(fd)
    \/ AcceptFails
    \/ EndEvents \/ EndRemoval

Next ==
    \/ EventLoop
    \/ Hup \/ EditPasswords
    \/ \E c \in 1..MaxConnections : PeerCloses(c)

\* The loop goes on as long as the server is up: poll() waits for a second at most.
Spec == Init /\ [][Next]_distributorVars /\ WF_distributorVars(EventLoop)

-----------------------------------------------------------------------------

TypeOK ==
    /\ AuthenticationManager!TypeOK
    /\ DOMAIN descriptors \subseteq Fd /\ DOMAIN handlers \subseteq Fd
    /\ DOMAIN interactors \subseteq Fd
    /\ phase \in {"poll", "signal", "passwords", "authorizations", "events", "removal"}
    /\ readable \subseteq Fd \cup {Listener} /\ writable \subseteq Fd
    /\ reading.left \in 0..MaxMessages

\* While a handler is there its descriptor is not another connection's, so that the
\* second close of a descriptor, by ~File (file.hpp:46), closes nothing that is in use:
\* between Poller::close and the handler's removal nothing is accepted.
DescriptorsOwned ==
    \A fd \in DOMAIN handlers :
        IF handlers[fd].is_open
        THEN fd \in DOMAIN descriptors /\ descriptors[fd] = handlers[fd].connection
        ELSE fd \in DOMAIN descriptors => descriptors[fd] = handlers[fd].connection

\* A connection has an interactor of its own, with a user only if it has authenticated
\* itself: one that gets the descriptor of another never finds that one's session there
\* (insert, distributor.cpp:36, keeps an entry that is there).
SessionsOwned ==
    /\ DOMAIN interactors = DOMAIN handlers
    /\ \A fd \in DOMAIN handlers :
        /\ interactors[fd].connection = handlers[fd].connection
        /\ interactors[fd].user # NoUser => handlers[fd].connection \in granted

\* The hub is told that a session has gone when its interactor is freed, and only then: of
\* those it got messages of, and may point to, every one is told or still there with its
\* user, and none is told that is still there. (That it forgets them then is not so:
\* HubFollowsFreed.)
HubTold ==
    up =>
        /\ \A c \in hub \ disconnected : \E fd \in DOMAIN interactors :
            interactors[fd].connection = c /\ interactors[fd].user # NoUser
        /\ \A fd \in DOMAIN interactors : interactors[fd].connection \notin disconnected

\* authenticate() queues the same answer, of success, whether it grants or refuses: only
\* a client that was granted is sent it.
OnlyGrantedTold == told \subseteq granted

\* README.md:59, "Sending the signal HUP to the process will force the password file to
\* be re-read": a signal that comes at any moment, while an earlier one is being handled
\* too, has the file read as it was when the signal came, or as it was edited since.
HupHonoured ==
    (asked /\ ~signal /\ phase # "passwords") => read = passwords

\* The authorizations follow the passwords: a signal has them loaded too, whatever comes
\* between the two files, another signal included, unless the passwords are bad: what
\* LoadPasswords throws leaves the authorizations as they were (poller.hpp:105).
AuthorizationsFollow ==
    (~signal /\ phase \notin {"passwords", "authorizations"}) => applied \/ read = BadFile

\* However busy the sockets are, a signal is handled.
HupHandled == signal ~> (~signal \/ ~up)

\* A connection has gone: the hub was told, and no table of the loop has it.
Removed(c) ==
    /\ c \in disconnected
    /\ \A fd \in DOMAIN descriptors : descriptors[fd] # c
    /\ \A fd \in DOMAIN handlers : handlers[fd].connection # c
    /\ \A fd \in DOMAIN interactors : interactors[fd].connection # c

\* Whatever the other sockets do, on_disconnected is called for a client that has gone, and
\* its descriptor, handler and interactor are given up (for good: no number is given twice).
GoneForgotten ==
    \A c \in 1..MaxConnections : (c \in gone) ~> (Removed(c) \/ ~up)

=============================================================================
