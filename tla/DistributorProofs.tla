------------------------- MODULE DistributorProofs -------------------------
(***************************************************************************)
(* Proofs about the event loop and its tables, for any number of           *)
(* descriptors, connections and messages, any password files, and clients  *)
(* that come, go and send in any order: nothing of one connection is taken *)
(* for another's, the hub is told of every session that goes and of no     *)
(* other, nobody who was refused is told otherwise, and no signal is lost. *)
(***************************************************************************)
EXTENDS Distributor, TLAPS

-----------------------------------------------------------------------------

\* The tables of descriptors.

Connections == Nat
Users       == Client \cup {NoUser, AuthenticationManager!Nobody}
Handler     == [connection : Connections, is_open : BOOLEAN, answer : BOOLEAN]
Interactor  == [connection : Connections, user : Users]

-----------------------------------------------------------------------------

\* The invariant.

\* The tables are maps of descriptors.
TablesTyped ==
    /\ descriptors \in [DOMAIN descriptors -> Connections] /\ DOMAIN descriptors \subseteq Fd
    /\ handlers \in [DOMAIN handlers -> Handler] /\ DOMAIN handlers \subseteq Fd
    /\ interactors \in [DOMAIN interactors -> Interactor]
    /\ accepted \in Nat

\* What a turn of the loop still has to handle is of handlers that are there.
EventsTyped ==
    /\ phase \in {"poll", "signal", "passwords", "authorizations", "events", "removal"}
    /\ readable \subseteq DOMAIN handlers \cup {Listener} /\ writable \subseteq DOMAIN handlers
    /\ reading # NotReading => reading \in [fd : DOMAIN handlers, left : 1..MaxMessages]
    /\ phase # "events" => reading = NotReading
    /\ phase \in {"removal", "poll"} => readable = {} /\ writable = {}

\* Nothing is closed before the listener's turn, which is the first: what was closed in
\* the last turn of the loop has been removed.
NothingClosedYet ==
    (phase \notin {"events", "removal"} \/ Listener \in readable) =>
        Closed = {} /\ reading = NotReading

\* A success that is queued where it will be sent was granted.
AnswersGranted ==
    \A fd \in DOMAIN handlers :
        handlers[fd].is_open /\ handlers[fd].answer => handlers[fd].connection \in granted

\* Every connection has its number, and one interactor: told of one that has gone, the hub
\* was told of no other.
ConnectionsNumbered ==
    /\ disconnected \subseteq 1..accepted
    /\ \A fd \in DOMAIN interactors :
        /\ interactors[fd].connection \in 1..accepted
        /\ \A x \in DOMAIN interactors :
            interactors[x].connection = interactors[fd].connection => x = fd

IInv ==
    /\ ConnectionsNumbered
    /\ TablesTyped /\ EventsTyped /\ NothingClosedYet /\ AnswersGranted
    /\ DescriptorsOwned /\ SessionsOwned /\ HubTold /\ OnlyGrantedTold

\* At the start there is nothing.
LEMMA DistributorInit == Init => IInv
BY DEF Init, IInv, TablesTyped, EventsTyped, NothingClosedYet, Closed, AnswersGranted,
       DescriptorsOwned, SessionsOwned, HubTold, OnlyGrantedTold, ConnectionsNumbered

\* A step that leaves the tables alone, and of the events only drops some or none, keeps
\* the invariant, if it keeps what is said of the phases.
LEMMA TablesLeft ==
    ASSUME IInv, UNCHANGED <<tables, accepted, granted, told, up>>,
           EventsTyped', NothingClosedYet'
    PROVE  IInv'
BY DEF IInv, tables, TablesTyped, AnswersGranted, DescriptorsOwned, SessionsOwned,
       HubTold, OnlyGrantedTold, ConnectionsNumbered

-----------------------------------------------------------------------------

\* The steps of the loop that handle no event.
LEMMA LoopSteps ==
    ASSUME IInv,
           Poll \/ CheckSignal \/ LoadPasswords \/ LoadAuthorizations \/ EndEvents \/ EndRemoval
    PROVE  IInv'
<1>1. CASE Poll
  <2>1. EventsTyped' /\ NothingClosedYet'
    BY <1>1 DEF Poll, IInv, EventsTyped, NothingClosedYet, Closed, tables
  <2> QED BY <1>1, <2>1, TablesLeft DEF Poll, histories
<1>2. CASE CheckSignal
  <2>1. EventsTyped' /\ NothingClosedYet'
    BY <1>2 DEF CheckSignal, IInv, EventsTyped, NothingClosedYet, Closed, tables, eventState
  <2> QED BY <1>2, <2>1, TablesLeft DEF CheckSignal, histories
<1>3. CASE LoadPasswords
  <2>1. EventsTyped' /\ NothingClosedYet'
    BY <1>3 DEF LoadPasswords, IInv, EventsTyped, NothingClosedYet, Closed, tables, eventState
  <2> QED BY <1>3, <2>1, TablesLeft DEF LoadPasswords
<1>4. CASE LoadAuthorizations
  <2>1. EventsTyped' /\ NothingClosedYet'
    BY <1>4 DEF LoadAuthorizations, IInv, EventsTyped, NothingClosedYet, Closed, tables, eventState
  <2> QED BY <1>4, <2>1, TablesLeft DEF LoadAuthorizations, histories
<1>5. CASE EndEvents
  <2>1. EventsTyped' /\ NothingClosedYet'
    BY <1>5 DEF EndEvents, IInv, EventsTyped, NothingClosedYet, Closed, tables, eventState
  <2> QED BY <1>5, <2>1, TablesLeft DEF EndEvents, histories
<1>6. CASE EndRemoval
  <2>1. EventsTyped' /\ NothingClosedYet'
    BY <1>6 DEF EndRemoval, IInv, EventsTyped, NothingClosedYet, Closed, tables, eventState
  <2> QED BY <1>6, <2>1, TablesLeft DEF EndRemoval, histories
<1> QED BY <1>1, <1>2, <1>3, <1>4, <1>5, <1>6

\* What comes from outside changes no table.
LEMMA OutsideSteps ==
    ASSUME IInv,
           \/ Hup \/ EditPasswords
           \/ \E c \in 1..MaxConnections : PeerCloses(c)
           \/ UNCHANGED distributorVars
    PROVE  IInv'
<1>1. UNCHANGED <<eventState, tables, phase, accepted, granted, told, up>>
  BY DEF Hup, EditPasswords, PeerCloses, distributorVars, histories
<1>2. EventsTyped' /\ NothingClosedYet'
  BY <1>1 DEF IInv, EventsTyped, NothingClosedYet, Closed, tables, eventState
<1> QED BY <1>1, <1>2, TablesLeft

\* When the process ends nothing is left in its tables.
LEMMA EndsKeeps ==
    ASSUME IInv, Ends, phase \in {"events", "removal"}
    PROVE  IInv'
<1>1. TablesTyped' /\ ConnectionsNumbered'
  BY DEF Ends, IInv, TablesTyped, ConnectionsNumbered
<1>2. EventsTyped' /\ NothingClosedYet'
  BY DEF Ends, IInv, EventsTyped, NothingClosedYet, Closed
<1>3. AnswersGranted' /\ DescriptorsOwned' /\ SessionsOwned' /\ HubTold' /\ OnlyGrantedTold'
  BY DEF Ends, histories, IInv, AnswersGranted, DescriptorsOwned, SessionsOwned, HubTold,
         OnlyGrantedTold
<1> QED BY <1>1, <1>2, <1>3 DEF IInv

-----------------------------------------------------------------------------

\* A connection is accepted at a descriptor that no table has: no handler is closed, so
\* each has its descriptor open.
LEMMA AcceptKeeps ==
    ASSUME IInv, NEW fd \in Fd, Accept(fd)
    PROVE  IInv'
<1>1. Listener \in readable /\ Closed = {} /\ reading = NotReading
  BY DistributorAssumption DEF Accept, Turn, First, IInv, EventsTyped, TablesTyped, NothingClosedYet
<1>2. fd \notin DOMAIN handlers /\ fd \notin DOMAIN descriptors /\ fd \notin DOMAIN interactors
  BY <1>1 DEF Accept, Closed, IInv, DescriptorsOwned, SessionsOwned
<1> DEFINE c == accepted + 1
<1>3. /\ descriptors' = Insert(descriptors, fd, c)
      /\ handlers' = Assign(handlers, fd, [connection |-> c, is_open |-> TRUE, answer |-> FALSE])
      /\ interactors' = Insert(interactors, fd, [connection |-> c, user |-> NoUser])
      /\ accepted' = c /\ c \in Nat
  BY <1>1 DEF Accept, IInv, TablesTyped
<1>4. TablesTyped'
  BY <1>2, <1>3 DEF IInv, TablesTyped, Insert, Assign, Handler, Interactor, Users, Connections
<1>5. /\ DOMAIN handlers' = DOMAIN handlers \cup {fd}
      /\ DOMAIN interactors' = DOMAIN interactors \cup {fd}
      /\ DOMAIN descriptors' = DOMAIN descriptors \cup {fd}
      /\ handlers'[fd] = [connection |-> c, is_open |-> TRUE, answer |-> FALSE]
      /\ interactors'[fd] = [connection |-> c, user |-> NoUser]
      /\ descriptors'[fd] = c
      /\ \A x \in DOMAIN handlers : handlers'[x] = handlers[x]
      /\ \A x \in DOMAIN interactors : interactors'[x] = interactors[x]
      /\ \A x \in DOMAIN descriptors : descriptors'[x] = descriptors[x]
  BY <1>2, <1>3 DEF Insert, Assign
<1>6. EventsTyped' /\ NothingClosedYet'
  BY <1>1, <1>5, DistributorAssumption
     DEF Accept, Turn, IInv, EventsTyped, NothingClosedYet, TablesTyped, Closed
<1>7. UNCHANGED <<granted, told, hub, disconnected, up>>
  BY DEF Accept, histories
<1>8. AnswersGranted' /\ OnlyGrantedTold'
  <2>1. ASSUME NEW x \in DOMAIN handlers', handlers'[x].is_open /\ handlers'[x].answer
        PROVE  handlers'[x].connection \in granted
    <3>1. x \in DOMAIN handlers /\ handlers'[x] = handlers[x]
      BY <1>5, <2>1
    <3> QED BY <2>1, <3>1 DEF IInv, AnswersGranted
  <2> QED BY <1>7, <2>1 DEF IInv, AnswersGranted, OnlyGrantedTold
<1>9. DescriptorsOwned'
  BY <1>2, <1>5 DEF IInv, DescriptorsOwned
<1>10. SessionsOwned'
  <2>1. ASSUME NEW x \in DOMAIN handlers'
        PROVE  /\ interactors'[x].connection = handlers'[x].connection
               /\ interactors'[x].user # NoUser => handlers'[x].connection \in granted
    <3>1. CASE x = fd
      BY <1>5, <3>1
    <3>2. CASE x \in DOMAIN handlers /\ x # fd
      BY <1>5, <3>2 DEF IInv, SessionsOwned
    <3> QED BY <1>5, <2>1, <3>1, <3>2
  <2> QED BY <1>5, <1>7, <2>1 DEF IInv, SessionsOwned
<1>11. HubTold' /\ ConnectionsNumbered'
  <2>1. /\ c \notin disconnected /\ c \in 1..accepted' /\ 1..accepted \subseteq 1..accepted'
        /\ \A x \in DOMAIN interactors : interactors[x].connection # c
    BY <1>3 DEF IInv, ConnectionsNumbered, TablesTyped
  <2>2. HubTold'
    BY <1>2, <1>5, <1>7, <2>1 DEF IInv, HubTold
  <2>3. ConnectionsNumbered'
    BY <1>2, <1>5, <1>7, <2>1 DEF IInv, ConnectionsNumbered
  <2> QED BY <2>2, <2>3
<1> QED BY <1>4, <1>6, <1>8, <1>9, <1>10, <1>11 DEF IInv

-----------------------------------------------------------------------------

\* The handler whose event it is, of a table's descriptor.
LEMMA TurnOfHandler ==
    ASSUME IInv, NEW fd \in Fd, Turn(fd)
    PROVE  fd \in DOMAIN handlers /\ Listener \notin readable /\ phase = "events"
           /\ reading = NotReading
BY DistributorAssumption DEF Turn, First, IInv, EventsTyped, TablesTyped

LEMMA ReadingHandler ==
    ASSUME IInv, NEW fd \in Fd, Handles(fd)
    PROVE  /\ fd \in DOMAIN handlers /\ fd \in DOMAIN interactors
           /\ Listener \notin readable /\ phase = "events"
           /\ reading \in [fd : DOMAIN handlers, left : 1..MaxMessages] /\ reading.fd = fd
           /\ handlers[fd].connection = interactors[fd].connection
BY DEF Handles, IInv, EventsTyped, NothingClosedYet, SessionsOwned

\* The end of a stream closes a handler and not its descriptor.
LEMMA StartReadKeeps ==
    ASSUME IInv, NEW fd \in Fd, NEW n \in 0..MaxMessages, StartRead(fd, n)
    PROVE  IInv'
<1>1. fd \in DOMAIN handlers /\ Listener \notin readable /\ phase = "events"
  BY TurnOfHandler DEF StartRead
<1>2. handlers' = [handlers EXCEPT ![fd].is_open = @ /\ ~(handlers[fd].connection \in gone)]
  BY DEF StartRead
<1>3. /\ DOMAIN handlers' = DOMAIN handlers
      /\ handlers' \in [DOMAIN handlers -> Handler]
      /\ \A x \in DOMAIN handlers :
            /\ handlers'[x].connection = handlers[x].connection
            /\ handlers'[x].answer = handlers[x].answer
            /\ handlers'[x].is_open => handlers[x].is_open
  BY <1>1, <1>2 DEF IInv, TablesTyped, Handler
<1>4. TablesTyped'
  BY <1>3 DEF StartRead, IInv, TablesTyped
<1>5. EventsTyped' /\ NothingClosedYet'
  BY <1>1, <1>3, DistributorAssumption DEF StartRead, IInv, EventsTyped, NothingClosedYet, NotReading
<1>6. AnswersGranted' /\ OnlyGrantedTold' /\ SessionsOwned' /\ HubTold' /\ ConnectionsNumbered'
  BY <1>3 DEF StartRead, histories, IInv, AnswersGranted, OnlyGrantedTold, SessionsOwned,
              HubTold, ConnectionsNumbered
<1>7. DescriptorsOwned'
  BY <1>3 DEF StartRead, IInv, DescriptorsOwned
<1> QED BY <1>4, <1>5, <1>6, <1>7 DEF IInv

\* The next message of a batch, and the end of one, leave what is said of the events.
LEMMA BatchGoesOn ==
    ASSUME IInv, NEW fd \in Fd, Handles(fd), NextMessage \/ Abandon,
           UNCHANGED <<readable, phase>>, DOMAIN handlers' = DOMAIN handlers
    PROVE  EventsTyped' /\ NothingClosedYet'
<1>1. reading' # NotReading => reading' \in [fd : DOMAIN handlers, left : 1..MaxMessages]
  BY ReadingHandler, DistributorAssumption DEF NextMessage, Abandon
<1>2. Listener \notin readable /\ phase = "events"
  BY ReadingHandler
<1>3. writable' \subseteq writable
  BY DEF NextMessage, Abandon
<1> QED BY <1>1, <1>2, <1>3 DEF IInv, EventsTyped, NothingClosedYet

\* Poller::close takes the descriptor from the handler that owns it, and the success
\* queued behind it is never sent.
LEMMA SocketClosed ==
    ASSUME IInv, NEW fd \in DOMAIN handlers, CloseSocket(fd)
    PROVE  /\ descriptors' \in [DOMAIN descriptors' -> Connections]
           /\ DOMAIN descriptors' \subseteq Fd
           /\ DOMAIN handlers' = DOMAIN handlers /\ handlers' \in [DOMAIN handlers -> Handler]
           /\ \A x \in DOMAIN handlers : handlers'[x].connection = handlers[x].connection
           /\ \A x \in DOMAIN handlers :
                handlers'[x].is_open => handlers[x].is_open /\ handlers'[x].answer = handlers[x].answer
           /\ DescriptorsOwned'
<1>1. handlers' = [handlers EXCEPT ![fd].is_open = FALSE, ![fd].answer = TRUE]
  BY DEF CloseSocket
<1>2. /\ DOMAIN handlers' = DOMAIN handlers /\ handlers' \in [DOMAIN handlers -> Handler]
      /\ \A x \in DOMAIN handlers : handlers'[x].connection = handlers[x].connection
      /\ \A x \in DOMAIN handlers \ {fd} : handlers'[x] = handlers[x]
      /\ ~handlers'[fd].is_open
  BY <1>1 DEF IInv, TablesTyped, Handler
<1>3. \/ UNCHANGED descriptors /\ ~handlers[fd].is_open
      \/ descriptors' = [x \in DOMAIN descriptors \ {fd} |-> descriptors[x]]
  BY DEF CloseSocket, Without, Restrict
<1>4. descriptors' \in [DOMAIN descriptors' -> Connections] /\ DOMAIN descriptors' \subseteq Fd
  BY <1>3 DEF IInv, TablesTyped
<1>5. DescriptorsOwned'
  BY <1>2, <1>3 DEF IInv, DescriptorsOwned
<1> QED BY <1>2, <1>4, <1>5

\* authenticate returns a name, or what is none.
LEMMA AuthenticateTyped ==
    ASSUME NEW request \in AuthenticationManager!Request
    PROVE  AuthenticationManager!Authenticate(request) \in
                Users \cup {AuthenticationManager!Refused, AuthenticationManager!Throws}
BY DEF AuthenticationManager!Request, AuthenticationManager!Authenticate, Users

\* A session is closed, or gets its user and a success for it.
LEMMA AuthenticateKeeps ==
    ASSUME IInv, NEW fd \in Fd, NEW request \in AuthenticationManager!Request,
           Authenticate(fd, request)
    PROVE  IInv'
<1>1. Handles(fd) /\ interactors[fd].user = NoUser
  BY DEF Authenticate
<1>2. /\ fd \in DOMAIN handlers /\ fd \in DOMAIN interactors
      /\ handlers[fd].connection = interactors[fd].connection
  BY <1>1, ReadingHandler
<1> DEFINE user == AuthenticationManager!Authenticate(request)
<1>3. CASE /\ user = AuthenticationManager!Throws
           /\ Abandon
           /\ UNCHANGED <<tables, granted>>
  <2>1. EventsTyped' /\ NothingClosedYet'
    BY <1>1, <1>3, BatchGoesOn DEF Authenticate, tables
  <2> QED BY <1>3, <2>1, TablesLeft DEF Authenticate
<1>4. CASE /\ user = AuthenticationManager!Refused
           /\ CloseSocket(fd)
           /\ NextMessage
           /\ UNCHANGED <<interactors, hub, disconnected, granted>>
  <2>1. EventsTyped' /\ NothingClosedYet'
    BY <1>1, <1>2, <1>4, BatchGoesOn, SocketClosed DEF Authenticate
  <2>2. TablesTyped' /\ DescriptorsOwned'
    BY <1>2, <1>4, SocketClosed DEF Authenticate, IInv, TablesTyped
  <2>3. AnswersGranted' /\ OnlyGrantedTold' /\ SessionsOwned' /\ HubTold' /\ ConnectionsNumbered'
    BY <1>2, <1>4, SocketClosed DEF Authenticate, IInv, AnswersGranted, OnlyGrantedTold,
                                    SessionsOwned, HubTold, ConnectionsNumbered
  <2> QED BY <2>1, <2>2, <2>3 DEF IInv
<1>5. CASE /\ user \notin {AuthenticationManager!Throws, AuthenticationManager!Refused}
           /\ interactors' = [interactors EXCEPT ![fd].user = user]
           /\ handlers' = [handlers EXCEPT ![fd].answer = TRUE]
           /\ granted' = granted \cup {interactors[fd].connection}
           /\ NextMessage
           /\ UNCHANGED <<descriptors, hub, disconnected>>
  <2>1. user \in Users
    BY <1>5, AuthenticateTyped
  <2>2. /\ DOMAIN handlers' = DOMAIN handlers /\ handlers' \in [DOMAIN handlers -> Handler]
        /\ \A x \in DOMAIN handlers :
            /\ handlers'[x].connection = handlers[x].connection
            /\ handlers'[x].is_open = handlers[x].is_open
            /\ x # fd => handlers'[x].answer = handlers[x].answer
    BY <1>2, <1>5 DEF IInv, TablesTyped, Handler
  <2>3. /\ DOMAIN interactors' = DOMAIN interactors
        /\ interactors' \in [DOMAIN interactors -> Interactor]
        /\ \A x \in DOMAIN interactors :
            /\ interactors'[x].connection = interactors[x].connection
            /\ x # fd => interactors'[x].user = interactors[x].user
    BY <1>2, <1>5, <2>1 DEF IInv, TablesTyped, Interactor
  <2>4. EventsTyped' /\ NothingClosedYet'
    BY <1>1, <1>5, <2>2, BatchGoesOn DEF Authenticate
  <2>5. TablesTyped' /\ DescriptorsOwned'
    BY <1>5, <2>2, <2>3 DEF Authenticate, IInv, TablesTyped, DescriptorsOwned
  <2>6. AnswersGranted' /\ OnlyGrantedTold'
    BY <1>2, <1>5, <2>2 DEF Authenticate, IInv, AnswersGranted, OnlyGrantedTold
  <2>7. SessionsOwned'
    BY <1>2, <1>5, <2>2, <2>3 DEF IInv, SessionsOwned
  <2>8. ConnectionsNumbered' /\ up' = up
    BY <1>2, <1>5, <2>3 DEF Authenticate, IInv, ConnectionsNumbered
  <2>9. HubTold'
    <3>1. \A x \in DOMAIN interactors : interactors[x].user # NoUser => x # fd
      BY <1>1 DEF Handles
    <3>2. \A x \in DOMAIN interactors :
            interactors[x].user # NoUser => interactors'[x].user # NoUser
      BY <2>3, <3>1
    <3>3. ASSUME up, NEW c \in hub, c \notin disconnected
          PROVE  \E x \in DOMAIN interactors' :
                    interactors'[x].user # NoUser /\ interactors'[x].connection = c
      <4>1. PICK x \in DOMAIN interactors :
                interactors[x].user # NoUser /\ interactors[x].connection = c
        BY <3>3 DEF IInv, HubTold
      <4> QED BY <2>3, <3>2, <4>1
    <3>4. up => \A x \in DOMAIN interactors' : interactors'[x].connection \notin disconnected
      BY <2>3 DEF IInv, HubTold
    <3> QED BY <1>5, <2>8, <3>3, <3>4 DEF HubTold
  <2> QED BY <2>9, <2>4, <2>5, <2>6, <2>7, <2>8 DEF IInv
<1> QED BY <1>3, <1>4, <1>5 DEF Authenticate

-----------------------------------------------------------------------------

\* The hub's managers hear of the session that sends.
LEMMA HubMessageKeeps ==
    ASSUME IInv, NEW fd \in Fd, HubMessage(fd)
    PROVE  IInv'
<1>1. /\ Handles(fd) /\ interactors[fd].user # NoUser
      /\ hub' = hub \cup {interactors[fd].connection}
      /\ NextMessage \/ Abandon
      /\ UNCHANGED <<readable, descriptors, handlers, interactors, disconnected, granted, told,
                     phase, up, accepted>>
  BY DEF HubMessage, histories
<1>2. fd \in DOMAIN interactors
  BY <1>1, ReadingHandler
<1>3. EventsTyped' /\ NothingClosedYet'
  BY <1>1, BatchGoesOn
<1>4. HubTold' /\ ConnectionsNumbered'
  BY <1>1, <1>2 DEF IInv, HubTold, ConnectionsNumbered
<1>5. TablesTyped' /\ AnswersGranted' /\ OnlyGrantedTold' /\ DescriptorsOwned' /\ SessionsOwned'
  BY <1>1 DEF IInv, TablesTyped, AnswersGranted, OnlyGrantedTold, DescriptorsOwned, SessionsOwned
<1> QED BY <1>3, <1>4, <1>5 DEF IInv

\* An answer that is sent was granted; a write that fails closes a handler and not its
\* descriptor.
LEMMA WriteKeeps ==
    ASSUME IInv, NEW fd \in Fd, Write(fd)
    PROVE  IInv'
<1>1. fd \in DOMAIN handlers /\ Listener \notin readable /\ phase = "events"
  BY TurnOfHandler DEF Write
<1>2. /\ writable' = writable \ {fd}
      /\ UNCHANGED <<readable, reading, phase, descriptors, interactors, hub, disconnected, granted,
                     up, accepted>>
  BY DEF Write
<1>3. /\ DOMAIN handlers' = DOMAIN handlers
      /\ handlers' \in [DOMAIN handlers -> Handler]
      /\ \A x \in DOMAIN handlers :
            /\ handlers'[x].connection = handlers[x].connection
            /\ handlers'[x].answer => handlers[x].answer
            /\ handlers'[x].is_open => handlers[x].is_open
  <2>1. CASE handlers' = [handlers EXCEPT ![fd].answer = FALSE]
    BY <1>1, <2>1 DEF IInv, TablesTyped, Handler
  <2>2. CASE handlers' = [handlers EXCEPT ![fd].is_open = FALSE]
    BY <1>1, <2>2 DEF IInv, TablesTyped, Handler
  <2>3. CASE handlers' = handlers
    BY <2>3 DEF IInv, TablesTyped
  <2> QED BY <2>1, <2>2, <2>3 DEF Write
<1>4. \/ told' = told
      \/ /\ handlers[fd].is_open
         /\ told' = told \cup {h.connection : h \in {x \in {handlers[fd]} : x.answer}}
  BY DEF Write
<1>5. OnlyGrantedTold'
  BY <1>1, <1>2, <1>4 DEF IInv, AnswersGranted, OnlyGrantedTold
<1>6. TablesTyped' /\ EventsTyped' /\ NothingClosedYet'
  BY <1>1, <1>2, <1>3 DEF IInv, TablesTyped, EventsTyped, NothingClosedYet
<1>7. AnswersGranted' /\ SessionsOwned' /\ HubTold' /\ ConnectionsNumbered' /\ DescriptorsOwned'
  BY <1>2, <1>3 DEF IInv, AnswersGranted, SessionsOwned, HubTold, ConnectionsNumbered,
                    DescriptorsOwned
<1> QED BY <1>5, <1>6, <1>7 DEF IInv

\* A closed handler goes with its descriptor and its interactor, and the hub is told: no
\* other interactor has its connection.
LEMMA RemoveKeeps ==
    ASSUME IInv, NEW fd \in Fd, Remove(fd)
    PROVE  IInv'
<1>1. /\ fd \in DOMAIN handlers /\ fd \in DOMAIN interactors
      /\ readable = {} /\ writable = {} /\ reading = NotReading /\ phase = "removal"
      /\ handlers[fd].connection = interactors[fd].connection
  BY DEF Remove, First, Closed, IInv, EventsTyped, SessionsOwned
<1>2. /\ disconnected' = disconnected \cup {interactors[fd].connection}
      /\ UNCHANGED <<readable, writable, reading, phase, up, accepted, hub, granted, told>>
  BY DEF Remove, Forget, eventState, histories
<1>3. /\ handlers' = [x \in DOMAIN handlers \ {fd} |-> handlers[x]]
      /\ interactors' = [x \in DOMAIN interactors \ {fd} |-> interactors[x]]
      /\ descriptors' = [x \in DOMAIN descriptors \ {fd} |-> descriptors[x]]
  BY <1>1 DEF Remove, Forget, Without, Restrict
<1>4. TablesTyped'
  BY <1>2, <1>3 DEF IInv, TablesTyped
<1>5. EventsTyped' /\ NothingClosedYet'
  BY <1>1, <1>2, DistributorAssumption DEF EventsTyped, NothingClosedYet
<1>6. AnswersGranted' /\ OnlyGrantedTold' /\ DescriptorsOwned' /\ SessionsOwned'
  BY <1>2, <1>3 DEF IInv, AnswersGranted, OnlyGrantedTold, DescriptorsOwned, SessionsOwned
<1>7. ConnectionsNumbered'
  BY <1>1, <1>2, <1>3 DEF IInv, ConnectionsNumbered
<1>8. ASSUME up PROVE HubTold'
  <2>1. ASSUME NEW c \in hub'
        PROVE  \/ c \in disconnected'
               \/ \E x \in DOMAIN interactors' :
                    interactors'[x].user # NoUser /\ interactors'[x].connection = c
    <3>1. CASE c \in disconnected
      BY <1>2, <3>1
    <3>2. CASE \E x \in DOMAIN interactors :
                interactors[x].user # NoUser /\ interactors[x].connection = c
      <4>1. PICK x \in DOMAIN interactors :
                interactors[x].user # NoUser /\ interactors[x].connection = c
        BY <3>2
      <4>2. CASE x = fd
        BY <1>2, <4>1, <4>2
      <4>3. CASE x # fd
        BY <1>3, <4>1, <4>3
      <4> QED BY <4>2, <4>3
    <3> QED BY <1>2, <1>8, <2>1, <3>1, <3>2 DEF IInv, HubTold
  <2>2. \A x \in DOMAIN interactors' : interactors'[x].connection \notin disconnected'
    BY <1>1, <1>2, <1>3, <1>8 DEF IInv, HubTold, ConnectionsNumbered
  <2> QED BY <2>1, <2>2 DEF HubTold
<1>9. up
  BY DEF Remove
<1> QED BY <1>4, <1>5, <1>6, <1>7, <1>8, <1>9 DEF IInv

-----------------------------------------------------------------------------

\* Every step keeps the invariant.
LEMMA DistributorSteps == IInv /\ [Next]_distributorVars => IInv'
<1> SUFFICES ASSUME IInv, [Next]_distributorVars PROVE IInv'
  OBVIOUS
<1>1. CASE EventLoop
  <2>1. ASSUME NEW fd \in Fd, Accept(fd) PROVE IInv'
    BY <2>1, AcceptKeeps
  <2>2. ASSUME NEW fd \in Fd, NEW n \in 0..MaxMessages, StartRead(fd, n) PROVE IInv'
    BY <2>2, StartReadKeeps
  <2>3. ASSUME NEW fd \in Fd, NEW request \in AuthenticationManager!Request,
               Authenticate(fd, request)
        PROVE  IInv'
    BY <2>3, AuthenticateKeeps
  <2>4. ASSUME NEW fd \in Fd, HubMessage(fd) PROVE IInv'
    BY <2>4, HubMessageKeeps
  <2>5. ASSUME NEW fd \in Fd, Write(fd) PROVE IInv'
    BY <2>5, WriteKeeps
  <2>6. ASSUME NEW fd \in Fd, Remove(fd) PROVE IInv'
    BY <2>6, RemoveKeeps
  <2>7. ASSUME NEW fd \in Fd, SpeaksFirst(fd) \/ HubFollowsFreed(fd) \/ UnknownType(fd)
        PROVE  IInv'
    BY <2>7, ReadingHandler, EndsKeeps DEF SpeaksFirst, HubFollowsFreed, UnknownType
  <2>8. ASSUME AcceptFails \/ \E fd \in Fd : BrokenPipe(fd) PROVE IInv'
    BY <2>8, EndsKeeps DEF AcceptFails, BrokenPipe, Turn
  <2> QED BY <1>1, <2>1, <2>2, <2>3, <2>4, <2>5, <2>6, <2>7, <2>8, LoopSteps DEF EventLoop
<1>2. CASE ~EventLoop
  BY <1>2, OutsideSteps DEF Next
<1> QED BY <1>1, <1>2

THEOREM IInvInvariant == Spec => []IInv
BY DistributorInit, DistributorSteps, PTL DEF Spec

\* The second close of a descriptor closes nothing that is in use.
THEOREM DescriptorsOwnedInvariant == Spec => []DescriptorsOwned
<1>1. IInv => DescriptorsOwned
  BY DEF IInv
<1> QED BY <1>1, IInvInvariant, PTL

\* No connection finds the session of another at its descriptor.
THEOREM SessionsOwnedInvariant == Spec => []SessionsOwned
<1>1. IInv => SessionsOwned
  BY DEF IInv
<1> QED BY <1>1, IInvInvariant, PTL

\* The hub is told of a session when its interactor is freed, and only then.
THEOREM HubToldInvariant == Spec => []HubTold
<1>1. IInv => HubTold
  BY DEF IInv
<1> QED BY <1>1, IInvInvariant, PTL

\* Nobody who was refused is told that he was not.
THEOREM OnlyGrantedToldInvariant == Spec => []OnlyGrantedTold
<1>1. IInv => OnlyGrantedTold
  BY DEF IInv
<1> QED BY <1>1, IInvInvariant, PTL

-----------------------------------------------------------------------------

\* The password file and the entries, which only signals and the operator change.

\* What a step may do to the configuration and to what is recorded of signals.
LEMMA ConfigurationSteps ==
    ASSUME [Next]_distributorVars
    PROVE  \/ CheckSignal \/ LoadPasswords \/ LoadAuthorizations \/ Hup \/ EditPasswords
           \/ /\ UNCHANGED <<passwords, entries, signal, asked, applied, read>>
              /\ phase \in {"passwords", "authorizations"} => phase' = phase
              /\ phase' \in {"passwords", "authorizations"} => phase' = phase
<1>1. CASE UNCHANGED distributorVars
  BY <1>1 DEF distributorVars, outside, histories
<1>2. CASE Poll \/ AcceptFails \/ EndEvents \/ EndRemoval
  BY <1>2 DEF Poll, AcceptFails, Ends, EndEvents, EndRemoval, outside, histories
<1>3. ASSUME NEW fd \in Fd, Accept(fd) \/ Write(fd) \/ BrokenPipe(fd) \/ Remove(fd)
      PROVE  UNCHANGED <<passwords, entries, signal, asked, applied, read, phase>>
  BY <1>3 DEF Accept, Write, BrokenPipe, Ends, Remove, outside, histories
<1>4. ASSUME NEW fd \in Fd, NEW n \in 0..MaxMessages, StartRead(fd, n)
      PROVE  UNCHANGED <<passwords, entries, signal, asked, applied, read, phase>>
  BY <1>4 DEF StartRead, outside, histories
<1>5. ASSUME NEW fd \in Fd,
             SpeaksFirst(fd) \/ HubMessage(fd) \/ HubFollowsFreed(fd) \/ UnknownType(fd)
      PROVE  UNCHANGED <<passwords, entries, signal, asked, applied, read, phase>>
  BY <1>5 DEF SpeaksFirst, HubMessage, HubFollowsFreed, UnknownType, Ends, outside, histories
<1>6. ASSUME NEW fd \in Fd, NEW request \in AuthenticationManager!Request,
             Authenticate(fd, request)
      PROVE  UNCHANGED <<passwords, entries, signal, asked, applied, read, phase>>
  BY <1>6 DEF Authenticate, outside
<1>7. ASSUME NEW c \in 1..MaxConnections, PeerCloses(c)
      PROVE  UNCHANGED <<passwords, entries, signal, asked, applied, read, phase>>
  BY <1>7 DEF PeerCloses, histories
<1> QED BY <1>1, <1>2, <1>3, <1>4, <1>5, <1>6, <1>7 DEF Next, EventLoop

\* A signal that comes while one is handled is handled too, and none is lost between
\* two reads of the file.
THEOREM HupHonouredInvariant == Spec => []HupHonoured
<1>1. Init => HupHonoured
  BY DEF Init, HupHonoured
<1>2. HupHonoured /\ [Next]_distributorVars => HupHonoured'
  <2> SUFFICES ASSUME HupHonoured, [Next]_distributorVars PROVE HupHonoured'
    OBVIOUS
  <2>1. CASE CheckSignal
    BY <2>1 DEF CheckSignal, HupHonoured, histories
  <2>2. CASE LoadPasswords
    BY <2>2 DEF LoadPasswords, AuthenticationManager!Load, HupHonoured
  <2>3. CASE LoadAuthorizations
    BY <2>3 DEF LoadAuthorizations, HupHonoured, histories
  <2>4. CASE Hup \/ EditPasswords
    BY <2>4 DEF Hup, EditPasswords, HupHonoured, histories
  <2> QED BY <2>1, <2>2, <2>3, <2>4, ConfigurationSteps DEF HupHonoured
<1> QED BY <1>1, <1>2, PTL DEF Spec

\* Only a file that cannot be read leaves the authorizations as they were.
THEOREM AuthorizationsFollowInvariant == Spec => []AuthorizationsFollow
<1>1. Init => AuthorizationsFollow
  BY DEF Init, AuthorizationsFollow
<1>2. AuthorizationsFollow /\ [Next]_distributorVars => AuthorizationsFollow'
  <2> SUFFICES ASSUME AuthorizationsFollow, [Next]_distributorVars PROVE AuthorizationsFollow'
    OBVIOUS
  <2>1. CASE CheckSignal
    BY <2>1 DEF CheckSignal, AuthorizationsFollow, histories
  <2>2. CASE LoadPasswords
    BY <2>2 DEF LoadPasswords, AuthenticationManager!Loads, AuthorizationsFollow
  <2>3. CASE LoadAuthorizations
    BY <2>3 DEF LoadAuthorizations, AuthorizationsFollow
  <2>4. CASE Hup \/ EditPasswords
    BY <2>4 DEF Hup, EditPasswords, AuthorizationsFollow, histories
  <2> QED BY <2>1, <2>2, <2>3, <2>4, ConfigurationSteps DEF AuthorizationsFollow
<1> QED BY <1>1, <1>2, PTL DEF Spec

\* The entries are those of a file that could be read.
LEMMA ConfigurationTyped == Spec => []AuthenticationManager!TypeOK
<1>1. Init => AuthenticationManager!TypeOK
  BY DEF Init, AuthenticationManager!Init, AuthenticationManager!TypeOK
<1>2. AuthenticationManager!TypeOK /\ [Next]_distributorVars => AuthenticationManager!TypeOK'
  <2> SUFFICES ASSUME AuthenticationManager!TypeOK, [Next]_distributorVars
               PROVE  AuthenticationManager!TypeOK'
    OBVIOUS
  <2>1. CASE CheckSignal \/ LoadAuthorizations \/ Hup
    BY <2>1 DEF CheckSignal, LoadAuthorizations, Hup, AuthenticationManager!TypeOK
  <2>2. CASE LoadPasswords
    BY <2>2 DEF LoadPasswords, AuthenticationManager!Load, AuthenticationManager!Loads,
                AuthenticationManager!TypeOK
  <2>3. CASE EditPasswords
    BY <2>3 DEF EditPasswords, AuthenticationManager!EditPasswords, AuthenticationManager!TypeOK
  <2> QED BY <2>1, <2>2, <2>3, ConfigurationSteps DEF AuthenticationManager!TypeOK
<1> QED BY <1>1, <1>2, PTL DEF Spec

\* What a turn of the loop handles is of descriptors that the tables know.
THEOREM DistributorTyped == Spec => []TypeOK
<1>1. IInv /\ AuthenticationManager!TypeOK => TypeOK
  BY DistributorAssumption
     DEF IInv, TablesTyped, EventsTyped, SessionsOwned, TypeOK, NotReading
<1> QED BY <1>1, IInvInvariant, ConfigurationTyped, PTL

=============================================================================
