------------------------------- MODULE Client -------------------------------
(***************************************************************************)
(* The command line client, clients/client: SquawkbusClient over a poller  *)
(* with two handlers, the standard input (io/file_poll_handler.hpp) and    *)
(* the socket. It authenticates when it starts, sends a request for each   *)
(* command it reads, prints what comes, and exits when either closes.      *)
(*                                                                         *)
(* A turn of the event loop takes the events that poll() returns, in the   *)
(* order of the descriptors, the input's first. Lines are typed at a       *)
(* terminal, which hands over one at a time, or come through a pipe. The   *)
(* input is read in buffers of 1024 bytes, and each buffer is taken for a  *)
(* command: a line that is longer, or that a buffer of a pipe's ends in,   *)
(* is cut, and what begins the next buffer is taken for another.           *)
(***************************************************************************)
EXTENDS Messages, BasicToken

CONSTANTS
    Command,      \* the lines that may come: [word, topic], with all their fields
    Fragment,     \* the commands that parts of lines may be taken for
    Spelling,     \* the characters of the users and passwords
    Option,       \* --authentication: [method |-> "none"], or "basic" with username and password
    MaxLines,     \* bound: the lines that come
    MaxParts      \* bound: the parts a line is cut into

VARIABLES
    authentication,        \* the option the client was started with
    piped,                 \* does the input come through a pipe?
    input, ended,          \* the lines that were not read, and whether there will be no more
    typed,                 \* history: the lines that came
    executed,              \* history: what was taken for commands
    cut,                   \* history: was a line cut?
    events,                \* the events of this turn not handled yet: "input", "read", "write"
    polling,               \* is the loop at poll()?
    input_open, is_open,   \* is_open_ of the input and of the socket
    write_queue,           \* the socket's: bodies not yet written
    written,               \* the bodies written to the socket
    incoming, taken,       \* the bodies on their way from the server, and those handled
    hung_up,               \* has the server's end of the connection closed?
    authenticated,         \* was "Authenticated" printed?
    running

inputVars  == <<authentication, piped, input, ended, typed, executed, cut>>
loopVars   == <<events, polling, input_open>>
socketVars == <<is_open, write_queue>>
clientVars == <<inputVars, loopVars, socketVars, written, taken, authenticated, running>>

\* The client throws on no message the server sends.
Incoming == INSTANCE FrameChannel WITH
    Payloads <- {}, sent <- incoming, delivered <- taken, broken <- FALSE

\* The names of the methods, and the content type and the data a client publishes, stand
\* for themselves.
None       == <<110>>
Basic      == <<98>>
TextPlain  == <<116>>
Content    == <<99, 99>>

\* Options::make_authentication_request
AuthenticationOf(option) ==
    IF option.method = "none"
    THEN AuthenticationRequest(None, <<>>)
    ELSE AuthenticationRequest(Basic, EncodeToken(Spelling[option.username], Spelling[option.password]))

\* handle_command: the request for a command, if it makes one.
RequestsOf(command) ==
    CASE command.word = "SUBSCRIBE"   -> <<SubscriptionRequest(command.topic, TRUE)>>
      [] command.word = "UNSUBSCRIBE" -> <<SubscriptionRequest(command.topic, FALSE)>>
      [] command.word = "LISTEN"      -> <<NotificationRequest(command.topic, TRUE)>>
      [] command.word = "UNLISTEN"    -> <<NotificationRequest(command.topic, FALSE)>>
      [] command.word = "PUBLISH"     ->
            <<MulticastData(command.topic, <<DataPacket(0, TextPlain, Content)>>)>>
      [] OTHER                        -> <<>>

Requests(command) ==
    [n \in DOMAIN RequestsOf(command) |-> Serialize(RequestsOf(command)[n])]

\* main and on_startup: the request to authenticate is queued before anything is read.
Init ==
    /\ authentication \in Option /\ piped \in BOOLEAN
    /\ input = <<>> /\ ended = FALSE /\ typed = <<>> /\ executed = <<>> /\ cut = FALSE
    /\ events = <<>> /\ polling = TRUE
    /\ input_open = TRUE /\ is_open = TRUE
    /\ write_queue = <<Serialize(AuthenticationOf(authentication))>>
    /\ written = <<>> /\ taken = <<>>
    /\ authenticated = FALSE /\ running = TRUE

(***************************************************************************)
(* Plausible faults of the code, used to test the properties.              *)
(***************************************************************************)

\* a request goes before those that wait
Enqueue_First(bodies) == write_queue' = bodies \o write_queue

\* what was read last is a command first
Executed_LastFirst(reading) == FlattenSeq(Reverse(reading))

\* the end of the connection is not noticed
ReadEnd_Ignored == UNCHANGED socketVars

-----------------------------------------------------------------------------

\* What the n-th of the lines is taken for. A line of a terminal's begins a buffer of its
\* own, and has others behind it when it is cut. In a pipe's, the first line begins a buffer,
\* unless an earlier read has had its beginning, and the others may begin one.
Readings(n, line) ==
    {<<line>>}
    \cup {parts \in BoundedSeq(Fragment, MaxParts) :
            Len(parts) >= IF ~piped THEN 2 ELSE IF n = 1 THEN 1 ELSE 0}

\* The commands of the buffers, in order: whatever stands behind the first of a buffer is
\* not looked at.
Executed(reading) == FlattenSeq(reading)

\* Is something else than a line as it came among them?
CutIn(reading) == \E n \in DOMAIN reading : reading[n] \notin {<<>>, <<input[n]>>}

Enqueue(bodies) == write_queue' = write_queue \o bodies

\* TcpStream::read at the end of the connection.
ReadEnd == is_open' = FALSE /\ UNCHANGED write_queue

\* A line is typed, or the input ends.
Type(command) ==
    /\ running /\ ~ended /\ Len(typed) < MaxLines
    /\ input' = Append(input, command)
    /\ typed' = Append(typed, command)
    /\ UNCHANGED <<authentication, piped, ended, executed, cut, loopVars, socketVars, written,
                   taken, authenticated, running>>

EndInput ==
    /\ running /\ ~ended
    /\ ended' = TRUE
    /\ UNCHANGED <<authentication, piped, input, typed, executed, cut, loopVars, socketVars,
                   written, taken, authenticated, running>>

\* poll() reports the end of a pipe with nothing left in it as POLLHUP alone, which
\* handle_event does not look at.
InputReady == input # <<>> \/ (ended /\ ~piped)

\* poll() reports the end of the connection, and the first body; a body behind it may be
\* kept back by the frame reader (Connection).
Poll ==
    /\ running /\ polling
    /\ polling' = FALSE
    /\ \E readable \in BOOLEAN :
        /\ readable => Incoming!Pending \/ hung_up
        /\ (hung_up \/ (Incoming!Pending /\ taken = <<>>)) => readable
        /\ events' = (IF InputReady THEN <<"input">> ELSE <<>>)
                        \o (IF readable THEN <<"read">> ELSE <<>>)
                        \o (IF write_queue # <<>> THEN <<"write">> ELSE <<>>)
    /\ UNCHANGED <<inputVars, input_open, socketVars, written, taken, authenticated, running>>

\* Is this the event to handle next?
Handling(event) == running /\ ~polling /\ events # <<>> /\ Head(events) = event
Handled == events' = Tail(events) /\ UNCHANGED polling

\* FilePollHandler::read takes all there is, up to the end if it has come; then
\* handle_command has the requests queued, or the socket closed.
HandleInput ==
    /\ Handling("input") /\ Handled
    /\ input' = <<>> /\ input_open' = ~ended
    /\ \E reading \in [DOMAIN input -> UNION {Readings(n, input[n]) : n \in DOMAIN input}] :
        LET commands == Executed(reading)
        IN  /\ \A n \in DOMAIN input : reading[n] \in Readings(n, input[n])
            /\ executed' = executed \o commands
            /\ cut' = (cut \/ CutIn(reading))
            /\ Enqueue(FlattenSeq([n \in DOMAIN commands |-> Requests(commands[n])]))
            /\ is_open' = (is_open /\ \A n \in DOMAIN commands : commands[n].word # "CLOSE")
    /\ UNCHANGED <<authentication, piped, ended, typed, written, taken, authenticated, running>>

\* handle_message: that the client is authenticated is told, and the others are printed.
\* The server sends no AuthenticationResponse that says it is not.
HandleMessage ==
    /\ Handling("read") /\ is_open
    /\ Incoming!Deliver
    /\ authenticated' = (authenticated
            \/ Deserialize(Incoming!NextFrame) = AuthenticationResponse(TRUE))
    /\ UNCHANGED <<inputVars, loopVars, socketVars, written, running>>

\* Nothing more has come. At the end of the connection what is left of it may be lost.
EndRead ==
    /\ Handling("read") /\ Handled
    /\ (is_open /\ Incoming!Pending) => taken # <<>> \/ hung_up
    /\ IF hung_up THEN ReadEnd ELSE UNCHANGED socketVars
    /\ UNCHANGED <<inputVars, input_open, written, taken, authenticated, running>>

\* The queue fits the socket (Connection writes it in pieces). A second write to a
\* connection that the server has closed raises SIGPIPE, which ends the client.
HandleWrite ==
    /\ Handling("write") /\ Handled
    /\ IF is_open
       THEN written' = written \o write_queue /\ write_queue' = <<>>
       ELSE UNCHANGED <<written, write_queue>>
    /\ running' \in {TRUE, ~(is_open /\ hung_up)}
    /\ UNCHANGED <<inputVars, input_open, is_open, taken, authenticated>>

\* remove_closed_handlers: on_close exits, whatever is queued.
EndTurn ==
    /\ running /\ ~polling /\ events = <<>>
    /\ running' = (input_open /\ is_open)
    /\ polling' = running'
    /\ UNCHANGED <<inputVars, events, input_open, socketVars, written, taken, authenticated>>

Turn == Poll \/ HandleInput \/ HandleMessage \/ EndRead \/ HandleWrite \/ EndTurn

ClientTypeOK ==
    /\ authentication \in Option /\ piped \in BOOLEAN /\ ended \in BOOLEAN
    /\ typed \in BoundedSeq(Command, MaxLines) /\ IsSuffix(input, typed)
    /\ executed \in Seq(Command \cup Fragment) /\ cut \in BOOLEAN
    /\ events \in BoundedSeq({"input", "read", "write"}, 3)
    /\ polling \in BOOLEAN /\ input_open \in BOOLEAN /\ is_open \in BOOLEAN
    /\ authenticated \in BOOLEAN /\ running \in BOOLEAN

=============================================================================
