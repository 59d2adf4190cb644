# A verification project for SquawkBus

SquawkBus (`src/`) is a message bus: a single-threaded server to which clients
connect over TCP or TLS, subscribe to topics, publish data packets that carry
entitlements, and ask to be told who subscribes to what. This directory holds
TLA+ models of the server, its I/O library, its protocol and its command line
client, TLC configurations that check them, and TLAPS proofs. Paths below are relative to `src/src/` of the
repository's sources; `README.md:n` in a module is the repository's README.

## 1. The system

```
 clients/client: its own io/poller (standard input, socket)
    |  messages/* in frames, serialization/frame_reader
    |  io/tcp_stream, plaintext or TLS
    v
                    io/poller (event loop: listener, sockets, SIGHUP)
                      | on_open, on_read, on_close, on_interrupt
                    server/distributor   (one Interactor per descriptor)
                      |                        \ authenticate
                    server/interactor            authentication_manager (password file)
                      | on_message, on_disconnected
                    server/hub
                      |-- subscription_manager --notify--> notification_manager
                      |-- publisher_manager --entitlements--> authorization_manager
                      '-- interactors_ (identifier -> Interactor)
```

| component | state | operations | what makes it correct |
|---|---|---|---|
| subscription manager | `subscriptions_` (topic, subscriber, count), `subscriber_topics_` (reverse index) | subscribe, unsubscribe, close of a session, two finders | indexes agree enough for a close to find everything; a wanted subscription stays; a topic that is wanted is known to who follows the notices, and the final un-subscription is notified (it is not always: section 5) |
| notification manager | `notifications_`, `regex_cache_`, `listener_topic_patterns_` | listen, unlisten, close, notify | only live listeners that asked are told; they know of every topic that is wanted |
| publisher manager | `topic_publishers_`, `publisher_topics_` | multicast, unicast, close | both entitlements respected; everybody entitled served; the last publisher's going is told |
| authorizations | specifications, cache, the file | query, load | a cached answer is never stale |
| hub | `interactors_`, the three managers | message, disconnection, startup | no freed session is followed |
| authentication | password entries, the file | authenticate, load; the token and its base64 | who is authenticated is who the token was made for |
| event loop, distributor, sessions | descriptors, handlers, interactors, `last_signal` | accept, read, write, removal, interrupt | descriptors and sessions are never mixed up; a signal is not lost; who goes is forgotten |
| socket handler, stream, TLS | `write_queue_`, `state_`, the BIO's flags, `is_open_` | enqueue, write, read, handshake, shutdown | bytes arrive once and in order, whatever blocks; an end is noticed |
| framing, messages | read buffers, frame buffer and length | receive, serialize, deserialize | frames are delivered, once and in order, and read back as they were written |
| command line client | input, queue, the loop's events | start, command, message, either end | what it takes for commands, and the messages, get to the other side in order; every client gets an answer or ends |

The components of a program interact by synchronous calls on one thread. What is hard is
therefore not data races but **protocol sequences**: handlers of different
sessions interleave over shared maps keyed by raw pointers and descriptors
that are freed and reused; a handler that throws half-way; a session that is
closed while it is still being served; signals between any two steps; and the
fragments in which TCP carries frames. `PROJECT.json` lists each such hazard at
its line.

## 2. The modules

| module | models | notes |
|---|---|---|
| `SubscriptionManager` | `server/subscription_manager.cpp` | maps are total functions, absence is 0 or {} |
| `SubscriptionLedger` | the above beside what its clients want and believe | histories |
| `SubscriptionProofs` | | proofs about both |
| `NotificationManager` | `server/notification_manager.cpp` | a pattern is a name with the topics it matches; malformed ones throw |
| `ListenerRegistry` | abstract: a pattern has one owner | |
| `NotificationRefinement` | the manager implements the registry | refinement mapping |
| `NotificationProofs`, `RegistryProofs` | | proofs: the manager's invariant; the refinement |
| `AuthorizationRepository` | `authorization_*.cpp` | file, specifications, cache |
| `PublisherManager` | `server/publisher_manager.cpp` | owns `AuthorizationRepository` by INSTANCE |
| `Hub` | `server/hub.cpp` | composes the three managers; `up` becomes FALSE when a freed session is followed |
| `HubLedger` | the hub beside what its clients wanted, listened to and were sent | end-to-end properties |
| `HubProofs` | | proofs about both, with the lemmas of `NotificationProofs` |
| `AuthenticationManager` | `authentication_*.cpp` | the outcome of each method |
| `Distributor` | `io/poller.hpp`, `server/distributor.cpp`, `server/interactor.cpp` | one step of the event loop per action |
| `DistributorProofs` | | proofs about it |
| `TcpStream` | `io/tcp_stream.hpp`, `io/bio.hpp`, `io/ssl.hpp` | plaintext, handshake, data, shutdown, and the peer |
| `TcpSocketPollHandler` | `io/tcp_socket_poll_handler.hpp` | the queue and the loop of `write()`, over `TcpStream` |
| `FrameReader` | reads, batches, `frame_reader.hpp`, `Interactor::receive` | |
| `FrameChannel` | abstract: frames are delivered one at a time, each once, in order | |
| `Connection` | composes the handler and the frame reader: the socket of the one is the wire of the other; implements `FrameChannel` | |
| `ConnectionProofs` | | proofs about it |
| `Messages` | `messages/_*.hpp`, `serialization/frame_buffer_io.hpp` | every class, the fields it writes and those it reads |
| `BasicToken` | `serialization/b64.hpp`, `basic_token.hpp` | with an `int` that overflows |
| `Client` | `clients/client/*`, `io/file_poll_handler.hpp` | the client's own event loop; lines are read whole or cut by the buffers |
| `Session` | composes the client with the server's `Interactor`; what the client reads is a `FrameChannel`, what the server reads may have gaps | a session end to end |
| `SessionProofs` | | proofs about it, `Messages` and `BasicToken` |
| `FoldProofs` | | lemmas about folds and concatenations, for `ConnectionProofs` and `SessionProofs` |

`MC*` modules give constants their values. A definition named
`Operation_Fault` is a faulty variant of `Operation`, never part of a
specification; it is used to test that the properties can fail.

How state and actions correspond. In the manager modules and in `Hub` one
action is one handler call from beginning to end, since the server is single
threaded; the messages a call sends are in output variables (`notices`, `sent`,
`delivered`) that hold those of the last step. An `Interactor` there is an
ADDRESS; sessions come and go at an address, as `malloc` reuses memory. In
`Distributor` and `Client` the grain is finer, a step of the loop, because
connections, signals, lines and edits of files come between two steps. In
`Connection` a step is a system call, and a byte is the pair of its frame's
number and its place in it, so a mixed up stream is visible. `Session` has no
bytes: `Connection` is shown to implement `FrameChannel`, and the client of
`Session` reads from a channel of it, so that the layers meet in an abstract
specification instead of one state space. It carries whole message bodies, field
by field, as `Messages` writes and reads them. In the other direction a channel is
not enough, since the channel promises nothing after an exception and the server
goes on: an exception of a handler's drops the buffers of the batch behind it
(`Throws`), and the server reads on. When the dropped buffers end where a body ends,
the bodies in them are a gap, and later ones are handled (`ServerReads`, `dropped`);
when they do not, the reader has lost where bodies begin (`garbled`), and what it makes of
the bytes is left open: nothing, a message to the hub, an authentication, or a message of an
unknown type, which ends the server (`ServerMisreads`).

In `Client`, `HandleInput` takes each line as it came, or as parts (`Readings`) that are
commands of their own: the input is read in buffers of 1024 bytes, and a buffer's first line
is its command. What was taken for commands is the history `executed`, and `cut` says
whether something other than the lines that came is among it. The parts are any commands
of `Fragment`; the lines that come have all their fields (a `PUBLISH` that lacks some would take
them from the next line of its buffer).

In `Distributor` and in `Session` whatever ends the server's process is an action of its
own: a failing `accept()`, a first message that is no authentication, a
message of an unknown type, a freed session that the hub's managers still point to, and
SIGPIPE. `Distributor.hub` is every connection the hub got a message of and may point
to, for good: `on_disconnected` does not make the managers forget in every case.

Outcomes of undefined behaviour, and of what is external: after a dangling pointer is followed the model
makes no further claim (`up = FALSE`); a length read from bytes that are not one
is any of `Garbled`. OpenSSL's answers are left open where the code asks it:
the peer's part of a handshake comes or not, well or badly, and a write of no
bytes has either of the outcomes its versions give.

## 3. The runs

| run | cfg | instance | shows |
|---|---|---|---|
| `subscriptions` | `MCSubscription` | 3 sessions, 2 topics, counts to 2, symmetry | indexes sound, wanted subscriptions kept, and known to who follows the notices |
| `listeners` | `MCNotification` | 3 sessions, 2 patterns and a malformed one | a compiled pattern has an owner whose close removes it; refinement of the registry |
| `hub_sessions` | `MCHubSessions` | 3 sessions, 2 overlapping patterns, counts to 2; 2 users, a file of 2 contents or broken | listeners live, asked, and told of every topic that is wanted; publishers live, delivery complete and what the file permits, no stale cache, stale feeds told |
| `connections` | `MCDistributor` | 2 connections, 2 descriptors, batches of 2 | tables never mixed up, the hub told of the gone when they are freed, signals honoured with passwords and authorizations |
| `stream` | `MCConnection` | 2 frames, pieces of 3, socket of 4, reads of 4; plaintext and TLS | bytes conserved end to end, frames delivered, ends noticed; refinement of the channel |
| `session` | `MCSession` | 4 kinds of client, 2 lines, typed or piped, whole or in up to 2 parts, one message of the hub's | who is told to be authenticated is; commands and messages conveyed in order; what ends the server; every client gets an answer or ends; messages and tokens read back |
| `unannounced` | `MCSubscriptionUnannounced` | as `subscriptions` | violation, see 5 |
| `second_listener` | `MCHubUnheard` | 3 sessions, 2 patterns | violation, see 5 |
| `dangling_subscriber` | `MCHubDangling` | 3 sessions, counts to 2 | violation |
| `unicast` | `MCHubUnicast` | 3 sessions | violation |
| `withheld_frame` | `MCConnectionWithheld` | socket and reads of 6 | violation |
| `slow_peer` | `MCConnectionSlowPeer` | as `stream` | violation |

**Bounds.** `MaxCount` bounds a subscription count (an `int` in the code): two is
enough for "again" and for "not yet the last". Three sessions are needed where
one must survive what a second does to a third (`remove_subscription` erases
whole topics). `hub_sessions` has behaviours of three kinds, chosen at the start:
sessions listen and subscribe once each; or publish and subscribe repeatedly, under the
default authorization; or two of them, of different users, publish and subscribe while
the authorizations file is edited and reloaded. So neither the counts multiply with the
patterns, nor the publications with the views, nor the files with either; what they
have in common, the tables of subscriptions and the closes, is in all. That nothing depends on the bounds, or on the split, is what the
proofs show: every safety property of the runs of the hub and its managers is
proved for all of them.
`MaxConnections` is 2 over 2 descriptors: the second
connection takes either the free descriptor or the one the first has left.
`MaxMessages` 2 is a message, and one that follows it in its batch.
`MaxFrames` 2 with pieces shorter than both and longer than a header gives
every split of a length, a body and two frames.
`Capacity` is less than two frames, so that writes block. In `session` two
lines are a command behind another, of three kinds: one the hub takes, one for which its
handler throws, and `CLOSE`. A part is the kind that throws, so that with two lines of two
parts a batch has up to four bodies behind the first, and an exception drops some and
leaves others. The one message of the hub's comes before or after any of them. `IntRange` is 2^22 (2^32 in the code), of which the loops of base64 look at twelve bits
at most, so that their accumulators overflow within the tokens of the run, as
an `int` of 32 bits does within longer ones. `Sample` and `Text` are what the run
converts; the proofs are for any.
Symmetry is used in safety-only runs over sessions and patterns, which nothing
tells apart.

**Fairness.** The hub and manager runs have safety properties only and assume
none. In `Distributor` the loop as a whole is weakly fair: `poll()` waits for a
second at most and each phase is bounded, so the loop goes on; nothing is assumed
of clients, operators or signals. That a socket whose peer has closed is reported
by each `poll()` is the kernel's doing and part of `Poll`. In `Connection`,
`poll()` is level triggered, so a writable socket with a queue, and data that
has arrived, are served again and again until dealt with: weak fairness of each
of these steps. What the sender has to read (the peer's part of the handshake, its
notice, the end) is reported until it is read: weak fairness of `HandleRead`
while there is some. Nothing makes `Send`, `PeerShakes`, `PeerNotifies` or
`PeerLeaves` happen. In `Session` both programs go on polling; the first body of
each direction is always reported (of the server's reads, fairness is assumed of the first
only), a later one may be kept back by the frame
reader, which is what `withheld_frame` is about; the bodies of a batch are
handled whatever the handlers do; nothing is assumed of what is read once the reader has
lost its place, nor of SIGPIPE; and nothing makes a line come.

`CHECK_DEADLOCK FALSE` is set where the system may stop: the hub after a freed
session was followed, a server that has ended, and connections whose programs
have sent all they will.

## 4. The proofs

Checked by `tlapm`, for any sessions, topics, patterns, matches and bounds:

* `SubscriptionProofs`: `TypeCorrect`, `ReverseIndexIsSound`,
  `WantedSubscriptionsKept`, `WantedTopicsBelieved`. The first two follow from
  `ManagerInv`, types with soundness of the reverse index. `LedgerInv` adds the
  histories, and that what is believed are the topics with a row: `WantedIsBelieved` follows, as
  what is wanted has a row. That is not inductive without the reverse index, as a
  close announces what it finds there. The heart of `WantedSubscriptionsKept`
  is that the erasure of a topic happens only when the (copied) row has run
  empty, so nobody else can lose a subscription to it. Assumption:
  `MaxCountAssumption`.
* `NotificationProofs`: `CompiledPatternsOwned`. `IInv` adds to the types that the
  reverse index of the one listener of a compiled pattern has the pattern: else
  its close would miss the row. Assumption: `PatternAssumption`.
* `RegistryProofs`: `ManagerImplementsRegistry`. Under `IInv` each operation is a
  claim, a release by the owner, a close or a stutter of the registry.
  Assumption: `NoOwnerAssumption`.
* `HubProofs`, about the hub, with all three managers and addresses that are
  reused. Three invariants, each inductive by itself:
  * `PublishersInv`: `PublishersAlwaysLive`. The indexes of the publisher manager
    must agree, or its early return on an empty reverse index would leave rows.
  * `ListenersInv`: `ListenersAlwaysLive`. It is `IInv` of the notification manager,
    whose lemmas are used through `INSTANCE`, with the liveness of the listeners of
    compiled patterns. Rows of malformed patterns may keep a session that has
    gone, and `find_listeners` never looks at them: the invariant is about
    compiled patterns because nothing more is true.
  * `DeliveryInv`: `CacheAlwaysCoherent` and `DeliveryAlwaysAuthorized`. A delivery is
    computed from the cache, so that it is authorized only if every cached answer
    is the first match of the specifications in force.

  `LedgerImplementsHub` (the ledger only adds histories) carries the last two to the
  specification that the runs check. Assumption: `HubAssumption`, of which
  `PatternAssumption` of the instance follows.
  The second half is what the hub's clients can tell from its messages:
  `OnlyListenersAreNotified`, `WantedAlwaysInView`, `DeliveryAlwaysComplete`,
  `FeedsAlwaysLive`, `HubTypeCorrect`. `LedgerInv` joins six parts.
  `SubscriptionsInv`: what is wanted is subscribed. `ListeningInv`: the one listener
  of a compiled pattern asked for it. `ViewInv`: its view is of the matching topics that
  have a row, which those that are wanted have. `FeedsInv`: a topic that fed somebody has a publisher, until he is
  told. The heart is the lemma `NoticesTell`: the notices of any step tell exactly which
  rows appear or vanish, so a view that followed them and agreed with the rows still
  does. It needs what a close announces to be found in the reverse index, and that
  malformed patterns match nothing (part of `HubAssumption`).
* `DistributorProofs`, about the event loop, for any number of descriptors,
  connections and messages. `IInv` joins the four properties of the tables with
  what makes them inductive: `TablesTyped` and `EventsTyped` (what a turn still has
  to handle has a handler), `AnswersGranted` (a success queued on an open handler was
  granted: one queued for a refused client is on a closed one), and
  `NothingClosedYet`: the listener is handled first and removals come last, so that
  nothing is accepted between a `close` and the removal of its handler. That order
  is what keeps the second `close` of `~File` from hitting another connection's
  descriptor. `HubToldInvariant` also needs `ConnectionsNumbered`: a connection has one
  interactor, so that what the hub is told of one is of no other. `HupHonouredInvariant` and `AuthorizationsFollowInvariant` have invariants of
  their own. Assumption: `DistributorAssumption`.
* `ConnectionProofs`, for any sizes of frames, pieces, reads and sockets, plaintext
  or TLS. A byte knows its frame and its place there, so that "b is d places behind
  a" (`After`) can be said of two bytes, and "s is a stretch of the stream up to b"
  (`Upto`) of a sequence, without adding up the sizes of frames, which would
  need induction. `StreamInv` says that the frame reader's bytes, each buffer of
  the batch, the socket and the queue are stretches, each behind the other;
  `UptoConcat` and `UptoParts` are all that cutting and joining them needs.
  `PacedInv` says that over TLS each buffer is of one frame, and that a frame
  reader that was never given two ends at once is left without the end of a frame;
  in a quiet connection what it holds would have to end with one, so it holds nothing.
  * `StreamInOrder`: `StreamInv` and `PacedInv`, of which the others follow.
  * `StreamAlwaysConserved`: `StreamConserved`, its equation of concatenations included.
    Concatenated stretches are a stretch, and a stretch that begins a frame and goes
    to the end of the queue is the frames from that one on (`StretchOfFrames`).
  * `ChannelImplemented`: `Connection` implements `FrameChannel`.
  * `PacedFramesAlwaysProcessed`, `ConnectionTyped`.

  Assumption: `ConnectionAssumption` (a header has a byte at least).
* `FoldProofs`: what holds of `FoldLeft` and `FlattenSeq` of any sequences, by induction.
  The library's induction theorems take an operator, which the provers cannot
  instantiate; `Induction` says the same of a set of numbers, and follows from the
  smallest number that would be missing (`WFMin`). `FoldMore`: a fold of a longer
  sequence is one step more. `FlattenConcat`, `FlattenFirst`: how concatenations are cut.
  `ReadBack`: a fold that takes each element off the front of the concatenation of what was
  put there gets them all, and what is behind.
* `SessionProofs`, about messages, tokens and sessions, for any strings, packets,
  spellings, password files, lines and messages of the hub's, both for a terminal and a pipe:
  * `MessagesAlwaysReadBack`: each field is taken off the front of the body where it was put,
    and the fields that were read are those of the class.
  * `TokensAlwaysExact`: each loop of base64 has an invariant, that its
    accumulator's last bits are the octets (or groups) last seen, and that its output are
    the groups (octets) before; bits of a place below twelve do not change when the
    accumulator overflows, as 2^12 divides `IntRange`. The first colon of a token is the
    one between the name and the password, since a name has none.
  * `SessionInvariant`, and of it `TypeAlwaysOK`, `AgreementAlways`, `ServerAlwaysSurvives`,
    `CommandsAlwaysConveyed` and `MessagesAlwaysHeard`. `SessionInv` joins what is under way in
    both directions. `Asks`: what was written and what is queued are the request to
    authenticate and then the requests of what was taken for commands. `Reads`: unless one
    was cut, those are the lines read (at a terminal all of them, from a pipe a
    subsequence). `Places`: the bodies handled are at ascending places, all before those left,
    the first at the first, and with none dropped they are the beginning of what was written.
    `Hears`: while the server knows where bodies begin, the hub got what was handled behind
    the first. `Judges`: the verdict is what the password file says of
    the option, which needs the token to be read back. `Answers`: the bodies under way are
    those of the messages told, the client has taken a beginning of them, and the first is the
    success. None of the properties is inductive without these: they speak of the two ends,
    and a step at one end depends on what is between. `ServerAlwaysSurvives` is of steps: the
    first body is the request to authenticate (`Asks`, `Places`), so that one that finds no
    user and is none comes behind a failed authentication.

  Assumptions: `IntAssumption`, and `SessionAssumption`: strings are octets, none spelt like
  another, a user name has no colon, the words for outcomes are no names, and what is
  given for messages are messages. That a name has no colon is what the token needs:
  with one, the server would split it there.

The type invariant of every module with proofs is a theorem too (`TypeCorrect`,
`LedgerTypeCorrect`, `ManagerTyped`, `HubTypeCorrect`, `DistributorTyped`,
`ConnectionTyped`, `TypeAlwaysOK`). Every invariant, refinement and action property of a passing run is stated by a
theorem.

Only model-checked: liveness, which is out of the prover's reach as it needs ENABLED
(`HupHandled`, `GoneForgotten`, `Delivered`, `EndNoticed`, `Settled`).

## 5. Where the code and its documents disagree

Shown by runs:

* `second_listener`: `add_listener` adds later listeners to a copy of the row
  (`auto listeners`), so only the first listener of a pattern is ever notified.
* `unannounced`: `remove_subscription` decrements and erases in a copy of the topic's row.
  Of two sessions that unsubscribe one after the other each finds the other in its copy,
  neither empties it, and nobody is notified of the final un-subscription, which
  `subscription_manager.cpp:127` and `:129` speak of. Listeners go on believing in
  subscribers. What does hold, and is proved, is the other half: no topic that is
  wanted is missed (`WantedIsBelieved`, `WantedInView`).
* `dangling_subscriber`: the same copy.
  A session that unsubscribes beside another subscriber stays registered, its
  reverse index forgets the topic, and its close cannot find it: `subscriptions_`
  keeps a pointer to a freed `Interactor`. In `Distributor` that is `HubFollowsFreed`, and its
  properties are about what the hub is told (`HubTold`) and about interactors
  (`GoneForgotten`), not about what the hub's managers still hold.
* `unicast`: nothing calls `Hub::on_connected`, `interactors_` is empty, and
  unicast data reaches nobody.
* `withheld_frame`: one frame is taken per buffer; the second of two that arrive
  together waits for more bytes.
* `slow_peer`: after a blocked write an empty one follows, which reads as a
  closed socket; a slow reader is disconnected.

Noted while modelling, without a run: an `--authorization` argument is read as
topic:user although `options.cpp:27` says user:topic; the first message of a
session that is no authentication request dereferences a null pointer
(`SpeaksFirst`); a failing `accept()` ends the server (`AcceptFails`), and so does a write
to a connection its peer has just broken, by SIGPIPE (`BrokenPipe`), whoever the client is;
so does a message of an unknown type, for which `make_shared` throws a `char*` that the
`noexcept` `handle_read` does not catch (`UnknownType`); an
exception drops the rest of a batch (`Abandon`, `lost`, `Throws`) and the server reads on:
of a user who sends LISTEN `[` and SUBSCRIBE a in one batch and later PUBLISH b, the hub gets
the first and the last (`CommandsConveyed` has the hub's commands in order, and without a
gap only while nothing was dropped), and where the framing is lost too, what is
read is anything, a message of an unknown type among it (`garbled`, which
`Agreement`, `ServerSurvives` and `CommandsConveyed` except); a client whose
authentication is refused is closed without the answer it is written to wait
for; a password file that is bad keeps the authorizations from being reloaded;
a client takes only the first line of
a buffer of its standard input, so that of lines piped to it together all but
the first are dropped, and a line of more than 1024 bytes, or one in which a buffer of a
pipe's ends, is cut, and its rest taken for another command (`Readings`); it exits when a handler has closed, with
what is queued for the socket (`EndTurn`); at the end of a pipe `poll()` reports
`POLLHUP` alone, which `handle_event` does not look at, so that the client spins
(`InputReady`); an `SSL_shutdown` that has no room for its notice is not tried
again unless something is queued (`EndNoticed` excepts it); an authentication
that throws is not answered, and the client waits (`Settled` excepts it);
the "logic error" of `subscription_manager.cpp:166` (a topic in the reverse
index without its row) cannot happen, as `ReverseIndexSound` shows, but the
"program logic error" of line 136 (a last unsubscription without a reverse
index entry) can: unsubscribe beside another subscriber, wait for it to go,
unsubscribe again. The "should never happen" of `notification_manager.cpp:177` (a pattern
in the reverse index without its row) can too: a second session listens to a pattern, of
which its reverse index alone learns; the first gives it up, and the row goes; the second
closes. `CompiledPatternOwned` is therefore about the owner's reverse index, and no
property has every pattern of a reverse index in a row.

## 6. Not modelled

* OpenSSL: what `SSL_do_handshake`, `SSL_read`, `SSL_write` and `SSL_shutdown` do inside.
  Their outcomes are actions of the peer and choices. A record is read and written
  whole or not at all; `SSL_MODE_ENABLE_PARTIAL_WRITE` is not set by the code. The
  `SslContext` is made once from the options and keeps no state.
* `TcpStream::do_shutdown` and `TcpStream::verify` have no caller.
* The parsing of options, endpoints, files and regular expressions; the formatting of
  identifiers, logging, `utils/`. Regular expressions are names with what they
  match, apr1 hashes are equality of passwords, YAML is a list of specifications
  or an unreadable file, a line of the client's is a word with a topic, and what its
  parts are taken for is any command of a given set.
* A body that ends before its fields do: the code reads beyond its end.
* Clients send a bounded number of frames, so the read loop that a fast client keeps
  from ending is out of reach.
* The code under `externals/` (nlohmann/json, catch2, popl), which is vendored and is
  44 thousand of the repository's 51 thousand lines: the share of all lines that
  the models stand for is small although the program's own code is covered.

## 7. Plan

Done, in order: subscription manager, notification manager and its abstract
registry; authorizations, publisher manager, hub and ledger; event loop; stream,
handler, framing and connection; the TLS states; the abstract channel; messages and tokens; the
client and the session. Proofs of every invariant and refinement that a run checks,
the conversions of messages and tokens included.

Left:

1. an abstract topic bus that the hub implements, up to the subscribers that
   dangle, checked and proved step by step;
2. an abstract channel with gaps, for what a reader promises after an exception, which
   the server's direction of `Session` and `Connection` after `lost` would implement;
3. the batch of `Session` and the reads of `Distributor` as one composition, so that
   what a refused client's batch does is seen with the tables of descriptors;
4. a client whose handlers throw on what it is sent, once the server's messages can
   be malformed.
