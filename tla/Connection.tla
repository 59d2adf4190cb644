----------------------------- MODULE Connection -----------------------------
(***************************************************************************)
(* One direction of a connection, end to end: a program queues frames      *)
(* (Interactor::send, Poller::write), its poll handler writes them in      *)
(* pieces to a stream, plaintext or TLS (TcpSocketPollHandler, TcpStream), *)
(* the other end reads the pieces that arrive and cuts them into frames    *)
(* again (FrameReader). The socket of the one is the wire of the other.    *)
(***************************************************************************)
EXTENDS Integers, SequencesExt

CONSTANTS
    LenSize, BodySize, ReadSize, Garbled,
    WriteSize, Capacity,
    MaxFrames        \* bound: the frames sent

ASSUME ConnectionAssumption ==
    /\ LenSize \in Nat \ {0} /\ BodySize \subseteq Nat /\ Garbled \subseteq Nat
    /\ ReadSize \in Nat \ {0} /\ WriteSize \in Nat \ {0} /\ Capacity \in Nat \ {0}
    /\ MaxFrames \in Nat

VARIABLES
    sent,                                                     \* history: the frames sent
    write_queue, writing,                                     \* the sender's handler
    secure, state, should_write, is_open,                     \* its stream
    peer, shaken, notified,                                   \* the receiver's end of it
    socket,                                                   \* the bytes on their way
    bufs, delivering, fbuf, len, processed, running, lost, crowded     \* the receiver

senderVars ==
    <<write_queue, writing, secure, state, should_write, is_open, peer, shaken, notified>>
receiverVars   == <<bufs, delivering, fbuf, len, processed, running, lost, crowded>>
connectionVars == <<sent, senderVars, socket, receiverVars>>

\* A frame is enqueued as one buffer.
Sizes == [k \in DOMAIN sent |-> LenSize + sent[k].size]

Handler == INSTANCE TcpSocketPollHandler WITH enqueued <- Sizes
Reader  == INSTANCE FrameReader WITH wire <- socket

Init ==
    /\ sent = <<>>
    /\ Handler!HandlerInit
    /\ Reader!Init

\* Interactor::send: the frame is serialized and enqueued.
Send(size, outcome) ==
    /\ Len(sent) < MaxFrames
    /\ sent' = Append(sent, [size |-> size, outcome |-> outcome])
    /\ Handler!Enqueue(LenSize + size)
    /\ UNCHANGED receiverVars

\* The steps of the sender's handler, of which the receiver knows nothing.
Sending(step) == UNCHANGED <<sent, receiverVars>> /\ step

StartWrite   == Sending(Handler!StartWrite)
Write        == Sending(Handler!Write)
HandleRead   == Sending(Handler!HandleRead)

\* What the receiver's end of the connection does beside reading.
PeerSteps ==
    /\ Handler!PeerShakes \/ Handler!PeerNotifies \/ Handler!PeerLeaves
    /\ UNCHANGED <<sent, write_queue, writing, receiverVars>>

\* TLS reads a record at a time: what one write made, of the bytes of one frame.
RecordOf(byte) == <<byte[1], (byte[2] - 1) \div WriteSize>>
FirstRecord == {i \in DOMAIN socket : i <= ReadSize /\ RecordOf(socket[i]) = RecordOf(socket[1])}

\* The steps of the receiver, as long as the connection lasts. It may have shut its own
\* side down.
Arrive ==
    /\ peer # "reset"
    /\ \E n \in 1..ReadSize : Reader!Read(n) /\ (secure => 1..n = FirstRecord)
    /\ UNCHANGED senderVars

Blocked == Reader!Blocked /\ UNCHANGED senderVars
Receive == Reader!Receive /\ UNCHANGED senderVars

Next ==
    \/ \E size \in BodySize, outcome \in {"handled", "throws"} : Send(size, outcome)
    \/ StartWrite \/ Write \/ HandleRead \/ PeerSteps
    \/ Arrive \/ Blocked \/ Receive

\* The sender's poll() reports what its peer has sent until it is read: its part of the
\* handshake, its notice, the end of the stream or its breaking.
Readable == peer # "open" \/ notified \/ (state = "HANDSHAKE" /\ shaken # "awaited")

\* Both programs go on polling, as long as they run. The sender's poll() reports a
\* writable socket and what there is to read until they are dealt with; the receiver's
\* reports what has arrived; the loops of read, write and the batch end. Nothing makes
\* the peer do its part of the handshake.
Fairness ==
    /\ WF_connectionVars(StartWrite) /\ WF_connectionVars(Write)
    /\ WF_connectionVars(HandleRead /\ Readable)
    /\ WF_connectionVars(Arrive) /\ WF_connectionVars(Blocked) /\ WF_connectionVars(Receive)

Spec == Init /\ [][Next]_connectionVars /\ Fairness

-----------------------------------------------------------------------------

TypeOK ==
    /\ secure \in BOOLEAN /\ is_open \in BOOLEAN /\ should_write \in BOOLEAN
    /\ state \in IF secure THEN {"HANDSHAKE", "DATA", "SHUTDOWN", "STOP"} ELSE {"START"}
    /\ writing \in {"no", "loop", "flush"}
    /\ peer \in {"open", "closed", "reset"} /\ shaken \in {"awaited", "done", "bad"}
    /\ notified \in BOOLEAN
    /\ \A n \in DOMAIN write_queue : write_queue[n].offset \in 0..(Sizes[write_queue[n].buffer] - 1)
    /\ Len(socket) <= Capacity
    /\ delivering \in BOOLEAN /\ len \in {Reader!NoLen} \cup BodySize \cup Garbled
    /\ running \in BOOLEAN /\ lost \in BOOLEAN /\ crowded \in BOOLEAN

\* The frames sent, from the first on.
Frames(first) ==
    LET serialized == [k \in DOMAIN sent |-> Reader!Serialized(k, sent[k].size)]
    IN  SubSeq(serialized, first, Len(sent))

Unwritten ==
    FlattenSeq([n \in DOMAIN write_queue |->
        Handler!Bytes(write_queue[n].buffer, write_queue[n].offset + 1, Sizes[write_queue[n].buffer])])

\* The length of the frame begun was cut off its bytes.
Begun == IF len = Reader!NoLen THEN <<>> ELSE Reader!Header(Len(processed) + 1)

\* No byte is lost, repeated or moved on its way from one program to the other: over
\* every way the pieces written are cut, and those read are cut again, what was processed
\* is the first of the frames that were sent, and what the frame reader holds, the
\* buffers of the batch, the socket and the queue with its offsets make up the rest. It
\* ends where an exception drops the buffers behind it; before that no frame ends the
\* receiving program.
StreamConserved ==
    ~lost =>
        /\ running
        /\ \A k \in DOMAIN processed : k <= Len(sent) /\ processed[k] = Reader!Body(k)
        /\ Begun \o fbuf \o FlattenSeq(bufs) \o socket \o Unwritten
                = FlattenSeq(Frames(Len(processed) + 1))

\* Nothing of a frame is on its way any more.
Quiet == socket = <<>> /\ bufs = <<>> /\ write_queue = <<>>

\* When no buffer brings the ends of two frames, as none does that TLS has read, and no
\* exception drops any, everything sent has been processed when nothing is on its way:
\* no frame is left in the frame reader for want of a byte that does not come.
PacedFramesProcessed ==
    (Quiet /\ ~lost /\ (secure \/ ~crowded)) => Len(processed) = Len(sent)

\* A frame that is queued gets to the other program and is processed, once there is no
\* handshake to wait for, unless it comes to one of the ends the two programs have for
\* it: the connection ends, or the receiver is fed faster than it takes frames from its
\* buffers, which TLS keeps it from.
Delivered ==
    \A k \in 1..MaxFrames :
        (k <= Len(sent) /\ (secure => shaken = "done"))
            ~> \/ k <= Len(processed) \/ lost \/ (crowded /\ ~secure)
               \/ ~is_open \/ peer # "open" \/ notified

\* The end of a connection is noticed whatever it cuts short, a handshake, a write or a
\* shutdown: the socket is closed, and the poller will forget the session. An end of TLS
\* alone is noticed too, unless there was no room for the answer, and nothing to send
\* that would have it tried again (the comment on tcp_socket_poll_handler.hpp:157
\* counts on the BIO's flags, which SSL_shutdown does not set).
EndNoticed ==
    /\ (peer # "open") ~> ~is_open
    /\ notified ~> (~is_open \/ (state = "SHUTDOWN" /\ write_queue = <<>>))

\* What a connection promises to the programs that use it.
Channel == INSTANCE FrameChannel WITH
    Payloads <- {Reader!Bytes(k, LenSize + 1, LenSize + size) : k \in 1..MaxFrames, size \in BodySize},
    sent <- [k \in DOMAIN sent |-> Reader!Body(k)], delivered <- processed, broken <- lost

\* Over all the steps of the two programs, frames are handed over one at a time, each
\* once, in the order in which they were sent, until an exception breaks the channel.
ImplementsChannel == Channel!Spec

\* README.md:33, "When data is published to that topic, the parts for which the client is
\* entitled to receive will be forwarded": a frame that has arrived whole is processed
\* before the receiver waits for more.
FramesProcessed ==
    (Quiet /\ ~lost) => Len(processed) = Len(sent)

\* tcp_stream.hpp:259, "The socket is ok, but nothing has been written due to blocking":
\* a socket is closed only when its peer has closed or broken the connection, or failed
\* in the handshake.
SlowPeerKept == is_open \/ peer # "open" \/ notified \/ shaken = "bad"

=============================================================================
