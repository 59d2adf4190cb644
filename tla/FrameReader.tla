---------------------------- MODULE FrameReader ----------------------------
(***************************************************************************)
(* The receiving side of one connection: the bytes that arrive are read in *)
(* buffers (TcpSocketPollHandler::read), the buffers of one poll event are *)
(* handed over as a batch (Poller::handle_read, Distributor::on_read), and *)
(* each is cut into frames (FrameReader::write) that are deserialized and  *)
(* processed (Interactor::receive; the client program does the same).      *)
(*                                                                         *)
(* A byte is <<k, j>>: the j-th of the k-th frame sent. A frame starts     *)
(* with LenSize bytes that hold the size of its body. FrameBuffer is the   *)
(* sequence of bytes it holds; its fragments make no difference.           *)
(***************************************************************************)
EXTENDS Integers, Sequences

CONSTANTS
    LenSize,      \* the bytes of a length: 4 in the code
    BodySize,     \* the sizes of the messages clients send
    ReadSize,     \* read_bufsiz: 8096 in the code
    Garbled       \* what LenSize bytes that are not a length may be read as

VARIABLES
    sent,         \* the frames sent: the size of the body, and what becomes of it
    wire,         \* the bytes on their way
    bufs,         \* the buffers read and not yet received
    delivering,   \* is the batch being received, or still being read?
    fbuf, len,    \* FrameReader: the bytes it holds, and the length of a frame begun
    processed,    \* the frames deserialized
    running,      \* has the program not ended?
    lost,         \* history: were buffers of a batch dropped?
    crowded       \* history: did one buffer bring the ends of two frames?

readerState == <<fbuf, len>>
frameVars == <<bufs, delivering, fbuf, len, processed, running, lost, crowded>>

NoLen == -1

Bytes(k, first, last) == [n \in 1..(last - first + 1) |-> <<k, first + n - 1>>]
Header(k) == Bytes(k, 1, LenSize)
Body(k)   == Bytes(k, LenSize + 1, LenSize + sent[k].size)

\* operator std::vector<char>: the length before the bytes.
Serialized(k, size) == Bytes(k, 1, LenSize + size)

\* The values of a length read from these bytes. Those of a frame's header are
\* the size of its body; anything else is taken for a length as well.
LengthOf(bytes) ==
    IF \E k \in DOMAIN sent : bytes = Header(k)
    THEN {sent[k].size : k \in {n \in DOMAIN sent : bytes = Header(n)}}
    ELSE Garbled

\* What becomes of this frame: it is handled, or a handler throws, or it "ends" the
\* program. Of one put together from the parts of others nothing is known: it may have a
\* type that there is none of, for which make_shared throws what is not a std::exception,
\* and Poller::handle_read, which is noexcept, does not catch that.
Outcomes(frame) ==
    IF \E k \in DOMAIN sent : frame = Body(k)
    THEN {sent[k].outcome : k \in {n \in DOMAIN sent : frame = Body(n)}}
    ELSE {"handled", "throws", "ends"}

Init ==
    /\ bufs = <<>> /\ delivering = FALSE
    /\ fbuf = <<>> /\ len = NoLen
    /\ processed = <<>> /\ running = TRUE
    /\ lost = FALSE /\ crowded = FALSE

\* One turn of the loop of TcpSocketPollHandler::read: as much as has arrived, and
\* at most ReadSize bytes.
Read(n) ==
    /\ running /\ ~delivering
    /\ n \in 1..ReadSize /\ n <= Len(wire)
    /\ bufs' = Append(bufs, SubSeq(wire, 1, n))
    /\ wire' = SubSeq(wire, n + 1, Len(wire))
    /\ UNCHANGED <<sent, delivering, readerState, processed, running, lost, crowded>>

\* The loop ends when nothing more has arrived.
Blocked ==
    /\ running /\ ~delivering /\ bufs # <<>>
    /\ delivering' = TRUE
    /\ UNCHANGED <<sent, wire, bufs, readerState, processed, running, lost, crowded>>

(***************************************************************************)
(* Plausible faults of the code, used to test the properties.              *)
(***************************************************************************)

\* a frame is complete only when a byte of the next one has come
Complete_Strict(held) == held[2] # NoLen /\ Len(held[1]) > held[2]

\* a length is read although one is held
Unread_Again(data, l) ==
    IF Len(data) >= LenSize
    THEN {<<SubSeq(data, LenSize + 1, Len(data)), n>> : n \in LengthOf(SubSeq(data, 1, LenSize))}
    ELSE {<<data, l>>}

-----------------------------------------------------------------------------

\* The first half of FrameReader::write: a length is read unless one is held, or there
\* are not bytes enough. What is held then, the bytes and the length.
Unread(data, l) ==
    IF l = NoLen /\ Len(data) >= LenSize
    THEN {<<SubSeq(data, LenSize + 1, Len(data)), n>> : n \in LengthOf(SubSeq(data, 1, LenSize))}
    ELSE {<<data, l>>}

\* The condition of the second half: the body the length announced is there.
Complete(held) == held[2] # NoLen /\ Len(held[1]) >= held[2]

\* Interactor::receive for the buffers left: the rest of the batch is received next, or
\* is dropped if the handler of the frame throws (handle_read catches outside the loops).
Continue(outcome) ==
    /\ bufs' = IF outcome = "handled" THEN Tail(bufs) ELSE <<>>
    /\ delivering' = (bufs' # <<>>)
    /\ lost' = (lost \/ (outcome # "handled" /\ Tail(bufs) # <<>>))
    /\ running' = (outcome # "ends")

-----------------------------------------------------------------------------

\* The ends of frames that a buffer brings.
Ends(bytes) ==
    {k \in DOMAIN sent : \E n \in DOMAIN bytes : bytes[n] = <<k, LenSize + sent[k].size>>}

\* Interactor::receive for the next buffer of the batch. FrameReader::write looks for
\* one length and for one frame.
Receive ==
    /\ running /\ delivering
    /\ \E held \in Unread(fbuf \o Head(bufs), len) :
        IF Complete(held)
        THEN LET frame == SubSeq(held[1], 1, held[2])
             IN  /\ fbuf' = SubSeq(held[1], held[2] + 1, Len(held[1]))
                 /\ len' = NoLen
                 /\ processed' = Append(processed, frame)
                 /\ \E outcome \in Outcomes(frame) : Continue(outcome)
        ELSE /\ fbuf' = held[1]
             /\ len' = held[2]
             /\ Continue("handled")
             /\ UNCHANGED processed
    /\ crowded' = (crowded \/ \E j, k \in Ends(Head(bufs)) : j # k)
    /\ UNCHANGED <<sent, wire>>

=============================================================================
