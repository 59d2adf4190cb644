----------------------- MODULE TcpSocketPollHandler -----------------------
(***************************************************************************)
(* The sending side of one connection: the queue of buffers of             *)
(* io/tcp_socket_poll_handler.hpp, written through a stream (TcpStream)    *)
(* when the poller (io/poller.hpp) finds the socket writable.              *)
(*                                                                         *)
(* A byte is <<k, j>>, the j-th of the k-th buffer enqueued. The loop of   *)
(* write() runs in steps, between which the peer may read or leave.        *)
(***************************************************************************)
EXTENDS TcpStream

CONSTANT WriteSize    \* write_bufsiz: 8096 in the code

VARIABLES
    enqueued,       \* history: the sizes of all the buffers given to enqueue
    write_queue,    \* write_queue_: buffers with the offset of what is not yet written
    writing         \* where write() is: "no", "loop", or "flush" after its loop

queueVars == <<enqueued, write_queue, writing>>

Bytes(k, first, last) == [n \in 1..(last - first + 1) |-> <<k, first + n - 1>>]

HandlerInit ==
    /\ Init
    /\ enqueued = <<>> /\ write_queue = <<>> /\ writing = "no"

(***************************************************************************)
(* Plausible faults of the code, used to test the properties.              *)
(***************************************************************************)

\* a queue that fills while nothing is blocked is not polled for
WantWrite_OnlyRetry == is_open /\ should_write

\* a buffer that is used up is not taken from the queue
Advance_KeepsEmptied(n) ==
    write_queue' = <<[Head(write_queue) EXCEPT !.offset = @ + n]>> \o Tail(write_queue)

\* the offset is set to the bytes written, not advanced by them
Advance_Restarts(n) ==
    LET front == Head(write_queue)
    IN  write_queue' = IF front.offset + n = enqueued[front.buffer]
                       THEN Tail(write_queue)
                       ELSE <<[front EXCEPT !.offset = n]>> \o Tail(write_queue)

-----------------------------------------------------------------------------

\* want_write
WantWrite == is_open /\ (write_queue # <<>> \/ should_write)

\* Poller::write, enqueue: from a handler of any session's message.
Enqueue(size) ==
    /\ writing = "no"
    /\ enqueued' = Append(enqueued, size)
    /\ write_queue' = Append(write_queue, [buffer |-> Len(enqueued) + 1, offset |-> 0])
    /\ UNCHANGED <<streamVars, writing>>

\* POLLIN: something has arrived, or the end, or an error.
HandleRead == writing = "no" /\ Read /\ UNCHANGED queueVars

\* POLLOUT: the socket has room, or an error to report.
StartWrite ==
    /\ writing = "no" /\ WantWrite
    /\ Free > 0 \/ peer = "reset"
    /\ writing' = "loop"
    /\ UNCHANGED <<streamVars, enqueued, write_queue>>

\* offset += bytes_written, and pop_front once the buffer is used up
Advance(n) ==
    LET front == Head(write_queue)
    IN  write_queue' = IF front.offset + n = enqueued[front.buffer]
                       THEN Tail(write_queue)
                       ELSE <<[front EXCEPT !.offset = @ + n]>> \o Tail(write_queue)

\* The bytes a turn of the loop of write() gives to the stream.
Left ==
    LET front == Head(write_queue)
        left  == enqueued[front.buffer] - front.offset
    IN  IF left < WriteSize THEN left ELSE WriteSize

InLoop == writing = "loop" /\ write_queue # <<>>

\* The stream takes some of them, and the loop goes on.
WriteSome(n) ==
    /\ InLoop
    /\ LET front == Head(write_queue)
       IN  WriteBytes(n, Left, Bytes(front.buffer, front.offset + 1, front.offset + n))
    /\ Advance(n)
    /\ UNCHANGED <<enqueued, writing>>

\* It takes none: the loop ends.
WriteNone ==
    /\ InLoop
    /\ WriteBlocked(Left) \/ WriteTooSoon \/ WriteShutdown
    /\ writing' = "flush"
    /\ UNCHANGED <<enqueued, write_queue>>

\* The queue is empty: the loop ends.
WriteDone ==
    /\ writing = "loop" /\ write_queue = <<>>
    /\ writing' = "flush"
    /\ UNCHANGED <<streamVars, enqueued, write_queue>>

\* write throws, and Poller::handle_write catches, unless SIGPIPE has ended the process
\* (Distributor!BrokenPipe), and the connection with it.
WriteThrows ==
    /\ InLoop
    /\ WriteFailed
    /\ writing' = "no"
    /\ UNCHANGED <<enqueued, write_queue>>

\* After the loop: with the retry flag set, a write of no bytes.
Flush ==
    /\ writing = "flush"
    /\ IF is_open /\ should_write THEN WriteNothing ELSE UNCHANGED streamVars
    /\ writing' = "no"
    /\ UNCHANGED <<enqueued, write_queue>>

Write == (\E n \in 1..Capacity : WriteSome(n)) \/ WriteNone \/ WriteDone \/ WriteThrows \/ Flush

=============================================================================
