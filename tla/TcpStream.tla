------------------------------ MODULE TcpStream ------------------------------
(***************************************************************************)
(* One end of a connection, plaintext or TLS: io/tcp_stream.hpp over a BIO *)
(* (io/bio.hpp), an SSL object if it is secure (io/ssl.hpp), and a         *)
(* non-blocking socket. Its state is the handshake's and the shutdown's:   *)
(*                                                                         *)
(*    START      plaintext, from beginning to end                          *)
(*    HANDSHAKE -> DATA -> SHUTDOWN -> STOP      TLS                       *)
(*                                                                         *)
(* The socket's send buffer and the connection are the queue socket, from  *)
(* which the peer reads. OpenSSL's part is external: a record is written   *)
(* whole or not at all, and SSL_do_handshake and SSL_shutdown leave the    *)
(* retry flags of the BIO alone.                                           *)
(***************************************************************************)
EXTENDS Integers, Sequences

CONSTANT Capacity    \* the bytes the socket takes while the peer reads nothing

VARIABLES
    secure,         \* was the stream made with an SslContext?
    state,          \* state_
    should_write,   \* BIO_should_write: the last operation of the BIO was a blocked write
    is_open,        \* the socket's is_open_
    socket,         \* the bytes written that the peer has not read
    peer,           \* "open", "closed" (its side is shut down) or "reset"
    shaken,         \* the peer's part of the handshake: "awaited", "done" or "bad"
    notified        \* has the peer sent the notice (close_notify) that ends TLS?

streamVars == <<secure, state, should_write, is_open, socket, peer, shaken, notified>>
peerVars   == <<secure, peer, shaken, notified>>

Free == Capacity - Len(socket)

Init ==
    /\ secure \in BOOLEAN
    /\ state = IF secure THEN "HANDSHAKE" ELSE "START"
    /\ should_write = FALSE /\ is_open = TRUE
    /\ socket = <<>> /\ peer = "open" /\ shaken = "awaited" /\ notified = FALSE

-----------------------------------------------------------------------------

\* do_handshake: it has to wait for the peer.
HandshakeBlocked == state = "HANDSHAKE" /\ shaken = "awaited" /\ peer = "open"

\* It throws: what the peer sent is wrong, or its certificate is (verify), or the peer
\* has gone before the end of it.
HandshakeFailed ==
    /\ state = "HANDSHAKE"
    /\ shaken = "bad" \/ peer = "reset" \/ (shaken = "awaited" /\ peer # "open")

\* read and write come to the BIO: there is no handshake to do, or it is done.
Established ==
    \/ state \in {"START", "DATA"}
    \/ state = "HANDSHAKE" /\ shaken = "done" /\ peer # "reset"

\* Whoever gets to the BIO has left the handshake.
EnterData == state' = IF state = "HANDSHAKE" THEN "DATA" ELSE state

\* handle_shutdown: the notice to the peer is written, or has to wait for room, or
\* cannot be written: then SSL_shutdown fails and ssl.hpp throws.
HandleShutdown ==
    \/ /\ Free > 0 /\ peer # "reset"
       /\ is_open' = FALSE
       /\ state' = "STOP"
    \/ /\ Free = 0 /\ peer # "reset"
       /\ state' = "SHUTDOWN"
       /\ UNCHANGED is_open
    \/ /\ peer = "reset" \/ should_write
       /\ is_open' = FALSE
       /\ state' = "SHUTDOWN"

(***************************************************************************)
(* Plausible faults of the code, used to test the properties.              *)
(***************************************************************************)

\* a shutdown that was blocked is not tried again
ReadShutdown_Waits ==
    /\ state = "SHUTDOWN"
    /\ UNCHANGED <<state, is_open, should_write>>

-----------------------------------------------------------------------------

\* read, in the states in which it changes something, up to the end of the caller's loop
\* (TcpSocketPollHandler::read, which catches what it throws).
ReadHandshakeFailed ==
    /\ HandshakeFailed
    /\ is_open' = FALSE
    /\ UNCHANGED <<state, should_write>>

\* The BIO is read until it blocks.
ReadBlocked ==
    /\ Established /\ peer = "open" /\ ~notified
    /\ EnterData
    /\ should_write' = FALSE
    /\ UNCHANGED is_open

\* Nothing more will come: the end of the stream, or an error.
ReadEnd ==
    /\ Established
    /\ peer = "reset" \/ (peer = "closed" /\ ~notified)
    /\ EnterData
    /\ should_write' = FALSE
    /\ is_open' = FALSE

\* SSL_ERROR_ZERO_RETURN: the peer has ended TLS, which is answered at once.
ReadNotice ==
    /\ Established /\ notified /\ peer # "reset"
    /\ should_write' = FALSE
    /\ HandleShutdown

\* The answer was blocked and is tried again.
ReadShutdown ==
    /\ state = "SHUTDOWN"
    /\ HandleShutdown
    /\ UNCHANGED should_write

Read ==
    /\ is_open
    /\ ReadHandshakeFailed \/ ReadBlocked \/ ReadEnd \/ ReadNotice \/ ReadShutdown
    /\ UNCHANGED <<peerVars, socket>>

\* write: what the socket takes of at most size bytes. TLS makes one record of them.
Takes(n, size) ==
    /\ n \in 1..size /\ n <= Free
    /\ secure => n = size

WriteBytes(n, size, bytes) ==
    /\ Established /\ peer # "reset"
    /\ Takes(n, size)
    /\ EnterData
    /\ socket' = socket \o bytes
    /\ should_write' = FALSE
    /\ UNCHANGED <<peerVars, is_open>>

\* The socket takes nothing, or not the whole record: the retry flags are set.
WriteBlocked(size) ==
    /\ Established /\ peer # "reset"
    /\ ~ \E n \in 1..size : Takes(n, size)
    /\ EnterData
    /\ should_write' = TRUE
    /\ UNCHANGED <<peerVars, is_open, socket>>

\* The handshake is not over, and the BIO is not written.
WriteTooSoon ==
    /\ HandshakeBlocked
    /\ UNCHANGED streamVars

\* The shutdown is tried in place of the write.
WriteShutdown ==
    /\ state = "SHUTDOWN"
    /\ HandleShutdown
    /\ UNCHANGED <<peerVars, socket, should_write>>

\* The connection was reset, or the handshake fails: write throws.
WriteFailed ==
    /\ HandshakeFailed \/ (Established /\ peer = "reset")
    /\ is_open' = FALSE
    /\ UNCHANGED <<peerVars, socket, state, should_write>>

\* A write of no bytes. The socket writes none and its BIO reports that none were
\* written, for which write closes the socket; the BIO of SSL does that or leaves its
\* retry flags as they are, from one version of OpenSSL to another.
WriteNothing ==
    /\ \/ is_open' = FALSE /\ should_write' = FALSE
       \/ secure /\ UNCHANGED <<is_open, should_write>>
    /\ UNCHANGED <<peerVars, socket, state>>

-----------------------------------------------------------------------------

\* The peer does its part of the handshake, well or badly; ends TLS; shuts its side
\* down, with or without ending TLS; or the connection breaks.
PeerShakes ==
    /\ secure /\ shaken = "awaited" /\ peer = "open"
    /\ shaken' \in {"done", "bad"}
    /\ UNCHANGED <<secure, state, should_write, is_open, socket, peer, notified>>

PeerNotifies ==
    /\ secure /\ shaken = "done" /\ peer = "open" /\ ~notified
    /\ notified' = TRUE
    /\ UNCHANGED <<secure, state, should_write, is_open, socket, peer, shaken>>

PeerLeaves ==
    /\ \/ peer = "open"   /\ peer' = "closed"
       \/ peer # "reset"  /\ peer' = "reset"
    /\ UNCHANGED <<secure, state, should_write, is_open, socket, shaken, notified>>

=============================================================================
