---------------------------- MODULE FrameChannel ----------------------------
(***************************************************************************)
(* What one direction of a connection promises: frames are delivered one   *)
(* at a time, each once, in the order in which they were sent. A handler   *)
(* that throws may break the channel: what comes after that is not known.  *)
(* Connection implements it; Session takes what the client reads from it.  *)
(***************************************************************************)
EXTENDS Naturals, Sequences

CONSTANT Payloads  \* what may be sent

VARIABLES
    sent,        \* the frames sent
    delivered,   \* the frames handed to the receiving program
    broken       \* was anything dropped on the way?

channelVars == <<sent, delivered, broken>>

Init == sent = <<>> /\ delivered = <<>> /\ broken = FALSE

Pending == Len(delivered) < Len(sent)

\* The frame that is delivered next.
NextFrame == sent[Len(delivered) + 1]

Send(frame) ==
    /\ sent' = Append(sent, frame)
    /\ UNCHANGED <<delivered, broken>>

Deliver ==
    /\ ~broken /\ Pending
    /\ delivered' = Append(delivered, NextFrame)
    /\ UNCHANGED sent

\* Nothing is lost, or the handler of the frame throws with more behind it.
Kept == UNCHANGED broken
Lost == broken' = TRUE

\* Only what the sender does is still as it was.
Unknown ==
    /\ broken /\ broken'
    /\ UNCHANGED sent

Next ==
    \/ \E frame \in Payloads : Send(frame)
    \/ Deliver /\ (Kept \/ Lost)
    \/ Unknown

Spec == Init /\ [][Next]_channelVars

=============================================================================
