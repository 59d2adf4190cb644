---------------------------- MODULE MCConnection ----------------------------
(* Frames of at most four bytes, a socket of four, pieces of three: a frame is *)
(* written and read in one piece or in several, with the header split too, and *)
(* pieces hold parts of two frames.                                            *)
EXTENDS Connection

=============================================================================
