--------------------------- MODULE MCDistributor ---------------------------
(* Two connections over two descriptors, which the second may reuse; a         *)
(* password file that holds ann's hash, and one of bob's that cannot be        *)
(* compared.                                                                   *)
EXTENDS Distributor, TLC

CONSTANTS ann, bob, secret

OneFile == {(ann :> [cipher |-> "apr1", password |-> secret]) @@
            (bob :> [cipher |-> "other", password |-> secret])}

=============================================================================
