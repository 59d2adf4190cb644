----------------------------- MODULE BasicToken -----------------------------
(***************************************************************************)
(* serialization/b64.hpp and basic_token.hpp: a name and a password as one *)
(* string of base64 characters. A character of that string is its place in *)
(* the alphabet of 64, or Pad. The accumulator of both loops is an int     *)
(* that is shifted until it overflows: the bits that are used are the last *)
(* twelve it was given.                                                    *)
(***************************************************************************)
EXTENDS Integers, SequencesExt

CONSTANT IntRange    \* how many values an int has: 2^32 in the code

ASSUME IntAssumption == IntRange \in Nat \ {0} /\ IntRange % 2^12 = 0

Pad   == 64
Colon == 58         \* ':'

\* a << bits, and c added to it: what is shifted out is gone.
Shift(a, bits, c) == ((a * 2^bits) % IntRange) + c

\* (a >> b) & (2^bits - 1)
Bits(a, b, bits) == (a \div 2^b) % 2^bits

(***************************************************************************)
(* Plausible faults of the code, used to test the properties.              *)
(***************************************************************************)

\* one character of the output for one of the input
Sextets_Once(a, b) == IF b < 0 THEN <<>> ELSE <<Bits(a, b, 6)>>

-----------------------------------------------------------------------------

\* base64_encode: the turns of its inner loop, for b and for b - 6.
Sextets(a, b) ==
    IF b < 0 THEN <<>> ELSE IF b < 6 THEN <<Bits(a, b, 6)>> ELSE <<Bits(a, b, 6), Bits(a, b - 6, 6)>>

EncodeNext(s, c) ==
    LET a == Shift(s.a, 8, c)
        b == s.b + 8
    IN  [a |-> a, b |-> IF b < 6 THEN b - 6 ELSE b - 12, out |-> s.out \o Sextets(a, b)]

Encode(in) ==
    LET last == FoldLeft(EncodeNext, [a |-> 0, b |-> -6, out |-> <<>>], in)
        rest == IF last.b > -6 THEN <<Bits(Shift(last.a, 8, 0), last.b + 8, 6)>> ELSE <<>>
        out  == last.out \o rest
    IN  out \o [n \in 1..((-Len(out)) % 4) |-> Pad]

\* base64_decode: up to the first character that is none of the alphabet.
DecodeNext(s, c) ==
    LET a == Shift(s.a, 6, c)
        b == s.b + 6
    IN  IF b >= 0 THEN [a |-> a, b |-> b - 8, out |-> Append(s.out, Bits(a, b, 8))]
        ELSE [a |-> a, b |-> b, out |-> s.out]

Decode(in) ==
    LET end  == SelectInSeq(in, LAMBDA c : c = Pad)
        text == IF end = 0 THEN in ELSE SubSeq(in, 1, end - 1)
    IN  FoldLeft(DecodeNext, [a |-> 0, b |-> -8, out |-> <<>>], text).out

\* encode_basic_token
EncodeToken(username, password) == Encode(username \o <<Colon>> \o password)

Colons(s) == {n \in DOMAIN s : s[n] = Colon}
HasColon(token) == Colons(Decode(token)) # {}

(***************************************************************************)
(* Plausible faults of the code, used to test the properties.              *)
(***************************************************************************)

\* the password begins after the last colon
DecodeToken_LastColon(token) ==
    LET s == Decode(token)
        i == CHOOSE n \in Colons(s) : \A m \in Colons(s) : m <= n
    IN  <<SubSeq(s, 1, i - 1), SubSeq(s, i + 1, Len(s))>>

-----------------------------------------------------------------------------

\* decode_basic_token, which throws if there is no colon.
DecodeToken(token) ==
    LET s == Decode(token)
        i == CHOOSE n \in Colons(s) : \A m \in Colons(s) : n <= m
    IN  <<SubSeq(s, 1, i - 1), SubSeq(s, i + 1, Len(s))>>

=============================================================================
