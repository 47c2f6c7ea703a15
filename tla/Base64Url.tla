------------------------------ MODULE Base64Url ------------------------------
(***************************************************************************)
(* JwtUtil::base64url_encode and base64url_decode on byte sequences.  The  *)
(* characters are numbers: 0..61 are the letters and digits, at their      *)
(* place in either table, and the others have names.                       *)
(***************************************************************************)
EXTENDS Naturals, Sequences, SequencesExt

Plus == 62
Slash == 63
Minus == 64
Underscore == 65
Pad == 66

(* '+' -> '-', '/' -> '_', and back. *)
UrlSafe(c) == IF c = Plus THEN Minus ELSE IF c = Slash THEN Underscore ELSE c
FromUrlSafe(c) == IF c = Minus THEN Plus ELSE IF c = Underscore THEN Slash ELSE c

EncodedLen(n) == 4 * (n \div 3) + (IF n % 3 = 0 THEN 0 ELSE (n % 3) + 1)

(* The k-th index into std_table: six bits of the group of three bytes     *)
(* that it is in, a missing byte being 0.                                  *)
Sextet(data, k) ==
    LET i == 3 * ((k - 1) \div 4)
        b(j) == IF i + j <= Len(data) THEN data[i + j] ELSE 0
    IN  << b(1) \div 4,
           (b(1) % 4) * 16 + (b(2) \div 16),
           (b(2) % 16) * 4 + (b(3) \div 64),
           b(3) % 64 >>[((k - 1) % 4) + 1]

base64url_encode(data) == [k \in 1..EncodedLen(Len(data)) |-> UrlSafe(Sextet(data, k))]

(* dec is built from b64_table, the URL alphabet, though the input has     *)
(* been turned into the standard one: it knows '-' and '_', not '+' or '/'. *)
Known(c) == c \in (0..61) \cup {Minus, Underscore}
Dec(c) == CASE c = Minus -> 62 [] c = Underscore -> 63 [] OTHER -> c

(* The four characters at which the loop is, and what stops it: the third  *)
(* and the fourth are looked up only if they are not padding.              *)
Block(input, n) == [j \in 1..4 |-> input[4 * (n - 1) + j]]
MutIllegal(b) == \E j \in 1..4 : ~Known(b[j])
Illegal(b) ==
    \/ ~Known(b[1]) \/ ~Known(b[2])
    \/ b[3] # Pad /\ (~Known(b[3]) \/ (b[4] # Pad /\ ~Known(b[4])))

BlockBytes(b) ==
    <<Dec(b[1]) * 4 + (Dec(b[2]) \div 16)>>
    \o (IF b[3] = Pad THEN <<>> ELSE <<(Dec(b[2]) % 16) * 16 + (Dec(b[3]) \div 4)>>)
    \o (IF b[3] = Pad \/ b[4] = Pad THEN <<>> ELSE <<(Dec(b[3]) % 4) * 64 + Dec(b[4])>>)

(* The decoded bytes, or invalid where the code returns nullopt.           *)
base64url_decode(str, invalid) ==
    LET padding == [j \in 1..((4 - (Len(str) % 4)) % 4) |-> Pad]
        input == [k \in DOMAIN str |-> FromUrlSafe(str[k])] \o padding
        blocks == 1..(Len(input) \div 4)
    IN  IF \E n \in blocks : Illegal(Block(input, n)) THEN invalid
        ELSE FlattenSeq([n \in blocks |-> BlockBytes(Block(input, n))])
===============================================================================
