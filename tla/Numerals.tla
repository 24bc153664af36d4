------------------------------ MODULE Numerals ------------------------------
(***************************************************************************)
(* Numbers and their digits in a base, the most significant first: the     *)
(* bytes of encoding.ts (encodeUint, decodeUint), base 256, and the        *)
(* decimal digits that fixedPoint.ts reads and writes.                     *)
(***************************************************************************)
EXTENDS Integers, Sequences

\* The powers of a base, from the 0-th.
Power(base) == LET power[n \in Nat] == IF n = 0 THEN 1 ELSE base * power[n - 1] IN power

\* The last `width` digits of n.
DigitsOf(base, n, width) == [i \in 1..width |-> (n \div Power(base)[width - i]) % base]

NumberOf(base, digits) ==
    LET num[k \in 0..Len(digits)] == IF k = 0 THEN 0 ELSE num[k - 1] * base + digits[k]
    IN  num[Len(digits)]
=============================================================================
