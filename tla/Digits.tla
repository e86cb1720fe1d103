------------------------------- MODULE Digits -------------------------------
(***************************************************************************)
(* Numbers as digits in some base, least significant digit first: bytes of *)
(* an integer (encoding/binary), bits of a payload, characters of a code.  *)
(***************************************************************************)
EXTENDS Integers, Sequences

(* How many numbers n digits can hold *)
Powers(base) ==
    LET power[n \in Nat] == IF n = 0 THEN 1 ELSE base * power[n - 1] IN power

(* v in n digits; what does not fit is cut off *)
DigitsOf(v, base, n) == [i \in 1 .. n |-> (v \div Powers(base)[i - 1]) % base]

(* ... and back: a digit and base times what follows it *)
ValueOf(s, base) ==
    LET value[i \in 1 .. Len(s) + 1] == IF i > Len(s) THEN 0 ELSE s[i] + base * value[i + 1]
    IN value[1]
=============================================================================
