----------------------------- MODULE MCChRound -----------------------------
(* A machine with 10-bit words and 2-bit bytes, two samples of two lanes.  *)
(* The prime and its inverse are to 2^10 what the real ones are to 2^64.   *)
EXTENDS ChSelfTest, Bitwise

(* Exclusive or from a table of five-bit halves.                           *)
HalfXor == [a \in 0..31 |-> [b \in 0..31 |-> a ^^ b]]
MCXor(a, b) == 32 * HalfXor[a \div 32][b \div 32] + HalfXor[a % 32][b % 32]

(* Nothing but zeroes, so that cases of the self-test are skipped; two     *)
(* without coincidences; and one in which an earlier byte explains a       *)
(* misread as well, and one byte explains two.                             *)
MCStreams == {[j \in 0..3 |-> 0],
              [j \in 0..3 |-> j],
              [j \in 0..3 |-> IF j = 2 THEN 1 ELSE 3],
              [j \in 0..3 |-> IF j = 3 THEN 0 ELSE IF j = 2 THEN 2 ELSE 1]}
MCLeftovers == {[j \in 0..4 |-> 0], [j \in 0..4 |-> 37 * j + 5]}

=============================================================================
