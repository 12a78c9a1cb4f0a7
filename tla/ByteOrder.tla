----------------------------- MODULE ByteOrder ------------------------------
(***************************************************************************)
(* Integers as little-endian bytes.  A byte has Byte values (256 in the    *)
(* code); a small Byte keeps 64 bit integers within TLC's numbers and the  *)
(* boundaries of 8, 16, 32 and 64 bits at Byte, Byte^2, Byte^4, Byte^8.    *)
(***************************************************************************)
EXTENDS Integers, Sequences, SequencesExt

CONSTANT Byte       \* even, more than 1

\* The w bytes of n (mod Byte^w, as a C cast), and the numbers bytes hold
Bytes(n, w) == [i \in 1..w |-> (n \div Byte^(i - 1)) % Byte]
Number(bytes) == FoldRight(LAMBDA b, n : b + Byte * n, bytes, 0)
Signed(bytes) ==
    LET n == Number(bytes) range == Byte^Len(bytes)
    IN  IF n >= range \div 2 THEN n - range ELSE n

\* v is an int of w bytes
IsInt(v, w) == -(Byte^w \div 2) <= v /\ v < Byte^w \div 2
Drop(s, n) == SubSeq(s, n + 1, Len(s))
=============================================================================
