------------------------------- MODULE Bytes -------------------------------
(***************************************************************************)
(* Bytes, and big-endian numbers written in them.  The program's byte has  *)
(* 256 values; a run that goes through every polynomial or every key has   *)
(* fewer.                                                                  *)
(***************************************************************************)
EXTENDS Integers, Sequences

CONSTANT Size   \* how many values a byte has

ASSUME SizeAssumption == Size \in {8, 16, 32, 64, 128, 256}

Byte == 0..Size - 1

xor[a \in Byte] ==
    [b \in Byte |-> IF a = 0 THEN b ELSE ((a + b) % 2) + 2 * xor[a \div 2][b \div 2]]

\* writeUInt16BE and writeUInt32BE, which throw on a number that does not fit, and the
\* reading of what they wrote.
Numbers[digits \in 0..4] == IF digits = 0 THEN 1 ELSE Size * Numbers[digits - 1]
FitsIn(n, digits) == n < Numbers[digits]
UInt(n, digits) == [d \in 1..digits |-> (n \div Numbers[digits - d]) % Size]
Number(bytes) ==
    LET upTo[d \in 0..Len(bytes)] == IF d = 0 THEN 0 ELSE Size * upTo[d - 1] + bytes[d]
    IN upTo[Len(bytes)]

\* subarray: from the byte after the first n.
After(bytes, n) == SubSeq(bytes, n + 1, Len(bytes))
First(bytes, n) == SubSeq(bytes, 1, n)

\* key[i % key.length], for the i-th byte counted from 1.
KeyByte(key, i) == key[((i - 1) % Len(key)) + 1]
=============================================================================
