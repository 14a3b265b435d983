------------------------------- MODULE Shamir -------------------------------
(***************************************************************************)
(* Shamir's secret sharing over GF(Size): the field's tables, splitSecret  *)
(* and combineShares.  The code has Size = 256 and Reduction = 16^^1b; a   *)
(* smaller field of the same construction lets a run draw every polynomial. *)
(* A secret is one byte: the code treats the bytes of a secret one by one, *)
(* each with a polynomial of its own.                                      *)
(***************************************************************************)
EXTENDS Bytes

CONSTANT Reduction   \* what is xored in when a product leaves the field

Order == Size - 1    \* of the multiplicative group

Doubled(a) == IF 2 * a < Size THEN 2 * a ELSE xor[2 * a - Size][Reduction]

\* gfMultiply(a, b): the loop over the bits of b.
gfMultiply[b \in Byte] ==
    [a \in Byte |->
       IF b = 0 THEN 0
       ELSE xor[IF b % 2 = 1 THEN a ELSE 0][gfMultiply[b \div 2][Doubled(a)]]]

\* Powers of 3, and their exponents; LOG[0] is never written and never asked for.
EXP ==
    LET power[i \in 0..Order - 1] == IF i = 0 THEN 1 ELSE gfMultiply[3][power[i - 1]]
    IN [i \in 0..Order - 1 |-> power[i]]
LOG == [x \in 1..Order |-> CHOOSE i \in 0..Order - 1 : EXP[i] = x]

gfMulBySize ==                                               \* faulty: % 256
    [a \in Byte |-> [b \in Byte |->
       IF a = 0 \/ b = 0 THEN 0 ELSE EXP[((LOG[a] + LOG[b]) % Size) % Order]]]
gfMul ==
    [a \in Byte |-> [b \in Byte |->
       IF a = 0 \/ b = 0 THEN 0 ELSE EXP[(LOG[a] + LOG[b]) % Order]]]
gfDiv ==
    [a \in Byte |-> [b \in 1..Order |->
       IF a = 0 THEN 0 ELSE EXP[(LOG[a] + Order - LOG[b]) % Order]]]

\* The reduction makes a field of which 3 is a generator: each table undoes the other,
\* and multiplication by them is multiplication.
GeneratesField ==
    /\ \A i \in 0..Order - 1 : EXP[i] \in 1..Order /\ LOG[EXP[i]] = i
    /\ \A x \in 1..Order : LOG[x] \in 0..Order - 1 /\ EXP[LOG[x]] = x
    /\ \A a, b \in 1..Order : EXP[(LOG[a] + LOG[b]) % Order] = gfMultiply[b][a]

ASSUME FieldAssumption == Reduction \in Byte /\ GeneratesField

\* Horner's rule, the highest coefficient first.
evalPoly(coeffs, x) ==
    LET n == Len(coeffs)
        value[i \in 0..n] ==
            IF i = 0 THEN 0 ELSE xor[gfMul[value[i - 1]][x]][coeffs[n - i + 1]]
    IN value[n]

-----------------------------------------------------------------------------
Share(index, data) == [index |-> index, data |-> data]

\* The coefficients above the secret.
DrawnTooFew(threshold, Drawn) == [1..threshold - 1 -> Drawn \cap {0}]
                                                             \* faulty: they stay zero
Draws(threshold, Drawn) == [1..threshold - 1 -> Drawn]

\* What the shares are for one draw of the coefficients.
splitSecret(secret, coeffs, shares) ==
    [x \in 1..shares |-> Share(x, evalPoly(<<secret>> \o coeffs, x))]

\* Two shares of one index divide by zero: combineShares throws.
Combinable(shares) ==
    \A i, j \in 1..Len(shares) : i # j => shares[i].index # shares[j].index

\* The Lagrange basis of share i at 0.
Basis(shares, i) ==
    LET b[j \in 0..Len(shares)] ==
            IF j = 0 THEN 1 ELSE IF j = i THEN b[j - 1]
            ELSE gfMul[b[j - 1]][gfDiv[shares[j].index][xor[shares[i].index][shares[j].index]]]
    IN b[Len(shares)]

combineShares(shares) ==
    LET value[i \in 0..Len(shares)] ==
            IF i = 0 THEN 0
            ELSE xor[value[i - 1]][gfMul[shares[i].data][Basis(shares, i)]]
    IN value[Len(shares)]
=============================================================================
