------------------------------- MODULE Ciphers -------------------------------
(***************************************************************************)
(* The layers of the imperial cipher stack, one operator for the way out   *)
(* and one for the way back.  A way back that throws is Rejected.          *)
(***************************************************************************)
EXTENDS Bytes

CONSTANTS MaxHeader,    \* MAX_CARTOUCHE_HEADER
          TcapAnchor    \* TCAP_ANCHOR

Rejected == <<Size>>    \* no bytes at all

\* HMAC-SHA-256, of one byte here.  The stack needs nothing of it but that both ends
\* compute the same.
Mac(key, data) ==
    LET total[i \in 0..Len(key \o data)] ==
            IF i = 0 THEN 0 ELSE (3 * total[i - 1] + (key \o data)[i]) % Size
    IN <<total[Len(key \o data)]>>

-----------------------------------------------------------------------------
\* The Roman rotation: a shift of 1..127 that follows the key.
Shift(key, i) == 1 + (KeyByte(key, i) % (Size \div 2 - 1))
augustanEncipher(data, key) == [i \in 1..Len(data) |-> (data[i] + Shift(key, i)) % Size]
augustanDecipher(data, key) ==
    [i \in 1..Len(data) |-> (data[i] - Shift(key, i) + Size) % Size]

\* The Spartan scytale.  Written in rows of the rod's columns, the last row filled up
\* with zeros; read column by column.
Rows(length, columns) == (length + columns - 1) \div columns
Padded(data, k) == IF k < Len(data) THEN data[k + 1] ELSE 0
Transposed(data, columns) ==
    LET rows == Rows(Len(data), columns)
    IN [i \in 1..rows * columns |->
          Padded(data, ((i - 1) % rows) * columns + (i - 1) \div rows)]
Restored(body, length, columns) ==
    LET rows == Rows(length, columns)
    IN [i \in 1..length |-> body[((i - 1) % columns) * rows + (i - 1) \div columns + 1]]

scytaleEncipher(data, columns) ==
    UInt(Len(data), 4) \o (IF columns < 2 THEN data ELSE Transposed(data, columns))
scytaleDecipher(data, columns) ==
    LET length == Number(First(data, 4))
        body == After(data, 4)
    IN IF Len(data) < 4 THEN Rejected
       ELSE IF columns < 2 THEN First(body, length)
       ELSE IF Len(body) < Rows(length, columns) * columns THEN Rejected
       ELSE Restored(body, length, columns)

\* The Egyptian S-box: the key schedule swaps its way through the bytes.
buildHieroglyphSbox(key) ==
    LET scheduled[i \in 0..Size] ==
            IF i = 0 THEN [sbox |-> [b \in Byte |-> b], j |-> 0]
            ELSE LET s == scheduled[i - 1].sbox
                     j == (scheduled[i - 1].j + s[i - 1] + KeyByte(key, i)) % Size
                 IN [sbox |-> [s EXCEPT ![i - 1] = s[j], ![j] = s[i - 1]], j |-> j]
    IN scheduled[Size].sbox
hieroglyphEncipher(data, sbox) == [i \in 1..Len(data) |-> sbox[data[i]]]
hieroglyphDecipher(data, sbox) ==
    [i \in 1..Len(data) |-> CHOOSE b \in Byte : sbox[b] = data[i]]

\* The cartouche: a header of JSON with the subject and a seal, and its length.
wrapCartouche(data, subject, key) ==
    LET header == subject \o Mac(key, subject \o data)
    IN UInt(Len(header), 2) \o header \o data
unwrapCartouche(wrapped, key) ==
    LET length == Number(First(wrapped, 2))
        header == First(After(wrapped, 2), length)
        body == After(wrapped, 2 + length)
        subject == First(header, length - 1)
    IN IF Len(wrapped) < 2 \/ length = 0 \/ length > MaxHeader \/ Len(wrapped) < 2 + length
       THEN Rejected
       ELSE IF After(header, length - 1) # Mac(key, subject \o body) THEN Rejected
       ELSE body

\* The Persian seal, its magic of one byte here.
MAGIC == <<Size - 1>>
applyPersianSeal(body, key) == MAGIC \o Mac(key, body) \o body
verifyPersianSeal(sealed, key) ==
    IF Len(sealed) < 2 \/ First(sealed, 1) # MAGIC THEN Rejected
    ELSE IF SubSeq(sealed, 2, 2) # Mac(key, After(sealed, 2)) THEN Rejected
    ELSE After(sealed, 2)

\* The two masks, each its own way back.
torchMask(data, key) == [i \in 1..Len(data) |-> xor[data[i]][KeyByte(key, i)]]
occultVeilTransform(data, key) ==
    [i \in 1..Len(data) |->
       xor[data[i]][xor[KeyByte(key, i)][((i - 1) * TcapAnchor + key[1]) % Size]]]

\* Chaotic padding: noise of a length that follows the key on both sides, and its lengths.
applyChaoticPadding(body, prefix, suffix) ==
    UInt(Len(prefix), 2) \o UInt(Len(suffix), 2) \o prefix \o body \o suffix
stripChaoticPadding(padded, prefixLen, suffixLen) ==
    IF \/ Len(padded) < 4
       \/ Number(First(padded, 2)) # prefixLen \/ Number(SubSeq(padded, 3, 4)) # suffixLen
       \/ 4 + prefixLen > Len(padded) - suffixLen
    THEN Rejected
    ELSE SubSeq(padded, 4 + prefixLen + 1, Len(padded) - suffixLen)

\* Fisher-Yates with the bytes of a seed; items and places are counted from 0 in the code.
deriveShuffledOrder(items, seed) ==
    LET n == Len(items)
        shuffled[k \in 0..n - 1] ==
            IF k = 0 THEN items
            ELSE LET arr == shuffled[k - 1]
                     i == n - k
                     j == seed[(i % Len(seed)) + 1] % (i + 1)
                 IN [arr EXCEPT ![i + 1] = arr[j + 1], ![j + 1] = arr[i + 1]]
    IN shuffled[n - 1]
=============================================================================
