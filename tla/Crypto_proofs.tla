----------------------------- MODULE Crypto_proofs -----------------------------
(***************************************************************************)
(* The cryptographic parts that stand beside the channel.  The             *)
(* certificates (Trust) for every set of keys, every term, and every       *)
(* number of certificates and lives of the issuer.  The cipher stack       *)
(* (CipherStack) for records of every length, every key, order, rod and    *)
(* padding: its recursive functions are reached by an induction through    *)
(* sets of numbers, and layer after layer is shown to be undone.           *)
(* Threshold signatures (ThresholdSig) for every field of the construction *)
(* and every threshold: polynomials over it are divided and interpolated,  *)
(* and so shares combine to the secret, and fewer of them fit any.         *)
(***************************************************************************)
EXTENDS Trust, CipherStack, ThresholdSig,
        WellFoundedInduction, SequenceTheorems, FiniteSetTheorems, TLAPS

(***************************************************************************)
(* Certificates                                                            *)
(***************************************************************************)
\* What was issued in the life under way is in its log, and no root is of a life to
\* come, so that a restart, which empties the log, leaves nothing to look for in it.
IssuedLogged ==
    /\ life \in Nat
    /\ ctLog \in Seq(Range(ctLog))
    /\ \A cert \in issued :
          /\ cert.root \in Nat /\ cert.root <= life
          /\ cert.root = life => cert \in Range(ctLog)

\* Pins are added only where there are none, or where they are already.
OnePin == pinned = {} \/ \E sig : pinned = {sig}

TrustInv == IssuedLogged /\ AcceptedVouched /\ OnePin /\ NoGoodStapleOnceRevoked

LEMMA TrustInit == Init => TrustInv
<1> SUFFICES ASSUME Init PROVE TrustInv
  OBVIOUS
<1>1. ctLog \in Seq(Range(ctLog))
  BY DEF Init
<1> QED
  BY <1>1 DEF Init, TrustInv, IssuedLogged, AcceptedVouched, OnePin, NoGoodStapleOnceRevoked

\* The log keeps what it has, and holds what is appended.
LEMMA LogGrows ==
    ASSUME NEW cert, ctLog \in Seq(Range(ctLog)), ctLog' = Append(ctLog, cert)
    PROVE  /\ ctLog' \in Seq(Range(ctLog'))
           /\ Range(ctLog)' = Range(ctLog) \cup {cert}
<1> DEFINE S == Range(ctLog) \cup {cert}
<1>1. ctLog \in Seq(S)
  <2>1. ASSUME NEW A, NEW B, A \subseteq B, NEW s \in Seq(A) PROVE s \in Seq(B)
    BY <2>1
  <2> QED  BY <2>1
<1>2. /\ Len(ctLog) \in Nat /\ DOMAIN ctLog = 1..Len(ctLog)
      /\ DOMAIN ctLog' = 1..Len(ctLog) + 1
      /\ ctLog'[Len(ctLog) + 1] = cert
      /\ \A i \in 1..Len(ctLog) : ctLog'[i] = ctLog[i]
      /\ ctLog' \in Seq(S)
  BY <1>1
<1>3. Range(ctLog)' = S
  BY <1>2 DEF Range
<1> QED
  BY <1>2, <1>3

LEMMA IssuedLoggedStep == IssuedLogged /\ [Next]_trustVars => IssuedLogged'
<1> SUFFICES ASSUME IssuedLogged, [Next]_trustVars PROVE IssuedLogged'
  OBVIOUS
<1> USE DEF IssuedLogged
<1>1. ASSUME NEW sig \in SigKeys, NEW kem \in KemKeys, Issue(sig, kem) PROVE IssuedLogged'
  <2>1. ctLog' = Append(ctLog, Certificate(sig, kem)) /\ life' = life
    BY <1>1 DEF Issue
  <2>2. issued' \subseteq issued \cup {Certificate(sig, kem)}
    BY <1>1 DEF Issue
  <2>3. Certificate(sig, kem).root = life
    BY DEF Certificate
  <2> QED
    BY <2>1, <2>2, <2>3, LogGrows
<1>2. CASE Restart
  <2>1. ctLog' = <<>> /\ life' = life + 1 /\ issued' = issued
    BY <1>2 DEF Restart
  <2>2. ctLog' \in Seq(Range(ctLog'))
    BY <2>1
  <2>3. \A cert \in issued : cert.root \in Nat /\ cert.root < life'
    BY <2>1
  <2> QED  BY <2>1, <2>2, <2>3
<1>3. CASE Tick
  BY <1>3 DEF Tick
<1>4. CASE UNCHANGED <<now, life, ctLog, issued>>
  BY <1>4
<1> QED
  BY <1>1, <1>2, <1>3, <1>4
  DEF Next, trustVars, ServerHello, ImportBundle, pinServerKey, Revoke, Respond, FromTrustedRoot

LEMMA AcceptedVouchedStep ==
    IssuedLogged /\ AcceptedVouched /\ [Next]_trustVars => AcceptedVouched'
<1> SUFFICES ASSUME IssuedLogged, AcceptedVouched, [Next]_trustVars PROVE AcceptedVouched'
  OBVIOUS
\* A step that leaves the client alone, and that every certificate survives.
<1>1. ASSUME UNCHANGED <<trusted, accepted>>, issued \subseteq issued',
             \A cert \in issued : cert.root = life' => cert \in Range(ctLog')
      PROVE  AcceptedVouched'
  BY <1>1 DEF AcceptedVouched
<1>2. ASSUME NEW sig \in SigKeys, NEW kem \in KemKeys, Issue(sig, kem) PROVE AcceptedVouched'
  <2>1. ctLog' = Append(ctLog, Certificate(sig, kem)) /\ issued \subseteq issued'
        /\ UNCHANGED <<life, trusted, accepted>>
    BY <1>2 DEF Issue
  <2>2. Range(ctLog)' = Range(ctLog) \cup {Certificate(sig, kem)}
    BY <2>1, LogGrows DEF IssuedLogged
  <2> QED
    BY <1>1, <2>1, <2>2 DEF IssuedLogged
<1>3. CASE FromTrustedRoot
  BY <1>3 DEF FromTrustedRoot, AcceptedVouched, Nobody
<1>4. ASSUME NEW cert \in issued, NEW sig \in SigKeys, NEW kem \in KemKeys,
             ServerHello(cert, sig, kem)
      PROVE  AcceptedVouched'
  <2>1. accepted' = [sig |-> sig, kem |-> kem, at |-> now]
        /\ UNCHANGED <<life, ctLog, issued, trusted>>
    BY <1>4 DEF ServerHello
  <2>2. cert.root = trusted /\ cert.sig = sig /\ cert.kem = kem
        /\ cert.notBefore <= now /\ now <= cert.notAfter
    BY <1>4 DEF ServerHello, verifyServerHelloIdentity, verifyCertificate, Valid
  <2> QED
    BY <2>1, <2>2 DEF AcceptedVouched, IssuedLogged
<1>5. CASE Restart
  <2>1. life' = life + 1 /\ UNCHANGED <<issued, trusted, accepted>>
    BY <1>5 DEF Restart
  <2>2. \A cert \in issued : cert.root # life'
    BY <2>1 DEF IssuedLogged
  <2> QED  BY <1>1, <2>1, <2>2
<1>6. CASE UNCHANGED <<life, ctLog, issued, trusted, accepted>>
  BY <1>1, <1>6 DEF IssuedLogged
<1> QED
  BY <1>2, <1>3, <1>4, <1>5, <1>6
  DEF Next, trustVars, ImportBundle, pinServerKey, Revoke, Respond, Tick

LEMMA OnePinStep == OnePin /\ [Next]_trustVars => OnePin'
<1> SUFFICES ASSUME OnePin, [Next]_trustVars PROVE OnePin'
  OBVIOUS
<1>1. ASSUME NEW cert \in issued, ImportBundle(cert) PROVE OnePin'
  BY <1>1 DEF ImportBundle, pinServerKey, verifyCertificate, OnePin
<1>2. CASE FromTrustedRoot
  BY <1>2 DEF FromTrustedRoot, OnePin
<1>3. CASE pinned' = pinned
  BY <1>3 DEF OnePin
<1> QED
  BY <1>1, <1>2, <1>3
  DEF Next, trustVars, Issue, ServerHello, Revoke, Respond, Restart, Tick

LEMMA StaplesStep ==
    NoGoodStapleOnceRevoked /\ [Next]_trustVars => NoGoodStapleOnceRevoked'
<1> SUFFICES ASSUME NoGoodStapleOnceRevoked, [Next]_trustVars PROVE NoGoodStapleOnceRevoked'
  OBVIOUS
<1> USE DEF NoGoodStapleOnceRevoked
<1>1. ASSUME NEW cert \in issued, Revoke(cert) PROVE NoGoodStapleOnceRevoked'
  BY <1>1 DEF Revoke
<1>2. ASSUME NEW cert \in issued, Respond(cert) PROVE NoGoodStapleOnceRevoked'
  BY <1>2 DEF Respond, Status
<1>3. CASE Restart
  BY <1>3 DEF Restart
<1>4. CASE UNCHANGED <<revoked, stapled>>
  BY <1>4
<1> QED
  BY <1>1, <1>2, <1>3, <1>4
  DEF Next, trustVars, Issue, ServerHello, ImportBundle, pinServerKey, FromTrustedRoot, Tick

\* What was issued in the life under way is in its log, and the three below.
THEOREM TrustInvariant == Spec => []TrustInv
<1>1. TrustInv /\ [Next]_trustVars => TrustInv'
  BY IssuedLoggedStep, AcceptedVouchedStep, OnePinStep, StaplesStep DEF TrustInv
<1> QED
  BY <1>1, TrustInit, PTL DEF Spec

\* A client takes from server_hello only keys that one certificate of its root binds
\* together, valid then; one of the life under way is in the transparency log.
THEOREM KeysAreVouched == Spec => []AcceptedVouched
<1>1. TrustInv => AcceptedVouched
  BY DEF TrustInv
<1> QED
  BY <1>1, TrustInvariant, PTL

\* Bundles give a client one pin and never another.
THEOREM OnePinOnly == Spec => []FirstPinStays
<1>1. ASSUME OnePin PROVE FirstPinStays
  <2>1. CASE pinned = {}
    BY <2>1, FS_EmptySet DEF FirstPinStays
  <2>2. ASSUME NEW sig, pinned = {sig} PROVE FirstPinStays
    <3>1. Cardinality({sig}) = 1
      BY FS_Singleton
    <3> QED  BY <2>2, <3>1 DEF FirstPinStays
  <2> QED  BY <1>1, <2>1, <2>2 DEF OnePin
<1>2. TrustInv => FirstPinStays
  BY <1>1 DEF TrustInv
<1> QED
  BY <1>2, TrustInvariant, PTL

\* No staple says "good" of keys revoked in the life of the responder.
THEOREM RevokedNeverGood == Spec => []NoGoodStapleOnceRevoked
<1>1. TrustInv => NoGoodStapleOnceRevoked
  BY DEF TrustInv
<1> QED
  BY <1>1, TrustInvariant, PTL

-----------------------------------------------------------------------------
(***************************************************************************)
(* Induction: a set that holds 0, and with every number the next, holds    *)
(* them all.                                                               *)
(***************************************************************************)
LEMMA LeastNumber ==
    ASSUME NEW T \in SUBSET Nat, T # {}
    PROVE  \E n \in T : \A m \in T : n <= m
<1> DEFINE Below == {p \in Nat \X Nat : p[1] < p[2]}
<1>1. IsWellFoundedOn(Below, Nat)
  BY NatLessThanWellFounded DEF OpToRel
<1>2. PICK n \in T : \A m \in T : ~(<<m, n>> \in Below)
  BY <1>1, WFMin
<1>3. ASSUME NEW m \in T, m < n PROVE FALSE
  <2>1. <<m, n>> \in Nat \X Nat /\ <<m, n>>[1] < <<m, n>>[2]
    BY <1>3
  <2>2. <<m, n>> \in Below
    BY <2>1
  <2> QED  BY <1>2, <2>2
<1> QED
  BY <1>3

LEMMA InductionTo ==
    ASSUME NEW n \in Nat, NEW A, 0 \in A, \A i \in 1..n : i - 1 \in A => i \in A
    PROVE  0..n \subseteq A
<1> DEFINE T == {i \in 0..n : i \notin A}
<1> SUFFICES ASSUME T # {} PROVE FALSE
  OBVIOUS
<1>1. PICK i \in T : \A m \in T : i <= m
  <2>1. T \in SUBSET Nat
    OBVIOUS
  <2> HIDE DEF T
  <2> QED  BY <2>1, LeastNumber
<1>2. i \in 1..n /\ i - 1 \in 0..n /\ i - 1 < i
  BY <1>1
<1>3. i - 1 \in A
  BY <1>1, <1>2
<1> QED
  BY <1>1, <1>2, <1>3

\* A function defined by recursion over 0..n exists.
Unfolds(f, S, n, b, G) ==
    f \in [0..n -> S] /\ f[0] = b /\ \A i \in 1..n : f[i] = G[<<i, f[i - 1]>>]

LEMMA Recursion ==
    ASSUME NEW S, NEW n \in Nat, NEW b \in S, NEW G \in [(1..n) \X S -> S]
    PROVE  \E f : Unfolds(f, S, n, b, G)
<1> DEFINE Good(f, k) == f \in [0..n -> S] /\ f[0] = b /\ \A i \in 1..k : f[i] = G[<<i, f[i - 1]>>]
           A == {k \in 0..n : \E f : Good(f, k)}
<1>1. 0 \in A
  <2> DEFINE f == [i \in 0..n |-> b]
  <2>1. Good(f, 0)
    OBVIOUS
  <2> HIDE DEF f, Good
  <2> QED  BY <2>1
<1>2. ASSUME NEW k \in 1..n, k - 1 \in A PROVE k \in A
  <2>1. PICK f : Good(f, k - 1)
    BY <1>2
  <2> DEFINE g == [f EXCEPT ![k] = G[<<k, f[k - 1]>>]]
  <2>2. k \in 0..n /\ k - 1 \in 0..n /\ k # 0 /\ <<k, f[k - 1]>> \in (1..n) \X S
    BY <2>1
  <2>3. g \in [0..n -> S] /\ g[k] = G[<<k, f[k - 1]>>] /\ \A i \in 0..n : i # k => g[i] = f[i]
    BY <2>1, <2>2
  <2> HIDE DEF g
  <2>4. g[0] = b
    BY <2>1, <2>2, <2>3
  <2>5. ASSUME NEW i \in 1..k PROVE g[i] = G[<<i, g[i - 1]>>]
    <3>1. i - 1 \in 0..n /\ i - 1 # k /\ g[i - 1] = f[i - 1]
      BY <2>3
    <3>2. CASE i = k
      BY <2>3, <3>1, <3>2
    <3>3. CASE i # k
      <4>1. i \in 1..k - 1 /\ i \in 0..n
        BY <3>3
      <4>2. f[i] = G[<<i, f[i - 1]>>] /\ g[i] = f[i]
        BY <2>1, <2>3, <3>3, <4>1
      <4> QED  BY <3>1, <4>2
    <3> QED  BY <3>2, <3>3
  <2> QED  BY <2>3, <2>4, <2>5
<1> HIDE DEF A
<1>3. 0..n \subseteq A
  BY <1>1, <1>2, InductionTo
<1>4. n \in A
  BY <1>3
<1> QED
  BY <1>4 DEF A, Unfolds

-----------------------------------------------------------------------------
(***************************************************************************)
(* Numbers in bytes, and xor                                               *)
(***************************************************************************)
\* A row and a place in it are what division gives back.
LEMMA DivMod ==
    ASSUME NEW n \in Nat \ {0}, NEW a \in Nat, NEW b \in 0..n - 1
    PROVE  (a * n + b) \div n = a /\ (a * n + b) % n = b
BY SMT

\* Quotient and remainder, and what they were made of.
LEMMA DivModBack ==
    ASSUME NEW n \in Nat \ {0}, NEW k \in Nat
    PROVE  /\ k \div n \in Nat /\ k % n \in 0..n - 1
           /\ k = (k \div n) * n + (k % n)
<1>1. k % n \in 0..n - 1
  BY SMT
<1>2. k = (k \div n) * n + (k % n)
  BY SMT
<1>3. k \div n \in Nat
  BY SMT
<1> QED  BY <1>1, <1>2, <1>3

LEMMA SizeIs == Size \in Nat /\ Size >= 8 /\ Size <= 256 /\ 0 \in Byte /\ Byte \subseteq Nat
BY SizeAssumption DEF Byte

\* The recursive function is there, and its values.
LEMMA NumbersDef ==
    Numbers = [digits \in 0..4 |-> IF digits = 0 THEN 1 ELSE Size * Numbers[digits - 1]]
<1> DEFINE N(f) == f = [digits \in 0..4 |-> IF digits = 0 THEN 1 ELSE Size * f[digits - 1]]
           G == [p \in (1..4) \X Nat |-> Size * p[2]]
<1>1. G \in [(1..4) \X Nat -> Nat]
  BY SizeIs
<1>2. PICK f : Unfolds(f, Nat, 4, 1, G)
  <2> HIDE DEF G
  <2> QED  BY <1>1, Recursion
<1>3. \A i \in 1..4 : f[i] = Size * f[i - 1]
  BY <1>2 DEF Unfolds
<1>4. N(f)
  <2>1. f = [i \in 0..4 |-> f[i]]
    BY <1>2 DEF Unfolds
  <2>2. ASSUME NEW i \in 0..4 PROVE f[i] = IF i = 0 THEN 1 ELSE Size * f[i - 1]
    BY <1>2, <1>3 DEF Unfolds
  <2> QED  BY <2>1, <2>2
<1>5. N(Numbers)
  BY <1>4 DEF Numbers
<1> QED
  BY <1>5

LEMMA NumbersAre ==
    /\ Numbers[0] = 1 /\ Numbers[1] = Size /\ Numbers[2] = Size * Size
    /\ Numbers[3] = Size * (Size * Size) /\ Numbers[4] = Size * (Size * (Size * Size))
<1>1. ASSUME NEW d \in 0..4 PROVE Numbers[d] = IF d = 0 THEN 1 ELSE Size * Numbers[d - 1]
  BY NumbersDef
<1>2. Numbers[0] = 1
  BY <1>1
<1>3. Numbers[1] = Size * Numbers[0] /\ Numbers[2] = Size * Numbers[1]
  <2>1. 1 \in 0..4 /\ 2 \in 0..4 /\ 1 - 1 = 0 /\ 2 - 1 = 1
    OBVIOUS
  <2> QED  BY <1>1, <2>1
<1>4. Numbers[3] = Size * Numbers[2] /\ Numbers[4] = Size * Numbers[3]
  <2>1. 3 \in 0..4 /\ 4 \in 0..4 /\ 3 - 1 = 2 /\ 4 - 1 = 3
    OBVIOUS
  <2> QED  BY <1>1, <2>1
<1>5. Size * 1 = Size
  BY SizeIs
<1> QED
  BY <1>2, <1>3, <1>4, <1>5

LEMMA ByteOf ==
    ASSUME NEW bytes \in Seq(Byte), NEW i \in 1..Len(bytes)
    PROVE  bytes[i] \in Byte /\ bytes[i] \in Nat
<1>1. bytes[i] \in Byte
  BY ElementOfSeq
<1> QED
  BY <1>1, SizeIs

Reads(u, bytes) ==
    u = [d \in 0..Len(bytes) |-> IF d = 0 THEN 0 ELSE Size * u[d - 1] + bytes[d]]

\* What Number reads, as the function it goes through.
LEMMA NumberIs ==
    ASSUME NEW bytes \in Seq(Byte)
    PROVE  \E u : Reads(u, bytes) /\ Number(bytes) = u[Len(bytes)]
<1> DEFINE n == Len(bytes)
           G == [p \in (1..n) \X Nat |-> Size * p[2] + bytes[p[1]]]
           v == CHOOSE g : Reads(g, bytes)
<1>1. n \in Nat /\ \A i \in 1..n : bytes[i] \in Nat
  BY ByteOf
<1>2. G \in [(1..n) \X Nat -> Nat]
  <2> HIDE DEF n
  <2>1. ASSUME NEW p \in (1..n) \X Nat PROVE Size * p[2] + bytes[p[1]] \in Nat
    <3>1. p[2] \in Nat /\ bytes[p[1]] \in Nat
      BY <1>1
    <3>2. Size * p[2] \in Nat
      BY <3>1, SizeIs
    <3> QED  BY <3>1, <3>2
  <2> QED  BY <2>1
<1>3. PICK f : Unfolds(f, Nat, n, 0, G)
  <2> HIDE DEF G, n
  <2> QED  BY <1>1, <1>2, Recursion
<1>4. ASSUME NEW i \in 1..n PROVE f[i] = Size * f[i - 1] + bytes[i]
  <2>1. f[i] = G[<<i, f[i - 1]>>] /\ i - 1 \in 0..n /\ f \in [0..n -> Nat]
    <3> HIDE DEF G, n
    <3> QED  BY <1>1, <1>3 DEF Unfolds
  <2>2. <<i, f[i - 1]>> \in (1..n) \X Nat
    BY <2>1
  <2> QED  BY <2>1, <2>2
<1>5. Reads(f, bytes)
  <2>1. f = [i \in 0..n |-> f[i]]
    BY <1>3 DEF Unfolds
  <2>2. ASSUME NEW i \in 0..n PROVE f[i] = IF i = 0 THEN 0 ELSE Size * f[i - 1] + bytes[i]
    <3>1. i # 0 => i \in 1..n
      BY <1>1
    <3>2. f[0] = 0
      BY <1>3 DEF Unfolds
    <3> QED  BY <1>4, <3>1, <3>2
  <2> QED  BY <2>1, <2>2 DEF Reads
<1>6. Reads(v, bytes)
  BY <1>5
<1>7. Number(bytes) = v[Len(bytes)]
  BY DEF Number, Reads
<1> QED
  BY <1>6, <1>7

LEMMA NumberOfTwo ==
    ASSUME NEW bytes \in Seq(Byte), Len(bytes) = 2
    PROVE  Number(bytes) = Size * bytes[1] + bytes[2]
<1>1. PICK u : Reads(u, bytes) /\ Number(bytes) = u[Len(bytes)]
  BY NumberIs
<1>2. ASSUME NEW d \in 0..2 PROVE u[d] = IF d = 0 THEN 0 ELSE Size * u[d - 1] + bytes[d]
  BY <1>1 DEF Reads
<1>3. u[0] = 0 /\ u[1] = Size * u[0] + bytes[1] /\ u[2] = Size * u[1] + bytes[2]
  <2>1. 0 \in 0..2 /\ 1 \in 0..2 /\ 2 \in 0..2 /\ 1 - 1 = 0 /\ 2 - 1 = 1
    OBVIOUS
  <2> QED  BY <1>2, <2>1
<1>4. bytes[1] \in Nat /\ bytes[2] \in Nat
  BY ByteOf
<1> QED
  BY <1>1, <1>3, <1>4, SizeIs

LEMMA NumberOfFour ==
    ASSUME NEW bytes \in Seq(Byte), Len(bytes) = 4
    PROVE  Number(bytes) = Size * (Size * (Size * bytes[1] + bytes[2]) + bytes[3]) + bytes[4]
<1>1. PICK u : Reads(u, bytes) /\ Number(bytes) = u[Len(bytes)]
  BY NumberIs
<1>2. ASSUME NEW d \in 0..4 PROVE u[d] = IF d = 0 THEN 0 ELSE Size * u[d - 1] + bytes[d]
  BY <1>1 DEF Reads
<1>3. /\ u[0] = 0 /\ u[1] = Size * u[0] + bytes[1] /\ u[2] = Size * u[1] + bytes[2]
      /\ u[3] = Size * u[2] + bytes[3] /\ u[4] = Size * u[3] + bytes[4]
  <2>1. /\ 0 \in 0..4 /\ 1 \in 0..4 /\ 2 \in 0..4 /\ 1 - 1 = 0 /\ 2 - 1 = 1
        /\ 3 \in 0..4 /\ 4 \in 0..4 /\ 3 - 1 = 2 /\ 4 - 1 = 3
    OBVIOUS
  <2> QED  BY <1>2, <2>1
<1>4. bytes[1] \in Nat
  BY ByteOf
<1>5. u[1] = bytes[1]
  BY <1>3, <1>4, SizeIs
<1> QED
  BY <1>1, <1>3, <1>5

\* n without its last byte is the number of the bytes before it.
LEMMA Last ==
    ASSUME NEW n \in Nat, NEW m \in Nat \ {0}
    PROVE  /\ n \div (Size * m) \in Nat
           /\ n \div m = Size * (n \div (Size * m)) + ((n \div m) % Size)
           /\ n < Size * m => (n \div m) % Size = n \div m
<1> DEFINE a == n \div m
           S == Size
<1>1. S \in Nat \ {0} /\ S * m \in Nat \ {0}
  BY SizeAssumption
<1>2. a \in Nat
  BY DivModBack
<1>3. n \div (S * m) = a \div S
  BY <1>1
<1>4. (n % m) \in 0..m - 1 /\ n = a * m + (n % m)
  BY DivModBack
<1> HIDE DEF a
<1>5. /\ a \div S \in Nat /\ a % S \in 0..S - 1
      /\ a = (a \div S) * S + (a % S)
  BY <1>1, <1>2, DivModBack
<1> HIDE DEF S
<1>6. n < S * m => a < S
  <2> SUFFICES ASSUME n < S * m, a >= S PROVE FALSE
    BY <1>1, <1>2
  <2> DEFINE d == a - S
  <2>1. d \in Nat /\ a = S + d
    BY <1>1, <1>2
  <2> HIDE DEF d
  <2>2. a * m = S * m + d * m /\ d * m \in Nat
    BY <1>1, <2>1
  <2> QED  BY <1>1, <1>4, <2>2
<1>7. a < S => a % S = a
  BY <1>1, <1>2
<1>8. a = S * (a \div S) + (a % S)
  BY <1>1, <1>5
<1>9. n \div (S * m) \in Nat
  BY <1>3, <1>5
<1>10. a = S * (n \div (S * m)) + (a % S)
  BY <1>3, <1>8
<1>11. n < S * m => a % S = a
  BY <1>6, <1>7
<1> USE DEF a, S
<1> QED
  BY <1>9, <1>10, <1>11

\* Digits in the base of a byte are bytes, whether or not the number fits them.
LEMMA UIntIs ==
    ASSUME NEW n \in Nat, NEW digits \in {2, 4}
    PROVE  UInt(n, digits) \in Seq(Byte) /\ Len(UInt(n, digits)) = digits
<1> DEFINE bytes == UInt(n, digits)
<1>1. bytes = [d \in 1..digits |-> (n \div Numbers[digits - d]) % Size]
  BY DEF UInt
<1>2. ASSUME NEW d \in 1..digits PROVE (n \div Numbers[digits - d]) % Size \in Byte
  <2>1. digits - d \in {0, 1, 2, 3}
    OBVIOUS
  <2>2. Numbers[digits - d] \in Nat \ {0}
    <3>1. Size * Size \in Nat \ {0} /\ Size * (Size * Size) \in Nat \ {0}
      BY SizeAssumption
    <3> QED  BY <2>1, <3>1, NumbersAre, SizeIs
  <2> DEFINE m == n \div Numbers[digits - d]
  <2>3. m \in Nat
    BY <2>2, DivModBack
  <2> HIDE DEF m
  <2>4. m % Size \in 0..Size - 1
    BY <2>3, SizeIs
  <2> QED  BY <2>4 DEF m, Byte
<1> HIDE DEF bytes
<1>3. bytes \in Seq(Byte) /\ Len(bytes) = digits
  BY <1>1, <1>2
<1> QED
  BY <1>3 DEF bytes

\* A number that fits its bytes is read as it was written.
LEMMA Written ==
    ASSUME NEW n \in Nat, NEW digits \in {2, 4}, FitsIn(n, digits)
    PROVE  /\ UInt(n, digits) \in Seq(Byte) /\ Len(UInt(n, digits)) = digits
           /\ Number(UInt(n, digits)) = n
<1> DEFINE bytes == UInt(n, digits)
<1>1. bytes = [d \in 1..digits |-> (n \div Numbers[digits - d]) % Size]
  BY DEF UInt
<1>3. bytes \in Seq(Byte) /\ Len(bytes) = digits
  BY UIntIs
<1> HIDE DEF bytes
<1>4. CASE digits = 2
  <2>1. bytes[1] = (n \div Numbers[1]) % Size /\ bytes[2] = (n \div Numbers[0]) % Size
    BY <1>1, <1>4
  <2>2. bytes[1] = (n \div Size) % Size /\ bytes[2] = n % Size
    BY <2>1, NumbersAre
  <2>3. n < Size * Size
    BY <1>4, NumbersAre DEF FitsIn
  <2>4. Size * ((n \div Size) % Size) + (n % Size) = n
    <3>1. n \div 1 = n /\ Size * 1 = Size
      BY SizeIs
    <3>2. 1 \in Nat \ {0} /\ Size \in Nat \ {0}
      BY SizeAssumption
    <3>3. n = Size * (n \div Size) + (n % Size)
      BY <3>1, <3>2, Last
    <3>4. (n \div Size) % Size = n \div Size
      BY <2>3, <3>2, Last
    <3> QED  BY ONLY <3>3, <3>4
  <2>5. Number(bytes) = Size * bytes[1] + bytes[2]
    BY <1>3, <1>4, NumberOfTwo
  <2> DEFINE x == (n \div Size) % Size
             y == n % Size
  <2>6. bytes[1] = x /\ bytes[2] = y /\ Size * x + y = n
    BY <2>2, <2>4
  <2> HIDE DEF x, y
  <2>7. Number(bytes) = n
    BY <2>5, <2>6
  <2> QED  BY <1>3, <2>7 DEF bytes
<1>5. CASE digits = 4
  <2>1. /\ bytes[1] = (n \div Numbers[3]) % Size /\ bytes[2] = (n \div Numbers[2]) % Size
        /\ bytes[3] = (n \div Numbers[1]) % Size /\ bytes[4] = (n \div Numbers[0]) % Size
    BY <1>1, <1>5
  <2>2. /\ bytes[1] = (n \div (Size * (Size * Size))) % Size
        /\ bytes[2] = (n \div (Size * Size)) % Size
        /\ bytes[3] = (n \div Size) % Size /\ bytes[4] = n % Size
    BY <2>1, NumbersAre
  <2>3. n < Size * (Size * (Size * Size))
    BY <1>5, NumbersAre DEF FitsIn
  <2>4. Size * (Size * (Size * ((n \div (Size * (Size * Size))) % Size)
                        + ((n \div (Size * Size)) % Size))
                + ((n \div Size) % Size)) + (n % Size) = n
    <3>1. n \div 1 = n /\ Size * 1 = Size
      BY SizeIs
    <3>2. 1 \in Nat \ {0} /\ Size \in Nat \ {0} /\ Size * Size \in Nat \ {0}
          /\ Size * (Size * Size) \in Nat \ {0}
      BY SizeAssumption
    <3>3. n = Size * (n \div Size) + (n % Size)
      BY <3>1, <3>2, Last
    <3>4. n \div Size = Size * (n \div (Size * Size)) + ((n \div Size) % Size)
      BY <3>2, Last
    <3>5. n \div (Size * Size) = Size * (n \div (Size * (Size * Size)))
                                + ((n \div (Size * Size)) % Size)
      BY <3>2, Last
    <3>6. (n \div (Size * (Size * Size))) % Size = n \div (Size * (Size * Size))
      BY <2>3, <3>2, Last
    <3> QED  BY ONLY <3>3, <3>4, <3>5, <3>6
  <2>5. Number(bytes) = Size * (Size * (Size * bytes[1] + bytes[2]) + bytes[3]) + bytes[4]
    BY <1>3, <1>5, NumberOfFour
  <2> DEFINE x == (n \div (Size * (Size * Size))) % Size
             y == (n \div (Size * Size)) % Size
             z == (n \div Size) % Size
             last == n % Size
  <2>6. /\ bytes[1] = x /\ bytes[2] = y /\ bytes[3] = z /\ bytes[4] = last
        /\ Size * (Size * (Size * x + y) + z) + last = n
    BY <2>2, <2>4
  <2> HIDE DEF x, y, z, last
  <2>7. Number(bytes) = n
    BY <2>5, <2>6
  <2> QED  BY <1>3, <2>7 DEF bytes
<1> QED
  BY <1>4, <1>5

-----------------------------------------------------------------------------
(***************************************************************************)
(* Exclusive or: defined bit by bit, and its own inverse                   *)
(***************************************************************************)
Row(f, a) == [b \in Byte |-> IF a = 0 THEN b ELSE ((a + b) % 2) + 2 * f[a \div 2][b \div 2]]
Folded(f, k) == f = [a \in 0..k |-> Row(f, a)]

\* The recursion of xor goes to halves, which are below.
LEMMA XorDef == Folded(xor, Size - 1)
<1> DEFINE A == {k \in 0..Size - 1 : \E f : Folded(f, k)}
<1>1. 0 \in A
  <2> DEFINE f == [a \in 0..0 |-> [b \in Byte |-> b]]
  <2>1. Folded(f, 0)
    BY DEF Folded, Row
  <2> HIDE DEF f
  <2> QED  BY <2>1, SizeIs
<1>2. ASSUME NEW k \in 1..Size - 1, k - 1 \in A PROVE k \in A
  <2>1. PICK f : Folded(f, k - 1)
    BY <1>2
  <2> DEFINE g == [a \in 0..k |-> Row(f, a)]
  <2>2. \A a \in 0..k - 1 : g[a] = f[a]
    BY <2>1 DEF Folded
  <2>3. ASSUME NEW a \in 0..k PROVE Row(f, a) = Row(g, a)
    <3>1. a # 0 => a \div 2 \in 0..k - 1
      OBVIOUS
    <3> HIDE DEF g
    <3> QED  BY <2>2, <3>1 DEF Row
  <2>4. Folded(g, k)
    BY <2>3 DEF Folded
  <2> HIDE DEF g
  <2> QED  BY <1>2, <2>4
<1> HIDE DEF A
<1>3. 0..Size - 1 \subseteq A
  <2>1. Size - 1 \in Nat
    BY SizeIs
  <2> QED  BY <1>1, <1>2, <2>1, InductionTo
<1>4. Size - 1 \in A
  BY <1>3, SizeIs
<1>5. \E f : Folded(f, Size - 1)
  BY <1>4 DEF A
<1> QED
  BY <1>5 DEF xor, Folded, Row, Byte

LEMMA XorStep ==
    ASSUME NEW a \in Byte, NEW b \in Byte
    PROVE  xor[a][b] = IF a = 0 THEN b ELSE ((a + b) % 2) + 2 * xor[a \div 2][b \div 2]
<1>1. xor[a] = Row(xor, a)
  BY XorDef DEF Folded, Byte
<1> QED
  BY <1>1 DEF Row

\* One bit, and the rest.
LEMMA XorBits ==
    ASSUME NEW a \in Byte, NEW b \in Byte
    PROVE  /\ a \div 2 \in Byte /\ b \div 2 \in Byte
           /\ xor[a][b] = ((a + b) % 2) + 2 * xor[a \div 2][b \div 2]
<1>1. a \in Nat /\ b \in Nat /\ a < Size /\ b < Size /\ Size \in Nat /\ 0 \in Byte
  BY SizeIs DEF Byte
<1>2. a \div 2 \in 0..Size - 1 /\ b \div 2 \in 0..Size - 1
  BY <1>1
<1>3. a \div 2 \in Byte /\ b \div 2 \in Byte
  BY <1>2 DEF Byte
<1>4. CASE a = 0
  <2>1. a \div 2 = 0 /\ ((a + b) % 2) + 2 * (b \div 2) = b
    BY <1>1, <1>4
  <2>2. xor[a][b] = b /\ xor[0][b \div 2] = b \div 2
    BY <1>1, <1>3, <1>4, XorStep
  <2> QED  BY <1>3, <2>1, <2>2
<1>5. CASE a # 0
  BY <1>3, <1>5, XorStep
<1> QED
  BY <1>4, <1>5

\* What holds below one, and with any range below one twice as large, holds for a byte.
LEMMA Ladder ==
    ASSUME NEW A \in SUBSET Nat, 1 \in A, \A m \in A : 0 < m /\ 2 * m <= Size => 2 * m \in A
    PROVE  Size \in A
<1>1. ASSUME NEW m \in A, 0 < m, 2 * m <= Size PROVE 2 * m \in A
  BY <1>1
<1>2. 2 \in A /\ 4 \in A /\ 8 \in A
  <2>1. 2 \in A
    <3>1. 2 * 1 = 2 /\ 2 * 1 <= Size
      BY SizeIs
    <3> QED  BY <1>1, <3>1
  <2>2. 4 \in A
    <3>1. 2 * 2 = 4 /\ 2 * 2 <= Size
      BY SizeIs
    <3> QED  BY <1>1, <2>1, <3>1
  <2>3. 8 \in A
    <3>1. 2 * 4 = 8 /\ 2 * 4 <= Size
      BY SizeIs
    <3> QED  BY <1>1, <2>2, <3>1
  <2> QED  BY <2>1, <2>2, <2>3
<1>3. ASSUME NEW m \in {8, 16, 32, 64, 128}, m \in A, m < Size PROVE 2 * m \in A
  <2>1. 0 < m /\ 2 * m <= Size
    BY <1>3, SizeAssumption
  <2> QED  BY <1>1, <1>3, <2>1
<1>4. 8 < Size => 16 \in A
  <2>1. 2 * 8 = 16
    OBVIOUS
  <2> QED  BY <1>2, <1>3, <2>1
<1>5. 16 < Size => 32 \in A
  <2>1. 2 * 16 = 32 /\ (16 < Size => 8 < Size)
    BY SizeIs
  <2> QED  BY <1>3, <1>4, <2>1
<1>6. 32 < Size => 64 \in A
  <2>1. 2 * 32 = 64 /\ (32 < Size => 16 < Size)
    BY SizeIs
  <2> QED  BY <1>3, <1>5, <2>1
<1>7. 64 < Size => 128 \in A
  <2>1. 2 * 64 = 128 /\ (64 < Size => 32 < Size)
    BY SizeIs
  <2> QED  BY <1>3, <1>6, <2>1
<1>8. 128 < Size => 256 \in A
  <2>1. 2 * 128 = 256 /\ (128 < Size => 64 < Size)
    BY SizeIs
  <2> QED  BY <1>3, <1>7, <2>1
<1>9. 8 < 16 /\ 16 < 32 /\ 32 < 64 /\ 64 < 128 /\ 128 < 256
  OBVIOUS
<1> QED
  BY <1>2, <1>4, <1>5, <1>6, <1>7, <1>8, <1>9, SizeAssumption

\* Below m the second number takes the first one back.
XorBelow(m) ==
    \A a, b \in Byte : a < m /\ b < m => xor[a][b] \in 0..m - 1 /\ xor[xor[a][b]][b] = a

\* One bit more of both.
LEMMA XorDoubles ==
    ASSUME NEW m \in Nat \ {0}, 2 * m <= Size, XorBelow(m)
    PROVE  XorBelow(2 * m)
<1> SUFFICES ASSUME NEW a \in Byte, NEW b \in Byte, a < 2 * m, b < 2 * m
             PROVE  xor[a][b] \in 0..2 * m - 1 /\ xor[xor[a][b]][b] = a
  BY DEF XorBelow
<1> DEFINE x == a \div 2
           y == b \div 2
           z == xor[x][y]
           c == xor[a][b]
<1>1. a \in Nat /\ b \in Nat /\ x \in Byte /\ y \in Byte /\ x \in Nat /\ y \in Nat
      /\ x < m /\ y < m /\ a = 2 * x + (a % 2) /\ a % 2 \in {0, 1}
      /\ b = 2 * y + (b % 2) /\ b % 2 \in {0, 1}
  <2>1. a \in Nat /\ b \in Nat
    BY DEF Byte
  <2> QED  BY <2>1, XorBits
<1> HIDE DEF x, y
<1>2. z \in 0..m - 1 /\ xor[z][y] = x
  BY <1>1 DEF XorBelow
<1>3. c = ((a + b) % 2) + 2 * z
  BY XorBits DEF x, y
<1> HIDE DEF z, c
<1>4. c \in 0..2 * m - 1 /\ c \div 2 = z /\ c \in Byte
  <2>1. (a + b) % 2 \in {0, 1} /\ z \in Nat /\ z <= m - 1
    BY <1>1, <1>2
  <2> DEFINE r == (a + b) % 2
  <2> HIDE DEF r
  <2>2. c = r + 2 * z /\ r \in {0, 1}
    BY <1>3, <2>1 DEF r
  <2> QED  BY <2>1, <2>2, SizeIs DEF Byte
<1>5. xor[c][b] = ((c + b) % 2) + 2 * xor[z][y]
  <2>1. xor[c][b] = ((c + b) % 2) + 2 * xor[c \div 2][b \div 2]
    BY <1>4, XorBits
  <2> QED  BY <1>4, <2>1 DEF y
<1>6. (c + b) % 2 = a % 2
  <2>1. z \in Nat
    BY <1>2
  <2> QED  BY <1>1, <1>3, <2>1
<1>7. xor[c][b] = a
  BY <1>1, <1>2, <1>5, <1>6
<1> QED
  BY <1>4, <1>7 DEF c

\* The mask is its own way back.
LEMMA XorTwice ==
    ASSUME NEW a \in Byte, NEW b \in Byte
    PROVE  xor[a][b] \in Byte /\ xor[xor[a][b]][b] = a
<1>1. XorBelow(1)
  <2> SUFFICES ASSUME NEW i \in Byte, NEW j \in Byte, i < 1, j < 1
               PROVE  xor[i][j] \in 0..1 - 1 /\ xor[xor[i][j]][j] = i
    BY DEF XorBelow
  <2>1. i = 0 /\ j = 0
    BY DEF Byte
  <2>2. xor[0][0] = 0
    BY SizeIs, XorStep
  <2> QED  BY <2>1, <2>2
<1> DEFINE A == {m \in Nat : 0 < m /\ m <= Size /\ XorBelow(m)}
<1>2. 1 \in A /\ A \in SUBSET Nat
  BY <1>1, SizeIs
<1>3. ASSUME NEW m \in A, 0 < m, 2 * m <= Size PROVE 2 * m \in A
  <2>1. m \in Nat \ {0} /\ XorBelow(m)
    OBVIOUS
  <2>2. XorBelow(2 * m)
    BY <1>3, <2>1, XorDoubles
  <2> QED  BY <1>3, <2>1, <2>2
<1> HIDE DEF A
<1>4. XorBelow(Size)
  <2>1. Size \in A
    BY <1>2, <1>3, Ladder
  <2> QED  BY <2>1 DEF A
<1>5. a < Size /\ b < Size
  BY SizeIs DEF Byte
<1> QED
  BY <1>4, <1>5 DEF XorBelow, Byte
-----------------------------------------------------------------------------
(***************************************************************************)
(* Joining and taking apart; the two masks                                 *)
(***************************************************************************)
\* What is joined comes apart again: x is a and then b.
Halves(x, a, b) ==
    /\ x \in Seq(Byte) /\ Len(x) = Len(a) + Len(b)
    /\ First(x, Len(a)) = a /\ After(x, Len(a)) = b

LEMMA SplitTwo ==
    ASSUME NEW a \in Seq(Byte), NEW b \in Seq(Byte)
    PROVE  Halves(a \o b, a, b)
<1> DEFINE n == Len(a)
           m == Len(b)
           c == a \o b
<1>1. /\ n \in Nat /\ m \in Nat /\ c \in Seq(Byte) /\ Len(c) = n + m
      /\ \A i \in 1..n : c[i] = a[i]
      /\ \A i \in 1..m : c[n + i] = b[i]
  OBVIOUS
<1>2. a = [i \in 1..n |-> a[i]] /\ b = [i \in 1..m |-> b[i]]
  OBVIOUS
<1> HIDE DEF c, n, m
<1>3. SubSeq(c, 1, n) = a
  <2>1. SubSeq(c, 1, n) = [i \in 1..n |-> c[i]]
    BY <1>1
  <2> QED  BY <1>1, <1>2, <2>1
<1>4. SubSeq(c, n + 1, Len(c)) = b
  <2>1. SubSeq(c, n + 1, n + m) = [i \in 1..m |-> c[n + i]]
    BY <1>1
  <2> QED  BY <1>1, <1>2, <2>1
<1> QED
  BY <1>1, <1>3, <1>4 DEF Halves, First, After, c, n, m

\* What undoes a layer takes every byte back to its place.
LEMMA Mapped ==
    ASSUME NEW S, NEW n \in Nat, NEW f, f = [i \in 1..n |-> f[i]], \A i \in 1..n : f[i] \in S
    PROVE  f \in Seq(S) /\ Len(f) = n
OBVIOUS

LEMMA KeyByteIs ==
    ASSUME NEW key \in Seq(Byte), key # <<>>, NEW i \in Nat \ {0}
    PROVE  KeyByte(key, i) \in Byte
<1>1. Len(key) \in Nat \ {0} /\ ((i - 1) % Len(key)) + 1 \in 1..Len(key)
  BY SMT
<1> QED
  BY <1>1 DEF KeyByte

\* A mask put on twice is off, for every key and data of every length.
LEMMA TorchTurnsBack ==
    ASSUME NEW key \in Seq(Byte), key # <<>>, NEW data \in Seq(Byte)
    PROVE  /\ torchMask(data, key) \in Seq(Byte) /\ Len(torchMask(data, key)) = Len(data)
           /\ torchMask(torchMask(data, key), key) = data
<1> DEFINE n == Len(data)
           out == torchMask(data, key)
<1>1. n \in Nat /\ data = [i \in 1..n |-> data[i]]
  OBVIOUS
<1>2. out = [i \in 1..n |-> xor[data[i]][KeyByte(key, i)]]
  BY DEF torchMask
<1>3. ASSUME NEW i \in 1..n
      PROVE  /\ out[i] = xor[data[i]][KeyByte(key, i)] /\ out[i] \in Byte
             /\ xor[out[i]][KeyByte(key, i)] = data[i]
  <2>1. data[i] \in Byte /\ KeyByte(key, i) \in Byte
    BY ElementOfSeq, KeyByteIs
  <2>2. out[i] = xor[data[i]][KeyByte(key, i)]
    BY <1>2
  <2> QED  BY <2>1, <2>2, XorTwice
<1> HIDE DEF out
<1>4. out \in Seq(Byte) /\ Len(out) = n
  BY <1>1, <1>2, <1>3, Mapped
<1>5. torchMask(out, key) = data
  <2>1. torchMask(out, key) = [i \in 1..n |-> xor[out[i]][KeyByte(key, i)]]
    BY <1>4 DEF torchMask
  <2> QED  BY <1>1, <1>3, <2>1
<1> QED
  BY <1>4, <1>5 DEF out

VeilByte(key, i) == xor[KeyByte(key, i)][((i - 1) * TcapAnchor + key[1]) % Size]

LEMMA VeilTurnsBack ==
    ASSUME NEW key \in Seq(Byte), key # <<>>, NEW data \in Seq(Byte)
    PROVE  /\ occultVeilTransform(data, key) \in Seq(Byte)
           /\ Len(occultVeilTransform(data, key)) = Len(data)
           /\ occultVeilTransform(occultVeilTransform(data, key), key) = data
<1> DEFINE n == Len(data)
           out == occultVeilTransform(data, key)
<1>1. n \in Nat /\ data = [i \in 1..n |-> data[i]]
  OBVIOUS
<1>2. out = [i \in 1..n |-> xor[data[i]][VeilByte(key, i)]]
  BY DEF occultVeilTransform, VeilByte
<1>3. ASSUME NEW i \in 1..n
      PROVE  /\ out[i] = xor[data[i]][VeilByte(key, i)] /\ out[i] \in Byte
             /\ xor[out[i]][VeilByte(key, i)] = data[i]
  <2>1. data[i] \in Byte /\ KeyByte(key, i) \in Byte
    BY ElementOfSeq, KeyByteIs
  <2>2. ((i - 1) * TcapAnchor + key[1]) % Size \in Byte
    <3>1. 1 \in 1..Len(key)
      OBVIOUS
    <3>2. key[1] \in Nat /\ (i - 1) * TcapAnchor \in Nat
      BY <3>1, ByteOf, StackAssumption
    <3> DEFINE x == (i - 1) * TcapAnchor + key[1]
    <3>3. x \in Nat
      BY <3>2
    <3> HIDE DEF x
    <3>4. x % Size \in 0..Size - 1
      BY <3>3, SizeIs
    <3> QED  BY <3>4 DEF x, Byte
  <2>3. VeilByte(key, i) \in Byte
    BY <2>1, <2>2, XorTwice DEF VeilByte
  <2>4. out[i] = xor[data[i]][VeilByte(key, i)]
    BY <1>2
  <2> QED  BY <2>1, <2>3, <2>4, XorTwice
<1> HIDE DEF out
<1>4. out \in Seq(Byte) /\ Len(out) = n
  BY <1>1, <1>2, <1>3, Mapped
<1>5. occultVeilTransform(out, key) = data
  <2>1. occultVeilTransform(out, key) = [i \in 1..n |-> xor[out[i]][VeilByte(key, i)]]
    BY <1>4 DEF occultVeilTransform, VeilByte
  <2> QED  BY <1>1, <1>3, <2>1
<1> QED
  BY <1>4, <1>5 DEF out
-----------------------------------------------------------------------------
(***************************************************************************)
(* The rotation                                                            *)
(***************************************************************************)
LEMMA ShiftInRange ==
    ASSUME NEW key \in Seq(Byte), key # <<>>, NEW i \in Nat \ {0}
    PROVE  Shift(key, i) \in 1..Size \div 2 - 1
<1>1. Len(key) \in Nat \ {0} /\ ((i - 1) % Len(key)) + 1 \in 1..Len(key)
  BY SMT
<1>2. KeyByte(key, i) \in Byte
  BY <1>1 DEF KeyByte
<1>3. ASSUME NEW b \in Byte PROVE 1 + (b % (Size \div 2 - 1)) \in 1..Size \div 2 - 1
  BY SizeAssumption, SMT DEF Byte
<1> QED  BY <1>2, <1>3 DEF Shift

LEMMA ShiftAndBack ==
    ASSUME NEW b \in Byte, NEW s \in 1..Size \div 2 - 1
    PROVE  /\ (b + s) % Size \in Byte
           /\ (((b + s) % Size) - s + Size) % Size = b
BY SizeAssumption, SMT DEF Byte

\* The rotation is undone: for every key and every data, whatever byte the shift takes
\* past the end comes back.
THEOREM AugustanTurnsBack ==
    ASSUME NEW key \in Seq(Byte), key # <<>>, NEW data \in Seq(Byte)
    PROVE  /\ augustanEncipher(data, key) \in Seq(Byte)
           /\ Len(augustanEncipher(data, key)) = Len(data)
           /\ augustanDecipher(augustanEncipher(data, key), key) = data
<1> DEFINE out == augustanEncipher(data, key)
           back == augustanDecipher(out, key)
<1>1. Len(data) \in Nat /\ data = [i \in 1..Len(data) |-> data[i]]
  BY SMT
<1>2. out = [i \in 1..Len(data) |-> (data[i] + Shift(key, i)) % Size]
  BY DEF augustanEncipher
<1>3. ASSUME NEW i \in 1..Len(data) PROVE out[i] = (data[i] + Shift(key, i)) % Size /\ out[i] \in Byte
  <2>1. data[i] \in Byte /\ i \in Nat \ {0}
    BY <1>1
  <2> QED  BY <1>2, <2>1, ShiftInRange, ShiftAndBack
<1>4. out \in Seq(Byte) /\ Len(out) = Len(data)
  BY <1>1, <1>2, <1>3
<1>5. back = [i \in 1..Len(data) |-> (out[i] - Shift(key, i) + Size) % Size]
  BY <1>4 DEF augustanDecipher
<1> HIDE DEF out, back
<1>6. ASSUME NEW i \in 1..Len(data) PROVE (out[i] - Shift(key, i) + Size) % Size = data[i]
  <2>1. data[i] \in Byte /\ i \in Nat \ {0}
    BY <1>1
  <2>2. Shift(key, i) \in 1..Size \div 2 - 1
    BY <2>1, ShiftInRange
  <2>3. (((data[i] + Shift(key, i)) % Size) - Shift(key, i) + Size) % Size = data[i]
    BY <2>1, <2>2, ShiftAndBack
  <2>4. out[i] = (data[i] + Shift(key, i)) % Size
    BY <1>3
  <2> QED  BY <2>3, <2>4
<1>7. back = [i \in 1..Len(data) |-> data[i]]
  BY <1>5, <1>6
<1> QED  BY <1>1, <1>4, <1>7 DEF back, out

-----------------------------------------------------------------------------
(***************************************************************************)
(* The scytale                                                             *)
(***************************************************************************)
LEMMA RowsHold ==
    ASSUME NEW length \in Nat, NEW columns \in Nat \ {0}
    PROVE  Rows(length, columns) \in Nat /\ length <= Rows(length, columns) * columns
<1> DEFINE k == length + columns - 1
<1>1. k \in Nat
  OBVIOUS
<1>2. Rows(length, columns) = k \div columns
  BY DEF Rows
<1> HIDE DEF k
<1>3. /\ k \div columns \in Nat /\ k % columns \in 0..columns - 1
      /\ k = (k \div columns) * columns + (k % columns)
  BY <1>1, DivModBack
<1>4. (k \div columns) * columns \in Nat
  BY <1>3
<1> QED  BY <1>1, <1>2, <1>3, <1>4 DEF k

\* The scytale is undone: data of any length, wound on a rod of any number of columns,
\* is read off as it was written, without the zeros that filled its last row.
THEOREM ScytaleTurnsBack ==
    ASSUME NEW data \in Seq(Byte), NEW columns \in Nat \ {0}
    PROVE  Restored(Transposed(data, columns), Len(data), columns) = data
<1> DEFINE n == Len(data)
           rows == Rows(n, columns)
           body == Transposed(data, columns)
<1>1. n \in Nat /\ data = [i \in 1..n |-> data[i]]
  BY SMT
<1>2. rows \in Nat /\ n <= rows * columns
  BY <1>1, RowsHold
<1>3. ASSUME NEW i \in 1..n
      PROVE  body[((i - 1) % columns) * rows + (i - 1) \div columns + 1] = data[i]
  <2> DEFINE k == i - 1
             q == k \div columns
             r == k % columns
             m == r * rows + q
  <2>1. k \in Nat /\ k < n /\ q \in Nat /\ r \in 0..columns - 1 /\ k = q * columns + r
    BY <1>1, DivModBack
  <2> HIDE DEF k, q, r, m, n, rows, body
  <2>2. q < rows /\ rows \in Nat \ {0}
    <3>1. q * columns \in Nat /\ rows * columns \in Nat /\ n \in Nat
      BY <1>1, <1>2, <2>1
    <3>2. q * columns < rows * columns
      BY <1>2, <2>1, <3>1
    <3> QED  BY <1>2, <2>1, <3>2
  <2>3. m \div rows = r /\ m % rows = q
    BY <2>1, <2>2, DivMod DEF m
  <2>4. m \in Nat /\ m + 1 \in 1..rows * columns
    <3>1. (r + 1) * rows <= columns * rows
      BY <2>1, <2>2
    <3>2. (r + 1) * rows = r * rows + rows /\ columns * rows = rows * columns /\ r * rows \in Nat
      BY <2>1, <2>2
    <3> QED  BY <2>1, <2>2, <3>1, <3>2 DEF m
  <2>5. body = [x \in 1..rows * columns |->
                  Padded(data, ((x - 1) % rows) * columns + (x - 1) \div rows)]
    BY DEF body, Transposed, rows, n
  <2>6. body[m + 1] = Padded(data, (m % rows) * columns + m \div rows)
    <3>1. (m + 1) - 1 = m
      BY <2>4
    <3> QED  BY <2>4, <2>5, <3>1
  <2>7. body[m + 1] = data[k + 1]
    BY <2>1, <2>3, <2>6 DEF Padded, n
  <2> QED  BY <2>7 DEF m, k, q, r, rows
<1>4. Restored(body, n, columns) =
        [i \in 1..n |-> body[((i - 1) % columns) * rows + (i - 1) \div columns + 1]]
  BY DEF Restored
<1> HIDE DEF n, rows, body
<1>5. Restored(body, n, columns) = [i \in 1..n |-> data[i]]
  BY <1>3, <1>4
<1> QED  BY <1>1, <1>5 DEF n, body

\* What is written on the rod is bytes, in full rows.
LEMMA TransposedIs ==
    ASSUME NEW data \in Seq(Byte), NEW columns \in Nat \ {0}
    PROVE  /\ Transposed(data, columns) \in Seq(Byte)
           /\ Len(Transposed(data, columns)) = Rows(Len(data), columns) * columns
<1> DEFINE n == Rows(Len(data), columns) * columns
           rows == Rows(Len(data), columns)
           out == Transposed(data, columns)
           at(i) == ((i - 1) % rows) * columns + (i - 1) \div rows
<1>1. Len(data) \in Nat /\ rows \in Nat /\ n \in Nat
  <2>1. Len(data) \in Nat
    OBVIOUS
  <2>2. rows \in Nat
    BY <2>1, RowsHold
  <2> QED  BY <2>1, <2>2
<1>2. out = [i \in 1..n |-> Padded(data, at(i))]
  BY DEF Transposed
<1>3. ASSUME NEW i \in 1..n PROVE Padded(data, at(i)) \in Byte
  <2>1. rows \in Nat \ {0}
    BY <1>1
  <2> HIDE DEF rows, n
  <2>2. (i - 1) \div rows \in Nat /\ (i - 1) % rows \in 0..rows - 1
    <3>1. i - 1 \in Nat
      BY <1>1
    <3> QED  BY <2>1, <3>1, DivModBack
  <2>3. ((i - 1) % rows) * columns \in Nat
    BY <2>1, <2>2
  <2>4. at(i) \in Nat
    BY <2>2, <2>3
  <2> DEFINE k == at(i)
  <2> HIDE DEF k
  <2>5. Padded(data, k) \in Byte
    <3>1. k \in Nat
      BY <2>4 DEF k
    <3>2. CASE k < Len(data)
      <4>1. k + 1 \in 1..Len(data)
        BY <1>1, <3>1, <3>2
      <4> QED  BY <3>2, <4>1, ByteOf DEF Padded
    <3>3. CASE ~(k < Len(data))
      BY <3>3, SizeIs DEF Padded
    <3> QED  BY <3>2, <3>3
  <2> QED  BY <2>5 DEF k
<1> HIDE DEF at, n, rows, out
<1>4. out = [i \in 1..n |-> out[i]] /\ \A i \in 1..n : out[i] \in Byte
  BY <1>2, <1>3
<1>5. out \in Seq(Byte) /\ Len(out) = n
  BY <1>1, <1>4, Mapped
<1> QED
  BY <1>5 DEF out, n

\* A record whose length fits its four bytes comes off the rod as it was wound.
LEMMA ScytaleUndone ==
    ASSUME NEW data \in Seq(Byte), NEW columns \in Nat, FitsIn(Len(data), 4)
    PROVE  /\ scytaleEncipher(data, columns) \in Seq(Byte)
           /\ scytaleDecipher(scytaleEncipher(data, columns), columns) = data
<1> DEFINE n == Len(data)
           body == IF columns < 2 THEN data ELSE Transposed(data, columns)
           head == UInt(n, 4)
           out == head \o body
<1>1. n \in Nat
  OBVIOUS
<1>2. head \in Seq(Byte) /\ Len(head) = 4 /\ Number(head) = n
  BY <1>1, Written
<1>3. body \in Seq(Byte)
      /\ (~(columns < 2) => Len(body) = Rows(n, columns) * columns)
  <2>1. CASE columns < 2
    BY <2>1
  <2>2. CASE ~(columns < 2)
    <3>1. columns \in Nat \ {0} /\ body = Transposed(data, columns)
      BY <2>2
    <3> HIDE DEF body
    <3> QED  BY <3>1, TransposedIs
  <2> QED  BY <2>1, <2>2
<1>4. scytaleEncipher(data, columns) = out
  BY DEF scytaleEncipher
<1> HIDE DEF head, body, n
<1>5. out \in Seq(Byte) /\ Len(out) = 4 + Len(body) /\ First(out, 4) = head /\ After(out, 4) = body
  <2>1. Halves(out, head, body)
    BY <1>2, <1>3, SplitTwo
  <2> QED  BY <1>2, <2>1 DEF Halves
<1> HIDE DEF out
<1>6. Len(body) \in Nat /\ ~(Len(out) < 4)
  BY <1>3, <1>5
<1>7. CASE columns < 2
  <2>1. body = data
    BY <1>7 DEF body
  <2>2. scytaleDecipher(out, columns) = First(data, n)
    BY <1>2, <1>5, <1>6, <1>7, <2>1 DEF scytaleDecipher
  <2>3. First(data, n) = data
    <3>1. data = [i \in 1..Len(data) |-> data[i]]
      OBVIOUS
    <3> QED  BY <3>1 DEF First, n
  <2> QED  BY <1>4, <1>5, <2>2, <2>3
<1>8. CASE ~(columns < 2)
  <2>1. body = Transposed(data, columns) /\ Restored(body, n, columns) = data
    BY <1>8, ScytaleTurnsBack DEF body, n
  <2>2. ~(Len(body) < Rows(n, columns) * columns)
    <3>1. Len(body) = Rows(n, columns) * columns
      BY <1>3, <1>8
    <3> QED  BY <1>6, <3>1
  <2>3. scytaleDecipher(out, columns) = Restored(body, n, columns)
    BY <1>2, <1>5, <1>6, <1>8, <2>2 DEF scytaleDecipher
  <2> QED  BY <1>4, <1>5, <2>1, <2>3
<1> QED
  BY <1>7, <1>8
-----------------------------------------------------------------------------
(***************************************************************************)
(* The S-box: a permutation, whatever the key                              *)
(***************************************************************************)
\* No value comes twice.
Single(D, R) == {s \in [D -> R] : \A a, b \in D : s[a] = s[b] => a = b}

\* Two values that change places are still each there once.
LEMMA SwapKeeps ==
    ASSUME NEW D, NEW R, NEW s \in Single(D, R), NEW i \in D, NEW j \in D
    PROVE  [s EXCEPT ![i] = s[j], ![j] = s[i]] \in Single(D, R)
<1> DEFINE t == [s EXCEPT ![i] = s[j], ![j] = s[i]]
<1>1. s \in [D -> R] /\ \A a, b \in D : s[a] = s[b] => a = b
  BY DEF Single
<1>2. t \in [D -> R]
  BY <1>1
<1>3. \A a \in D : t[a] = IF a = j THEN s[i] ELSE IF a = i THEN s[j] ELSE s[a]
  BY <1>1
<1> HIDE DEF t
<1>4. ASSUME NEW a \in D, NEW b \in D, t[a] = t[b] PROVE a = b
  BY <1>1, <1>3, <1>4
<1> QED
  BY <1>2, <1>4 DEF Single, t

Schedule == [sbox : Single(Byte, Byte), j : Byte]
Scheduled(f, key) ==
    f = [i \in 0..Size |->
            IF i = 0 THEN [sbox |-> [b \in Byte |-> b], j |-> 0]
            ELSE LET s == f[i - 1].sbox
                     j == (f[i - 1].j + s[i - 1] + KeyByte(key, i)) % Size
                 IN [sbox |-> [s EXCEPT ![i - 1] = s[j], ![j] = s[i - 1]], j |-> j]]

\* One step of the key schedule, on a schedule r.
NextJ(r, key, i) == (r.j + r.sbox[i - 1] + KeyByte(key, i)) % Size
NextSbox(r, key, i) ==
    [r.sbox EXCEPT ![i - 1] = r.sbox[NextJ(r, key, i)], ![NextJ(r, key, i)] = r.sbox[i - 1]]
NextSchedule(r, key, i) == [sbox |-> NextSbox(r, key, i), j |-> NextJ(r, key, i)]

\* A step of the key schedule keeps the box a permutation.
LEMMA ScheduleGoesOn ==
    ASSUME NEW key \in Seq(Byte), key # <<>>, NEW r \in Schedule, NEW i \in 1..Size
    PROVE  NextSchedule(r, key, i) \in Schedule
<1>1. r.sbox \in Single(Byte, Byte) /\ r.sbox \in [Byte -> Byte] /\ r.j \in Byte
  BY DEF Schedule, Single
<1>2. i - 1 \in Byte
  BY SizeIs DEF Byte
<1>3. KeyByte(key, i) \in Nat /\ r.sbox[i - 1] \in Nat /\ r.j \in Nat
  <2>1. KeyByte(key, i) \in Byte /\ r.sbox[i - 1] \in Byte
    <3>1. i \in Nat \ {0}
      OBVIOUS
    <3> QED  BY <1>1, <1>2, <3>1, KeyByteIs
  <2> QED  BY <1>1, <2>1, SizeIs
<1>4. NextJ(r, key, i) \in Byte
  <2> DEFINE x == r.j + r.sbox[i - 1] + KeyByte(key, i)
  <2>1. x \in Nat
    BY <1>3
  <2> HIDE DEF x
  <2>2. x % Size \in 0..Size - 1
    BY <2>1, SizeIs
  <2> QED  BY <2>2 DEF x, NextJ, Byte
<1>5. NextSbox(r, key, i) \in Single(Byte, Byte)
  BY <1>1, <1>2, <1>4, SwapKeeps DEF NextSbox
<1> QED
  BY <1>4, <1>5 DEF NextSchedule, Schedule

LEMMA ScheduleExists ==
    ASSUME NEW key \in Seq(Byte), key # <<>>
    PROVE  \E f : Scheduled(f, key)
<1> DEFINE first == [sbox |-> [b \in Byte |-> b], j |-> 0]
           G == [p \in (1..Size) \X Schedule |-> NextSchedule(p[2], key, p[1])]
<1>1. first \in Schedule
  <2>1. [b \in Byte |-> b] \in Single(Byte, Byte)
    BY DEF Single
  <2> QED  BY <2>1, SizeIs DEF Schedule
<1>2. G \in [(1..Size) \X Schedule -> Schedule]
  BY ScheduleGoesOn
<1>3. PICK f : Unfolds(f, Schedule, Size, first, G)
  <2> HIDE DEF G, first
  <2> QED  BY <1>1, <1>2, SizeIs, Recursion
<1>4. ASSUME NEW i \in 1..Size PROVE f[i] = NextSchedule(f[i - 1], key, i)
  <2>1. i - 1 \in 0..Size
    BY SizeIs
  <2>2. f[i] = G[<<i, f[i - 1]>>] /\ f \in [0..Size -> Schedule]
    <3> HIDE DEF G, first
    <3> QED  BY <1>3 DEF Unfolds
  <2>3. <<i, f[i - 1]>> \in (1..Size) \X Schedule
    BY <2>1, <2>2
  <2> HIDE DEF first
  <2>4. G[<<i, f[i - 1]>>] = NextSchedule(f[i - 1], key, i)
    BY <2>3
  <2> QED  BY <2>2, <2>4
<1>5. f = [i \in 0..Size |-> f[i]] /\ f[0] = first
  BY <1>3 DEF Unfolds
<1> HIDE DEF first
<1>6. f = [i \in 0..Size |-> IF i = 0 THEN first ELSE NextSchedule(f[i - 1], key, i)]
  <2>1. ASSUME NEW i \in 0..Size
        PROVE  f[i] = IF i = 0 THEN first ELSE NextSchedule(f[i - 1], key, i)
    <3>1. i # 0 => i \in 1..Size
      BY SizeIs
    <3> QED  BY <1>4, <1>5, <3>1
  <2> QED  BY <1>5, <2>1
<1>7. Scheduled(f, key)
  BY <1>6 DEF Scheduled, NextSchedule, NextSbox, NextJ, first
<1> QED
  BY <1>7

\* The box permutes the bytes.
LEMMA SboxIs ==
    ASSUME NEW key \in Seq(Byte), key # <<>>
    PROVE  buildHieroglyphSbox(key) \in Single(Byte, Byte)
<1> DEFINE f == CHOOSE g : Scheduled(g, key)
           first == [sbox |-> [b \in Byte |-> b], j |-> 0]
<1>1. Scheduled(f, key)
  BY ScheduleExists
<1>2. buildHieroglyphSbox(key) = f[Size].sbox
  BY DEF buildHieroglyphSbox, Scheduled
<1> HIDE DEF f
<1>3. f = [i \in 0..Size |-> IF i = 0 THEN first ELSE NextSchedule(f[i - 1], key, i)]
  BY <1>1 DEF Scheduled, NextSchedule, NextSbox, NextJ
<1> HIDE DEF first
<1> DEFINE A == {i \in 0..Size : f[i] \in Schedule}
<1>4. 0 \in A
  <2>1. [b \in Byte |-> b] \in Single(Byte, Byte)
    BY DEF Single
  <2>2. first \in Schedule
    BY <2>1, SizeIs DEF Schedule, first
  <2>3. f[0] = first
    BY <1>3, SizeIs
  <2> QED  BY <2>2, <2>3, SizeIs
<1>5. ASSUME NEW i \in 1..Size, i - 1 \in A PROVE i \in A
  <2>1. i \in 0..Size /\ i # 0
    OBVIOUS
  <2>2. f[i] = NextSchedule(f[i - 1], key, i)
    BY <1>3, <2>1
  <2> QED  BY <1>5, <2>1, <2>2, ScheduleGoesOn
<1> HIDE DEF A
<1>6. 0..Size \subseteq A
  BY <1>4, <1>5, SizeIs, InductionTo
<1>7. f[Size] \in Schedule
  BY <1>6, SizeIs DEF A
<1> QED
  BY <1>2, <1>7 DEF Schedule

\* A box that permutes the bytes is undone by looking them up.
LEMMA HieroglyphTurnsBack ==
    ASSUME NEW sbox \in Single(Byte, Byte), NEW data \in Seq(Byte)
    PROVE  /\ hieroglyphEncipher(data, sbox) \in Seq(Byte)
           /\ Len(hieroglyphEncipher(data, sbox)) = Len(data)
           /\ hieroglyphDecipher(hieroglyphEncipher(data, sbox), sbox) = data
<1> DEFINE n == Len(data)
           out == hieroglyphEncipher(data, sbox)
<1>1. n \in Nat /\ data = [i \in 1..n |-> data[i]]
  OBVIOUS
<1>2. out = [i \in 1..n |-> sbox[data[i]]]
  BY DEF hieroglyphEncipher
<1>3. ASSUME NEW i \in 1..n
      PROVE  out[i] = sbox[data[i]] /\ out[i] \in Byte /\ (CHOOSE b \in Byte : sbox[b] = out[i]) = data[i]
  <2>1. data[i] \in Byte
    BY ElementOfSeq
  <2>2. out[i] = sbox[data[i]]
    BY <1>2
  <2> HIDE DEF out
  <2>3. \A b \in Byte : sbox[b] = out[i] <=> b = data[i]
    BY <2>1, <2>2 DEF Single
  <2> QED  BY <2>1, <2>2, <2>3 DEF Single
<1> HIDE DEF out
<1>4. out \in Seq(Byte) /\ Len(out) = n
  BY <1>1, <1>2, <1>3, Mapped
<1>5. hieroglyphDecipher(out, sbox) = data
  <2>1. hieroglyphDecipher(out, sbox) = [i \in 1..n |-> CHOOSE b \in Byte : sbox[b] = out[i]]
    BY <1>4 DEF hieroglyphDecipher
  <2> QED  BY <1>1, <1>3, <2>1
<1> QED
  BY <1>4, <1>5 DEF out
-----------------------------------------------------------------------------
(***************************************************************************)
(* The seal is a byte                                                      *)
(***************************************************************************)
Totals(total, bytes) ==
    total = [i \in 0..Len(bytes) |->
               IF i = 0 THEN 0 ELSE (3 * total[i - 1] + bytes[i]) % Size]

LEMMA ByteGoesOn ==
    ASSUME NEW t \in Byte, NEW b \in Byte
    PROVE  (3 * t + b) % Size \in Byte
<1> DEFINE x == 3 * t + b
<1>1. x \in Nat
  BY SizeIs
<1> HIDE DEF x
<1>2. x % Size \in 0..Size - 1
  BY <1>1, SizeIs
<1> QED
  BY <1>2 DEF x, Byte

\* The recursion of Mac.
LEMMA TotalsExist ==
    ASSUME NEW bytes \in Seq(Byte)
    PROVE  \E total : Totals(total, bytes)
<1> DEFINE n == Len(bytes)
           G == [p \in (1..n) \X Byte |-> (3 * p[2] + bytes[p[1]]) % Size]
<1>1. n \in Nat /\ \A i \in 1..n : bytes[i] \in Byte
  BY ByteOf
<1>2. G \in [(1..n) \X Byte -> Byte]
  <2>1. ASSUME NEW p \in (1..n) \X Byte PROVE (3 * p[2] + bytes[p[1]]) % Size \in Byte
    <3>1. p[2] \in Byte /\ bytes[p[1]] \in Byte
      BY <1>1
    <3> QED  BY <3>1, ByteGoesOn
  <2> QED  BY <2>1
<1>3. PICK f : Unfolds(f, Byte, n, 0, G)
  <2> HIDE DEF G, n
  <2> QED  BY <1>1, <1>2, SizeIs, Recursion
<1>4. ASSUME NEW i \in 1..n PROVE f[i] = (3 * f[i - 1] + bytes[i]) % Size
  <2>1. f[i] = G[<<i, f[i - 1]>>] /\ i - 1 \in 0..n /\ f \in [0..n -> Byte]
    <3> HIDE DEF G, n
    <3> QED  BY <1>1, <1>3 DEF Unfolds
  <2>2. <<i, f[i - 1]>> \in (1..n) \X Byte
    BY <2>1
  <2> QED  BY <2>1, <2>2
<1>5. f = [i \in 0..n |-> f[i]] /\ f[0] = 0
  BY <1>3 DEF Unfolds
<1>6. ASSUME NEW i \in 0..n
      PROVE  f[i] = IF i = 0 THEN 0 ELSE (3 * f[i - 1] + bytes[i]) % Size
  <2>1. i # 0 => i \in 1..n
    BY <1>1
  <2> QED  BY <1>4, <1>5, <2>1
<1>7. Totals(f, bytes)
  BY <1>5, <1>6 DEF Totals
<1> QED
  BY <1>7

\* A seal is one byte.
LEMMA MacIs ==
    ASSUME NEW key \in Seq(Byte), NEW data \in Seq(Byte)
    PROVE  Mac(key, data) \in Seq(Byte) /\ Len(Mac(key, data)) = 1
<1> DEFINE bytes == key \o data
           total == CHOOSE t : Totals(t, bytes)
           n == Len(bytes)
<1>1. bytes \in Seq(Byte) /\ n \in Nat
  OBVIOUS
<1>2. Mac(key, data) = <<total[n]>>
  BY DEF Mac, Totals
<1> HIDE DEF bytes, n
<1>3. Totals(total, bytes)
  BY <1>1, TotalsExist
<1> HIDE DEF total
<1>4. \A i \in 0..n : total[i] = IF i = 0 THEN 0 ELSE (3 * total[i - 1] + bytes[i]) % Size
  BY <1>3 DEF Totals, n
<1> DEFINE A == {i \in 0..n : total[i] \in Byte}
<1>5. 0 \in A
  BY <1>1, <1>4, SizeIs
<1>6. ASSUME NEW i \in 1..n, i - 1 \in A PROVE i \in A
  <2>1. i \in 0..n /\ i # 0 /\ bytes[i] \in Byte
    BY <1>1, ByteOf DEF n
  <2>2. total[i] = (3 * total[i - 1] + bytes[i]) % Size
    BY <1>4, <2>1
  <2> QED  BY <1>6, <2>1, <2>2, ByteGoesOn
<1> HIDE DEF A
<1>7. 0..n \subseteq A
  BY <1>1, <1>5, <1>6, InductionTo
<1>8. total[n] \in Byte
  BY <1>1, <1>7 DEF A
<1> QED
  BY <1>2, <1>8
-----------------------------------------------------------------------------
(***************************************************************************)
(* The shuffled orders                                                     *)
(***************************************************************************)
\* One swap of the shuffle: arr with place n - k and the place the seed says changed.
Place(seed, i) == seed[(i % Len(seed)) + 1] % (i + 1)
Swapped(arr, seed, i) ==
    [arr EXCEPT ![i + 1] = arr[Place(seed, i) + 1], ![Place(seed, i) + 1] = arr[i + 1]]
Shuffles(f, items, seed) ==
    f = [k \in 0..Len(items) - 1 |->
           IF k = 0 THEN items
           ELSE LET arr == f[k - 1]
                    i == Len(items) - k
                    j == seed[(i % Len(seed)) + 1] % (i + 1)
                IN [arr EXCEPT ![i + 1] = arr[j + 1], ![j + 1] = arr[i + 1]]]

LEMMA PlaceIs ==
    ASSUME NEW seed \in Seq(Byte), seed # <<>>, NEW i \in Nat
    PROVE  Place(seed, i) \in 0..i
<1>1. Len(seed) \in Nat \ {0}
  OBVIOUS
<1>2. i % Len(seed) \in 0..Len(seed) - 1
  BY <1>1, DivModBack
<1> DEFINE x == seed[(i % Len(seed)) + 1]
<1>3. x \in Nat
  <2>1. (i % Len(seed)) + 1 \in 1..Len(seed)
    BY <1>1, <1>2
  <2> QED  BY <2>1, ByteOf
<1> HIDE DEF x
<1>4. x % (i + 1) \in 0..(i + 1) - 1
  BY <1>3
<1> QED
  BY <1>4 DEF Place, x

LEMMA SwappedStays ==
    ASSUME NEW n \in Nat, NEW R, NEW arr \in Single(1..n, R), NEW i \in 1..n - 1,
           NEW seed \in Seq(Byte), seed # <<>>
    PROVE  Swapped(arr, seed, i) \in Single(1..n, R)
<1>1. i + 1 \in 1..n /\ i \in Nat
  OBVIOUS
<1>2. Place(seed, i) + 1 \in 1..n
  <2>1. Place(seed, i) \in 0..i
    BY <1>1, PlaceIs
  <2> QED  BY <2>1
<1> QED
  BY <1>1, <1>2, SwapKeeps DEF Swapped

LEMMA ShuffleExists ==
    ASSUME NEW R, NEW items, Len(items) \in Nat \ {0}, items \in Single(1..Len(items), R),
           NEW seed \in Seq(Byte), seed # <<>>
    PROVE  \E f : Shuffles(f, items, seed)
<1> DEFINE n == Len(items)
           S == Single(1..n, R)
           G == [p \in (1..n - 1) \X S |-> Swapped(p[2], seed, n - p[1])]
<1>1. n \in Nat \ {0} /\ n - 1 \in Nat /\ items \in S
  OBVIOUS
<1> HIDE DEF n
<1>2. G \in [(1..n - 1) \X S -> S]
  <2>1. ASSUME NEW p \in (1..n - 1) \X S PROVE Swapped(p[2], seed, n - p[1]) \in S
    <3>1. n - p[1] \in 1..n - 1 /\ p[2] \in S
      BY <1>1
    <3> QED  BY <1>1, <3>1, SwappedStays
  <2> QED  BY <2>1
<1> HIDE DEF S
<1>3. PICK f : Unfolds(f, S, n - 1, items, G)
  <2> HIDE DEF G
  <2> QED  BY <1>1, <1>2, Recursion
<1>4. ASSUME NEW k \in 1..n - 1 PROVE f[k] = Swapped(f[k - 1], seed, n - k)
  <2>1. f[k] = G[<<k, f[k - 1]>>] /\ k - 1 \in 0..n - 1 /\ f \in [0..n - 1 -> S]
    <3> HIDE DEF G
    <3> QED  BY <1>1, <1>3 DEF Unfolds
  <2>2. <<k, f[k - 1]>> \in (1..n - 1) \X S
    BY <2>1
  <2> QED  BY <2>1, <2>2
<1>5. f = [k \in 0..n - 1 |-> f[k]] /\ f[0] = items
  BY <1>3 DEF Unfolds
<1>6. ASSUME NEW k \in 0..n - 1
      PROVE  f[k] = IF k = 0 THEN items ELSE Swapped(f[k - 1], seed, n - k)
  <2>1. k # 0 => k \in 1..n - 1
    BY <1>1
  <2> QED  BY <1>4, <1>5, <2>1
<1>7. f = [k \in 0..n - 1 |-> IF k = 0 THEN items ELSE Swapped(f[k - 1], seed, n - k)]
  BY <1>5, <1>6
<1>8. Shuffles(f, items, seed)
  BY <1>7 DEF Shuffles, Swapped, Place, n
<1> QED
  BY <1>8

\* A shuffle loses no layer and has none twice.
LEMMA ShuffledIs ==
    ASSUME NEW R, NEW items, Len(items) \in Nat \ {0}, items \in Single(1..Len(items), R),
           NEW seed \in Seq(Byte), seed # <<>>
    PROVE  deriveShuffledOrder(items, seed) \in Single(1..Len(items), R)
<1> DEFINE n == Len(items)
           f == CHOOSE g : Shuffles(g, items, seed)
<1>1. n \in Nat \ {0} /\ n - 1 \in Nat
  OBVIOUS
<1>2. deriveShuffledOrder(items, seed) = f[n - 1]
  BY DEF deriveShuffledOrder, Shuffles
<1>3. Shuffles(f, items, seed)
  BY ShuffleExists
<1> HIDE DEF f
<1>4. f = [k \in 0..n - 1 |-> IF k = 0 THEN items ELSE Swapped(f[k - 1], seed, n - k)]
  BY <1>3 DEF Shuffles, Swapped, Place
<1> HIDE DEF n
<1> DEFINE A == {k \in 0..n - 1 : f[k] \in Single(1..n, R)}
<1>5. 0 \in A
  <2>1. f[0] = items
    BY <1>1, <1>4
  <2> QED  BY <1>1, <2>1 DEF n
<1>6. ASSUME NEW k \in 1..n - 1, k - 1 \in A PROVE k \in A
  <2>1. k \in 0..n - 1 /\ k # 0 /\ n - k \in 1..n - 1
    BY <1>1
  <2>2. f[k] = Swapped(f[k - 1], seed, n - k)
    BY <1>4, <2>1
  <2> QED  BY <1>1, <1>6, <2>1, <2>2, SwappedStays
<1> HIDE DEF A
<1>7. 0..n - 1 \subseteq A
  BY <1>1, <1>5, <1>6, InductionTo
<1>8. f[n - 1] \in Single(1..n, R)
  BY <1>1, <1>7 DEF A
<1> QED
  BY <1>2, <1>8 DEF n
-----------------------------------------------------------------------------
(***************************************************************************)
(* One layer, there and back                                               *)
(***************************************************************************)
Layers == {"hieroglyph", "augustan", "scytale", "torch", "veil"}

LEMMA KeyIs ==
    ASSUME NEW m \in Materials, NEW name \in KeyNames
    PROVE  m.key[name] \in Seq(Byte) /\ m.key[name] # <<>>
BY StackAssumption DEF NonEmpty

LEMMA ScytaleIs ==
    ASSUME NEW data \in Seq(Byte), NEW columns \in Nat
    PROVE  scytaleEncipher(data, columns) \in Seq(Byte)
<1> DEFINE body == IF columns < 2 THEN data ELSE Transposed(data, columns)
           head == UInt(Len(data), 4)
<1>1. head \in Seq(Byte)
  <2>1. Len(data) \in Nat
    OBVIOUS
  <2> QED  BY <2>1, UIntIs
<1>2. body \in Seq(Byte)
  <2>1. ~(columns < 2) => columns \in Nat \ {0}
    OBVIOUS
  <2> QED  BY <2>1, TransposedIs
<1>3. scytaleEncipher(data, columns) = head \o body
  BY DEF scytaleEncipher
<1> HIDE DEF head, body
<1> QED
  BY <1>1, <1>2, <1>3

\* Every layer turns bytes into bytes, and all but the scytale keep their number.
LEMMA DoStays ==
    ASSUME NEW m \in Materials, NEW layer \in Layers, NEW body \in Seq(Byte)
    PROVE  /\ Do(m, layer, body) \in Seq(Byte)
           /\ layer # "scytale" => Len(Do(m, layer, body)) = Len(body)
<1>1. CASE layer = "hieroglyph"
  <2>1. m.key["hieroglyph"] \in Seq(Byte) /\ m.key["hieroglyph"] # <<>>
    BY KeyIs DEF KeyNames
  <2>2. Do(m, layer, body) = hieroglyphEncipher(body, buildHieroglyphSbox(m.key["hieroglyph"]))
    BY <1>1 DEF Do
  <2> QED  BY <2>1, <2>2, SboxIs, HieroglyphTurnsBack
<1>2. CASE layer = "augustan"
  <2>1. m.key["augustan"] \in Seq(Byte) /\ m.key["augustan"] # <<>>
    BY KeyIs DEF KeyNames
  <2>2. Do(m, layer, body) = augustanEncipher(body, m.key["augustan"])
    BY <1>2 DEF Do
  <2> QED  BY <2>1, <2>2, AugustanTurnsBack
<1>3. CASE layer = "scytale"
  <2>1. Do(m, layer, body) = scytaleEncipher(body, m.columns)
    BY <1>3 DEF Do
  <2>2. m.columns \in Nat
    BY StackAssumption
  <2> QED  BY <1>3, <2>1, <2>2, ScytaleIs
<1>4. CASE layer = "torch"
  <2>1. m.key["torch"] \in Seq(Byte) /\ m.key["torch"] # <<>>
    BY KeyIs DEF KeyNames
  <2>2. Do(m, layer, body) = torchMask(body, m.key["torch"])
    BY <1>4 DEF Do
  <2> QED  BY <2>1, <2>2, TorchTurnsBack
<1>5. CASE layer = "veil"
  <2>1. m.key["veil"] \in Seq(Byte) /\ m.key["veil"] # <<>>
    BY KeyIs DEF KeyNames
  <2>2. Do(m, layer, body) = occultVeilTransform(body, m.key["veil"])
    BY <1>5 DEF Do
  <2> QED  BY <2>1, <2>2, VeilTurnsBack
<1> QED
  BY <1>1, <1>2, <1>3, <1>4, <1>5 DEF Layers

\* Every layer is undone; the scytale if the length of the record fits its four bytes.
LEMMA UndoesDo ==
    ASSUME NEW m \in Materials, NEW layer \in Layers, NEW body \in Seq(Byte),
           layer = "scytale" => FitsIn(Len(body), 4)
    PROVE  Undo(m, layer, Do(m, layer, body)) = body
<1> DEFINE out == Do(m, layer, body)
<1>1. CASE layer = "hieroglyph"
  <2> DEFINE sbox == buildHieroglyphSbox(m.key["hieroglyph"])
  <2>1. sbox \in Single(Byte, Byte)
    <3>1. m.key["hieroglyph"] \in Seq(Byte) /\ m.key["hieroglyph"] # <<>>
      BY KeyIs DEF KeyNames
    <3> QED  BY <3>1, SboxIs
  <2>2. out = hieroglyphEncipher(body, sbox)
    BY <1>1 DEF Do
  <2> HIDE DEF out
  <2>3. Undo(m, layer, out) = hieroglyphDecipher(out, sbox)
    BY <1>1 DEF Undo
  <2> HIDE DEF sbox
  <2> QED  BY <2>1, <2>2, <2>3, HieroglyphTurnsBack DEF out
<1>2. CASE layer = "augustan"
  <2>1. m.key["augustan"] \in Seq(Byte) /\ m.key["augustan"] # <<>>
    BY KeyIs DEF KeyNames
  <2>2. out = augustanEncipher(body, m.key["augustan"])
    BY <1>2 DEF Do
  <2> HIDE DEF out
  <2>3. Undo(m, layer, out) = augustanDecipher(out, m.key["augustan"])
    BY <1>2 DEF Undo
  <2> QED  BY <2>1, <2>2, <2>3, AugustanTurnsBack DEF out
<1>3. CASE layer = "scytale"
  <2>1. m.columns \in Nat
    BY StackAssumption
  <2>2. out = scytaleEncipher(body, m.columns)
    BY <1>3 DEF Do
  <2> HIDE DEF out
  <2>3. Undo(m, layer, out) = scytaleDecipher(out, m.columns)
    BY <1>3 DEF Undo
  <2> QED  BY <1>3, <2>1, <2>2, <2>3, ScytaleUndone DEF out
<1>4. CASE layer = "torch"
  <2>1. m.key["torch"] \in Seq(Byte) /\ m.key["torch"] # <<>>
    BY KeyIs DEF KeyNames
  <2>2. out = torchMask(body, m.key["torch"])
    BY <1>4 DEF Do
  <2> HIDE DEF out
  <2>3. Undo(m, layer, out) = torchMask(out, m.key["torch"])
    BY <1>4 DEF Undo, Do
  <2>4. torchMask(out, m.key["torch"]) = body
    BY <2>1, <2>2, TorchTurnsBack
  <2> QED  BY <2>3, <2>4 DEF out
<1>5. CASE layer = "veil"
  <2>1. m.key["veil"] \in Seq(Byte) /\ m.key["veil"] # <<>>
    BY KeyIs DEF KeyNames
  <2>2. out = occultVeilTransform(body, m.key["veil"])
    BY <1>5 DEF Do
  <2> HIDE DEF out
  <2>3. Undo(m, layer, out) = occultVeilTransform(out, m.key["veil"])
    BY <1>5 DEF Undo, Do
  <2>4. occultVeilTransform(out, m.key["veil"]) = body
    BY <2>1, <2>2, VeilTurnsBack
  <2> QED  BY <2>3, <2>4 DEF out
<1> QED
  BY <1>1, <1>2, <1>3, <1>4, <1>5 DEF Layers

LEMMA BufferIs ==
    ASSUME NEW bytes \in Seq(Byte)
    PROVE  Buffer(bytes) = bytes
BY DEF Buffer

LEMMA RejectedIsNone == Rejected \notin Seq(Byte)
<1> SUFFICES ASSUME Rejected \in Seq(Byte) PROVE FALSE
  OBVIOUS
<1>1. 1 \in 1..Len(Rejected) /\ Rejected[1] = Size
  BY DEF Rejected
<1>2. Size \in Byte
  BY <1>1, ByteOf
<1> QED
  BY <1>2, SizeIs DEF Byte
-----------------------------------------------------------------------------
(***************************************************************************)
(* All layers of an order, there and back                                  *)
(***************************************************************************)
Doing(f, m, order, body) ==
    f = [i \in 0..Len(order) |-> IF i = 0 THEN body ELSE Buffer(Do(m, order[i], f[i - 1]))]
Undoing(f, m, order, body) ==
    f = [i \in 0..Len(order) |->
           IF i = 0 THEN body
           ELSE IF f[i - 1] = Rejected THEN Rejected
           ELSE Buffer(Undo(m, order[Len(order) + 1 - i], f[i - 1]))]

LEMMA OrderIs ==
    ASSUME NEW n \in Nat, NEW R \in SUBSET Layers, NEW order \in Single(1..n, R)
    PROVE  /\ Len(order) = n /\ \A i \in 1..n : order[i] \in Layers /\ order[i] \in R
           /\ \A i, k \in 1..n : order[i] = order[k] => i = k
<1>1. order \in [1..n -> R] /\ \A i, k \in 1..n : order[i] = order[k] => i = k
  BY DEF Single
<1> QED
  BY <1>1

\* The recursion of the loop over the layers.
LEMMA DoingExists ==
    ASSUME NEW m \in Materials, NEW n \in Nat, NEW R \in SUBSET Layers,
           NEW order \in Single(1..n, R), NEW body \in Seq(Byte)
    PROVE  \E f : Doing(f, m, order, body)
<1> DEFINE S == Seq(Byte)
           G == [p \in (1..n) \X S |-> Buffer(Do(m, order[p[1]], p[2]))]
<1>1. Len(order) = n /\ \A i \in 1..n : order[i] \in Layers
  BY OrderIs
<1>2. G \in [(1..n) \X S -> S]
  <2>1. ASSUME NEW p \in (1..n) \X S PROVE Buffer(Do(m, order[p[1]], p[2])) \in S
    <3>1. order[p[1]] \in Layers /\ p[2] \in Seq(Byte)
      BY <1>1
    <3> QED  BY <3>1, DoStays, BufferIs
  <2> QED  BY <2>1
<1> HIDE DEF S
<1>3. PICK f : Unfolds(f, S, n, body, G)
  <2>1. body \in S
    BY DEF S
  <2> HIDE DEF G
  <2> QED  BY <1>2, <2>1, Recursion
<1>4. ASSUME NEW i \in 1..n PROVE f[i] = Buffer(Do(m, order[i], f[i - 1]))
  <2>1. f[i] = G[<<i, f[i - 1]>>] /\ i - 1 \in 0..n /\ f \in [0..n -> S]
    <3> HIDE DEF G
    <3> QED  BY <1>3 DEF Unfolds
  <2>2. <<i, f[i - 1]>> \in (1..n) \X S
    BY <2>1
  <2> QED  BY <2>1, <2>2
<1>5. f = [i \in 0..n |-> f[i]] /\ f[0] = body
  BY <1>3 DEF Unfolds
<1>6. ASSUME NEW i \in 0..n
      PROVE  f[i] = IF i = 0 THEN body ELSE Buffer(Do(m, order[i], f[i - 1]))
  <2>1. i # 0 => i \in 1..n
    OBVIOUS
  <2> QED  BY <1>4, <1>5, <2>1
<1>7. f = [i \in 0..n |-> IF i = 0 THEN body ELSE Buffer(Do(m, order[i], f[i - 1]))]
  BY <1>5, <1>6
<1> QED
  BY <1>1, <1>7 DEF Doing

\* Every layer of the order is done, one after the other, on bytes; until the scytale has
\* had its turn there are as many of them as there were.
LEMMA DoneIs ==
    ASSUME NEW m \in Materials, NEW n \in Nat, NEW R \in SUBSET Layers,
           NEW order \in Single(1..n, R), NEW body \in Seq(Byte)
    PROVE  \E f :
             /\ DoAll(m, order, body) = f[n] /\ f[0] = body
             /\ \A i \in 1..n : f[i] = Do(m, order[i], f[i - 1])
             /\ \A i \in 0..n : f[i] \in Seq(Byte)
             /\ \A i \in 0..n :
                   (\A k \in 1..i : order[k] # "scytale") => Len(f[i]) = Len(body)
<1> DEFINE f == CHOOSE g : Doing(g, m, order, body)
<1>1. Len(order) = n /\ \A i \in 1..n : order[i] \in Layers
  BY OrderIs
<1>2. DoAll(m, order, body) = f[n]
  BY <1>1 DEF DoAll, Doing
<1>3. Doing(f, m, order, body)
  BY DoingExists
<1> HIDE DEF f
<1>4. f = [i \in 0..n |-> IF i = 0 THEN body ELSE Buffer(Do(m, order[i], f[i - 1]))]
  BY <1>1, <1>3 DEF Doing
<1>5. f[0] = body /\ \A i \in 1..n : f[i] = Buffer(Do(m, order[i], f[i - 1]))
  <2>1. f[0] = body
    BY <1>4
  <2>2. ASSUME NEW i \in 1..n PROVE f[i] = Buffer(Do(m, order[i], f[i - 1]))
    <3>1. i \in 0..n /\ i # 0
      OBVIOUS
    <3> QED  BY <1>4, <3>1
  <2> QED  BY <2>1, <2>2
<1> DEFINE Plain(i) == \A k \in 1..i : order[k] # "scytale"
           A == {i \in 0..n : f[i] \in Seq(Byte) /\ (Plain(i) => Len(f[i]) = Len(body))}
<1>6. 0 \in A
  BY <1>5
<1>7. ASSUME NEW i \in 1..n, f[i - 1] \in Seq(Byte)
      PROVE  /\ f[i] = Do(m, order[i], f[i - 1]) /\ f[i] \in Seq(Byte)
             /\ order[i] # "scytale" => Len(f[i]) = Len(f[i - 1])
  <2>1. order[i] \in Layers
    BY <1>1
  <2> QED  BY <1>5, <1>7, <2>1, DoStays, BufferIs
<1>8. ASSUME NEW i \in 1..n, i - 1 \in A PROVE i \in A
  <2>1. f[i - 1] \in Seq(Byte) /\ (Plain(i - 1) => Len(f[i - 1]) = Len(body))
    BY <1>8
  <2>2. Plain(i) => Plain(i - 1) /\ order[i] # "scytale"
    OBVIOUS
  <2> HIDE DEF Plain
  <2>3. Plain(i) => Len(f[i]) = Len(body)
    BY <1>7, <2>1, <2>2
  <2>4. i \in 0..n /\ f[i] \in Seq(Byte)
    BY <1>7, <2>1
  <2> QED  BY <2>3, <2>4
<1> HIDE DEF A
<1>9. 0..n \subseteq A
  BY <1>6, <1>8, InductionTo
<1>10. \A i \in 0..n : f[i] \in Seq(Byte) /\ (Plain(i) => Len(f[i]) = Len(body))
  BY <1>9 DEF A
<1>11. \A i \in 1..n : f[i] = Do(m, order[i], f[i - 1])
  <2>1. ASSUME NEW i \in 1..n PROVE i - 1 \in 0..n
    OBVIOUS
  <2> QED  BY <1>7, <1>10, <2>1
<1> QED
  BY <1>2, <1>5, <1>10, <1>11
\* What the layers of an order did, the reversed order undoes, for an order of any length
\* without a layer twice.
LEMMA OrderUndone ==
    ASSUME NEW m \in Materials, NEW n \in Nat, NEW R \in SUBSET Layers,
           NEW order \in Single(1..n, R), NEW body \in Seq(Byte),
           "scytale" \in R => FitsIn(Len(body), 4)
    PROVE  /\ DoAll(m, order, body) \in Seq(Byte)
           /\ UndoAll(m, order, DoAll(m, order, body)) = body
<1> DEFINE out == DoAll(m, order, body)
           u == CHOOSE g : Undoing(g, m, order, out)
<1>1. /\ Len(order) = n /\ \A i \in 1..n : order[i] \in Layers /\ order[i] \in R
      /\ \A i, k \in 1..n : order[i] = order[k] => i = k
  BY OrderIs
<1>2. PICK f :
        /\ out = f[n] /\ f[0] = body
        /\ \A i \in 1..n : f[i] = Do(m, order[i], f[i - 1])
        /\ \A i \in 0..n : f[i] \in Seq(Byte)
        /\ \A i \in 0..n :
              (\A k \in 1..i : order[k] # "scytale") => Len(f[i]) = Len(body)
  BY DoneIs
<1>3. UndoAll(m, order, out) = u[n]
  BY <1>1 DEF UndoAll, Undoing
<1> HIDE DEF out
\* Layer by layer, from the last one done.
<1>4. ASSUME NEW i \in 1..n
      PROVE  f[i] # Rejected /\ Buffer(Undo(m, order[i], f[i])) = f[i - 1]
  <2>1. i \in 0..n /\ i - 1 \in 0..n
    OBVIOUS
  <2>2. f[i] = Do(m, order[i], f[i - 1]) /\ f[i] \in Seq(Byte) /\ f[i - 1] \in Seq(Byte)
    BY <1>2, <2>1
  <2>3. order[i] = "scytale" => FitsIn(Len(f[i - 1]), 4)
    <3> SUFFICES ASSUME order[i] = "scytale" PROVE FitsIn(Len(f[i - 1]), 4)
      OBVIOUS
    <3>1. ASSUME NEW k \in 1..i - 1 PROVE order[k] # "scytale"
      <4>1. k \in 1..n /\ k # i
        OBVIOUS
      <4> QED  BY <1>1, <4>1
    <3>2. Len(f[i - 1]) = Len(body)
      BY <1>2, <2>1, <3>1
    <3>3. "scytale" \in R
      BY <1>1
    <3> QED  BY <3>2, <3>3
  <2>4. Undo(m, order[i], f[i]) = f[i - 1]
    BY <1>1, <2>2, <2>3, UndoesDo
  <2> QED  BY <2>2, <2>4, RejectedIsNone, BufferIs
<1> DEFINE g == [i \in 0..n |-> f[n - i]]
           Following(h, i) == IF i = 0 THEN out
                          ELSE IF h[i - 1] = Rejected THEN Rejected
                          ELSE Buffer(Undo(m, order[n + 1 - i], h[i - 1]))
<1>5. ASSUME NEW h, NEW i \in 1..n, h[i - 1] = f[n - (i - 1)]
      PROVE  Following(h, i) = f[n - i]
  <2>1. n + 1 - i \in 1..n /\ n - (i - 1) = n + 1 - i /\ (n + 1 - i) - 1 = n - i /\ i # 0
    OBVIOUS
  <2>2. f[n + 1 - i] # Rejected /\ Buffer(Undo(m, order[n + 1 - i], f[n + 1 - i])) = f[n - i]
    <3> DEFINE k == n + 1 - i
    <3>1. k \in 1..n /\ k - 1 = n - i
      BY <2>1
    <3> HIDE DEF k
    <3>2. f[k] # Rejected /\ Buffer(Undo(m, order[k], f[k])) = f[n - i]
      BY <1>4, <3>1
    <3> QED  BY <3>2 DEF k
  <2>3. h[i - 1] = f[n + 1 - i]
    BY <1>5, <2>1
  <2> QED  BY <2>1, <2>2, <2>3
<1>6. \E h : Undoing(h, m, order, out)
  <2>1. ASSUME NEW i \in 0..n PROVE g[i] = Following(g, i)
    <3>1. CASE i = 0
      <4>1. 0 \in 0..n /\ n - 0 = n
        OBVIOUS
      <4> QED  BY <1>2, <3>1, <4>1
    <3>2. CASE i # 0
      <4>1. i \in 1..n /\ i - 1 \in 0..n
        BY <3>2
      <4>2. g[i - 1] = f[n - (i - 1)] /\ g[i] = f[n - i]
        BY <4>1
      <4> HIDE DEF g, Following
      <4> QED  BY <1>5, <4>1, <4>2
    <3> QED  BY <3>1, <3>2
  <2>2. g = [i \in 0..n |-> g[i]]
    OBVIOUS
  <2> HIDE DEF g
  <2>3. g = [i \in 0..n |-> Following(g, i)]
    BY <2>1, <2>2
  <2>4. Undoing(g, m, order, out)
    BY <1>1, <2>3 DEF Undoing
  <2> QED  BY <2>4
<1>7. Undoing(u, m, order, out)
  BY <1>6
<1> HIDE DEF u
<1>8. u = [i \in 0..n |-> Following(u, i)]
  BY <1>1, <1>7 DEF Undoing
<1> DEFINE A == {i \in 0..n : u[i] = f[n - i]}
<1>9. 0 \in A
  <2>1. 0 \in 0..n /\ n - 0 = n
    OBVIOUS
  <2> QED  BY <1>2, <1>8, <2>1
<1>10. ASSUME NEW i \in 1..n, i - 1 \in A PROVE i \in A
  <2>1. i \in 0..n /\ u[i - 1] = f[n - (i - 1)]
    BY <1>10
  <2> HIDE DEF Following
  <2>2. u[i] = Following(u, i)
    BY <1>8, <2>1
  <2> QED  BY <1>5, <2>1, <2>2
<1> HIDE DEF A
<1>11. 0..n \subseteq A
  BY <1>9, <1>10, InductionTo
<1>12. u[n] = f[0]
  <2>1. n \in 0..n /\ n - n = 0
    OBVIOUS
  <2> QED  BY <1>11, <2>1 DEF A
<1>13. out \in Seq(Byte)
  <2>1. n \in 0..n
    OBVIOUS
  <2> QED  BY <1>2, <2>1
<1> QED
  BY <1>2, <1>3, <1>12, <1>13 DEF out
-----------------------------------------------------------------------------
(***************************************************************************)
(* Cartouche, Persian seal, padding, and the whole stack                   *)
(***************************************************************************)
\* The three layers in some order, and the one or two of the tail.
LEMMA MutableOrderIs ==
    ASSUME NEW c, NEW m \in Materials
    PROVE  MutableOrder(c, m) \in Single(1..3, {"hieroglyph", "augustan", "scytale"})
<1> DEFINE R == {"hieroglyph", "augustan", "scytale"}
<1>1. Len(MUTABLE_LAYERS) = 3 /\ MUTABLE_LAYERS \in Single(1..3, R)
  BY DEF MUTABLE_LAYERS, Single
<1>2. m.mutable \in Seq(Byte) /\ m.mutable # <<>>
  BY StackAssumption DEF NonEmpty
<1> HIDE DEF R
<1>3. deriveShuffledOrder(MUTABLE_LAYERS, m.mutable) \in Single(1..3, R)
  BY <1>1, <1>2, ShuffledIs
<1> QED
  BY <1>1, <1>3 DEF MutableOrder, R

LEMMA TailOrderIs ==
    ASSUME NEW c, NEW m \in Materials
    PROVE  \E n \in Nat : TailOrder(c, m) \in Single(1..n, {"torch", "veil"})
<1> DEFINE R == {"torch", "veil"}
           n == Len(TailLayers(c))
<1>1. n \in Nat \ {0} /\ TailLayers(c) \in Single(1..n, R)
  <2>1. CASE c.occultVeilEnabled
    <3>1. TailLayers(c) = <<"torch", "veil">>
      BY <2>1 DEF TailLayers
    <3> QED  BY <3>1 DEF Single
  <2>2. CASE ~c.occultVeilEnabled
    <3>1. TailLayers(c) = <<"torch">>
      BY <2>2 DEF TailLayers
    <3> QED  BY <3>1 DEF Single
  <2> QED  BY <2>1, <2>2
<1>2. m.tail \in Seq(Byte) /\ m.tail # <<>>
  BY StackAssumption DEF NonEmpty
<1> HIDE DEF R
<1>3. deriveShuffledOrder(TailLayers(c), m.tail) \in Single(1..n, R)
  BY <1>1, <1>2, ShuffledIs
<1>4. TailOrder(c, m) \in Single(1..n, R)
  BY <1>1, <1>3 DEF TailOrder
<1> QED
  BY <1>1, <1>4 DEF R

\* Three parts in a row, and the bytes at their places.
Parts(x, a, b, d) ==
    /\ x \in Seq(Byte) /\ Len(x) = Len(a) + Len(b) + Len(d)
    /\ First(x, Len(a)) = a /\ After(x, Len(a)) = b \o d
    /\ SubSeq(x, Len(a) + 1, Len(a) + Len(b)) = b
    /\ After(x, Len(a) + Len(b)) = d

Joins(a, b, d) == (a \o b) \o d = a \o (b \o d)

LEMMA Joined ==
    ASSUME NEW a \in Seq(Byte), NEW b \in Seq(Byte), NEW d \in Seq(Byte)
    PROVE  Joins(a, b, d)
BY ConcatAssociative DEF Joins

LEMMA SplitThree ==
    ASSUME NEW a \in Seq(Byte), NEW b \in Seq(Byte), NEW d \in Seq(Byte)
    PROVE  Parts(a \o b \o d, a, b, d)
<1> DEFINE n == Len(a)
           k == Len(b)
           ab == a \o b
           bd == b \o d
           x == ab \o d
<1>1. x = a \o bd
  <2>1. Joins(a, b, d)
    BY Joined
  <2> QED  BY <2>1 DEF Joins
<1>2. Halves(ab, a, b)
  BY SplitTwo
<1>3. ab \in Seq(Byte) /\ Len(ab) = n + k /\ bd \in Seq(Byte)
  BY <1>2 DEF Halves
<1>4. n \in Nat /\ k \in Nat /\ Len(d) \in Nat /\ b = [i \in 1..k |-> b[i]]
  OBVIOUS
<1>5. \A i \in 1..k : ab[n + i] = b[i]
  OBVIOUS
<1> HIDE DEF ab, bd, n, k
<1>6. Halves(x, ab, d) /\ Halves(a \o bd, a, bd)
  BY <1>3, SplitTwo
<1>7. \A i \in 1..n + k : x[i] = ab[i]
  BY <1>3
<1> HIDE DEF x
<1>8. x \in Seq(Byte) /\ Len(x) = n + k + Len(d) /\ After(x, n + k) = d
  BY <1>3, <1>6 DEF Halves
<1>9. First(x, n) = a /\ After(x, n) = bd
  BY <1>1, <1>6 DEF Halves, n
<1>10. SubSeq(x, n + 1, n + k) = b
  <2>1. SubSeq(x, n + 1, n + k) = [i \in 1..k |-> x[n + i]]
    <3>1. Len(x) \in Nat /\ n + k <= Len(x)
      BY <1>4, <1>8
    <3> QED  BY <1>4, <1>8, <3>1
  <2>2. \A i \in 1..k : n + i \in 1..n + k /\ x[n + i] = b[i]
    BY <1>4, <1>5, <1>7
  <2> QED  BY <1>4, <2>1, <2>2
<1> QED
  BY <1>8, <1>9, <1>10 DEF Parts, x, ab, bd, n, k

\* The seal is taken off and found right.
LEMMA PersianOpened ==
    ASSUME NEW key \in Seq(Byte), NEW body \in Seq(Byte)
    PROVE  /\ applyPersianSeal(body, key) \in Seq(Byte)
           /\ verifyPersianSeal(applyPersianSeal(body, key), key) = body
<1> DEFINE mac == Mac(key, body)
           out == MAGIC \o mac \o body
<1>1. MAGIC \in Seq(Byte) /\ Len(MAGIC) = 1
  <2>1. Size - 1 \in Byte
    BY SizeIs DEF Byte
  <2> QED  BY <2>1 DEF MAGIC
<1>2. mac \in Seq(Byte) /\ Len(mac) = 1
  BY MacIs
<1> HIDE DEF out
<1>3. /\ out \in Seq(Byte) /\ Len(out) = 1 + 1 + Len(body)
      /\ First(out, 1) = MAGIC /\ After(out, 1 + 1) = body
      /\ SubSeq(out, 1 + 1, 1 + 1) = mac
  <2> HIDE DEF mac
  <2>1. Parts(out, MAGIC, mac, body)
    BY <1>1, <1>2, SplitThree DEF out
  <2> QED  BY <1>1, <1>2, <2>1 DEF Parts
<1>4. Len(body) \in Nat
  OBVIOUS
<1>5. ~(Len(out) < 2) /\ After(out, 2) = body /\ SubSeq(out, 2, 2) = mac
  <2>1. 1 + 1 = 2
    OBVIOUS
  <2> QED  BY <1>3, <1>4, <2>1
<1>6. verifyPersianSeal(out, key) = body
  BY <1>3, <1>5 DEF verifyPersianSeal
<1> QED
  BY <1>3, <1>6 DEF applyPersianSeal, out

\* A header of a length that fits its two bytes is written; the receiver takes it up to
\* MaxHeader.
LEMMA CartoucheOpened ==
    ASSUME NEW key \in Seq(Byte), NEW subject \in Seq(Byte), NEW data \in Seq(Byte),
           FitsIn(Len(subject) + 1, 2)
    PROVE  /\ wrapCartouche(data, subject, key) \in Seq(Byte)
           /\ Len(wrapCartouche(data, subject, key)) = 2 + (Len(subject) + 1) + Len(data)
           /\ unwrapCartouche(wrapCartouche(data, subject, key), key) =
                IF Len(subject) + 1 > MaxHeader THEN Rejected ELSE data
<1> DEFINE mac == Mac(key, subject \o data)
           header == subject \o mac
           n == Len(subject) + 1
           head == UInt(Len(header), 2)
           out == head \o header \o data
<1>1. Len(subject) \in Nat /\ Len(data) \in Nat /\ MaxHeader \in Nat
  BY StackAssumption
<1>2. mac \in Seq(Byte) /\ Len(mac) = 1
  <2>1. subject \o data \in Seq(Byte)
    OBVIOUS
  <2> QED  BY <2>1, MacIs
<1> HIDE DEF mac
<1>3. /\ header \in Seq(Byte) /\ Len(header) = n
      /\ First(header, Len(subject)) = subject /\ After(header, Len(subject)) = mac
  <2>1. Halves(header, subject, mac)
    BY <1>2, SplitTwo
  <2> QED  BY <1>2, <2>1 DEF Halves
<1> HIDE DEF header
<1>4. head \in Seq(Byte) /\ Len(head) = 2 /\ Number(head) = n
  <2>1. Len(header) \in Nat /\ FitsIn(Len(header), 2)
    BY <1>1, <1>3
  <2> QED  BY <1>3, <2>1, Written
<1> HIDE DEF head
<1>5. /\ out \in Seq(Byte) /\ Len(out) = 2 + n + Len(data)
      /\ First(out, 2) = head /\ After(out, 2) = header \o data /\ After(out, 2 + n) = data
  <2>1. Parts(out, head, header, data)
    BY <1>3, <1>4, SplitThree
  <2> QED  BY <1>3, <1>4, <2>1 DEF Parts
<1>6. First(header \o data, n) = header
  <2>1. Halves(header \o data, header, data)
    BY <1>3, SplitTwo
  <2> QED  BY <1>3, <2>1 DEF Halves
<1>7. wrapCartouche(data, subject, key) = out
  BY DEF wrapCartouche, out, head, header, mac
<1> HIDE DEF out
<1>8. n - 1 = Len(subject) /\ n \in Nat \ {0} /\ ~(Len(out) < 2 + n) /\ ~(Len(out) < 2)
  BY <1>1, <1>5
<1> HIDE DEF n
<1>9. unwrapCartouche(out, key) = IF n > MaxHeader THEN Rejected ELSE data
  <2>1. Number(First(out, 2)) = n /\ First(After(out, 2), n) = header
    BY <1>4, <1>5, <1>6
  <2>2. First(header, n - 1) = subject /\ After(header, n - 1) = Mac(key, subject \o data)
    BY <1>3, <1>8 DEF mac
  <2> QED  BY <1>5, <1>8, <2>1, <2>2 DEF unwrapCartouche
<1> QED
  BY <1>5, <1>7, <1>9 DEF n

\* Whatever the noise on both sides is, it goes.
LEMMA PaddingStripped ==
    ASSUME NEW body \in Seq(Byte), NEW prefix \in Seq(Byte), NEW suffix \in Seq(Byte),
           FitsIn(Len(prefix), 2), FitsIn(Len(suffix), 2)
    PROVE  /\ applyChaoticPadding(body, prefix, suffix) \in Seq(Byte)
           /\ stripChaoticPadding(applyChaoticPadding(body, prefix, suffix),
                                  Len(prefix), Len(suffix)) = body
<1> DEFINE p == Len(prefix)
           s == Len(suffix)
           a == UInt(p, 2)
           b == UInt(s, 2)
           front == a \o b \o prefix
           out == front \o body \o suffix
<1>1. p \in Nat /\ s \in Nat /\ Len(body) \in Nat
  OBVIOUS
<1>2. /\ a \in Seq(Byte) /\ Len(a) = 2 /\ Number(a) = p
      /\ b \in Seq(Byte) /\ Len(b) = 2 /\ Number(b) = s
  BY <1>1, Written
<1>3. applyChaoticPadding(body, prefix, suffix) = out
  BY DEF applyChaoticPadding
<1> HIDE DEF a, b, p, s, front, out
<1>4. front \in Seq(Byte) /\ Len(front) = 2 + 2 + p
  <2>1. Parts(front, a, b, prefix)
    BY <1>2, SplitThree DEF front
  <2> QED  BY <1>2, <2>1 DEF Parts, p
<1>5. /\ out \in Seq(Byte) /\ Len(out) = Len(front) + Len(body) + s
      /\ SubSeq(out, Len(front) + 1, Len(front) + Len(body)) = body
  <2>1. Parts(out, front, body, suffix)
    BY <1>4, SplitThree DEF out
  <2> QED  BY <1>4, <2>1 DEF Parts, s
<1>6. First(out, 2) = a /\ SubSeq(out, 3, 4) = b
  <2> DEFINE rest == prefix \o (body \o suffix)
  <2>1. rest \in Seq(Byte) /\ body \o suffix \in Seq(Byte) /\ a \o b \in Seq(Byte)
    BY <1>2
  <2>2. out = a \o b \o rest
    <3>1. out = front \o (body \o suffix)
      <4>1. Joins(front, body, suffix)
        BY <1>4, Joined
      <4> QED  BY <4>1 DEF Joins, out
    <3> DEFINE ab == a \o b
               tail == body \o suffix
    <3>2. ab \in Seq(Byte) /\ tail \in Seq(Byte)
      BY <2>1
    <3> HIDE DEF ab, tail
    <3>3. Joins(ab, prefix, tail)
      BY <3>2, Joined
    <3> QED  BY <3>1, <3>3 DEF Joins, front, ab, tail
  <2> HIDE DEF rest
  <2>3. First(out, 2) = a /\ SubSeq(out, 2 + 1, 2 + 2) = b
    <3>1. Parts(out, a, b, rest)
      BY <1>2, <2>1, <2>2, SplitThree
    <3> QED  BY <1>2, <3>1 DEF Parts
  <2>4. 2 + 1 = 3 /\ 2 + 2 = 4
    OBVIOUS
  <2> QED  BY <2>3, <2>4
<1>7. /\ ~(Len(out) < 4) /\ ~(4 + p > Len(out) - s)
      /\ 4 + p + 1 = Len(front) + 1 /\ Len(out) - s = Len(front) + Len(body)
  BY <1>1, <1>4, <1>5
<1>8. stripChaoticPadding(out, p, s) = body
  BY <1>2, <1>5, <1>6, <1>7 DEF stripChaoticPadding
<1> QED
  BY <1>3, <1>5, <1>8 DEF p, s
\* The fingerprint is found and goes.
LEMMA FingerprintTaken ==
    ASSUME NEW m \in Materials, NEW body \in Seq(Byte)
    PROVE  /\ m.fingerprint \o body \in Seq(Byte)
           /\ Fingerprinted(m, m.fingerprint \o body) = body
<1> DEFINE print == m.fingerprint
           out == print \o body
<1>1. print \in Seq(Byte)
  BY StackAssumption
<1> HIDE DEF print
<1>2. out \in Seq(Byte) /\ First(out, Len(print)) = print /\ After(out, Len(print)) = body
  <2>1. Halves(out, print, body)
    BY <1>1, SplitTwo
  <2> QED  BY <2>1 DEF Halves
<1> HIDE DEF out
<1>3. out # Rejected
  BY <1>2, RejectedIsNone
<1>4. Fingerprinted(m, out) = body
  BY <1>2, <1>3 DEF Fingerprinted, print
<1> QED
  BY <1>2, <1>4 DEF out, print

\* What the sender's layers did to a record that it could write, the receiver's undo.
Expected(c, plain) == IF c.enabled /\ HeaderLength(c) > MaxHeader THEN Rejected ELSE plain

\* All of it, in the order of encipher and back in that of decipher.
LEMMA DeciphersWhatWasEnciphered ==
    ASSUME NEW c \in Configs, NEW m \in Materials, NEW plain \in Seq(Byte),
           NEW prefix \in Seq(Byte), NEW suffix \in Seq(Byte),
           Len(prefix) = m.prefix, Len(suffix) = m.suffix,
           c.enabled =>
             FitsIn(HeaderLength(c), 2) /\ FitsIn(2 + HeaderLength(c) + Len(plain), 4)
    PROVE  decipher(c, m, encipher(c, m, plain, prefix, suffix)) = Expected(c, plain)
<1>1. CASE ~c.enabled
  <2>1. encipher(c, m, plain, prefix, suffix) = plain
    BY <1>1 DEF encipher
  <2>2. decipher(c, m, plain) = plain
    BY <1>1 DEF decipher
  <2> QED  BY <1>1, <2>1, <2>2 DEF Expected
<1>2. CASE c.enabled
  <2> DEFINE subject == c.subject
             key == m.key["cartouche"]
             wrapped == wrapCartouche(plain, subject, key)
             mutable == MutableOrder(c, m)
             tail == TailOrder(c, m)
             body == DoAll(m, mutable, wrapped)
             sealed == applyPersianSeal(body, m.key["seal"])
             masked == DoAll(m, tail, sealed)
             out == encipher(c, m, plain, prefix, suffix)
  <2>1. key \in Seq(Byte) /\ m.key["seal"] \in Seq(Byte) /\ subject \in Seq(Byte)
    <3>1. "cartouche" \in KeyNames /\ "seal" \in KeyNames
      BY DEF KeyNames
    <3>2. c.subject \in Subjects
      BY DEF Configs
    <3> QED  BY <3>1, <3>2, KeyIs, StackAssumption
  <2>2. /\ wrapped \in Seq(Byte) /\ FitsIn(Len(wrapped), 4)
        /\ unwrapCartouche(wrapped, key) = Expected(c, plain)
    <3>1. FitsIn(Len(subject) + 1, 2) /\ FitsIn(2 + (Len(subject) + 1) + Len(plain), 4)
      BY <1>2 DEF HeaderLength
    <3> HIDE DEF key, subject
    <3>2. /\ wrapped \in Seq(Byte) /\ Len(wrapped) = 2 + (Len(subject) + 1) + Len(plain)
          /\ unwrapCartouche(wrapped, key) = IF Len(subject) + 1 > MaxHeader THEN Rejected ELSE plain
      BY <2>1, <3>1, CartoucheOpened
    <3> HIDE DEF wrapped
    <3> QED  BY <1>2, <3>1, <3>2 DEF Expected, HeaderLength, subject
  <2> HIDE DEF subject, key, wrapped
  <2>3. body \in Seq(Byte) /\ UndoAll(m, mutable, body) = wrapped
    <3> DEFINE R == {"hieroglyph", "augustan", "scytale"}
    <3>1. mutable \in Single(1..3, R)
      BY MutableOrderIs
    <3>2. R \in SUBSET Layers /\ 3 \in Nat
      BY DEF Layers
    <3> HIDE DEF mutable, R
    <3> QED  BY <2>2, <3>1, <3>2, OrderUndone
  <2> HIDE DEF body, mutable
  <2>4. sealed \in Seq(Byte) /\ verifyPersianSeal(sealed, m.key["seal"]) = body
    BY <2>1, <2>3, PersianOpened
  <2> HIDE DEF sealed
  <2>5. masked \in Seq(Byte) /\ UndoAll(m, tail, masked) = sealed
    <3> DEFINE R == {"torch", "veil"}
    <3>1. PICK n \in Nat : tail \in Single(1..n, R)
      BY TailOrderIs
    <3>2. R \in SUBSET Layers /\ "scytale" \notin R
      BY DEF Layers
    <3> HIDE DEF tail, R
    <3> QED  BY <2>4, <3>1, <3>2, OrderUndone
  <2> HIDE DEF masked, tail
  <2>6. sealed # Rejected /\ wrapped # Rejected
    BY <2>2, <2>4, RejectedIsNone
  <2>7. ASSUME NEW ciphertext,
               (IF c.chaosModeEnabled
                THEN Fingerprinted(m, stripChaoticPadding(ciphertext, m.prefix, m.suffix))
                ELSE ciphertext) = masked
        PROVE  decipher(c, m, ciphertext) = Expected(c, plain)
    BY <1>2, <2>2, <2>3, <2>4, <2>5, <2>6, <2>7 DEF decipher, mutable, tail, key
  <2>8. CASE ~c.chaosModeEnabled
    <3>1. out = masked
      BY <1>2, <2>8 DEF encipher, masked, tail, sealed, body, mutable, wrapped, subject, key
    <3> HIDE DEF out
    <3> QED  BY <2>7, <2>8, <3>1 DEF out
  <2>9. CASE c.chaosModeEnabled
    <3>1. out = applyChaoticPadding(m.fingerprint \o masked, prefix, suffix)
      BY <1>2, <2>9 DEF encipher, masked, tail, sealed, body, mutable, wrapped, subject, key
    <3> HIDE DEF out
    <3>2. m.fingerprint \o masked \in Seq(Byte)
          /\ Fingerprinted(m, m.fingerprint \o masked) = masked
      BY <2>5, FingerprintTaken
    <3>3. FitsIn(Len(prefix), 2) /\ FitsIn(Len(suffix), 2)
      BY StackAssumption
    <3>4. stripChaoticPadding(out, m.prefix, m.suffix) = m.fingerprint \o masked
      <4> DEFINE inner == m.fingerprint \o masked
      <4>1. inner \in Seq(Byte) /\ out = applyChaoticPadding(inner, prefix, suffix)
        BY <3>1, <3>2
      <4> HIDE DEF inner
      <4>2. stripChaoticPadding(out, Len(prefix), Len(suffix)) = inner
        BY <3>3, <4>1, PaddingStripped
      <4> QED  BY <4>2 DEF inner
    <3> QED  BY <2>7, <2>9, <3>2, <3>4 DEF out
  <2> QED  BY <2>8, <2>9
<1> QED
  BY <1>1, <1>2

StackInv ==
    /\ step \in {"plain", "sent", "opened"}
    /\ config \in Configs /\ material \in Materials /\ plaintext \in Plaintexts
    /\ step = "sent" => decipher(config, material, wire) = Expected(config, plaintext)
    /\ step = "opened" => opened = Expected(config, plaintext)

\* Sealing makes a wire that opens to the right record; opening it gives that record.
LEMMA StackStep == StackInv /\ [StackNext]_stackVars => StackInv'
<1> SUFFICES ASSUME StackInv, [StackNext]_stackVars PROVE StackInv'
  OBVIOUS
<1> USE DEF StackInv
<1>1. CASE Seal
  <2>1. PICK noise \in Noise :
          wire' = encipher(config, material, plaintext,
                           [i \in 1..material.prefix |-> noise],
                           [i \in 1..material.suffix |-> noise])
    BY <1>1 DEF Seal
  <2> DEFINE prefix == [i \in 1..material.prefix |-> noise]
             suffix == [i \in 1..material.suffix |-> noise]
  <2>2. /\ prefix \in Seq(Byte) /\ suffix \in Seq(Byte)
        /\ Len(prefix) = material.prefix /\ Len(suffix) = material.suffix
    <3>1. noise \in Byte /\ material.prefix \in Nat /\ material.suffix \in Nat
      BY StackAssumption
    <3> QED  BY <3>1
  <2>3. plaintext \in Seq(Byte)
    BY StackAssumption
  <2>4. config.enabled =>
          FitsIn(HeaderLength(config), 2) /\ FitsIn(2 + HeaderLength(config) + Len(plaintext), 4)
    BY <1>1 DEF Seal
  <2>5. wire' = encipher(config, material, plaintext, prefix, suffix)
    BY <2>1
  <2> HIDE DEF prefix, suffix
  <2>6. decipher(config, material, wire') = Expected(config, plaintext)
    BY <2>2, <2>3, <2>4, <2>5, DeciphersWhatWasEnciphered
  <2>7. step' = "sent" /\ config' = config /\ material' = material /\ plaintext' = plaintext
    BY <1>1 DEF Seal
  <2> QED  BY <2>6, <2>7
<1>2. CASE Open
  <2>1. step = "sent" /\ opened' = decipher(config, material, wire) /\ step' = "opened"
        /\ config' = config /\ material' = material /\ plaintext' = plaintext
    BY <1>2 DEF Open
  <2> QED  BY <2>1
<1>3. CASE UNCHANGED stackVars
  BY <1>3 DEF stackVars
<1> QED
  BY <1>1, <1>2, <1>3 DEF StackNext

\* What a receiver opens is what the sender sealed: for a byte of any of the sizes, every
\* key, order, rod, padding and fingerprint that the ends may derive, every subject whose
\* header fits its two bytes and every record that fits the scytale's four.
THEOREM RecordsComeBack == StackSpec => []RoundTrip
<1>1. StackInit => StackInv
  BY DEF StackInit, StackInv
<1>2. StackInv => RoundTrip
  BY DEF StackInv, RoundTrip, Expected
<1> QED
  BY <1>1, <1>2, StackStep, PTL DEF StackSpec
-----------------------------------------------------------------------------
(***************************************************************************)
(* The field: xor is its addition, and the tables its multiplication       *)
(***************************************************************************)
\* Below m, xor is a group in which every element is its own inverse.
XorGroupBelow(m) ==
    \A a, b, c \in Byte : a < m /\ b < m /\ c < m =>
        /\ xor[a][b] = xor[b][a] /\ xor[a][a] = 0
        /\ xor[xor[a][b]][c] = xor[a][xor[b][c]]

\* A bit of a sum, and what is above it.
LEMMA XorParity ==
    ASSUME NEW a \in Byte, NEW b \in Byte
    PROVE  /\ xor[a][b] % 2 = (a + b) % 2
           /\ xor[a][b] \div 2 = xor[a \div 2][b \div 2]
<1>1. a \div 2 \in Byte /\ b \div 2 \in Byte
      /\ xor[a][b] = ((a + b) % 2) + 2 * xor[a \div 2][b \div 2]
  BY XorBits
<1> DEFINE z == xor[a \div 2][b \div 2]
           r == (a + b) % 2
<1>2. z \in Nat
  BY <1>1, XorTwice, SizeIs
<1>3. r \in {0, 1}
  <2>1. a \in Nat /\ b \in Nat
    BY SizeIs
  <2> QED  BY <2>1
<1>4. xor[a][b] = r + 2 * z
  BY <1>1
<1> HIDE DEF r, z
<1>5. xor[a][b] % 2 = r /\ xor[a][b] \div 2 = z
  BY <1>2, <1>3, <1>4
<1> QED
  BY <1>5 DEF r, z

LEMMA SameParity ==
    ASSUME NEW u \in Nat, NEW v \in Nat, NEW w \in Nat, u % 2 = v % 2
    PROVE  (u + w) % 2 = (v + w) % 2 /\ (w + u) % 2 = (w + v) % 2
OBVIOUS

\* Two bytes of the same lowest bit and the same others are one.
LEMMA SameBits ==
    ASSUME NEW a \in Byte, NEW b \in Byte, a % 2 = b % 2, a \div 2 = b \div 2
    PROVE  a = b
<1>1. a \in Nat /\ b \in Nat
  BY SizeIs
<1> QED
  BY <1>1

LEMMA XorGroupDoubles ==
    ASSUME NEW m \in Nat \ {0}, XorGroupBelow(m)
    PROVE  XorGroupBelow(2 * m)
<1> SUFFICES ASSUME NEW a \in Byte, NEW b \in Byte, NEW c \in Byte,
                    a < 2 * m, b < 2 * m, c < 2 * m
             PROVE  /\ xor[a][b] = xor[b][a] /\ xor[a][a] = 0
                    /\ xor[xor[a][b]][c] = xor[a][xor[b][c]]
  BY DEF XorGroupBelow
<1> DEFINE x == a \div 2
           y == b \div 2
           z == c \div 2
<1>1. a \in Nat /\ b \in Nat /\ c \in Nat
  BY SizeIs
<1>2. x \in Byte /\ y \in Byte /\ z \in Byte
  BY XorBits
<1>3. x < m /\ y < m /\ z < m
  BY <1>1
<1>4. xor[x][y] = xor[y][x] /\ xor[x][x] = 0 /\ xor[xor[x][y]][z] = xor[x][xor[y][z]]
  <2> HIDE DEF x, y, z
  <2> QED  BY <1>2, <1>3 DEF XorGroupBelow
<1>5. xor[a][b] = xor[b][a]
  <2>1. xor[a][b] = ((a + b) % 2) + 2 * xor[x][y] /\ xor[b][a] = ((b + a) % 2) + 2 * xor[y][x]
    BY XorBits
  <2>2. a + b = b + a
    BY <1>1
  <2> HIDE DEF x, y
  <2> QED  BY <1>4, <2>1, <2>2
<1>6. xor[a][a] = 0
  <2>1. xor[a][a] = ((a + a) % 2) + 2 * xor[x][x]
    BY XorBits
  <2>2. (a + a) % 2 = 0
    BY <1>1
  <2> HIDE DEF x
  <2> QED  BY <1>4, <2>1, <2>2
<1>7. xor[xor[a][b]][c] = xor[a][xor[b][c]]
  <2> DEFINE p == xor[a][b]
             q == xor[b][c]
  <2>1. p \in Byte /\ q \in Byte /\ p \in Nat /\ q \in Nat
    BY XorTwice, SizeIs
  <2>2. p % 2 = (a + b) % 2 /\ p \div 2 = xor[x][y] /\ q % 2 = (b + c) % 2 /\ q \div 2 = xor[y][z]
    BY XorParity
  <2> HIDE DEF p, q
  <2>3. (p + c) % 2 = (a + q) % 2
    <3>1. a + b \in Nat /\ b + c \in Nat
      BY <1>1
    <3>2. (p + c) % 2 = ((a + b) + c) % 2
      BY <1>1, <2>1, <2>2, <3>1, SameParity
    <3>3. (a + q) % 2 = (a + (b + c)) % 2
      BY <1>1, <2>1, <2>2, <3>1, SameParity
    <3>4. (a + b) + c = a + (b + c)
      BY <1>1
    <3> QED  BY <3>2, <3>3, <3>4
  <2>4. xor[p][c] = ((p + c) % 2) + 2 * xor[p \div 2][z]
        /\ xor[a][q] = ((a + q) % 2) + 2 * xor[x][q \div 2]
    BY <2>1, XorBits
  <2>5. xor[p][c] = xor[a][q]
    <3> HIDE DEF x, y, z
    <3> QED  BY <1>4, <2>2, <2>3, <2>4
  <2> QED  BY <2>5 DEF p, q
<1> QED
  BY <1>5, <1>6, <1>7

\* The bytes are a group under xor, its own inverse.
LEMMA XorGroup ==
    ASSUME NEW a \in Byte, NEW b \in Byte, NEW c \in Byte
    PROVE  /\ xor[a][b] \in Byte /\ xor[a][b] = xor[b][a]
           /\ xor[a][a] = 0 /\ xor[0][a] = a /\ xor[a][0] = a
           /\ xor[xor[a][b]][c] = xor[a][xor[b][c]]
<1> DEFINE A == {m \in Nat : 0 < m /\ XorGroupBelow(m)}
<1>1. XorGroupBelow(1)
  <2> SUFFICES ASSUME NEW i \in Byte, NEW j \in Byte, NEW k \in Byte, i < 1, j < 1, k < 1
               PROVE  /\ xor[i][j] = xor[j][i] /\ xor[i][i] = 0
                      /\ xor[xor[i][j]][k] = xor[i][xor[j][k]]
    BY DEF XorGroupBelow
  <2>1. i = 0 /\ j = 0 /\ k = 0
    BY DEF Byte
  <2>2. xor[0][0] = 0
    BY SizeIs, XorStep
  <2> QED  BY <2>1, <2>2
<1>2. 1 \in A
  BY <1>1
<1>3. ASSUME NEW m \in A, 0 < m, 2 * m <= Size PROVE 2 * m \in A
  <2>1. m \in Nat \ {0} /\ XorGroupBelow(m)
    OBVIOUS
  <2>2. XorGroupBelow(2 * m)
    BY <2>1, XorGroupDoubles
  <2> QED  BY <2>1, <2>2
<1>4. A \in SUBSET Nat
  OBVIOUS
<1> HIDE DEF A
<1>5. Size \in A
  BY <1>2, <1>3, <1>4, Ladder
<1>6. XorGroupBelow(Size)
  BY <1>5 DEF A
<1>7. a < Size /\ b < Size /\ c < Size /\ 0 < Size /\ 0 \in Byte
  BY SizeIs DEF Byte
<1>8. xor[a][b] \in Byte /\ xor[0][a] = a
  BY <1>7, XorTwice, XorStep
<1>9. xor[a][0] = xor[0][a]
  BY <1>6, <1>7 DEF XorGroupBelow
<1> QED
  BY <1>6, <1>7, <1>8, <1>9 DEF XorGroupBelow
-----------------------------------------------------------------------------
Plus(a, b) == xor[a][b]

LEMMA PlusIs == \A a, b \in Byte : Plus(a, b) \in Byte /\ Plus(a, b) = Plus(b, a)
BY XorGroup DEF Plus

LEMMA PlusAgain ==
    \A a, b, c \in Byte : Plus(Plus(a, b), c) = Plus(a, Plus(b, c))
BY XorGroup DEF Plus

LEMMA PlusNone ==
    0 \in Byte /\ \A a \in Byte : Plus(a, a) = 0 /\ Plus(0, a) = a /\ Plus(a, 0) = a
BY XorGroup, SizeIs DEF Plus

\* Four terms may be paired the other way.
LEMMA PlusFour ==
    ASSUME NEW p \in Byte, NEW q \in Byte, NEW r \in Byte, NEW s \in Byte
    PROVE  Plus(Plus(p, q), Plus(r, s)) = Plus(Plus(p, r), Plus(q, s))
<1>1. /\ Plus(r, s) \in Byte /\ Plus(q, s) \in Byte /\ Plus(q, r) = Plus(r, q)
  BY PlusIs
<1>2. Plus(Plus(p, q), Plus(r, s)) = Plus(p, Plus(q, Plus(r, s)))
  BY <1>1, PlusAgain
<1>3. Plus(q, Plus(r, s)) = Plus(Plus(q, r), s) /\ Plus(Plus(r, q), s) = Plus(r, Plus(q, s))
  BY PlusAgain
<1>4. Plus(Plus(p, r), Plus(q, s)) = Plus(p, Plus(r, Plus(q, s)))
  BY <1>1, PlusAgain
<1> QED
  BY <1>1, <1>2, <1>3, <1>4

MulRow(f, b) ==
    [a \in Byte |->
       IF b = 0 THEN 0 ELSE xor[IF b % 2 = 1 THEN a ELSE 0][f[b \div 2][Doubled(a)]]]
MulFolded(f, k) == f = [b \in 0..k |-> MulRow(f, b)]

\* gfMultiply's recursion has a solution, so gfMultiply is one.
LEMMA MulDef == MulFolded(gfMultiply, Size - 1)
<1> DEFINE A == {k \in 0..Size - 1 : \E f : MulFolded(f, k)}
<1>1. 0 \in A
  <2> DEFINE f == [b \in 0..0 |-> [a \in Byte |-> 0]]
  <2>1. MulFolded(f, 0)
    BY DEF MulFolded, MulRow
  <2> HIDE DEF f
  <2> QED  BY <2>1, SizeIs
<1>2. ASSUME NEW k \in 1..Size - 1, k - 1 \in A PROVE k \in A
  <2>1. PICK f : MulFolded(f, k - 1)
    BY <1>2
  <2> DEFINE g == [b \in 0..k |-> MulRow(f, b)]
  <2>2. \A b \in 0..k - 1 : g[b] = f[b]
    BY <2>1 DEF MulFolded
  <2>3. ASSUME NEW b \in 0..k PROVE MulRow(f, b) = MulRow(g, b)
    <3>1. b # 0 => b \div 2 \in 0..k - 1
      OBVIOUS
    <3> HIDE DEF g
    <3> QED  BY <2>2, <3>1 DEF MulRow
  <2>4. MulFolded(g, k)
    BY <2>3 DEF MulFolded
  <2> HIDE DEF g
  <2> QED  BY <1>2, <2>4
<1> HIDE DEF A
<1>3. 0..Size - 1 \subseteq A
  <2>1. Size - 1 \in Nat
    BY SizeIs
  <2> QED  BY <1>1, <1>2, <2>1, InductionTo
<1>4. Size - 1 \in A
  BY <1>3, SizeIs
<1>5. \E f : MulFolded(f, Size - 1)
  BY <1>4 DEF A
<1> QED
  BY <1>5 DEF gfMultiply, MulFolded, MulRow, Byte

\* A byte doubled is a byte, reduced if it left the field.
LEMMA DoubledIs ==
    ASSUME NEW a \in Byte
    PROVE  Doubled(a) \in Byte
<1>1. CASE 2 * a < Size
  BY <1>1, SizeIs DEF Doubled, Byte
<1>2. CASE ~(2 * a < Size)
  <2>1. 2 * a - Size \in Byte
    BY <1>2, SizeIs DEF Byte
  <2>2. Reduction \in Byte
    BY FieldAssumption
  <2> QED  BY <1>2, <2>1, <2>2, XorTwice DEF Doubled
<1> QED
  BY <1>1, <1>2

\* What a bit of b adds.
Bit(b, a) == IF b % 2 = 1 THEN a ELSE 0

LEMMA MulStep ==
    ASSUME NEW a \in Byte, NEW b \in Byte
    PROVE  gfMultiply[b][a] = IF b = 0 THEN 0
                              ELSE xor[Bit(b, a)][gfMultiply[b \div 2][Doubled(a)]]
<1>1. gfMultiply[b] = MulRow(gfMultiply, b)
  BY MulDef DEF MulFolded, Byte
<1> QED
  BY <1>1 DEF MulRow, Bit

\* One bit of b at a time, and no exception for 0.
LEMMA MulBits ==
    ASSUME NEW a \in Byte, NEW b \in Byte
    PROVE  /\ b \div 2 \in Byte /\ Doubled(a) \in Byte /\ Bit(b, a) \in Byte
           /\ gfMultiply[b][a] = xor[Bit(b, a)][gfMultiply[b \div 2][Doubled(a)]]
<1>1. b \div 2 \in Byte /\ Doubled(a) \in Byte /\ Bit(b, a) \in Byte /\ 0 \in Byte
  BY XorBits, DoubledIs, SizeIs DEF Bit
<1>2. CASE b = 0
  <2>1. b \div 2 = 0 /\ Bit(b, a) = 0
    BY <1>2 DEF Bit
  <2>2. gfMultiply[b][a] = 0 /\ gfMultiply[0][Doubled(a)] = 0
    BY <1>1, <1>2, MulStep
  <2>3. xor[0][0] = 0
    BY <1>1, XorGroup
  <2> QED  BY <1>1, <2>1, <2>2, <2>3
<1>3. CASE b # 0
  BY <1>1, <1>3, MulStep
<1> QED
  BY <1>2, <1>3

\* Below m, multiplication distributes over xor.
MulBelow(m) ==
    \A a, b, c \in Byte : b < m /\ c < m =>
        /\ gfMultiply[b][a] \in Byte
        /\ gfMultiply[xor[b][c]][a] = xor[gfMultiply[b][a]][gfMultiply[c][a]]

LEMMA BitPlus ==
    ASSUME NEW a \in Byte, NEW b \in Byte, NEW c \in Byte
    PROVE  Bit(xor[b][c], a) = xor[Bit(b, a)][Bit(c, a)]
<1>1. xor[b][c] % 2 = (b + c) % 2
  BY XorParity
<1>2. b \in Nat /\ c \in Nat /\ 0 \in Byte
  BY SizeIs
<1>3. (b + c) % 2 = IF b % 2 = c % 2 THEN 0 ELSE 1
  BY <1>2
<1>4. b % 2 \in {0, 1} /\ c % 2 \in {0, 1}
  BY <1>2
<1>5. xor[a][a] = 0 /\ xor[0][a] = a /\ xor[a][0] = a /\ xor[0][0] = 0
  BY <1>2, XorGroup
<1> QED
  BY <1>1, <1>3, <1>4, <1>5 DEF Bit

LEMMA MulDoubles ==
    ASSUME NEW m \in Nat \ {0}, MulBelow(m)
    PROVE  MulBelow(2 * m)
<1> SUFFICES ASSUME NEW a \in Byte, NEW b \in Byte, NEW c \in Byte, b < 2 * m, c < 2 * m
             PROVE  /\ gfMultiply[b][a] \in Byte
                    /\ gfMultiply[xor[b][c]][a] = xor[gfMultiply[b][a]][gfMultiply[c][a]]
  BY DEF MulBelow
<1> DEFINE y == b \div 2
           z == c \div 2
           d == Doubled(a)
           s == xor[b][c]
<1>1. b \in Nat /\ c \in Nat
  BY SizeIs
<1>2. y \in Byte /\ z \in Byte /\ d \in Byte /\ s \in Byte /\ Bit(b, a) \in Byte /\ Bit(c, a) \in Byte
  BY MulBits, XorTwice
<1>3. y < m /\ z < m
  BY <1>1
<1>4. gfMultiply[b][a] = xor[Bit(b, a)][gfMultiply[y][d]]
      /\ gfMultiply[c][a] = xor[Bit(c, a)][gfMultiply[z][d]]
  BY MulBits
<1>5. gfMultiply[s][a] = xor[Bit(s, a)][gfMultiply[xor[y][z]][d]]
  <2>1. gfMultiply[s][a] = xor[Bit(s, a)][gfMultiply[s \div 2][d]]
    <3> HIDE DEF s
    <3> QED  BY <1>2, MulBits
  <2>2. s \div 2 = xor[y][z]
    BY XorParity
  <2> QED  BY <2>1, <2>2
<1>6. Bit(s, a) = xor[Bit(b, a)][Bit(c, a)]
  BY BitPlus
<1> HIDE DEF y, z, d, s
<1>7. /\ gfMultiply[y][d] \in Byte /\ gfMultiply[z][d] \in Byte
      /\ gfMultiply[xor[y][z]][d] = xor[gfMultiply[y][d]][gfMultiply[z][d]]
  BY <1>2, <1>3 DEF MulBelow
<1>8. gfMultiply[b][a] \in Byte
  BY <1>2, <1>4, <1>7, XorTwice
<1>9. gfMultiply[s][a] = xor[gfMultiply[b][a]][gfMultiply[c][a]]
  <2> DEFINE p == Bit(b, a)
             q == Bit(c, a)
             u == gfMultiply[y][d]
             v == gfMultiply[z][d]
  <2>1. p \in Byte /\ q \in Byte /\ u \in Byte /\ v \in Byte
    BY <1>2, <1>7
  <2>2. gfMultiply[s][a] = xor[xor[p][q]][xor[u][v]]
    BY <1>5, <1>6, <1>7
  <2>3. gfMultiply[b][a] = xor[p][u] /\ gfMultiply[c][a] = xor[q][v]
    BY <1>4
  <2> HIDE DEF p, q, u, v
  <2>4. xor[xor[p][q]][xor[u][v]] = xor[xor[p][u]][xor[q][v]]
    BY <2>1, PlusFour DEF Plus
  <2> QED  BY <2>2, <2>3, <2>4
<1> QED
  BY <1>8, <1>9 DEF s

\* gfMultiply distributes over xor.
LEMMA MulLinear ==
    ASSUME NEW a \in Byte, NEW b \in Byte, NEW c \in Byte
    PROVE  /\ gfMultiply[b][a] \in Byte
           /\ gfMultiply[xor[b][c]][a] = xor[gfMultiply[b][a]][gfMultiply[c][a]]
<1> DEFINE A == {m \in Nat : 0 < m /\ MulBelow(m)}
<1>1. MulBelow(1)
  <2> SUFFICES ASSUME NEW e \in Byte, NEW i \in Byte, NEW j \in Byte, i < 1, j < 1
               PROVE  /\ gfMultiply[i][e] \in Byte
                      /\ gfMultiply[xor[i][j]][e] = xor[gfMultiply[i][e]][gfMultiply[j][e]]
    BY DEF MulBelow
  <2>1. i = 0 /\ j = 0 /\ 0 \in Byte
    BY SizeIs DEF Byte
  <2>2. gfMultiply[0][e] = 0 /\ xor[0][0] = 0
    BY <2>1, MulStep, XorGroup
  <2> QED  BY <2>1, <2>2
<1>2. 1 \in A
  BY <1>1
<1>3. ASSUME NEW m \in A, 0 < m, 2 * m <= Size PROVE 2 * m \in A
  <2>1. m \in Nat \ {0} /\ MulBelow(m)
    OBVIOUS
  <2>2. MulBelow(2 * m)
    BY <2>1, MulDoubles
  <2> QED  BY <2>1, <2>2
<1>4. A \in SUBSET Nat
  OBVIOUS
<1> HIDE DEF A
<1>5. Size \in A
  BY <1>2, <1>3, <1>4, Ladder
<1>6. MulBelow(Size)
  BY <1>5 DEF A
<1>7. b < Size /\ c < Size
  BY SizeIs DEF Byte
<1> QED
  BY <1>6, <1>7 DEF MulBelow
-----------------------------------------------------------------------------
Times(a, b) == gfMul[a][b]
Over(a, b) == gfDiv[a][b]

\* A byte is 0 or in the multiplicative group.
LEMMA OrderIsOne == Order \in Nat \ {0} /\ Byte = {0} \cup 1..Order /\ 0 \notin 1..Order /\ 1 \in 1..Order
BY SizeIs DEF Order, Byte

\* Exponents are added below the order of the group.
Wrap(n) == IF n < Order THEN n ELSE n - Order

\* A sum or difference of exponents, without the remainder.
LEMMA WrapIs ==
    ASSUME NEW i \in 0..Order - 1, NEW j \in 0..Order - 1
    PROVE  /\ (i + j) % Order = Wrap(i + j) /\ Wrap(i + j) \in 0..Order - 1
           /\ (i + Order - j) % Order = Wrap(i + Order - j)
           /\ Wrap(i + Order - j) \in 0..Order - 1
<1>1. Order \in Nat \ {0}
  BY OrderIsOne
<1> DEFINE N == Order
<1> HIDE DEF N
<1>2. ASSUME NEW n \in 0..2 * N - 1, N \in Nat \ {0} PROVE n % N = IF n < N THEN n ELSE n - N
  <2>1. CASE n < N
    BY <1>2, <2>1
  <2>2. CASE ~(n < N)
    <3>1. n = 1 * N + (n - N) /\ n - N \in 0..N - 1
      BY <1>2, <2>2
    <3> DEFINE r == n - N
    <3>2. (1 * N + r) % N = r
      BY <1>2, <3>1, DivMod
    <3> QED  BY <2>2, <3>1, <3>2
  <2> QED  BY <2>1, <2>2
<1>3. i + j \in 0..2 * Order - 1 /\ i + Order - j \in 0..2 * Order - 1
  BY <1>1
<1> QED
  BY <1>1, <1>2, <1>3 DEF N, Wrap

\* EXP and LOG undo each other: what FieldAssumption says.
LEMMA Tables ==
    /\ \A i \in 0..Order - 1 : EXP[i] \in 1..Order /\ LOG[EXP[i]] = i
    /\ \A x \in 1..Order : LOG[x] \in 0..Order - 1 /\ EXP[LOG[x]] = x
BY FieldAssumption DEF GeneratesField

\* gfMul by the tables.
LEMMA TimesLog ==
    ASSUME NEW a \in Byte, NEW b \in Byte
    PROVE  Times(a, b) = IF a = 0 \/ b = 0 THEN 0 ELSE EXP[Wrap(LOG[a] + LOG[b])]
<1>1. gfMul[a][b] = IF a = 0 \/ b = 0 THEN 0 ELSE EXP[(LOG[a] + LOG[b]) % Order]
  BY DEF gfMul
<1>2. CASE a = 0 \/ b = 0
  BY <1>1, <1>2 DEF Times
<1>3. CASE ~(a = 0 \/ b = 0)
  <2>1. a \in 1..Order /\ b \in 1..Order
    BY <1>3, OrderIsOne
  <2>2. (LOG[a] + LOG[b]) % Order = Wrap(LOG[a] + LOG[b])
    BY <2>1, Tables, WrapIs
  <2> QED  BY <1>1, <1>3, <2>2 DEF Times
<1> QED
  BY <1>2, <1>3

LEMMA TimesPositive ==
    ASSUME NEW a \in 1..Order, NEW b \in 1..Order
    PROVE  /\ Times(a, b) \in 1..Order /\ LOG[Times(a, b)] = Wrap(LOG[a] + LOG[b])
<1>1. a \in Byte /\ b \in Byte /\ a # 0 /\ b # 0
  BY OrderIsOne
<1>2. Times(a, b) = EXP[Wrap(LOG[a] + LOG[b])]
  BY <1>1, TimesLog
<1>3. Wrap(LOG[a] + LOG[b]) \in 0..Order - 1
  BY Tables, WrapIs
<1> QED
  BY <1>2, <1>3, Tables

LEMMA TimesIs ==
    \A a, b \in Byte : /\ Times(a, b) \in Byte /\ Times(a, b) = Times(b, a)
                       /\ Times(0, a) = 0 /\ Times(a, 0) = 0
<1> SUFFICES ASSUME NEW a \in Byte, NEW b \in Byte
             PROVE  /\ Times(a, b) \in Byte /\ Times(a, b) = Times(b, a)
                    /\ Times(0, a) = 0 /\ Times(a, 0) = 0
  OBVIOUS
<1>1. 0 \in Byte
  BY SizeIs
<1>2. Times(0, a) = 0 /\ Times(a, 0) = 0 /\ Times(0, b) = 0 /\ Times(b, 0) = 0
  BY <1>1, TimesLog
<1>3. CASE a = 0 \/ b = 0
  BY <1>1, <1>2, <1>3
<1>4. CASE a # 0 /\ b # 0
  <2>1. a \in 1..Order /\ b \in 1..Order
    BY <1>4, OrderIsOne
  <2>2. LOG[a] + LOG[b] = LOG[b] + LOG[a]
    BY <2>1, Tables
  <2>3. Times(a, b) = Times(b, a)
    BY <1>4, <2>2, TimesLog
  <2> QED  BY <1>2, <2>1, <2>3, TimesPositive, OrderIsOne
<1> QED
  BY <1>3, <1>4

\* Multiplication is associative: exponents are added.
LEMMA TimesAgain ==
    \A a, b, c \in Byte : Times(Times(a, b), c) = Times(a, Times(b, c))
<1> SUFFICES ASSUME NEW a \in Byte, NEW b \in Byte, NEW c \in Byte
             PROVE  Times(Times(a, b), c) = Times(a, Times(b, c))
  OBVIOUS
<1>1. CASE a = 0 \/ b = 0 \/ c = 0
  BY <1>1, TimesIs
<1>2. CASE a # 0 /\ b # 0 /\ c # 0
  <2>1. a \in 1..Order /\ b \in 1..Order /\ c \in 1..Order
    BY <1>2, OrderIsOne
  <2> DEFINE p == Times(a, b)
             q == Times(b, c)
  <2>2. p \in 1..Order /\ LOG[p] = Wrap(LOG[a] + LOG[b])
        /\ q \in 1..Order /\ LOG[q] = Wrap(LOG[b] + LOG[c])
    BY <2>1, TimesPositive
  <2> HIDE DEF p, q
  <2>3. p \in Byte /\ q \in Byte /\ p # 0 /\ q # 0
    BY <2>2, OrderIsOne
  <2>4. Times(p, c) = EXP[Wrap(LOG[p] + LOG[c])] /\ Times(a, q) = EXP[Wrap(LOG[a] + LOG[q])]
    BY <1>2, <2>3, TimesLog
  <2>5. Wrap(LOG[p] + LOG[c]) = Wrap(LOG[a] + LOG[q])
    <3> DEFINE i == LOG[a]
               j == LOG[b]
               k == LOG[c]
    <3>1. i \in 0..Order - 1 /\ j \in 0..Order - 1 /\ k \in 0..Order - 1 /\ Order \in Nat \ {0}
      BY <2>1, Tables, OrderIsOne
    <3> HIDE DEF i, j, k
    <3>2. Wrap(Wrap(i + j) + k) = Wrap(i + Wrap(j + k))
      BY <3>1 DEF Wrap
    <3> QED  BY <2>2, <3>2 DEF i, j, k
  <2> QED  BY <2>4, <2>5 DEF p, q
<1> QED
  BY <1>1, <1>2

\* Multiplication distributes over addition: the tables' product is gfMultiply's.
LEMMA TimesSpreads ==
    \A a, b, c \in Byte : Times(a, Plus(b, c)) = Plus(Times(a, b), Times(a, c))
<1>1. ASSUME NEW a \in 1..Order, NEW b \in Byte PROVE Times(a, b) = gfMultiply[b][a]
  <2>1. a \in Byte /\ a # 0
    BY OrderIsOne
  <2>2. CASE b = 0
    BY <2>1, <2>2, TimesIs, MulStep
  <2>3. CASE b # 0
    <3>1. b \in 1..Order
      BY <2>3, OrderIsOne
    <3>2. gfMul[a][b] = EXP[(LOG[a] + LOG[b]) % Order]
      BY <2>1, <2>3 DEF gfMul
    <3> QED  BY <3>1, <3>2, FieldAssumption DEF GeneratesField, Times
  <2> QED  BY <2>2, <2>3
<1> SUFFICES ASSUME NEW a \in Byte, NEW b \in Byte, NEW c \in Byte
             PROVE  Times(a, Plus(b, c)) = Plus(Times(a, b), Times(a, c))
  OBVIOUS
<1>2. Plus(b, c) \in Byte
  BY PlusIs
<1>3. CASE a = 0
  BY <1>2, <1>3, TimesIs, PlusNone
<1>4. CASE a # 0
  <2>1. a \in 1..Order
    BY <1>4, OrderIsOne
  <2>2. Times(a, Plus(b, c)) = gfMultiply[Plus(b, c)][a]
    BY <1>1, <1>2, <2>1
  <2>3. Times(a, b) = gfMultiply[b][a] /\ Times(a, c) = gfMultiply[c][a]
    BY <1>1, <2>1
  <2>4. gfMultiply[Plus(b, c)][a] = Plus(gfMultiply[b][a], gfMultiply[c][a])
    BY MulLinear DEF Plus
  <2> QED  BY <2>2, <2>3, <2>4
<1> QED
  BY <1>3, <1>4

LEMMA TimesOne ==
    1 \in Byte /\ \A a \in Byte : Times(a, 1) = a /\ Times(1, a) = a
<1>1. 1 \in Byte /\ 1 \in 1..Order
  BY OrderIsOne
<1> SUFFICES ASSUME NEW a \in Byte PROVE Times(a, 1) = a
  BY <1>1, TimesIs
<1>2. CASE a = 0
  BY <1>1, <1>2, TimesIs
<1>3. CASE a # 0
  <2>1. a \in 1..Order
    BY <1>3, OrderIsOne
  <2>2. gfMul[a][1] = EXP[(LOG[a] + LOG[1]) % Order]
    BY <1>1, <1>3 DEF gfMul
  <2>3. Times(a, 1) = gfMultiply[1][a]
    BY <1>1, <2>1, <2>2, FieldAssumption DEF GeneratesField, Times
  <2>4. gfMultiply[1][a] = xor[Bit(1, a)][gfMultiply[1 \div 2][Doubled(a)]]
    BY <1>1, MulBits
  <2>5. Bit(1, a) = a /\ 1 \div 2 = 0
    BY DEF Bit
  <2>6. gfMultiply[0][Doubled(a)] = 0
    BY DoubledIs, MulStep, SizeIs
  <2> QED  BY <2>3, <2>4, <2>5, <2>6, XorGroup
<1> QED
  BY <1>2, <1>3

\* gfDiv undoes gfMul.
LEMMA OverIs ==
    \A a \in Byte, b \in 1..Order :
        Over(a, b) \in Byte /\ Times(Over(a, b), b) = a
<1> SUFFICES ASSUME NEW a \in Byte, NEW b \in 1..Order
             PROVE  Over(a, b) \in Byte /\ Times(Over(a, b), b) = a
  OBVIOUS
<1>1. Over(a, b) = IF a = 0 THEN 0 ELSE EXP[(LOG[a] + Order - LOG[b]) % Order]
  BY DEF Over, gfDiv
<1>2. b \in Byte /\ b # 0 /\ 0 \in Byte
  BY OrderIsOne
<1>3. CASE a = 0
  BY <1>1, <1>2, <1>3, TimesIs
<1>4. CASE a # 0
  <2>1. a \in 1..Order
    BY <1>4, OrderIsOne
  <2> DEFINE i == LOG[a]
             j == LOG[b]
             q == Over(a, b)
             e == Wrap(i + Order - j)
  <2>2. i \in 0..Order - 1 /\ j \in 0..Order - 1 /\ Order \in Nat \ {0}
    BY <2>1, Tables, OrderIsOne
  <2>3. q = EXP[e] /\ e \in 0..Order - 1
    <3>1. (i + Order - j) % Order = e /\ e \in 0..Order - 1
      <4> HIDE DEF i, j
      <4> QED  BY <2>2, WrapIs
    <3> QED  BY <1>1, <1>4, <3>1
  <2>4. Wrap(e + j) = i
    <3> HIDE DEF i, j
    <3> QED  BY <2>2 DEF Wrap
  <2> HIDE DEF q, e
  <2>5. q \in 1..Order /\ LOG[q] = e
    BY <2>3, Tables
  <2>6. q \in Byte /\ q # 0
    BY <2>5, OrderIsOne
  <2>7. Times(q, b) = EXP[Wrap(e + j)]
    BY <1>2, <2>5, <2>6, TimesLog
  <2>8. EXP[i] = a
    BY <2>1, Tables
  <2> QED  BY <2>4, <2>6, <2>7, <2>8 DEF q
<1> QED
  BY <1>3, <1>4

\* No zero divisors, and what follows: a factor that is not zero can be taken away.
LEMMA TimesCancels ==
    \A a, b, c \in Byte : c # 0 /\ Times(a, c) = Times(b, c) => a = b
<1> SUFFICES ASSUME NEW a \in Byte, NEW b \in Byte, NEW c \in Byte,
                    c # 0, Times(a, c) = Times(b, c)
             PROVE  a = b
  OBVIOUS
<1> DEFINE d == Plus(a, b)
<1>1. d \in Byte /\ Plus(b, c) \in Byte
  BY PlusIs
<1>2. Times(c, d) = 0
  <2>1. Times(c, d) = Plus(Times(c, a), Times(c, b))
    BY TimesSpreads
  <2>2. Times(c, a) = Times(c, b) /\ Times(c, a) \in Byte
    BY TimesIs
  <2> QED  BY <2>1, <2>2, PlusNone
<1>3. d = 0
  <2> HIDE DEF d
  <2> SUFFICES ASSUME d # 0 PROVE FALSE
    OBVIOUS
  <2>1. c \in 1..Order /\ d \in 1..Order
    BY <1>1, OrderIsOne
  <2> QED  BY <1>2, <2>1, TimesPositive, OrderIsOne
<1>4. Plus(Plus(a, b), b) = Plus(a, Plus(b, b)) /\ Plus(b, b) = 0 /\ Plus(0, b) = b /\ Plus(a, 0) = a
  BY PlusAgain, PlusNone
<1> QED
  BY <1>3, <1>4
-----------------------------------------------------------------------------
(***************************************************************************)
(* Polynomials: their values, their products and quotients                 *)
(***************************************************************************)
\* A list of n coefficients, and Horner's rule step after step.
Poly(n) == [1..n -> Byte]
HornerStep(u, c, x, i) == Plus(Times(u, x), c[Len(c) - i + 1])
Horner(f, c, x) ==
    f \in [0..Len(c) -> Byte] /\ f[0] = 0 /\ \A i \in 1..Len(c) : f[i] = HornerStep(f[i - 1], c, x, i)
Evaluates(f, c, x) ==
    f = [i \in 0..Len(c) |->
           IF i = 0 THEN 0 ELSE xor[gfMul[f[i - 1]][x]][c[Len(c) - i + 1]]]

LEMMA PolyIs ==
    ASSUME NEW n \in Nat, NEW c \in Poly(n)
    PROVE  Len(c) = n /\ \A i \in 1..n : c[i] \in Byte /\ c[n - i + 1] \in Byte
<1>1. c \in Seq(Byte) /\ Len(c) = n
  BY DEF Poly
<1>2. \A i \in 1..n : n - i + 1 \in 1..n
  OBVIOUS
<1> QED
  BY <1>1, <1>2 DEF Poly

\* evalPoly is the last step of a run of Horner's rule.
LEMMA HornerExists ==
    ASSUME NEW n \in Nat, NEW c \in Poly(n), NEW x \in Byte
    PROVE  \E f : Horner(f, c, x) /\ evalPoly(c, x) = f[n]
<1> DEFINE G == [p \in (1..n) \X Byte |-> HornerStep(p[2], c, x, p[1])]
           v == CHOOSE f : Evaluates(f, c, x)
<1>1. Len(c) = n
  BY PolyIs
<1>2. ASSUME NEW i \in 1..n, NEW u \in Byte PROVE HornerStep(u, c, x, i) \in Byte
  <2>1. Times(u, x) \in Byte /\ c[Len(c) - i + 1] \in Byte
    BY <1>1, TimesIs, PolyIs
  <2> QED  BY <2>1, PlusIs DEF HornerStep
<1>3. G \in [(1..n) \X Byte -> Byte]
  BY <1>2
<1>4. PICK f : Unfolds(f, Byte, n, 0, G)
  <2> HIDE DEF G
  <2> QED  BY <1>3, SizeIs, Recursion
<1>5. f \in [0..n -> Byte] /\ f[0] = 0
  BY <1>4 DEF Unfolds
<1>6. ASSUME NEW i \in 1..n PROVE f[i] = HornerStep(f[i - 1], c, x, i)
  <2>1. f[i] = G[<<i, f[i - 1]>>] /\ i - 1 \in 0..n
    <3> HIDE DEF G
    <3> QED  BY <1>4 DEF Unfolds
  <2>2. <<i, f[i - 1]>> \in (1..n) \X Byte
    BY <1>5, <2>1
  <2> QED  BY <2>1, <2>2
<1>7. Horner(f, c, x)
  BY <1>1, <1>5, <1>6 DEF Horner
<1>8. Evaluates(f, c, x)
  <2>1. f = [i \in 0..n |-> f[i]]
    BY <1>5
  <2>2. ASSUME NEW i \in 0..n
        PROVE  f[i] = IF i = 0 THEN 0 ELSE xor[gfMul[f[i - 1]][x]][c[Len(c) - i + 1]]
    <3>1. i # 0 => i \in 1..n
      OBVIOUS
    <3> QED  BY <1>5, <1>6, <3>1 DEF HornerStep, Plus, Times
  <2> QED  BY <1>1, <2>1, <2>2 DEF Evaluates
<1>9. Evaluates(v, c, x)
  BY <1>8
<1>10. evalPoly(c, x) = v[n]
  BY <1>1 DEF evalPoly, Evaluates
<1>11. Horner(v, c, x)
  <2> HIDE DEF v
  <2>1. \A i \in 0..n : v[i] = IF i = 0 THEN 0 ELSE HornerStep(v[i - 1], c, x, i)
    BY <1>1, <1>9 DEF Evaluates, HornerStep, Plus, Times
  <2> DEFINE A == {i \in 0..n : v[i] \in Byte}
  <2>2. 0 \in A
    BY <2>1, SizeIs
  <2>3. ASSUME NEW i \in 1..n, i - 1 \in A PROVE i \in A
    <3>1. v[i] = HornerStep(v[i - 1], c, x, i)
      BY <2>1
    <3> QED  BY <1>2, <2>3, <3>1
  <2> HIDE DEF A
  <2>4. 0..n \subseteq A
    BY <2>2, <2>3, InductionTo
  <2>5. \A i \in 0..n : v[i] \in Byte
    BY <2>4 DEF A
  <2>6. v = [i \in 0..n |-> v[i]]
    BY <1>1, <1>9 DEF Evaluates
  <2>7. v \in [0..n -> Byte]
    BY <2>5, <2>6
  <2>8. \A i \in 1..n : v[i] = HornerStep(v[i - 1], c, x, i)
    BY <2>1
  <2> QED  BY <1>1, <2>1, <2>7, <2>8 DEF Horner
<1> QED
  BY <1>10, <1>11

\* There is one such run.
LEMMA HornerOnce ==
    ASSUME NEW n \in Nat, NEW c \in Poly(n), NEW x \in Byte, NEW f, Horner(f, c, x)
    PROVE  evalPoly(c, x) = f[n] /\ f[n] \in Byte
<1>1. PICK g : Horner(g, c, x) /\ evalPoly(c, x) = g[n]
  BY HornerExists
<1>2. Len(c) = n
  BY PolyIs
<1> DEFINE A == {i \in 0..n : f[i] = g[i]}
<1>3. 0 \in A
  BY <1>1 DEF Horner
<1>4. ASSUME NEW i \in 1..n, i - 1 \in A PROVE i \in A
  BY <1>1, <1>2, <1>4 DEF Horner
<1> HIDE DEF A
<1>5. 0..n \subseteq A
  BY <1>3, <1>4, InductionTo
<1>6. f[n] = g[n]
  BY <1>5 DEF A
<1>7. f[n] \in Byte
  BY <1>2 DEF Horner
<1> QED
  BY <1>1, <1>6, <1>7

\* A coefficient put before the others.
Before(p, c, n) == [i \in 1..n + 1 |-> IF i = 1 THEN p ELSE c[i - 1]]

LEMMA BeforeIs ==
    ASSUME NEW n \in Nat, NEW c \in Poly(n), NEW p \in Byte
    PROVE  Before(p, c, n) \in Poly(n + 1) /\ Before(p, c, n) = <<p>> \o c
<1>1. ASSUME NEW i \in 1..n + 1 PROVE (IF i = 1 THEN p ELSE c[i - 1]) \in Byte
  <2>1. i # 1 => i - 1 \in 1..n
    OBVIOUS
  <2> QED  BY <2>1 DEF Poly
<1>2. Before(p, c, n) \in Poly(n + 1)
  BY <1>1 DEF Poly, Before
<1>3. c \in Seq(Byte) /\ Len(c) = n /\ <<p>> \in Seq(Byte) /\ Len(<<p>>) = 1
  BY DEF Poly
<1>4. <<p>> \o c = [i \in 1..n + 1 |-> IF i <= 1 THEN <<p>>[i] ELSE c[i - 1]]
  BY <1>3
<1>5. \A i \in 1..n + 1 : (IF i <= 1 THEN <<p>>[i] ELSE c[i - 1]) = IF i = 1 THEN p ELSE c[i - 1]
  OBVIOUS
<1> QED
  BY <1>2, <1>4, <1>5 DEF Before

\* Every list of n + 1 coefficients is one before n others.
LEMMA BeforeAll ==
    ASSUME NEW n \in Nat, NEW d \in Poly(n + 1)
    PROVE  \E p \in Byte, c \in Poly(n) : d = Before(p, c, n)
<1> DEFINE c == [i \in 1..n |-> d[i + 1]]
<1>1. \A i \in 1..n : i + 1 \in 1..n + 1
  OBVIOUS
<1>2. c \in Poly(n) /\ d[1] \in Byte
  BY <1>1 DEF Poly
<1>3. d = [i \in 1..n + 1 |-> d[i]]
  BY DEF Poly
<1>4. ASSUME NEW i \in 1..n + 1 PROVE d[i] = IF i = 1 THEN d[1] ELSE c[i - 1]
  <2>1. i # 1 => i - 1 \in 1..n /\ (i - 1) + 1 = i
    OBVIOUS
  <2> QED  BY <2>1
<1>5. d = Before(d[1], c, n)
  BY <1>3, <1>4 DEF Before
<1> QED
  BY <1>2, <1>5

\* The value with a coefficient more: the others times x, and that one.
LEMMA EvalBefore ==
    ASSUME NEW n \in Nat, NEW c \in Poly(n), NEW p \in Byte, NEW x \in Byte
    PROVE  /\ evalPoly(c, x) \in Byte
           /\ evalPoly(Before(p, c, n), x) = Plus(Times(evalPoly(c, x), x), p)
<1> DEFINE d == Before(p, c, n)
<1>1. PICK f : Horner(f, c, x) /\ evalPoly(c, x) = f[n]
  BY HornerExists
<1>2. Len(c) = n /\ d \in Poly(n + 1) /\ n + 1 \in Nat
  <2>1. Len(c) = n
    BY PolyIs
  <2>2. d \in Poly(n + 1)
    BY BeforeIs
  <2> QED  BY <2>1, <2>2
<1>3. Len(d) = n + 1
  <2> HIDE DEF d
  <2> QED  BY <1>2, PolyIs
<1>4. \A i \in 1..n : d[(n + 1) - i + 1] = c[n - i + 1]
  <2> SUFFICES ASSUME NEW i \in 1..n PROVE d[(n + 1) - i + 1] = c[n - i + 1]
    OBVIOUS
  <2>1. (n + 1) - i + 1 \in 1..n + 1 /\ (n + 1) - i + 1 # 1 /\ ((n + 1) - i + 1) - 1 = n - i + 1
    OBVIOUS
  <2> QED  BY <2>1 DEF Before
<1>5. d[1] = p
  BY DEF Before
<1> HIDE DEF d
<1>6. f[n] \in Byte /\ f \in [0..n -> Byte]
  BY <1>1, <1>2 DEF Horner
<1> DEFINE w == Plus(Times(f[n], x), p)
           g == [i \in 0..n + 1 |-> IF i = n + 1 THEN w ELSE f[i]]
<1>7. w \in Byte
  BY <1>6, TimesIs, PlusIs
<1> HIDE DEF w
<1>8. g \in [0..n + 1 -> Byte]
  BY <1>6, <1>7
<1>9. g[n + 1] = w /\ \A i \in 0..n : g[i] = f[i]
  OBVIOUS
<1> HIDE DEF g
<1>10. ASSUME NEW i \in 1..n + 1 PROVE g[i] = HornerStep(g[i - 1], d, x, i)
  <2>1. i - 1 \in 0..n /\ g[i - 1] = f[i - 1]
    BY <1>9
  <2>2. CASE i = n + 1
    <3>1. i - 1 = n /\ (n + 1) - i + 1 = 1
      BY <2>2
    <3> QED  BY <1>3, <1>5, <1>9, <2>1, <2>2, <3>1 DEF HornerStep, w
  <2>3. CASE i # n + 1
    <3>1. i \in 1..n /\ i \in 0..n
      BY <2>3
    <3>2. g[i] = f[i] /\ f[i] = HornerStep(f[i - 1], c, x, i)
      BY <1>1, <1>2, <1>9, <3>1 DEF Horner
    <3> QED  BY <1>2, <1>3, <1>4, <2>1, <3>1, <3>2 DEF HornerStep
  <2> QED  BY <2>2, <2>3
<1>11. g[0] = 0
  BY <1>1, <1>9 DEF Horner
<1>12. Horner(g, d, x)
  BY <1>3, <1>8, <1>10, <1>11 DEF Horner
<1>13. evalPoly(d, x) = g[n + 1]
  BY <1>2, <1>12, HornerOnce
<1> QED
  BY <1>1, <1>6, <1>9, <1>13 DEF d, w

LEMMA EvalNone ==
    ASSUME NEW c \in Poly(0), NEW x \in Byte
    PROVE  evalPoly(c, x) = 0
<1>1. PICK f : Horner(f, c, x) /\ evalPoly(c, x) = f[0]
  BY HornerExists
<1> QED
  BY <1>1 DEF Horner
-----------------------------------------------------------------------------
\* What polynomials of n coefficients are, as functions of a byte.
Curves(n) == {g \in [Byte -> Byte] : \E c \in Poly(n) : \A x \in Byte : g[x] = evalPoly(c, x)}
Lifts(g, h, p) == \A x \in Byte : g[x] = Plus(Times(h[x], x), p)
Grows(g, h, a, y) == \A x \in Byte : g[x] = Plus(Times(h[x], Plus(x, a)), y)

\* No coefficients: the polynomial that is 0.
LEMMA CurvesNone ==
    ASSUME NEW g
    PROVE  g \in Curves(0) <=> g \in [Byte -> Byte] /\ \A x \in Byte : g[x] = 0
<1>1. <<>> \in Poly(0)
  BY DEF Poly
<1>2. \A c \in Poly(0), x \in Byte : evalPoly(c, x) = 0
  BY EvalNone
<1> QED
  BY <1>1, <1>2 DEF Curves

\* One coefficient fewer.
LEMMA CurvesDown ==
    ASSUME NEW n \in Nat, NEW g \in Curves(n + 1)
    PROVE  \E h \in Curves(n), p \in Byte : Lifts(g, h, p)
<1>1. PICK d \in Poly(n + 1) : \A x \in Byte : g[x] = evalPoly(d, x)
  BY DEF Curves
<1>2. PICK p \in Byte, c \in Poly(n) : d = Before(p, c, n)
  BY BeforeAll
<1> DEFINE h == [x \in Byte |-> evalPoly(c, x)]
<1>3. \A x \in Byte : evalPoly(c, x) \in Byte /\ evalPoly(d, x) = Plus(Times(evalPoly(c, x), x), p)
  BY <1>2, EvalBefore
<1>4. h \in Curves(n)
  BY <1>3 DEF Curves
<1>5. Lifts(g, h, p)
  BY <1>1, <1>3 DEF Lifts
<1> QED
  BY <1>4, <1>5

\* One coefficient more.
LEMMA CurvesUp ==
    ASSUME NEW n \in Nat, NEW h \in Curves(n), NEW p \in Byte, NEW g \in [Byte -> Byte],
           Lifts(g, h, p)
    PROVE  g \in Curves(n + 1)
<1>1. PICK c \in Poly(n) : \A x \in Byte : h[x] = evalPoly(c, x)
  BY DEF Curves
<1>2. Before(p, c, n) \in Poly(n + 1)
  BY BeforeIs
<1>3. \A x \in Byte : g[x] = evalPoly(Before(p, c, n), x)
  BY <1>1, EvalBefore DEF Lifts
<1> QED
  BY <1>2, <1>3 DEF Curves

LEMMA CurvesAre ==
    \A n : \A g \in Curves(n) : g \in [Byte -> Byte]
BY DEF Curves

\* The two ways to write a polynomial whose quotient is itself divided.
LEMMA TwoWays ==
    \A x, r, q, a, y \in Byte :
        Plus(Times(Plus(Times(r, x), q), Plus(x, a)), y)
            = Plus(Times(Plus(Times(r, Plus(x, a)), q), x), Plus(Times(q, a), y))
<1> SUFFICES ASSUME NEW x \in Byte, NEW r \in Byte, NEW q \in Byte, NEW a \in Byte, NEW y \in Byte
             PROVE  Plus(Times(Plus(Times(r, x), q), Plus(x, a)), y)
                      = Plus(Times(Plus(Times(r, Plus(x, a)), q), x), Plus(Times(q, a), y))
  OBVIOUS
<1> DEFINE u == Times(r, x)
           v == Times(r, a)
           e == Times(u, x)
           f == Times(u, a)
           g == Times(q, x)
           h == Times(q, a)
<1>1. u \in Byte /\ v \in Byte /\ g \in Byte /\ h \in Byte
  BY TimesIs
<1>2. e \in Byte /\ f \in Byte
  <2> HIDE DEF u
  <2> QED  BY <1>1, TimesIs
<1>3. Times(v, x) = f
  <2>1. Times(Times(r, a), x) = Times(r, Times(a, x)) /\ Times(a, x) = Times(x, a)
        /\ Times(Times(r, x), a) = Times(r, Times(x, a))
    BY TimesAgain, TimesIs
  <2> QED  BY <2>1
<1>4. Times(r, Plus(x, a)) = Plus(u, v)
  BY TimesSpreads
<1> HIDE DEF u, v
<1>5. ASSUME NEW i \in Byte, NEW j \in Byte, NEW k \in Byte
      PROVE  Times(Plus(i, j), k) = Plus(Times(i, k), Times(j, k))
  <2>1. Times(Plus(i, j), k) = Times(k, Plus(i, j)) /\ Times(k, i) = Times(i, k)
        /\ Times(k, j) = Times(j, k)
    BY PlusIs, TimesIs
  <2> QED  BY <2>1, TimesSpreads
<1>6. Plus(u, q) \in Byte /\ Plus(u, v) \in Byte /\ Plus(x, a) \in Byte
  BY <1>1, PlusIs
<1>7. Times(Plus(u, q), Plus(x, a)) = Plus(Plus(e, g), Plus(f, h))
  <2>1. Times(Plus(u, q), Plus(x, a)) = Plus(Times(Plus(u, q), x), Times(Plus(u, q), a))
    BY <1>6, TimesSpreads
  <2> QED  BY <1>1, <1>5, <2>1
<1>8. Times(Plus(Plus(u, v), q), x) = Plus(Plus(e, f), g)
  BY <1>1, <1>3, <1>5, <1>6
<1> HIDE DEF e, f, g, h
<1>9. Plus(Plus(Plus(e, g), Plus(f, h)), y) = Plus(Plus(Plus(e, f), g), Plus(h, y))
  <2>1. Plus(Plus(e, g), Plus(f, h)) = Plus(Plus(e, f), Plus(g, h))
    BY <1>1, <1>2, PlusFour
  <2>2. Plus(Plus(e, f), Plus(g, h)) = Plus(Plus(Plus(e, f), g), h)
    BY <1>1, <1>2, PlusIs, PlusAgain
  <2>3. Plus(Plus(e, f), g) \in Byte
    BY <1>1, <1>2, PlusIs
  <2> QED  BY <1>1, <2>1, <2>2, <2>3, PlusAgain
<1> QED
  BY <1>4, <1>7, <1>8, <1>9 DEF h, u

\* A polynomial of k coefficients times x + a, and y.
Multiplies(k) ==
    \A h \in Curves(k), a, y \in Byte, g \in [Byte -> Byte] :
        Grows(g, h, a, y) => g \in Curves(k + 1)

LEMMA MultipliesNone == Multiplies(0)
<1> SUFFICES ASSUME NEW h \in Curves(0), NEW a \in Byte, NEW y \in Byte,
                    NEW g \in [Byte -> Byte], Grows(g, h, a, y)
             PROVE  g \in Curves(0 + 1)
  BY DEF Multiplies
<1>1. Lifts(g, h, y)
  <2> SUFFICES ASSUME NEW x \in Byte PROVE g[x] = Plus(Times(h[x], x), y)
    BY DEF Lifts
  <2>1. h[x] = 0 /\ Plus(x, a) \in Byte
    BY CurvesNone, PlusIs
  <2>2. g[x] = Plus(Times(h[x], Plus(x, a)), y)
    BY DEF Grows
  <2>3. Times(0, Plus(x, a)) = 0 /\ Times(0, x) = 0
    BY <2>1, TimesIs
  <2> QED  BY <2>1, <2>2, <2>3
<1> QED
  BY <1>1, CurvesUp

LEMMA MultipliesMore ==
    ASSUME NEW k \in Nat, Multiplies(k)
    PROVE  Multiplies(k + 1)
<1> SUFFICES ASSUME NEW h \in Curves(k + 1), NEW a \in Byte, NEW y \in Byte,
                    NEW g \in [Byte -> Byte], Grows(g, h, a, y)
             PROVE  g \in Curves((k + 1) + 1)
  BY DEF Multiplies
<1>1. PICK r \in Curves(k), q \in Byte : Lifts(h, r, q)
  BY CurvesDown
<1> DEFINE s == [x \in Byte |-> Plus(Times(r[x], Plus(x, a)), q)]
           p == Plus(Times(q, a), y)
<1>2. \A x \in Byte : r[x] \in Byte /\ Plus(x, a) \in Byte
  BY CurvesAre, PlusIs
<1>3. s \in [Byte -> Byte] /\ p \in Byte
  BY <1>2, TimesIs, PlusIs
<1>4. s \in Curves(k + 1)
  <2>1. Grows(s, r, a, q)
    BY DEF Grows
  <2> HIDE DEF s
  <2> QED  BY <1>3, <2>1 DEF Multiplies
<1>5. Lifts(g, s, p)
  <2> SUFFICES ASSUME NEW x \in Byte PROVE g[x] = Plus(Times(s[x], x), p)
    BY DEF Lifts
  <2>1. g[x] = Plus(Times(Plus(Times(r[x], x), q), Plus(x, a)), y)
    BY <1>1 DEF Grows, Lifts
  <2>2. s[x] = Plus(Times(r[x], Plus(x, a)), q)
    OBVIOUS
  <2>3. Plus(Times(Plus(Times(r[x], x), q), Plus(x, a)), y)
          = Plus(Times(Plus(Times(r[x], Plus(x, a)), q), x), Plus(Times(q, a), y))
    <3>1. r[x] \in Byte
      BY <1>2
    <3> QED  BY <3>1, TwoWays
  <2> QED  BY <2>1, <2>2, <2>3
<1> HIDE DEF s, p
<1> QED
  BY <1>3, <1>4, <1>5, CurvesUp

\* Whatever the number of coefficients.
LEMMA Multiplied ==
    ASSUME NEW n \in Nat
    PROVE  Multiplies(n)
<1> DEFINE A == {k \in 0..n : Multiplies(k)}
<1>1. 0 \in A
  BY MultipliesNone
<1>2. ASSUME NEW k \in 1..n, k - 1 \in A PROVE k \in A
  <2>1. k - 1 \in Nat /\ Multiplies(k - 1) /\ (k - 1) + 1 = k
    BY <1>2
  <2>2. Multiplies((k - 1) + 1)
    BY <2>1, MultipliesMore
  <2> QED  BY <2>1, <2>2
<1> HIDE DEF A
<1>3. 0..n \subseteq A
  BY <1>1, <1>2, InductionTo
<1> QED
  BY <1>3 DEF A

\* A polynomial of k + 1 coefficients divided by x + a.
Divides(k) ==
    \A g \in Curves(k + 1), a \in Byte : \E h \in Curves(k) : Grows(g, h, a, g[a])

LEMMA DividesNone == Divides(0)
<1> SUFFICES ASSUME NEW g \in Curves(0 + 1), NEW a \in Byte
             PROVE  \E h \in Curves(0) : Grows(g, h, a, g[a])
  BY DEF Divides
<1>1. PICK h \in Curves(0), p \in Byte : Lifts(g, h, p)
  BY CurvesDown
<1>2. \A x \in Byte : h[x] = 0 /\ g[x] = p /\ Plus(x, a) \in Byte
  <2> SUFFICES ASSUME NEW x \in Byte PROVE h[x] = 0 /\ g[x] = p /\ Plus(x, a) \in Byte
    OBVIOUS
  <2>1. h[x] = 0 /\ g[x] = Plus(Times(h[x], x), p)
    BY <1>1, CurvesNone DEF Lifts
  <2> QED  BY <2>1, TimesIs, PlusNone, PlusIs
<1>3. Grows(g, h, a, g[a])
  BY <1>2, TimesIs, PlusNone DEF Grows
<1> QED
  BY <1>3

LEMMA DividesMore ==
    ASSUME NEW k \in Nat, Divides(k)
    PROVE  Divides(k + 1)
<1> SUFFICES ASSUME NEW g \in Curves((k + 1) + 1), NEW a \in Byte
             PROVE  \E h \in Curves(k + 1) : Grows(g, h, a, g[a])
  BY DEF Divides
<1>1. PICK r \in Curves(k + 1), p \in Byte : Lifts(g, r, p)
  BY CurvesDown
<1>2. PICK s \in Curves(k) : Grows(r, s, a, r[a])
  BY DEF Divides
<1> DEFINE q == r[a]
           h == [x \in Byte |-> Plus(Times(s[x], x), q)]
<1>3. q \in Byte /\ \A x \in Byte : s[x] \in Byte /\ r[x] \in Byte
  BY CurvesAre
<1> HIDE DEF q
<1>4. h \in [Byte -> Byte]
  BY <1>3, TimesIs, PlusIs
<1>5. h \in Curves(k + 1)
  <2>1. Lifts(h, s, q)
    BY DEF Lifts
  <2> HIDE DEF h
  <2> QED  BY <1>3, <1>4, <2>1, CurvesUp
<1>6. ASSUME NEW x \in Byte PROVE g[x] = Plus(Times(h[x], Plus(x, a)), g[a])
  <2> DEFINE y == g[a]
             z == Times(q, a)
  <2>1. y = Plus(z, p) /\ z \in Byte /\ y \in Byte
    BY <1>1, <1>3, TimesIs, PlusIs DEF Lifts, q
  <2>2. Plus(z, y) = p
    <3> HIDE DEF y, z
    <3>1. Plus(z, Plus(z, p)) = Plus(Plus(z, z), p) /\ Plus(z, z) = 0 /\ Plus(0, p) = p
      BY <2>1, PlusAgain, PlusNone
    <3> QED  BY <2>1, <3>1
  <2>3. g[x] = Plus(Times(Plus(Times(s[x], Plus(x, a)), q), x), p)
    BY <1>1, <1>2 DEF Lifts, Grows, q
  <2>4. h[x] = Plus(Times(s[x], x), q)
    OBVIOUS
  <2> HIDE DEF y, h
  <2> QED  BY <1>3, <2>1, <2>2, <2>3, <2>4, TwoWays DEF y
<1>7. Grows(g, h, a, g[a])
  BY <1>6 DEF Grows
<1> QED
  BY <1>5, <1>7

\* Whatever the number of coefficients.
LEMMA Divided ==
    ASSUME NEW n \in Nat
    PROVE  Divides(n)
<1> DEFINE A == {k \in 0..n : Divides(k)}
<1>1. 0 \in A
  BY DividesNone
<1>2. ASSUME NEW k \in 1..n, k - 1 \in A PROVE k \in A
  <2>1. k - 1 \in Nat /\ Divides(k - 1) /\ (k - 1) + 1 = k
    BY <1>2
  <2>2. Divides((k - 1) + 1)
    BY <2>1, DividesMore
  <2> QED  BY <2>1, <2>2
<1> HIDE DEF A
<1>3. 0..n \subseteq A
  BY <1>1, <1>2, InductionTo
<1> QED
  BY <1>3 DEF A

\* One polynomial, and a multiple of another.
Adds(f, g, h, a) == \A x \in Byte : f[x] = Plus(g[x], Times(a, h[x]))
AddsUp(k) ==
    \A g, h \in Curves(k), a \in Byte, f \in [Byte -> Byte] : Adds(f, g, h, a) => f \in Curves(k)

LEMMA AddsUpNone == AddsUp(0)
<1> SUFFICES ASSUME NEW g \in Curves(0), NEW h \in Curves(0), NEW a \in Byte,
                    NEW f \in [Byte -> Byte], Adds(f, g, h, a)
             PROVE  f \in Curves(0)
  BY DEF AddsUp
<1>1. \A x \in Byte : g[x] = 0 /\ h[x] = 0
  BY CurvesNone
<1>2. \A x \in Byte : f[x] = 0
  BY <1>1, TimesIs, PlusNone DEF Adds
<1> QED
  BY <1>2, CurvesNone

LEMMA AddsUpMore ==
    ASSUME NEW k \in Nat, AddsUp(k)
    PROVE  AddsUp(k + 1)
<1> SUFFICES ASSUME NEW g \in Curves(k + 1), NEW h \in Curves(k + 1), NEW a \in Byte,
                    NEW f \in [Byte -> Byte], Adds(f, g, h, a)
             PROVE  f \in Curves(k + 1)
  BY DEF AddsUp
<1>1. PICK r \in Curves(k), p \in Byte : Lifts(g, r, p)
  BY CurvesDown
<1>2. PICK s \in Curves(k), q \in Byte : Lifts(h, s, q)
  BY CurvesDown
<1> DEFINE t == [x \in Byte |-> Plus(r[x], Times(a, s[x]))]
           w == Plus(p, Times(a, q))
<1>3. \A x \in Byte : r[x] \in Byte /\ s[x] \in Byte
  BY CurvesAre
<1>4. t \in [Byte -> Byte] /\ w \in Byte
  BY <1>3, TimesIs, PlusIs
<1>5. t \in Curves(k)
  <2>1. Adds(t, r, s, a)
    BY DEF Adds
  <2> HIDE DEF t
  <2> QED  BY <1>4, <2>1 DEF AddsUp
<1>6. ASSUME NEW x \in Byte PROVE f[x] = Plus(Times(t[x], x), w)
  <2> DEFINE u == r[x]
             v == s[x]
             i == Times(u, x)
             j == Times(v, x)
  <2>1. u \in Byte /\ v \in Byte /\ i \in Byte /\ j \in Byte /\ Times(a, v) \in Byte
        /\ Times(a, j) \in Byte /\ Times(a, q) \in Byte
    BY <1>3, TimesIs
  <2>2. f[x] = Plus(Plus(i, p), Times(a, Plus(j, q)))
    BY <1>1, <1>2 DEF Adds, Lifts
  <2>3. t[x] = Plus(u, Times(a, v))
    OBVIOUS
  <2> HIDE DEF u, v, t
  <2>4. Times(Plus(u, Times(a, v)), x) = Plus(i, Times(a, j))
    <3>1. Plus(u, Times(a, v)) \in Byte
      BY <2>1, PlusIs
    <3>2. Times(Plus(u, Times(a, v)), x) = Times(x, Plus(u, Times(a, v)))
          /\ Times(x, u) = i /\ Times(x, Times(a, v)) = Times(Times(a, v), x)
      BY <2>1, <3>1, TimesIs
    <3>3. Times(x, Plus(u, Times(a, v))) = Plus(Times(x, u), Times(x, Times(a, v)))
      BY <2>1, TimesSpreads
    <3>4. Times(Times(a, v), x) = Times(a, j)
      BY <2>1, TimesAgain
    <3> QED  BY <3>2, <3>3, <3>4
  <2> HIDE DEF i, j
  <2>5. Times(a, Plus(j, q)) = Plus(Times(a, j), Times(a, q))
    BY <2>1, TimesSpreads
  <2> DEFINE m == Times(a, j)
             o == Times(a, q)
  <2>6. m \in Byte /\ o \in Byte
    BY <2>1
  <2> HIDE DEF m, o
  <2>7. Plus(Plus(i, p), Plus(m, o)) = Plus(Plus(i, m), Plus(p, o))
    BY <2>1, <2>6, PlusFour
  <2> QED  BY <2>2, <2>3, <2>4, <2>5, <2>7 DEF m, o
<1>7. Lifts(f, t, w)
  BY <1>6 DEF Lifts
<1> HIDE DEF t, w
<1> QED
  BY <1>4, <1>5, <1>7, CurvesUp

\* Whatever the number of coefficients.
LEMMA AddedUp ==
    ASSUME NEW n \in Nat
    PROVE  AddsUp(n)
<1> DEFINE A == {k \in 0..n : AddsUp(k)}
<1>1. 0 \in A
  BY AddsUpNone
<1>2. ASSUME NEW k \in 1..n, k - 1 \in A PROVE k \in A
  <2>1. k - 1 \in Nat /\ AddsUp(k - 1) /\ (k - 1) + 1 = k
    BY <1>2
  <2>2. AddsUp((k - 1) + 1)
    BY <2>1, AddsUpMore
  <2> QED  BY <2>1, <2>2
<1> HIDE DEF A
<1>3. 0..n \subseteq A
  BY <1>1, <1>2, InductionTo
<1> QED
  BY <1>3 DEF A
-----------------------------------------------------------------------------
(***************************************************************************)
(* Interpolation: through any points a polynomial, and Lagrange's sum      *)
(***************************************************************************)
\* What differs has a difference that is not 0, by which gfDiv divides.
LEMMA Apart ==
    \A a, b \in Byte : a # b => Plus(a, b) \in 1..Order /\ Plus(a, b) \in Byte /\ Plus(a, b) # 0
<1> SUFFICES ASSUME NEW a \in Byte, NEW b \in Byte, a # b
             PROVE  Plus(a, b) \in 1..Order /\ Plus(a, b) \in Byte /\ Plus(a, b) # 0
  OBVIOUS
<1> DEFINE d == Plus(a, b)
<1>1. d \in Byte
  BY PlusIs
<1>2. Plus(Plus(a, b), b) = Plus(a, Plus(b, b)) /\ Plus(b, b) = 0 /\ Plus(0, b) = b /\ Plus(a, 0) = a
  BY PlusAgain, PlusNone
<1>3. d # 0
  BY <1>2
<1> HIDE DEF d
<1>4. d \in 1..Order
  BY <1>1, <1>3, OrderIsOne
<1> QED
  BY <1>1, <1>3, <1>4 DEF d

\* What is added twice is gone.
LEMMA Undone ==
    \A a, b \in Byte : Plus(Plus(a, b), b) = a /\ Plus(b, Plus(b, a)) = a
<1> SUFFICES ASSUME NEW a \in Byte, NEW b \in Byte
             PROVE  Plus(Plus(a, b), b) = a /\ Plus(b, Plus(b, a)) = a
  OBVIOUS
<1>1. Plus(Plus(a, b), b) = Plus(a, Plus(b, b)) /\ Plus(Plus(b, b), a) = Plus(b, Plus(b, a))
  BY PlusAgain
<1> QED
  BY <1>1, PlusNone

\* Places where a polynomial is known: none of them 0, no two the same.
Points(xs, n) ==
    /\ xs \in [1..n -> 1..Order]
    /\ \A i, j \in 1..n : i # j => xs[i] # xs[j]

\* Points are bytes, and Lagrange's denominators are not 0.
LEMMA PointsAre ==
    ASSUME NEW n \in Nat, NEW xs, Points(xs, n)
    PROVE  \A i \in 1..n : /\ xs[i] \in 1..Order /\ xs[i] \in Byte /\ xs[i] # 0
                           /\ \A j \in 1..n : i # j => Plus(xs[j], xs[i]) \in 1..Order
<1> SUFFICES ASSUME NEW i \in 1..n
             PROVE  /\ xs[i] \in 1..Order /\ xs[i] \in Byte /\ xs[i] # 0
                    /\ \A j \in 1..n : i # j => Plus(xs[j], xs[i]) \in 1..Order
  OBVIOUS
<1>1. \A j \in 1..n : xs[j] \in 1..Order /\ xs[j] \in Byte /\ xs[j] # 0
  BY OrderIsOne DEF Points
<1>2. \A j \in 1..n : i # j => xs[j] # xs[i]
  BY DEF Points
<1> QED
  BY <1>1, <1>2, Apart

\* Through the first k of them, with any values, goes a polynomial of k coefficients.
Through(k, xs, n) ==
    \A ys \in [1..n -> Byte] : \E g \in Curves(k) : \A i \in 1..k : g[xs[i]] = ys[i]

\* One point more: the values less the last one are divided by the distance to it.
LEMMA ThroughMore ==
    ASSUME NEW n \in Nat, NEW xs, Points(xs, n), NEW k \in 1..n, Through(k - 1, xs, n)
    PROVE  Through(k, xs, n)
<1> SUFFICES ASSUME NEW ys \in [1..n -> Byte]
             PROVE  \E g \in Curves(k) : \A i \in 1..k : g[xs[i]] = ys[i]
  BY DEF Through
<1> DEFINE z(i) == Over(Plus(ys[i], ys[k]), Plus(xs[i], xs[k]))
           zs == [i \in 1..n |-> IF i = k THEN 0 ELSE z(i)]
<1>1. \A i \in 1..n : xs[i] \in Byte /\ ys[i] \in Byte /\ Plus(ys[i], ys[k]) \in Byte
  <2>1. \A i \in 1..n : xs[i] \in Byte /\ ys[i] \in Byte
    BY PointsAre
  <2> QED  BY <2>1, PlusIs
<1>2. ASSUME NEW i \in 1..n, i # k
      PROVE  z(i) \in Byte /\ Times(z(i), Plus(xs[i], xs[k])) = Plus(ys[i], ys[k])
  <2>1. Plus(xs[i], xs[k]) \in 1..Order
    BY <1>2, PointsAre
  <2> QED  BY <1>1, <2>1, OverIs
<1>3. zs \in [1..n -> Byte]
  <2> HIDE DEF z
  <2> QED  BY <1>2, SizeIs
<1>4. \A i \in 1..k - 1 : i \in 1..n /\ i # k /\ zs[i] = z(i)
  OBVIOUS
<1> HIDE DEF z, zs
<1>5. PICK h \in Curves(k - 1) : \A i \in 1..k - 1 : h[xs[i]] = zs[i]
  BY <1>3 DEF Through
<1> DEFINE y == ys[k]
           a == xs[k]
           g == [x \in Byte |-> Plus(Times(h[x], Plus(x, a)), y)]
<1>6. y \in Byte /\ a \in Byte /\ \A x \in Byte : h[x] \in Byte /\ Plus(x, a) \in Byte
  BY <1>1, CurvesAre, PlusIs
<1>7. g \in [Byte -> Byte]
  <2> HIDE DEF y, a
  <2> QED  BY <1>6, TimesIs, PlusIs
<1>8. g \in Curves(k)
  <2>1. Grows(g, h, a, y)
    BY DEF Grows
  <2>2. Multiplies(k - 1)
    BY Multiplied
  <2> HIDE DEF g, y, a
  <2>3. g \in Curves((k - 1) + 1)
    BY <1>6, <1>7, <2>1, <2>2 DEF Multiplies
  <2> QED  BY <2>3
<1>9. ASSUME NEW i \in 1..k PROVE g[xs[i]] = ys[i]
  <2>1. xs[i] \in Byte /\ ys[i] \in Byte /\ i \in 1..n
    <3>1. i \in 1..n
      OBVIOUS
    <3> QED  BY <1>1, <3>1
  <2>2. g[xs[i]] = Plus(Times(h[xs[i]], Plus(xs[i], a)), y)
    BY <2>1
  <2>3. CASE i = k
    <3>1. Plus(xs[i], a) = 0 /\ h[xs[i]] \in Byte
      BY <1>6, <2>1, <2>3, PlusNone
    <3>2. Times(h[xs[i]], 0) = 0 /\ Plus(0, y) = y
      BY <1>6, <3>1, TimesIs, PlusNone
    <3> QED  BY <2>2, <2>3, <3>1, <3>2
  <2>4. CASE i # k
    <3>1. i \in 1..k - 1
      BY <2>4
    <3>2. Times(h[xs[i]], Plus(xs[i], a)) = Plus(ys[i], y)
      BY <1>2, <1>4, <1>5, <2>1, <3>1
    <3> HIDE DEF g, y, a
    <3> QED  BY <1>6, <2>1, <2>2, <3>2, Undone
  <2> QED  BY <2>3, <2>4
<1> QED
  BY <1>8, <1>9

LEMMA ThroughAll ==
    ASSUME NEW n \in Nat, NEW xs, Points(xs, n)
    PROVE  \A k \in 0..n : Through(k, xs, n)
<1> DEFINE A == {k \in 0..n : Through(k, xs, n)}
<1>1. 0 \in A
  <2>1. [x \in Byte |-> 0] \in Curves(0)
    BY CurvesNone, SizeIs
  <2> QED  BY <2>1 DEF Through
<1>2. ASSUME NEW k \in 1..n, k - 1 \in A PROVE k \in A
  BY <1>2, ThroughMore
<1> HIDE DEF A
<1>3. 0..n \subseteq A
  BY <1>1, <1>2, InductionTo
<1> QED
  BY <1>3 DEF A

\* The product of x_j / (a + x_j).
Product(b, xs, a, k) ==
    b[0] = 1 /\ \A j \in 1..k : b[j] = Times(b[j - 1], Over(xs[j], Plus(a, xs[j])))

\* What a polynomial that is 0 at k points is worth at 0, by what it is at another point.
Vanishes(k, xs, n) ==
    \A g \in Curves(k + 1), a \in Byte, b \in [0..n -> Byte] :
        /\ \A i \in 1..k : g[xs[i]] = 0 /\ a # xs[i]
        /\ Product(b, xs, a, k)
        => g[0] = Times(g[a], b[k])

LEMMA VanishesNone ==
    ASSUME NEW n \in Nat, NEW xs
    PROVE  Vanishes(0, xs, n)
<1> SUFFICES ASSUME NEW g \in Curves(0 + 1), NEW a \in Byte, NEW b \in [0..n -> Byte],
                    Product(b, xs, a, 0)
             PROVE  g[0] = Times(g[a], b[0])
  BY DEF Vanishes
<1>1. PICK h \in Curves(0) : Grows(g, h, a, g[a])
  BY DividesNone DEF Divides
<1>2. 0 \in Byte /\ g[a] \in Byte /\ Plus(0, a) \in Byte /\ h[0] = 0
  BY SizeIs, CurvesAre, CurvesNone, PlusIs
<1>3. g[0] = Plus(Times(0, Plus(0, a)), g[a])
  BY <1>1, <1>2 DEF Grows
<1>4. Times(0, Plus(0, a)) = 0 /\ Plus(0, g[a]) = g[a] /\ Times(g[a], 1) = g[a]
  BY <1>2, TimesIs, PlusNone, TimesOne
<1> QED
  BY <1>3, <1>4 DEF Product

\* One zero more: it is divided out.
LEMMA VanishesMore ==
    ASSUME NEW n \in Nat, NEW xs, Points(xs, n), NEW k \in 1..n, Vanishes(k - 1, xs, n)
    PROVE  Vanishes(k, xs, n)
<1> SUFFICES ASSUME NEW g \in Curves(k + 1), NEW a \in Byte, NEW b \in [0..n -> Byte],
                    \A i \in 1..k : g[xs[i]] = 0 /\ a # xs[i], Product(b, xs, a, k)
             PROVE  g[0] = Times(g[a], b[k])
  BY DEF Vanishes
<1> DEFINE y == xs[k]
<1>1. y \in Byte /\ g[y] = 0 /\ a # y /\ y \in 1..Order
  BY PointsAre
<1>2. PICK h \in Curves(k) : Grows(g, h, y, g[y])
  BY <1>1, Divided DEF Divides
<1>3. ASSUME NEW x \in Byte
      PROVE  h[x] \in Byte /\ Plus(x, y) \in Byte /\ g[x] = Times(h[x], Plus(x, y))
  <2>1. h[x] \in Byte /\ Plus(x, y) \in Byte
    BY <1>1, CurvesAre, PlusIs
  <2>2. g[x] = Plus(Times(h[x], Plus(x, y)), 0)
    BY <1>1, <1>2 DEF Grows
  <2>3. Times(h[x], Plus(x, y)) \in Byte
    BY <2>1, TimesIs
  <2> QED  BY <2>1, <2>2, <2>3, PlusNone
<1>4. ASSUME NEW i \in 1..k - 1 PROVE h[xs[i]] = 0 /\ a # xs[i]
  <2>1. i \in 1..n /\ i \in 1..k /\ i # k
    OBVIOUS
  <2>2. xs[i] \in Byte /\ Plus(xs[i], y) \in 1..Order /\ g[xs[i]] = 0 /\ a # xs[i]
    BY <2>1, PointsAre
  <2>3. Plus(xs[i], y) \in Byte /\ Plus(xs[i], y) # 0 /\ 0 \in Byte
    BY <2>2, OrderIsOne
  <2>4. Times(h[xs[i]], Plus(xs[i], y)) = 0 /\ Times(0, Plus(xs[i], y)) = 0 /\ h[xs[i]] \in Byte
    BY <1>3, <2>2, <2>3, TimesIs
  <2> QED  BY <2>2, <2>3, <2>4, TimesCancels
<1>5. Product(b, xs, a, k - 1) /\ b[k] = Times(b[k - 1], Over(y, Plus(a, y)))
  BY DEF Product
<1>6. h[0] = Times(h[a], b[k - 1])
  <2>1. h \in Curves((k - 1) + 1)
    OBVIOUS
  <2> QED  BY <1>4, <1>5, <2>1 DEF Vanishes
<1> DEFINE s == Plus(a, y)
           q == Over(y, s)
           u == h[a]
           v == b[k - 1]
<1>7. s \in 1..Order /\ s \in Byte /\ q \in Byte /\ Times(q, s) = y /\ u \in Byte /\ v \in Byte
  <2>1. s \in 1..Order /\ s \in Byte
    BY <1>1, Apart
  <2>2. q \in Byte /\ Times(q, s) = y
    <3> HIDE DEF s, y
    <3> QED  BY <1>1, <2>1, OverIs
  <2>3. u \in Byte /\ v \in Byte
    BY <1>3
  <2> QED  BY <2>1, <2>2, <2>3
<1>8. g[0] = Times(Times(u, v), y) /\ g[a] = Times(u, s) /\ b[k] = Times(v, q)
  <2>1. g[0] = Times(h[0], Plus(0, y)) /\ Plus(0, y) = y
    BY <1>1, <1>3, PlusNone, SizeIs
  <2> QED  BY <1>3, <1>5, <1>6, <2>1
<1> HIDE DEF s, q, u, v, y
<1>9. Times(Times(u, s), Times(v, q)) = Times(Times(u, v), y)
  <2>1. Times(v, q) \in Byte /\ Times(s, q) = Times(q, s)
    <3>1. Times(v, q) \in Byte
      BY <1>7, TimesIs
    <3>2. Times(s, q) = Times(q, s)
      BY <1>7, TimesIs
    <3> QED  BY <3>1, <3>2
  <2>2. Times(Times(u, s), Times(v, q)) = Times(u, Times(s, Times(v, q)))
    BY <1>7, <2>1, TimesAgain
  <2>3. Times(s, Times(v, q)) = Times(Times(v, q), s) /\ Times(Times(v, q), s) = Times(v, Times(q, s))
    BY <1>7, <2>1, TimesIs, TimesAgain
  <2>4. Times(Times(u, v), y) = Times(u, Times(v, y))
    BY <1>1, <1>7, TimesAgain
  <2> QED  BY <1>7, <2>2, <2>3, <2>4
<1> QED
  BY <1>8, <1>9

LEMMA VanishesAll ==
    ASSUME NEW n \in Nat, NEW xs, Points(xs, n)
    PROVE  \A k \in 0..n : Vanishes(k, xs, n)
<1> DEFINE A == {k \in 0..n : Vanishes(k, xs, n)}
<1>1. 0 \in A
  BY VanishesNone
<1>2. ASSUME NEW k \in 1..n, k - 1 \in A PROVE k \in A
  BY <1>2, VanishesMore
<1> HIDE DEF A
<1>3. 0..n \subseteq A
  BY <1>1, <1>2, InductionTo
<1> QED
  BY <1>3 DEF A
-----------------------------------------------------------------------------
\* The Lagrange basis over the first j points, and the sum over the first k of them.
BasisStep(u, xs, i, j) == IF j = i THEN u ELSE Times(u, Over(xs[j], Plus(xs[i], xs[j])))
Bases(b, xs, n) ==
    \A i \in 1..n : /\ b[i] \in [0..n -> Byte] /\ b[i][0] = 1
                    /\ \A j \in 1..n : b[i][j] = BasisStep(b[i][j - 1], xs, i, j)
Sums(v, g, b, xs, k) ==
    v[0] = 0 /\ \A i \in 1..k : v[i] = Plus(v[i - 1], Times(g[xs[i]], b[i][k]))

\* A polynomial of k coefficients at 0, from what it is at the first k points.
Lagrange(k, b, xs, n) ==
    \A g \in Curves(k), v \in [0..n -> Byte] : Sums(v, g, b, xs, k) => v[k] = g[0]

\* One point more.  r takes the terms of the points before it together, and what is left
\* is 0 at all of them, so that VanishesAll says what it is at 0.
LEMMA LagrangeMore ==
    ASSUME NEW n \in Nat, NEW xs, Points(xs, n), NEW b, Bases(b, xs, n),
           NEW k \in 1..n, Lagrange(k - 1, b, xs, n)
    PROVE  Lagrange(k, b, xs, n)
<1> SUFFICES ASSUME NEW g \in Curves(k), NEW v \in [0..n -> Byte], Sums(v, g, b, xs, k)
             PROVE  v[k] = g[0]
  BY DEF Lagrange
<1> DEFINE y == xs[k]
           o(i) == Over(y, Plus(xs[i], y))
           ys == [i \in 1..n |-> IF i = k THEN 0 ELSE Times(g[xs[i]], o(i))]
<1>1. y \in Byte /\ y # 0 /\ \A x \in Byte : g[x] \in Byte /\ Plus(x, y) \in Byte
  <2>1. y \in Byte /\ y # 0
    BY PointsAre
  <2> HIDE DEF y
  <2> QED  BY <2>1, CurvesAre, PlusIs
<1>2. ASSUME NEW i \in 1..n, i # k
      PROVE  /\ xs[i] \in Byte /\ g[xs[i]] \in Byte /\ o(i) \in Byte
             /\ Times(o(i), Plus(xs[i], y)) = y /\ Times(g[xs[i]], o(i)) \in Byte
             /\ y # xs[i]
  <2>1. xs[i] \in Byte /\ Plus(xs[i], y) \in 1..Order /\ y # xs[i]
    BY <1>2, PointsAre DEF Points
  <2>2. o(i) \in Byte /\ Times(o(i), Plus(xs[i], y)) = y
    <3> HIDE DEF y
    <3> QED  BY <1>1, <2>1, OverIs
  <2>3. g[xs[i]] \in Byte
    BY <1>1, <2>1
  <2> HIDE DEF o, y
  <2> QED  BY <2>1, <2>2, <2>3, TimesIs
<1>3. ys \in [1..n -> Byte]
  <2> HIDE DEF o
  <2> QED  BY <1>2, SizeIs
<1>4. ASSUME NEW i \in 1..k - 1
      PROVE  i \in 1..n /\ i # k /\ i \in 1..k /\ k - 1 \in 0..n /\ ys[i] = Times(g[xs[i]], o(i))
  OBVIOUS
<1> HIDE DEF o, ys
<1>5. PICK r \in Curves(k - 1) : \A i \in 1..k - 1 : r[xs[i]] = ys[i]
  <2>1. Through(k - 1, xs, n)
    <3>1. k - 1 \in 0..n
      OBVIOUS
    <3> QED  BY <3>1, ThroughAll
  <2> QED  BY <1>3, <2>1 DEF Through
<1>6. \A x \in Byte : r[x] \in Byte
  BY CurvesAre
\* The sum over the points before y is r at 0.
<1>7. v[k - 1] = r[0]
  <2>1. ASSUME NEW i \in 1..k - 1
        PROVE  v[i] = Plus(v[i - 1], Times(r[xs[i]], b[i][k - 1]))
    <3> DEFINE u == b[i][k - 1]
               w == g[xs[i]]
               q == o(i)
    <3>1. v[i] = Plus(v[i - 1], Times(w, b[i][k]))
      BY <1>4 DEF Sums
    <3>2. b[i][k] = BasisStep(u, xs, i, k) /\ u \in Byte
      BY <1>4 DEF Bases
    <3>3. b[i][k] = Times(u, q)
      BY <1>4, <3>2 DEF BasisStep, o
    <3>4. w \in Byte /\ q \in Byte /\ r[xs[i]] = Times(w, q)
      BY <1>2, <1>4, <1>5
    <3> HIDE DEF u, w, q
    <3>5. Times(w, Times(u, q)) = Times(Times(w, q), u)
      <4>1. Times(u, q) = Times(q, u)
        BY <3>2, <3>4, TimesIs
      <4> QED  BY <3>2, <3>4, <4>1, TimesAgain
    <3> QED  BY <3>1, <3>3, <3>4, <3>5 DEF u
  <2>2. Sums(v, r, b, xs, k - 1)
    BY <2>1 DEF Sums
  <2> QED  BY <2>2 DEF Lagrange
\* This one is 0 at the points before y.
<1> DEFINE m == [x \in Byte |-> Times(r[x], Plus(x, y))]
           f == [x \in Byte |-> Plus(m[x], Times(y, g[x]))]
<1>8. m \in [Byte -> Byte] /\ f \in [Byte -> Byte]
  <2>1. m \in [Byte -> Byte]
    <3> HIDE DEF y
    <3> QED  BY <1>1, <1>6, TimesIs
  <2> HIDE DEF m, y
  <2> QED  BY <1>1, <2>1, TimesIs, PlusIs
<1>9. f \in Curves(k)
  <2>1. Grows(m, r, y, 0)
    <3> SUFFICES ASSUME NEW x \in Byte PROVE m[x] = Plus(Times(r[x], Plus(x, y)), 0)
      BY DEF Grows
    <3>1. m[x] = Times(r[x], Plus(x, y)) /\ m[x] \in Byte
      BY <1>8
    <3> HIDE DEF m
    <3> QED  BY <3>1, PlusNone
  <2>2. Adds(f, m, g, y)
    BY DEF Adds
  <2> HIDE DEF m, f, y
  <2>3. m \in Curves((k - 1) + 1)
    <3>1. Multiplies(k - 1)
      BY Multiplied
    <3> QED  BY <1>1, <1>8, <2>1, <3>1, SizeIs DEF Multiplies
  <2>4. AddsUp(k) /\ m \in Curves(k)
    BY <2>3, AddedUp
  <2> QED  BY <1>1, <1>8, <2>2, <2>4 DEF AddsUp
<1>10. ASSUME NEW i \in 1..k - 1 PROVE f[xs[i]] = 0 /\ y # xs[i]
  <2> DEFINE x == xs[i]
             w == g[x]
             q == o(i)
             s == Plus(x, y)
  <2>1. x \in Byte /\ w \in Byte /\ q \in Byte /\ s \in Byte /\ Times(q, s) = y /\ y # x
        /\ r[x] = Times(w, q)
    BY <1>1, <1>2, <1>4, <1>5
  <2>2. f[x] = Plus(Times(r[x], s), Times(y, w))
    BY <2>1
  <2> HIDE DEF f, w, q, s, y
  <2>3. Times(Times(w, q), s) = Times(w, y) /\ Times(w, y) = Times(y, w) /\ Times(y, w) \in Byte
    BY <1>1, <2>1, TimesAgain, TimesIs
  <2> QED  BY <2>1, <2>2, <2>3, PlusNone
<1>11. f[0] = Times(f[y], b[k][k - 1])
  <2>1. Product(b[k], xs, y, k - 1)
    <3>1. ASSUME NEW j \in 1..k - 1 PROVE b[k][j] = Times(b[k][j - 1], Over(xs[j], Plus(y, xs[j])))
      <4>1. j \in 1..n /\ j # k
        OBVIOUS
      <4>2. b[k][j] = BasisStep(b[k][j - 1], xs, k, j)
        BY <4>1 DEF Bases
      <4> QED  BY <4>1, <4>2 DEF BasisStep
    <3>2. b[k][0] = 1
      BY DEF Bases
    <3> HIDE DEF y
    <3> QED  BY <3>1, <3>2 DEF Product
  <2>2. Vanishes(k - 1, xs, n) /\ (k - 1) + 1 = k /\ b[k] \in [0..n -> Byte]
    <3>1. k - 1 \in 0..n
      OBVIOUS
    <3> QED  BY <3>1, VanishesAll DEF Bases
  <2> HIDE DEF f, y
  <2>3. f \in Curves((k - 1) + 1)
    BY <1>9
  <2> QED  BY <1>1, <1>10, <2>1, <2>2, <2>3 DEF Vanishes
<1> DEFINE c == b[k][k - 1]
           p == g[0]
           e == g[y]
           t == r[0]
<1>12. c \in Byte /\ p \in Byte /\ e \in Byte /\ t \in Byte
  <2>1. c \in Byte
    BY DEF Bases
  <2> QED  BY <1>1, <1>6, <2>1, SizeIs
<1>13. f[0] = Plus(Times(t, y), Times(y, p)) /\ f[y] = Times(y, e)
  <2>1. 0 \in Byte /\ Plus(0, y) = y /\ Plus(y, y) = 0
    BY <1>1, PlusNone
  <2>2. f[0] = Plus(Times(t, Plus(0, y)), Times(y, p))
    BY <2>1
  <2>3. f[y] = Plus(Times(r[y], Plus(y, y)), Times(y, e))
    BY <1>1
  <2> HIDE DEF f, y, p, e, t
  <2>4. Times(r[y], 0) = 0 /\ Plus(0, Times(y, e)) = Times(y, e)
    BY <1>1, <1>6, <1>12, TimesIs, PlusNone
  <2> QED  BY <2>1, <2>2, <2>3, <2>4
<1>14. v[k] = Plus(t, Times(e, c))
  <2>1. v[k] = Plus(v[k - 1], Times(e, b[k][k]))
    BY DEF Sums
  <2>2. b[k][k] = c
    BY DEF Bases, BasisStep
  <2> QED  BY <1>7, <2>1, <2>2
<1>15. Plus(t, p) = Times(e, c)
  <2> HIDE DEF f, y, p, e, t, c
  <2>1. Plus(Times(t, y), Times(y, p)) = Times(Times(y, e), c)
    BY <1>11, <1>13 DEF c
  <2>2. Times(t, y) = Times(y, t) /\ Plus(Times(y, t), Times(y, p)) = Times(y, Plus(t, p))
    BY <1>1, <1>12, TimesIs, TimesSpreads
  <2>3. Times(Times(y, e), c) = Times(y, Times(e, c))
    BY <1>1, <1>12, TimesAgain
  <2>4. Plus(t, p) \in Byte /\ Times(e, c) \in Byte
    BY <1>12, PlusIs, TimesIs
  <2>5. Times(Plus(t, p), y) = Times(Times(e, c), y)
    BY <1>1, <2>1, <2>2, <2>3, <2>4, TimesIs
  <2> QED  BY <1>1, <2>4, <2>5, TimesCancels
<1>16. Plus(t, Plus(t, p)) = p
  <2> HIDE DEF t, p
  <2> QED  BY <1>12, Undone
<1> QED
  BY <1>14, <1>15, <1>16

LEMMA LagrangeAll ==
    ASSUME NEW n \in Nat, NEW xs, Points(xs, n), NEW b, Bases(b, xs, n)
    PROVE  Lagrange(n, b, xs, n)
<1> DEFINE A == {k \in 0..n : Lagrange(k, b, xs, n)}
<1>1. 0 \in A
  <2>1. \A g \in Curves(0) : g[0] = 0
    BY CurvesNone, SizeIs
  <2> QED  BY <2>1 DEF Lagrange, Sums
<1>2. ASSUME NEW k \in 1..n, k - 1 \in A PROVE k \in A
  BY <1>2, LagrangeMore
<1> HIDE DEF A
<1>3. 0..n \subseteq A
  BY <1>1, <1>2, InductionTo
<1> QED
  BY <1>3 DEF A
-----------------------------------------------------------------------------
\* The functions that Basis and combineShares go through.
BasisGoes(f, shares, i) ==
    f = [j \in 0..Len(shares) |->
           IF j = 0 THEN 1 ELSE IF j = i THEN f[j - 1]
           ELSE gfMul[f[j - 1]][gfDiv[shares[j].index][xor[shares[i].index][shares[j].index]]]]
CombineGoes(f, shares) ==
    f = [i \in 0..Len(shares) |->
           IF i = 0 THEN 0 ELSE xor[f[i - 1]][gfMul[shares[i].data][Basis(shares, i)]]]

\* The shares of a curve at some points.
SharesAt(shares, g, xs, n) ==
    /\ Len(shares) = n /\ Points(xs, n) /\ g \in [Byte -> Byte]
    /\ \A i \in 1..n : shares[i].index = xs[i] /\ shares[i].data = g[xs[i]]

\* Basis is the last step of its run.
LEMMA BasisExists ==
    ASSUME NEW n \in Nat, NEW xs, NEW g, NEW shares, SharesAt(shares, g, xs, n), NEW i \in 1..n
    PROVE  \E f \in [0..n -> Byte] :
               /\ f[0] = 1 /\ \A j \in 1..n : f[j] = BasisStep(f[j - 1], xs, i, j)
               /\ Basis(shares, i) = f[n]
<1> DEFINE G == [p \in (1..n) \X Byte |-> BasisStep(p[2], xs, i, p[1])]
           v == CHOOSE f : BasisGoes(f, shares, i)
<1>1. Len(shares) = n /\ Points(xs, n) /\ \A j \in 1..n : shares[j].index = xs[j]
  BY DEF SharesAt
<1>2. ASSUME NEW j \in 1..n, NEW u \in Byte PROVE BasisStep(u, xs, i, j) \in Byte
  <2>1. CASE j = i
    BY <2>1 DEF BasisStep
  <2>2. CASE j # i
    <3>1. xs[j] \in Byte /\ Plus(xs[i], xs[j]) \in 1..Order
      BY <1>1, <2>2, PointsAre
    <3>2. Over(xs[j], Plus(xs[i], xs[j])) \in Byte
      BY <3>1, OverIs
    <3> QED  BY <2>2, <3>2, TimesIs DEF BasisStep
  <2> QED  BY <2>1, <2>2
<1>3. G \in [(1..n) \X Byte -> Byte]
  BY <1>2
<1>4. PICK f : Unfolds(f, Byte, n, 1, G)
  <2> HIDE DEF G
  <2> QED  BY <1>3, TimesOne, Recursion
<1>5. f \in [0..n -> Byte] /\ f[0] = 1
  BY <1>4 DEF Unfolds
<1>6. ASSUME NEW j \in 1..n PROVE f[j] = BasisStep(f[j - 1], xs, i, j)
  <2>1. f[j] = G[<<j, f[j - 1]>>] /\ j - 1 \in 0..n
    <3> HIDE DEF G
    <3> QED  BY <1>4 DEF Unfolds
  <2>2. <<j, f[j - 1]>> \in (1..n) \X Byte
    BY <1>5, <2>1
  <2> QED  BY <2>1, <2>2
<1>7. BasisGoes(f, shares, i)
  <2>1. f = [j \in 0..n |-> f[j]]
    BY <1>5
  <2>2. ASSUME NEW j \in 0..n
        PROVE  f[j] = IF j = 0 THEN 1 ELSE IF j = i THEN f[j - 1]
                      ELSE gfMul[f[j - 1]][gfDiv[shares[j].index][xor[shares[i].index][shares[j].index]]]
    <3>1. j # 0 => j \in 1..n
      OBVIOUS
    <3> QED  BY <1>1, <1>5, <1>6, <3>1 DEF BasisStep, Plus, Times, Over
  <2> QED  BY <1>1, <2>1, <2>2 DEF BasisGoes
<1>8. BasisGoes(v, shares, i)
  BY <1>7
<1>9. Basis(shares, i) = v[n]
  BY <1>1 DEF Basis, BasisGoes
<1>10. v[0] = 1 /\ \A j \in 1..n : v[j] = BasisStep(v[j - 1], xs, i, j)
  <2> HIDE DEF v
  <2>1. \A j \in 0..n :
          v[j] = IF j = 0 THEN 1 ELSE IF j = i THEN v[j - 1]
                 ELSE gfMul[v[j - 1]][gfDiv[shares[j].index][xor[shares[i].index][shares[j].index]]]
    BY <1>1, <1>8 DEF BasisGoes
  <2>2. v[0] = 1
    <3>1. 0 \in 0..n
      OBVIOUS
    <3> QED  BY <2>1, <3>1
  <2>3. ASSUME NEW j \in 1..n PROVE v[j] = BasisStep(v[j - 1], xs, i, j)
    <3>1. j \in 0..n /\ j # 0
      OBVIOUS
    <3> QED  BY <1>1, <2>1, <3>1 DEF BasisStep, Plus, Times, Over
  <2> QED  BY <2>2, <2>3
<1>11. v \in [0..n -> Byte]
  <2> DEFINE A == {j \in 0..n : v[j] \in Byte}
  <2>1. v = [j \in 0..n |-> v[j]]
    <3> HIDE DEF v
    <3> QED  BY <1>1, <1>8 DEF BasisGoes
  <2> HIDE DEF v
  <2>2. 0 \in A
    BY <1>10, TimesOne
  <2>3. ASSUME NEW j \in 1..n, j - 1 \in A PROVE j \in A
    <3>1. v[j] = BasisStep(v[j - 1], xs, i, j)
      BY <1>10
    <3> QED  BY <1>2, <2>3, <3>1
  <2> HIDE DEF A
  <2>4. 0..n \subseteq A
    BY <2>2, <2>3, InductionTo
  <2>5. \A j \in 0..n : v[j] \in Byte
    BY <2>4 DEF A
  <2> QED  BY <2>1, <2>5
<1> HIDE DEF v
<1> QED
  BY <1>9, <1>10, <1>11

\* combineShares is the last step of its run.
LEMMA CombineExists ==
    ASSUME NEW n \in Nat, NEW shares, Len(shares) = n,
           \A i \in 1..n : shares[i].data \in Byte /\ Basis(shares, i) \in Byte
    PROVE  \E f \in [0..n -> Byte] :
               /\ f[0] = 0
               /\ \A i \in 1..n : f[i] = Plus(f[i - 1], Times(shares[i].data, Basis(shares, i)))
               /\ combineShares(shares) = f[n]
<1> DEFINE Term(i) == Times(shares[i].data, Basis(shares, i))
           G == [p \in (1..n) \X Byte |-> Plus(p[2], Term(p[1]))]
           v == CHOOSE f : CombineGoes(f, shares)
<1>1. ASSUME NEW i \in 1..n, NEW u \in Byte PROVE Plus(u, Term(i)) \in Byte
  <2>1. Term(i) \in Byte
    BY TimesIs
  <2> HIDE DEF Term
  <2> QED  BY <2>1, PlusIs
<1>2. G \in [(1..n) \X Byte -> Byte]
  <2> HIDE DEF Term
  <2> QED  BY <1>1
<1>3. PICK f : Unfolds(f, Byte, n, 0, G)
  <2> HIDE DEF G
  <2> QED  BY <1>2, SizeIs, Recursion
<1>4. f \in [0..n -> Byte] /\ f[0] = 0
  BY <1>3 DEF Unfolds
<1>5. ASSUME NEW i \in 1..n PROVE f[i] = Plus(f[i - 1], Term(i))
  <2>1. f[i] = G[<<i, f[i - 1]>>] /\ i - 1 \in 0..n
    <3> HIDE DEF G
    <3> QED  BY <1>3 DEF Unfolds
  <2>2. <<i, f[i - 1]>> \in (1..n) \X Byte
    BY <1>4, <2>1
  <2> HIDE DEF Term
  <2> QED  BY <2>1, <2>2
<1>6. CombineGoes(f, shares)
  <2>1. f = [i \in 0..n |-> f[i]]
    BY <1>4
  <2>2. ASSUME NEW i \in 0..n
        PROVE  f[i] = IF i = 0 THEN 0 ELSE xor[f[i - 1]][gfMul[shares[i].data][Basis(shares, i)]]
    <3>1. i # 0 => i \in 1..n
      OBVIOUS
    <3> QED  BY <1>4, <1>5, <3>1 DEF Plus, Times
  <2> QED  BY <2>1, <2>2 DEF CombineGoes
<1>7. CombineGoes(v, shares)
  BY <1>6
<1>8. combineShares(shares) = v[n]
  BY DEF combineShares, CombineGoes
<1>9. v[0] = 0 /\ \A i \in 1..n : v[i] = Plus(v[i - 1], Term(i))
  <2> HIDE DEF v
  <2>1. \A i \in 0..n :
          v[i] = IF i = 0 THEN 0 ELSE xor[v[i - 1]][gfMul[shares[i].data][Basis(shares, i)]]
    BY <1>7 DEF CombineGoes
  <2>2. v[0] = 0
    <3>1. 0 \in 0..n
      OBVIOUS
    <3> QED  BY <2>1, <3>1
  <2>3. ASSUME NEW i \in 1..n PROVE v[i] = Plus(v[i - 1], Term(i))
    <3>1. i \in 0..n /\ i # 0
      OBVIOUS
    <3> QED  BY <2>1, <3>1 DEF Plus, Times
  <2> QED  BY <2>2, <2>3
<1>10. v \in [0..n -> Byte]
  <2> DEFINE A == {i \in 0..n : v[i] \in Byte}
  <2>1. v = [i \in 0..n |-> v[i]]
    <3> HIDE DEF v
    <3> QED  BY <1>7 DEF CombineGoes
  <2> HIDE DEF v, Term
  <2>2. 0 \in A
    BY <1>9, SizeIs
  <2>3. ASSUME NEW i \in 1..n, i - 1 \in A PROVE i \in A
    <3>1. v[i] = Plus(v[i - 1], Term(i))
      BY <1>9
    <3> QED  BY <1>1, <2>3, <3>1
  <2> HIDE DEF A
  <2>4. 0..n \subseteq A
    BY <2>2, <2>3, InductionTo
  <2>5. \A i \in 0..n : v[i] \in Byte
    BY <2>4 DEF A
  <2> QED  BY <2>1, <2>5
<1> HIDE DEF v
<1> QED
  BY <1>8, <1>9, <1>10

\* As many shares of a polynomial as it has coefficients combine to what it is at 0.
THEOREM SharesCombine ==
    ASSUME NEW n \in Nat, NEW g \in Curves(n), NEW xs, NEW shares, SharesAt(shares, g, xs, n)
    PROVE  combineShares(shares) = g[0]
<1> DEFINE Is(f, i) == /\ f[0] = 1 /\ \A j \in 1..n : f[j] = BasisStep(f[j - 1], xs, i, j)
                       /\ Basis(shares, i) = f[n]
           b == [i \in 1..n |-> CHOOSE f \in [0..n -> Byte] : Is(f, i)]
<1>1. \A i \in 1..n : b[i] \in [0..n -> Byte] /\ Is(b[i], i)
  <2> SUFFICES ASSUME NEW i \in 1..n PROVE b[i] \in [0..n -> Byte] /\ Is(b[i], i)
    OBVIOUS
  <2>1. \E f \in [0..n -> Byte] : Is(f, i)
    BY BasisExists
  <2> HIDE DEF Is
  <2> QED  BY <2>1
<1> HIDE DEF b
<1>2. Points(xs, n) /\ Len(shares) = n
      /\ \A i \in 1..n : shares[i].data = g[xs[i]]
  BY DEF SharesAt
<1>3. Bases(b, xs, n) /\ \A i \in 1..n : b[i][n] \in Byte /\ Basis(shares, i) = b[i][n]
  BY <1>1 DEF Bases
<1>4. \A i \in 1..n : shares[i].data \in Byte
  BY <1>2, PointsAre, CurvesAre
<1>5. PICK v \in [0..n -> Byte] :
          /\ v[0] = 0
          /\ \A i \in 1..n : v[i] = Plus(v[i - 1], Times(shares[i].data, Basis(shares, i)))
          /\ combineShares(shares) = v[n]
  BY <1>2, <1>3, <1>4, CombineExists
<1>6. Sums(v, g, b, xs, n)
  BY <1>2, <1>3, <1>5 DEF Sums
<1>7. Lagrange(n, b, xs, n)
  BY <1>2, <1>3, LagrangeAll
<1> QED
  BY <1>5, <1>6, <1>7 DEF Lagrange
-----------------------------------------------------------------------------
(***************************************************************************)
(* Threshold signatures                                                    *)
(***************************************************************************)
\* What a node holds is a share of the polynomial of its dealing, f's for each dealing.
OfDealing(held, f, dealt) ==
    /\ held.dealing \in 1..Len(dealt)
    /\ held.share.index \in 1..Order
    /\ held.share = Share(held.share.index,
                          evalPoly(<<dealt[held.dealing]>> \o f[held.dealing], held.share.index))

SharesOf(made) == [i \in 1..Len(made) |-> made[i].share]

\* Every share in use has a polynomial behind it, the node's and the signature's alike.
Backed ==
    \E f \in [1..Len(masters) -> Poly(threshold - 1)] :
        /\ \A id \in DOMAIN nodes : OfDealing(nodes[id], f, masters)
        /\ \A i \in 1..Len(signature.made) : OfDealing(signature.made[i], f, masters)

\* The key is what the shares combine to, as many of them as it takes, none twice.
KeyMade ==
    signature.made # <<>> =>
        /\ Len(signature.made) = threshold
        /\ Combinable(SharesOf(signature.made))
        /\ signature.key = combineShares(SharesOf(signature.made))

SigningInv ==
    /\ threshold \in Thresholds
    /\ masters \in Seq(Byte)
    /\ IsFiniteSet(DOMAIN nodes)
    /\ Len(signature.made) \in Nat
    /\ Backed /\ KeyMade

LEMMA ThresholdIs ==
    ASSUME NEW t \in Thresholds
    PROVE  t \in Nat /\ t - 1 \in Nat /\ t >= 2 /\ t <= TotalShares /\ TotalShares \in 1..Order
<1>1. TotalShares \in 1..Order /\ t \in 2..TotalShares /\ Order \in Nat
  BY CoordinatorAssumption, OrderIsOne
<1> QED
  BY <1>1

\* The image of a finite set, for a function rather than an operator.
LEMMA FiniteImage ==
    ASSUME NEW S, IsFiniteSet(S), NEW T, NEW f \in [S -> T]
    PROVE  IsFiniteSet({f[x] : x \in S})
<1> DEFINE R == {f[x] : x \in S}
<1>1. f \in Surjection(S, R)
  BY DEF Surjection
<1> HIDE DEF R
<1>2. IsFiniteSet(R)
  BY <1>1, FS_Surjection
<1> QED
  BY <1>2 DEF R

LEMMA IdsFinite ==
    ASSUME NEW ids \in IdLists
    PROVE  /\ ids \in [1..TotalShares -> Ids(ids)] /\ Len(ids) = TotalShares
           /\ Ids(ids) = {ids[i] : i \in 1..TotalShares} /\ IsFiniteSet(Ids(ids))
<1>1. ids \in Seq(Ids(ids)) /\ Len(ids) = TotalShares /\ TotalShares \in Nat
  <2>1. TotalShares \in Nat
    BY CoordinatorAssumption, OrderIsOne
  <2> QED  BY <2>1, CoordinatorAssumption
<1>2. ids \in [1..TotalShares -> Ids(ids)]
  <2> DEFINE S == Ids(ids)
  <2> HIDE DEF S
  <2>1. ids \in Seq(S)
    BY <1>1 DEF S
  <2>2. ids \in [1..TotalShares -> S]
    BY <1>1, <2>1
  <2> QED  BY <2>2 DEF S
<1>3. Ids(ids) = {ids[i] : i \in 1..TotalShares}
  BY <1>1 DEF Ids
<1>4. IsFiniteSet(1..TotalShares)
  BY <1>1, FS_Interval
<1>5. IsFiniteSet({ids[i] : i \in 1..TotalShares})
  BY <1>2, <1>4, FiniteImage
<1> QED
  BY <1>1, <1>2, <1>3, <1>5

\* The last place of a name that is listed.
LEMMA LastOfIs ==
    ASSUME NEW ids \in IdLists, NEW id \in Ids(ids)
    PROVE  LastOf(ids, id) \in 1..TotalShares
<1> DEFINE n == Len(ids)
           T == {k \in Nat : \E i \in 1..n : k = n - i /\ ids[i] = id}
<1>1. n = TotalShares /\ n \in Nat
  BY CoordinatorAssumption, OrderIsOne
<1>2. PICK i \in 1..n : ids[i] = id
  BY DEF Ids
<1> HIDE DEF n
<1>3. n - i \in T
  BY <1>1, <1>2
<1>4. T \in SUBSET Nat
  OBVIOUS
<1>5. PICK k \in T : \A m \in T : k <= m
  <2> HIDE DEF T
  <2> QED  BY <1>3, <1>4, LeastNumber
<1>6. PICK j \in 1..n : k = n - j /\ ids[j] = id
  BY <1>5
<1>7. ASSUME NEW m \in j + 1..n PROVE ids[m] # id
  <2> SUFFICES ASSUME ids[m] = id PROVE FALSE
    OBVIOUS
  <2>1. m \in 1..n /\ n - m \in Nat /\ n - m < n - j
    BY <1>1, <1>6, <1>7
  <2>2. n - m \in T
    BY <2>1
  <2>3. n - j <= n - m
    BY <1>5, <1>6, <2>2
  <2> QED  BY <1>1, <2>1, <2>3
<1>8. \E l \in 1..Len(ids) : ids[l] = id /\ \A m \in l + 1..Len(ids) : ids[m] # id
  BY <1>6, <1>7 DEF n
<1>9. LastOf(ids, id) \in 1..Len(ids)
  BY <1>8 DEF LastOf
<1> QED
  BY <1>1, <1>9 DEF n

LEMMA SigningInitial == SigningInit => SigningInv
<1> SUFFICES ASSUME SigningInit PROVE SigningInv
  OBVIOUS
<1>1. threshold \in Thresholds /\ masters = <<>> /\ DOMAIN nodes = {} /\ signature.made = <<>>
  BY DEF SigningInit, NoSignature
<1>2. IsFiniteSet(DOMAIN nodes)
  BY <1>1, FS_EmptySet
<1>3. masters \in Seq(Byte) /\ Len(masters) = 0 /\ Len(signature.made) = 0
  BY <1>1
<1>4. Backed
  <2> DEFINE f == [d \in 1..0 |-> <<>>]
  <2>1. f \in [1..Len(masters) -> Poly(threshold - 1)]
    BY <1>3
  <2>2. \A id \in DOMAIN nodes : OfDealing(nodes[id], f, masters)
    BY <1>1
  <2>3. \A i \in 1..Len(signature.made) : OfDealing(signature.made[i], f, masters)
    BY <1>3
  <2> HIDE DEF f
  <2> QED  BY <2>1, <2>2, <2>3 DEF Backed
<1> QED
  BY <1>1, <1>2, <1>3, <1>4 DEF SigningInv, KeyMade

\* A dealing more does not change what the earlier ones dealt.
LEMMA StillOfDealing ==
    ASSUME NEW held, NEW f, NEW g, NEW dealt, NEW more, OfDealing(held, f, dealt),
           Len(dealt) \in Nat, Len(more) \in Nat, Len(dealt) <= Len(more),
           \A d \in 1..Len(dealt) : f[d] = g[d] /\ dealt[d] = more[d]
    PROVE  OfDealing(held, g, more)
<1>1. held.dealing \in 1..Len(dealt)
  BY DEF OfDealing
<1>2. held.dealing \in 1..Len(more)
  BY <1>1
<1> QED
  BY <1>1, <1>2 DEF OfDealing

\* A dealing has its own polynomial; the shares of earlier ones keep theirs.
LEMMA DealingStep ==
    ASSUME SigningInv, NEW ids \in IdLists, NEW secret \in Secrets,
           NEW coeffs \in Draws(threshold, Drawn), distributeShares(ids, secret, coeffs)
    PROVE  SigningInv'
<1> DEFINE n == Len(masters)
           dealt == splitSecret(secret, coeffs, TotalShares)
<1>1. /\ threshold' = threshold /\ signature' = signature /\ masters' = Append(masters, secret)
      /\ DOMAIN nodes' = DOMAIN nodes \cup Ids(ids)
      /\ \A id \in DOMAIN nodes' :
            nodes'[id] = IF id \in Ids(ids)
                         THEN [share |-> dealt[LastOf(ids, id)], dealing |-> n + 1]
                         ELSE nodes[id]
  BY DEF distributeShares
<1>2. threshold \in Thresholds /\ masters \in Seq(Byte) /\ n \in Nat /\ Len(signature.made) \in Nat
      /\ IsFiniteSet(DOMAIN nodes) /\ Backed /\ KeyMade
  BY DEF SigningInv
<1>3. secret \in Byte /\ coeffs \in Poly(threshold - 1)
  BY CoordinatorAssumption DEF Draws, Poly
<1>4. masters' \in Seq(Byte) /\ Len(masters') = n + 1 /\ masters'[n + 1] = secret
      /\ \A d \in 1..n : masters'[d] = masters[d]
  BY <1>1, <1>2, <1>3
<1>5. IsFiniteSet(DOMAIN nodes')
  <2>1. IsFiniteSet(Ids(ids))
    BY IdsFinite
  <2> QED  BY <1>1, <1>2, <2>1, FS_Union
<1>6. KeyMade'
  BY <1>1, <1>2 DEF KeyMade
<1> HIDE DEF n
<1>7. PICK f \in [1..n -> Poly(threshold - 1)] :
          /\ \A id \in DOMAIN nodes : OfDealing(nodes[id], f, masters)
          /\ \A i \in 1..Len(signature.made) : OfDealing(signature.made[i], f, masters)
  BY <1>2 DEF Backed, n
<1> DEFINE g == [d \in 1..n + 1 |-> IF d = n + 1 THEN coeffs ELSE f[d]]
<1>8. g \in [1..n + 1 -> Poly(threshold - 1)] /\ g[n + 1] = coeffs /\ \A d \in 1..n : f[d] = g[d]
  <2>1. ASSUME NEW d \in 1..n + 1 PROVE (IF d = n + 1 THEN coeffs ELSE f[d]) \in Poly(threshold - 1)
    <3>1. d # n + 1 => d \in 1..n
      BY <1>2
    <3> QED  BY <1>3, <3>1
  <2>2. n + 1 \in 1..n + 1 /\ \A d \in 1..n : d \in 1..n + 1 /\ d # n + 1
    BY <1>2
  <2> QED  BY <2>1, <2>2
<1> HIDE DEF g
<1>9. ASSUME NEW held, OfDealing(held, f, masters) PROVE OfDealing(held, g, masters')
  <2>1. Len(masters) \in Nat /\ Len(masters') \in Nat /\ Len(masters) <= Len(masters')
        /\ \A d \in 1..Len(masters) : f[d] = g[d] /\ masters[d] = masters'[d]
    BY <1>2, <1>4, <1>8 DEF n
  <2> QED  BY <1>9, <2>1, StillOfDealing
<1>10. ASSUME NEW id \in Ids(ids) PROVE OfDealing(nodes'[id], g, masters')
  <2> DEFINE x == LastOf(ids, id)
  <2>1. x \in 1..TotalShares /\ x \in 1..Order
    <3>1. x \in 1..TotalShares
      BY LastOfIs
    <3>2. TotalShares \in 1..Order /\ Order \in Nat
      BY CoordinatorAssumption, OrderIsOne
    <3> QED  BY <3>1, <3>2
  <2>2. dealt[x] = Share(x, evalPoly(<<secret>> \o coeffs, x))
    <3> HIDE DEF x
    <3> QED  BY <2>1 DEF splitSecret
  <2> DEFINE held == [share |-> dealt[x], dealing |-> n + 1]
  <2>3. nodes'[id] = held
    BY <1>1
  <2>4. held.dealing = n + 1 /\ held.share = dealt[x] /\ held.share.index = x
    BY <2>2 DEF Share
  <2>5. n + 1 \in 1..Len(masters')
    BY <1>2, <1>4
  <2> HIDE DEF held, x, dealt
  <2>6. OfDealing(held, g, masters')
    BY <1>4, <1>8, <2>1, <2>2, <2>4, <2>5 DEF OfDealing
  <2> QED  BY <2>3, <2>6
<1>11. ASSUME NEW id \in DOMAIN nodes' PROVE OfDealing(nodes'[id], g, masters')
  <2>1. CASE id \in Ids(ids)
    BY <1>10, <2>1
  <2>2. CASE id \notin Ids(ids)
    BY <1>1, <1>7, <1>9, <2>2
  <2> QED  BY <2>1, <2>2
<1>12. \A i \in 1..Len(signature'.made) : OfDealing(signature'.made[i], g, masters')
  BY <1>1, <1>7, <1>9
<1>13. Backed'
  BY <1>1, <1>4, <1>8, <1>11, <1>12 DEF Backed
<1> QED
  BY <1>1, <1>2, <1>4, <1>5, <1>6, <1>13 DEF SigningInv

\* The first of a list of names, and what their nodes hold.
LEMMA TakenIs ==
    ASSUME threshold \in Nat, NEW ids \in Participants, Len(ids) >= threshold
    PROVE  Len(Taken(ids)) = threshold
<1> DEFINE S == Ids(ids)
<1>1. ids \in Seq(S)
  BY CoordinatorAssumption
<1> HIDE DEF S
<1>2. Len(SubSeq(ids, 1, threshold)) = threshold
  BY <1>1
<1> QED
  BY <1>2 DEF Taken, First

LEMMA SequenceOf ==
    ASSUME NEW n \in Nat, NEW S, NEW f \in [1..n -> S]
    PROVE  Len(f) = n
OBVIOUS

\* A signature is made of what the nodes hold, and of as many as it takes.
LEMMA CombiningStep ==
    ASSUME SigningInv, NEW r \in Requests, NEW ids \in Participants,
           combineThresholdSignature(r, ids)
    PROVE  SigningInv'
<1> DEFINE taken == Taken(ids)
           made == [i \in 1..Len(taken) |-> nodes[taken[i]]]
           shares == [i \in 1..Len(taken) |-> nodes[taken[i]].share]
<1>1. /\ threshold' = threshold /\ nodes' = nodes /\ masters' = masters
      /\ Len(ids) >= threshold /\ Known(taken) /\ Combinable(shares)
      /\ signature'.key = combineShares(shares) /\ signature'.made = made
  BY DEF combineThresholdSignature
<1>2. threshold \in Thresholds /\ threshold \in Nat
  BY ThresholdIs DEF SigningInv
<1>3. Len(taken) = threshold
  BY <1>1, <1>2, TakenIs
<1>4. \A i \in 1..threshold : taken[i] \in DOMAIN nodes
  BY <1>1, <1>3 DEF Known
<1> HIDE DEF taken
<1>5. Len(made) = threshold
  <2> DEFINE S == {nodes[id] : id \in DOMAIN nodes}
  <2>1. made \in [1..threshold -> S]
    BY <1>3, <1>4
  <2> HIDE DEF S, made
  <2> QED  BY <1>2, <2>1, SequenceOf
<1>6. shares = SharesOf(made)
  <2>1. \A i \in 1..threshold : made[i] = nodes[taken[i]]
    BY <1>3
  <2> HIDE DEF made
  <2> QED  BY <1>3, <1>5, <2>1 DEF SharesOf
<1>7. KeyMade'
  <2> HIDE DEF made, shares
  <2> QED  BY <1>1, <1>5, <1>6 DEF KeyMade
<1>8. Backed'
  <2>1. PICK f \in [1..Len(masters) -> Poly(threshold - 1)] :
            \A id \in DOMAIN nodes : OfDealing(nodes[id], f, masters)
    BY DEF SigningInv, Backed
  <2>2. ASSUME NEW i \in 1..threshold PROVE OfDealing(made[i], f, masters)
    <3>1. made[i] = nodes[taken[i]]
      BY <1>3
    <3> HIDE DEF made
    <3> QED  BY <1>4, <2>1, <3>1
  <2> HIDE DEF made, shares
  <2> QED  BY <1>1, <1>5, <2>1, <2>2 DEF Backed
<1> HIDE DEF made, shares
<1>9. Len(signature'.made) \in Nat
  BY <1>1, <1>2, <1>5
<1> QED
  BY <1>1, <1>2, <1>7, <1>8, <1>9 DEF SigningInv

LEMMA SigningStep == SigningInv /\ [SigningNext]_signingVars => SigningInv'
<1> SUFFICES ASSUME SigningInv, [SigningNext]_signingVars PROVE SigningInv'
  OBVIOUS
<1>1. CASE \E ids \in IdLists, s \in Secrets, c \in Draws(threshold, Drawn) :
              distributeShares(ids, s, c)
  BY <1>1, DealingStep
<1>2. ASSUME NEW r \in Requests, NEW ids \in Participants, beginSigning(r, ids) PROVE SigningInv'
  <2>1. UNCHANGED <<threshold, nodes, masters, signature>>
    BY <1>2 DEF beginSigning
  <2> QED  BY <2>1 DEF SigningInv, Backed, KeyMade
<1>3. ASSUME NEW r \in Requests, NEW ids \in Participants, combineThresholdSignature(r, ids)
      PROVE SigningInv'
  BY <1>3, CombiningStep
<1>4. CASE UNCHANGED signingVars
  BY <1>4 DEF SigningInv, Backed, KeyMade, signingVars
<1> QED
  BY <1>1, <1>2, <1>3, <1>4 DEF SigningNext

\* The shares of the coordinator's nodes, and of the last signature, are backed by
\* polynomials, and its key is what its shares combine to.
THEOREM SigningInvariant == SigningSpec => []SigningInv
BY SigningInitial, SigningStep, PTL DEF SigningSpec

\* The polynomial of a dealing: the secret, and what was drawn.
LEMMA DealtCurve ==
    ASSUME NEW t \in Nat, NEW m \in Byte, NEW c \in Poly(t)
    PROVE  \E g \in Curves(t + 1) :
               g[0] = m /\ \A x \in Byte : g[x] = evalPoly(<<m>> \o c, x)
<1> DEFINE g == [x \in Byte |-> evalPoly(<<m>> \o c, x)]
<1>1. <<m>> \o c = Before(m, c, t) /\ Before(m, c, t) \in Poly(t + 1)
  BY BeforeIs
<1>2. \A x \in Byte : evalPoly(c, x) \in Byte
                      /\ evalPoly(<<m>> \o c, x) = Plus(Times(evalPoly(c, x), x), m)
  <2> SUFFICES ASSUME NEW x \in Byte
               PROVE  /\ evalPoly(c, x) \in Byte
                      /\ evalPoly(Before(m, c, t), x) = Plus(Times(evalPoly(c, x), x), m)
    BY <1>1
  <2> QED  BY EvalBefore
<1>3. \A x \in Byte : evalPoly(<<m>> \o c, x) \in Byte
  <2> SUFFICES ASSUME NEW x \in Byte PROVE Plus(Times(evalPoly(c, x), x), m) \in Byte
    BY <1>2
  <2>1. Times(evalPoly(c, x), x) \in Byte
    BY <1>2, TimesIs
  <2> QED  BY <2>1, PlusIs
<1>4. g \in Curves(t + 1)
  BY <1>1, <1>3 DEF Curves
<1>5. g[0] = m
  <2>1. 0 \in Byte /\ evalPoly(c, 0) \in Byte
    BY <1>2, SizeIs
  <2>2. Times(evalPoly(c, 0), 0) = 0 /\ Plus(0, m) = m
    BY <2>1, TimesIs, PlusNone
  <2> QED  BY <1>2, <2>1, <2>2
<1> HIDE DEF g
<1>6. \A x \in Byte : g[x] = evalPoly(<<m>> \o c, x)
  BY DEF g
<1> QED
  BY <1>4, <1>5, <1>6

\* Shares of one dealing are shares of one polynomial: SharesCombine.
LEMMA KeyFollows == SigningInv => SignsWithMaster
<1> SUFFICES ASSUME SigningInv, NEW d \in 1..Len(masters), signature.made # <<>>,
                    \A i \in 1..Len(signature.made) : signature.made[i].dealing = d
             PROVE  signature.key = masters[d]
  BY DEF SignsWithMaster
<1> DEFINE t == threshold
           made == signature.made
           shares == SharesOf(made)
<1>1. t \in Nat /\ t - 1 \in Nat /\ masters \in Seq(Byte) /\ Len(made) = t /\ Combinable(shares)
      /\ signature.key = combineShares(shares)
  BY ThresholdIs DEF SigningInv, KeyMade
<1>2. PICK f \in [1..Len(masters) -> Poly(t - 1)] :
          \A i \in 1..Len(made) : OfDealing(made[i], f, masters)
  BY DEF SigningInv, Backed
<1>3. masters[d] \in Byte /\ f[d] \in Poly(t - 1)
  BY <1>1
<1>4. PICK g \in Curves((t - 1) + 1) :
          g[0] = masters[d] /\ \A x \in Byte : g[x] = evalPoly(<<masters[d]>> \o f[d], x)
  BY <1>1, <1>3, DealtCurve
<1> DEFINE xs == [i \in 1..t |-> shares[i].index]
<1>5. ASSUME NEW i \in 1..t
      PROVE  xs[i] \in 1..Order /\ shares[i].index = xs[i] /\ shares[i].data = g[xs[i]]
  <2>1. shares[i] = made[i].share /\ xs[i] = shares[i].index
    BY <1>1 DEF SharesOf
  <2> DEFINE x == made[i].share.index
  <2>2. x \in 1..Order /\ made[i].share = Share(x, evalPoly(<<masters[d]>> \o f[d], x))
    BY <1>1, <1>2 DEF OfDealing
  <2> HIDE DEF x
  <2>3. made[i].share.data = evalPoly(<<masters[d]>> \o f[d], x)
    BY <2>2 DEF Share
  <2>4. x \in Byte
    BY <2>2, OrderIsOne
  <2> QED  BY <1>4, <2>1, <2>2, <2>3, <2>4 DEF x
<1>6. Len(shares) = t
  <2> DEFINE S == {made[i].share : i \in 1..t}
  <2>1. shares \in [1..t -> S]
    BY <1>1 DEF SharesOf
  <2> HIDE DEF S, shares
  <2> QED  BY <1>1, <2>1, SequenceOf
<1> HIDE DEF shares
<1>7. Points(xs, t)
  <2>1. xs \in [1..t -> 1..Order]
    <3>1. \A i \in 1..t : shares[i].index \in 1..Order
      BY <1>5
    <3> QED  BY <3>1
  <2>2. \A i, j \in 1..t : i # j => xs[i] # xs[j]
    BY <1>1, <1>5, <1>6 DEF Combinable
  <2> HIDE DEF xs
  <2> QED  BY <2>1, <2>2 DEF Points
<1> HIDE DEF xs
<1>8. g \in Curves(t)
  BY <1>1
<1>9. SharesAt(shares, g, xs, t)
  BY <1>5, <1>6, <1>7, <1>8, CurvesAre DEF SharesAt
<1>10. combineShares(shares) = g[0]
  BY <1>1, <1>8, <1>9, SharesCombine
<1> QED
  BY <1>1, <1>4, <1>10

\* Any threshold of shares of one dealing sign with its secret.
THEOREM KeyIsMasters == SigningSpec => []SignsWithMaster
BY SigningInvariant, KeyFollows, PTL

\* Fewer shares than coefficients fit every secret.
THEOREM SharesFitAll ==
    ASSUME NEW n \in Nat, NEW xs, Points(xs, n), NEW ys \in [1..n -> Byte], NEW secret \in Byte
    PROVE  \E c \in Poly(n) : \A i \in 1..n : evalPoly(<<secret>> \o c, xs[i]) = ys[i]
<1> DEFINE z(i) == Over(Plus(ys[i], secret), xs[i])
           zs == [i \in 1..n |-> z(i)]
<1>1. ASSUME NEW i \in 1..n
      PROVE  /\ xs[i] \in 1..Order /\ xs[i] \in Byte /\ ys[i] \in Byte
             /\ z(i) \in Byte /\ Times(z(i), xs[i]) = Plus(ys[i], secret)
  <2>1. xs[i] \in 1..Order /\ xs[i] \in Byte /\ ys[i] \in Byte
    BY PointsAre
  <2>2. Plus(ys[i], secret) \in Byte
    BY <2>1, PlusIs
  <2> QED  BY <2>1, <2>2, OverIs
<1>2. zs \in [1..n -> Byte] /\ \A i \in 1..n : zs[i] = z(i)
  <2> HIDE DEF z
  <2> QED  BY <1>1
<1> HIDE DEF z, zs
<1>3. PICK g \in Curves(n) : \A i \in 1..n : g[xs[i]] = zs[i]
  <2>1. Through(n, xs, n)
    BY ThroughAll
  <2> QED  BY <1>2, <2>1 DEF Through
<1>4. PICK c \in Poly(n) : \A x \in Byte : g[x] = evalPoly(c, x)
  BY DEF Curves
<1>5. ASSUME NEW i \in 1..n PROVE evalPoly(<<secret>> \o c, xs[i]) = ys[i]
  <2>1. <<secret>> \o c = Before(secret, c, n)
    BY BeforeIs
  <2>2. evalPoly(Before(secret, c, n), xs[i]) = Plus(Times(evalPoly(c, xs[i]), xs[i]), secret)
    BY <1>1, EvalBefore
  <2>3. evalPoly(c, xs[i]) = z(i)
    BY <1>1, <1>2, <1>3, <1>4
  <2>4. Plus(Plus(ys[i], secret), secret) = ys[i]
    BY <1>1, Undone
  <2> QED  BY <1>1, <2>1, <2>2, <2>3, <2>4
<1> QED
  BY <1>5

\* The shares held are at distinct indices: SharesFitAll.
LEMMA FewerFollows == SigningInv => FewerSayNothing
<1> SUFFICES ASSUME SigningInv, NEW holders \in SUBSET DOMAIN nodes, NEW secret \in Byte,
                    Cardinality({nodes[id].share : id \in holders}) = threshold - 1,
                    \A id, other \in holders : nodes[id].dealing = nodes[other].dealing
             PROVE  CouldBe(secret, {nodes[id].share : id \in holders})
  BY DEF FewerSayNothing
<1> DEFINE n == threshold - 1
           held == {nodes[id].share : id \in holders}
<1>1. n \in Nat
  BY ThresholdIs DEF SigningInv
<1>2. PICK f \in [1..Len(masters) -> Poly(n)] : \A id \in DOMAIN nodes : OfDealing(nodes[id], f, masters)
  BY DEF SigningInv, Backed
<1>3. IsFiniteSet(held)
  <2> DEFINE h == [id \in holders |-> nodes[id].share]
             T == {nodes[id].share : id \in holders}
  <2>1. IsFiniteSet(holders)
    BY FS_Subset DEF SigningInv
  <2>2. h \in [holders -> T] /\ held = {h[id] : id \in holders}
    OBVIOUS
  <2> HIDE DEF h, T, held
  <2>3. IsFiniteSet({h[id] : id \in holders})
    BY <2>1, <2>2, FiniteImage
  <2> QED  BY <2>2, <2>3
\* A share of the dealing is known by its index.
<1>4. ASSUME NEW s \in held
      PROVE  /\ s.index \in 1..Order /\ s.data \in Byte
             /\ \A r \in held : r.index = s.index => r = s
  <2>1. PICK id \in holders : s = nodes[id].share
    OBVIOUS
  <2> DEFINE d == nodes[id].dealing
             At(x) == evalPoly(<<masters[d]>> \o f[d], x)
  <2>2. s.index \in 1..Order /\ s = Share(s.index, At(s.index))
    BY <1>2, <2>1 DEF OfDealing
  <2>3. s.data \in Byte
    <3>1. d \in 1..Len(masters) /\ masters \in Seq(Byte)
      BY <1>2, <2>1 DEF OfDealing, SigningInv
    <3>2. masters[d] \in Byte /\ f[d] \in Poly(n)
      <4> HIDE DEF d, n
      <4> QED  BY <1>2, <3>1
    <3> HIDE DEF n
    <3>3. PICK g \in Curves(n + 1) : \A x \in Byte : g[x] = At(x)
      <4> HIDE DEF d
      <4> QED  BY <1>1, <3>2, DealtCurve
    <3>4. s.index \in Byte
      BY <2>2, OrderIsOne
    <3>5. g[s.index] \in Byte
      BY <3>4, CurvesAre
    <3> QED  BY <2>2, <3>3, <3>4, <3>5 DEF Share
  <2>4. ASSUME NEW r \in held, r.index = s.index PROVE r = s
    <3>1. PICK other \in holders : r = nodes[other].share
      OBVIOUS
    <3>2. nodes[other].dealing = d
      OBVIOUS
    <3>3. r = Share(r.index, At(r.index))
      BY <1>2, <3>1, <3>2 DEF OfDealing
    <3> QED  BY <2>2, <2>4, <3>3
  <2> QED  BY <2>2, <2>3, <2>4
<1>5. PICK h \in [1..n -> held] : IsInjective(h) /\ \A s \in held : \E i \in 1..n : h[i] = s
  <2>1. ExistsBijection(1..n, held)
    <3>1. Cardinality(held) = n
      OBVIOUS
    <3> HIDE DEF held, n
    <3> QED  BY <1>3, <3>1, FS_CardinalityType
  <2> HIDE DEF held, n
  <2> QED  BY <2>1 DEF ExistsBijection, Bijection, Injection, Surjection
<1> DEFINE xs == [i \in 1..n |-> h[i].index]
           ys == [i \in 1..n |-> h[i].data]
<1> HIDE DEF held, n
<1>6. \A i \in 1..n : xs[i] = h[i].index /\ ys[i] = h[i].data
                      /\ h[i] \in held /\ h[i].index \in 1..Order /\ h[i].data \in Byte
  BY <1>4, <1>5
<1>7. ys \in [1..n -> Byte]
  BY <1>6
<1>8. xs \in [1..n -> 1..Order]
  BY <1>6
<1>9. \A i, j \in 1..n : i # j => xs[i] # xs[j]
  <2> SUFFICES ASSUME NEW i \in 1..n, NEW j \in 1..n, xs[i] = xs[j] PROVE i = j
    OBVIOUS
  <2>1. h[i] = h[j]
    BY <1>4, <1>6
  <2> QED  BY <1>5, <2>1 DEF IsInjective
<1> HIDE DEF xs, ys
<1>10. PICK c \in Poly(n) : \A i \in 1..n : evalPoly(<<secret>> \o c, xs[i]) = ys[i]
  <2>1. Points(xs, n)
    BY <1>8, <1>9 DEF Points
  <2> QED  BY <1>1, <1>7, <2>1, SharesFitAll
<1>11. \A s \in held : evalPoly(<<secret>> \o c, s.index) = s.data
  BY <1>5, <1>6, <1>10
<1>12. c \in Draws(threshold, Byte)
  BY DEF Draws, Poly, n
<1> QED
  BY <1>11, <1>12 DEF CouldBe, held

\* One share fewer than the threshold fits every secret there is.
THEOREM FewerLearnNothing == SigningSpec => []FewerSayNothing
BY SigningInvariant, FewerFollows, PTL
=============================================================================
