----------------------------- MODULE ThresholdSig -----------------------------
(***************************************************************************)
(* ThresholdSigCoordinator: shares of a master secret are dealt to nodes,  *)
(* nodes contribute to a request, and a signature is made of the shares of *)
(* those who take part.                                                    *)
(*                                                                         *)
(* The coordinator keeps every node it ever dealt to: dealing again writes *)
(* over the nodes of the same name and leaves the others with shares of an *)
(* older secret.  A dealing is named by its number, which the code does not *)
(* keep.  The key of a signature is what the model keeps of it.            *)
(***************************************************************************)
EXTENDS Shamir, FiniteSets

CONSTANTS
    Thresholds, TotalShares,  \* of the coordinators that are made
    IdLists,                  \* nodeIds as distributeShares is called
    Participants,             \* and as beginSigning and combineThresholdSignature are
    Secrets, Drawn,           \* bytes of a master secret, and those Math.random yields
    Requests, MaxDealings

Ids(list) == {list[i] : i \in 1..Len(list)}

\* An index is a byte of its own: the code deals more than Size - 1 shares without a word,
\* and the last ones then have none.
ASSUME CoordinatorAssumption ==
    /\ TotalShares \in 1..Order /\ MaxDealings \in Nat
    /\ Thresholds \subseteq 2..TotalShares
    /\ Secrets \subseteq Byte /\ Drawn \subseteq Byte
    /\ \A ids \in IdLists : ids \in Seq(Ids(ids)) /\ Len(ids) = TotalShares
    /\ \A ids \in Participants : ids \in Seq(Ids(ids))

VARIABLES
    threshold,
    nodes,         \* for each node id, its share and the number of its dealing
    masters,       \* the secrets that were dealt
    partialSigs,   \* for each request begun, the nodes that contributed
    signature      \* the last one made: its key and the shares it was made of

signingVars == <<threshold, nodes, masters, partialSigs, signature>>

NoSignature == [key |-> 0, made |-> <<>>]

SigningInit ==
    /\ threshold \in Thresholds
    /\ nodes = [id \in {} |-> 0]
    /\ masters = <<>>
    /\ partialSigs = [r \in {} |-> {}]
    /\ signature = NoSignature

Known(ids) == \A i \in 1..Len(ids) : ids[i] \in DOMAIN nodes

\* The share a name is left with, if it was listed more than once.
LastOf(ids, id) ==
    CHOOSE i \in 1..Len(ids) : ids[i] = id /\ \A j \in i + 1..Len(ids) : ids[j] # id

distributeShares(ids, secret, coeffs) ==
    /\ Len(masters) < MaxDealings
    /\ LET dealt == splitSecret(secret, coeffs, TotalShares)
       IN nodes' = [id \in DOMAIN nodes \cup Ids(ids) |->
                      IF id \in Ids(ids)
                      THEN [share |-> dealt[LastOf(ids, id)], dealing |-> Len(masters) + 1]
                      ELSE nodes[id]]
    /\ masters' = Append(masters, secret)
    /\ UNCHANGED <<threshold, partialSigs, signature>>

beginSigning(r, ids) ==
    /\ Len(ids) >= threshold /\ Known(ids)
    /\ partialSigs' = [q \in DOMAIN partialSigs \cup {r} |->
                         IF q = r THEN Ids(ids) ELSE partialSigs[q]]
    /\ UNCHANGED <<threshold, nodes, masters, signature>>

\* Those of the participants whose shares are used.
Taken(ids) == First(ids, threshold)

\* The contributions of beginSigning are not looked at again.
combineThresholdSignature(r, ids) ==
    /\ r \in DOMAIN partialSigs
    /\ Len(ids) >= threshold /\ Known(Taken(ids))
    /\ LET taken == Taken(ids)
           shares == [i \in 1..Len(taken) |-> nodes[taken[i]].share]
       IN /\ Combinable(shares)
          /\ signature' = [key |-> combineShares(shares),
                           made |-> [i \in 1..Len(taken) |-> nodes[taken[i]]]]
    /\ UNCHANGED <<threshold, nodes, masters, partialSigs>>

SigningNext ==
    \/ \E ids \in IdLists, s \in Secrets, c \in Draws(threshold, Drawn) :
          distributeShares(ids, s, c)
    \/ \E r \in Requests, ids \in Participants :
          beginSigning(r, ids) \/ combineThresholdSignature(r, ids)
SigningSpec == SigningInit /\ [][SigningNext]_signingVars

-----------------------------------------------------------------------------
\* A signature made of shares of one dealing is made with the secret of that dealing,
\* whichever nodes took part and in whatever order, and whatever was dealt since.
\* (Shares of two dealings combine to some other key, and nothing says so.)
SignsWithMaster ==
    \A d \in 1..Len(masters) :
        /\ signature.made # <<>>
        /\ \A i \in 1..Len(signature.made) : signature.made[i].dealing = d
        => signature.key = masters[d]

\* One share fewer than the threshold says nothing of a secret: whatever nodes hold
\* of one dealing, every other secret could have given them the same.  (What they hold
\* changes with a dealing only, so it is asked before anything is signed.)
CouldBe(secret, held) ==
    \E c \in Draws(threshold, Byte) :
        \A s \in held : evalPoly(<<secret>> \o c, s.index) = s.data
FewerSayNothing ==
    \A holders \in SUBSET DOMAIN nodes :
        LET held == {nodes[id].share : id \in holders}
        IN /\ DOMAIN partialSigs = {}
           /\ Cardinality(holders) = threshold - 1 /\ Cardinality(held) = threshold - 1
           /\ \A id, other \in holders : nodes[id].dealing = nodes[other].dealing
           => \A secret \in Byte : CouldBe(secret, held)
=============================================================================
