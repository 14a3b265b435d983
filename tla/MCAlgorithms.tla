----------------------------- MODULE MCAlgorithms -----------------------------
(***************************************************************************)
(* The calculations that have no actors, in one run: a behaviour is either *)
(* a record on its way through the cipher stack or a coordinator of        *)
(* threshold signatures; the other stays as it is.                         *)
(***************************************************************************)
EXTENDS CipherStack, ThresholdSig

MCIdLists == {<<"a", "b", "c">>, <<"a", "b", "d">>, <<"a", "b", "a">>}
MCParticipants == UNION {[1..n -> {"a", "b", "c", "d"}] : n \in 2..3}

MCPlaintexts == UNION {[1..n -> {0, 5}] : n \in 0..2} \cup {<<1, 2, 3, 4, 7>>}
MCSubjects == {<<2>>, <<1, 2, 3, 4, 5>>}
MCKeys == {<<0, 3>>, <<6, 1>>}
MCMaterials ==
    [key : {[cartouche |-> <<1>>, hieroglyph |-> h, augustan |-> a, seal |-> <<2, 4>>,
             torch |-> <<7, 5, 3>>, veil |-> v] : h, a, v \in MCKeys},
     columns : {2, 3, 4}, mutable : {<<x, y>> : x \in 0..2, y \in 0..1},
     tail : {<<0, 0>>, <<0, 1>>}, fingerprint : {<<4, 2>>}, prefix : {2}, suffix : {1}]

NoStack == step = "none" /\ config = <<>> /\ material = <<>> /\ plaintext = <<>>
           /\ wire = <<>> /\ opened = <<>>
NoCoordinator == threshold = 0 /\ nodes = <<>> /\ masters = <<>> /\ partialSigs = <<>>
                 /\ signature = NoSignature

MCInit == (StackInit /\ NoCoordinator) \/ (SigningInit /\ NoStack)
MCNext ==
    \/ (StackNext /\ UNCHANGED signingVars)
    \/ (step = "none" /\ SigningNext /\ UNCHANGED stackVars)
MCSpec == MCInit /\ [][MCNext]_<<stackVars, signingVars>>
=============================================================================
