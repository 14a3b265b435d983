------------------------------- MODULE MCVaults -------------------------------
(***************************************************************************)
(* Vaults for TLC: two owners and two columns of one table, one with and   *)
(* one without a colon in its name, so that a column of one owner joins to *)
(* the same text as the other column of the other.                         *)
(***************************************************************************)
EXTENDS Vaults

MCOwners == {<<"t">>, <<"t", "t">>}
MCFields == {<<"api">>} \X {<<"x">>, <<"x", "t">>}
=============================================================================
