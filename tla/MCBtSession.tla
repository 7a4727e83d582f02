---------------------------- MODULE MCBtSession -----------------------------
(* Instances of BtSession for TLC. *)
EXTENDS BtSession

\* Each frame alone, and each with another one behind it.
FewBursts == {<<f>> : f \in Spontaneous}
               \cup {<<"status", "key">>, <<"key", "found">>, <<"found", "status">>}
=============================================================================
