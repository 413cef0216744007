------------------------------ MODULE MCAccounts ------------------------------
(* The instances of Accounts that TLC checks. *)
EXTENDS Accounts, TLC

CONSTANTS s1, s2, c1, c2

MCSyncers  == {s1, s2}
MCSymmetry == Permutations(MCSyncers)
MCContacts == {c1, c2}

\* Two contacts with one number; and one whose number has no canonical form.
MCStarts ==
    {[main |-> c1, raw |-> (c1 :> "p" @@ c2 :> "p8")], [main |-> c1, raw |-> (c1 :> "f" @@ c2 :> "p")]}
=============================================================================
