----------------------------- MODULE MCSignIn ------------------------------
(* Small instances of SignIn for TLC.                                      *)
EXTENDS SignIn, TLC

(* Clients and staff share the table of tokens and nothing else.           *)
ClientOrStaff == {Clients, Admins}

Symmetry ==
    Permutations(Codes) \cup Permutations(Tokens) \cup Permutations(Requests)
=============================================================================
