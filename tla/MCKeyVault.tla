----------------------------- MODULE MCKeyVault -----------------------------
(* Model-checking instance of KeyVault: two user passwords, the zero      *)
(* cipher state as a model value, key lengths of the 4096-bit family.      *)
EXTENDS KeyVault, TLC

CONSTANTS p1, p2

MCPasswords == {p1, p2}

(* Passwords are interchangeable: permuting them maps behaviours onto      *)
(* behaviours, and every property checked here is a safety property.      *)
Symmetry == Permutations(MCPasswords)
=============================================================================
