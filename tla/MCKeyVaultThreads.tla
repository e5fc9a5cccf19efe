------------------------- MODULE MCKeyVaultThreads -------------------------
(* KeyVaultThreads with two Java threads, one user password (the zero     *)
(* state is the other) and the key lengths of the 4096-bit family.        *)
EXTENDS KeyVaultThreads, TLC

CONSTANTS p1, c1, c2

MCPasswords == {p1}
MCCallers == {c1, c2}
=============================================================================
