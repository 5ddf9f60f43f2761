------------------------------ MODULE MCAccounts ------------------------------
(***************************************************************************)
(* Accounts for TLC.  No action names a worker or a key, and Init chooses  *)
(* the first key freely, so both sets are symmetric.                       *)
(***************************************************************************)
EXTENDS Accounts, TLC

Symmetry == Permutations(Workers) \cup Permutations(Keys)

=============================================================================
