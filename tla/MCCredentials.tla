--------------------------- MODULE MCCredentials ---------------------------
(* Small instances of Credentials for TLC. *)
EXTENDS Credentials, TLC

\* Imports and keys are interchangeable.
Interchangeable == Permutations(Imports) \union Permutations(Keys)
=============================================================================
