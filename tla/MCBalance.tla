----------------------------- MODULE MCBalance -----------------------------
(* Small instances of Balance for TLC. *)
EXTENDS Balance

\* Different equities, so that no two sets of accounts add up to the same.
Accounts ==
    [alpaca |-> [equity |-> 1, currency |-> "USD"],
     oanda |-> [equity |-> 2, currency |-> "USD"],
     questrade |-> [equity |-> 4, currency |-> "CAD"]]
=============================================================================
