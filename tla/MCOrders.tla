------------------------------ MODULE MCOrders ------------------------------
(* A small instance of Orders for TLC. *)
EXTENDS Orders

\* One behind the day-trade gate, one that is not, one that takes no orders.
AllBrokers == {"alpaca", "oanda", "questrade"}
=============================================================================
