------------------------------ MODULE MCLedger ------------------------------
(* A small instance of Ledger: what the transactions of two accounts ask for. *)
EXTENDS Ledger

(* Two fit in a block of gas 2 or only one does; prices that tie and that do not;
   one of each outcome; and one asks for more gas than a block has. *)
MCPayloads == {[price |-> 1, gas |-> 1, outcome |-> "succeeds"],
               [price |-> 2, gas |-> 1, outcome |-> "throws"],
               [price |-> 1, gas |-> 2, outcome |-> "underfunded"],
               [price |-> 1, gas |-> 3, outcome |-> "succeeds"]}
=============================================================================
