---------------------------- MODULE MC_ChatTurn ----------------------------
(***************************************************************************)
(* A small instance of ChatTurn.  Three turns on one conversation make a   *)
(* holder, a waiter and a latecomer that may find the lock dying.          *)
(***************************************************************************)
EXTENDS ChatTurn, TLC

TurnSymmetry == Permutations(Turns)

=============================================================================
