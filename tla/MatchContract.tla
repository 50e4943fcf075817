---------------------------- MODULE MatchContract ----------------------------
(***************************************************************************)
(* What an authoritative match promises to everyone who holds one of its   *)
(* snapshots: the line of play is only ever extended, by one move at a     *)
(* time, and only while the game is undecided; the outcome is decided at   *)
(* most once, and nothing moves after it.                                  *)
(***************************************************************************)
EXTENDS Sequences

CONSTANTS Move, Outcome, Undecided

VARIABLES line, outcome

ContractVars == <<line, outcome>>

ContractInit ==
    /\ line = << >>
    /\ outcome \in Outcome

\* A move is played; it may also decide the game.
Extend ==
    /\ outcome = Undecided
    /\ \E mv \in Move : line' = Append(line, mv)
    /\ outcome' \in Outcome

\* The game is decided without a move: a flag, a resignation, an agreement.
Decide ==
    /\ outcome = Undecided
    /\ outcome' \in Outcome \ {Undecided}
    /\ UNCHANGED line

ContractNext == Extend \/ Decide

ContractSpec == ContractInit /\ [][ContractNext]_ContractVars
==============================================================================
