------------------------------ MODULE MCRoster ------------------------------
(***************************************************************************)
(* One host and the guests of the configuration, for TLC.                  *)
(***************************************************************************)
EXTENDS Roster

CONSTANTS ga, gb

OneGuest == {ga}
TwoGuests == {ga, gb}
OwnNames == [g \in {ga} |-> "a"]
SharedName == [g \in {ga, gb} |-> "a"]
ThreadSlots == [m \in {ga, gb, Host} |-> IF m = ga THEN {1, 2} ELSE {1}]
AllWant == [g \in {ga, gb} |-> TRUE]
AllNames == {"a", "h"}
=============================================================================
