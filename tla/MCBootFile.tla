------------------------------ MODULE MCBootFile ------------------------------
(***************************************************************************)
(* A small instance of BootFile: two users, who are alike, and a PC that   *)
(* writes a selection of its own, longer than theirs, or text that is no   *)
(* selection at all.                                                       *)
(***************************************************************************)
EXTENDS BootFile, TLC

CONSTANTS cli_task, network_task

MCUsers == {cli_task, network_task}

UserSymmetry == Permutations(MCUsers)

MCHostTexts == {Pad(Format(232)), [i \in 1..Cells |-> Other]}
=============================================================================
