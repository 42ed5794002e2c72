---------------------------- MODULE MCProposePR -----------------------------
(* Instances of ProposePR for TLC: a call that proposes the shared draft    *)
(* and one that brings its files, two branch names they may both ask for,   *)
(* one of which exists already, and a text that is fine beside one that is  *)
(* not.                                                                     *)
EXTENDS ProposePR
=============================================================================
