-------------------------- MODULE MCChatScheduler --------------------------
(* ChatScheduler for TLC.  The conversations of a batch are interchangeable *)
(* in every safety property.                                                *)
EXTENDS ChatScheduler

Symmetry == Permutations(Conversations)
=============================================================================
