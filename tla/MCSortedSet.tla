---------------------------- MODULE MCSortedSet ----------------------------
(***************************************************************************)
(* SortedSet for TLC: members and addresses are small numbers, with one    *)
(* address more than members need.                                         *)
(***************************************************************************)
EXTENDS SortedSet

CONSTANT Members

MCMember == 1..Members
MCAddr == 1..(Members + 1)
=============================================================================
