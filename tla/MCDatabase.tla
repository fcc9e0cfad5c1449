---------------------------- MODULE MCDatabase ----------------------------
(* Database for TLC. *)
EXTENDS Database

\* No deadline is negative, and some are past when they are set.
MCTtl == {0, 1}
=============================================================================
