---------------------------- MODULE MCDeadlines -----------------------------
(***************************************************************************)
(* Two deadlines of a kind that reminds once per pass, so that one that    *)
(* fails could starve the other, and two processes, as while one replaces  *)
(* the other.                                                              *)
(***************************************************************************)
EXTENDS Deadlines

CONSTANTS p1, p2

MCDeadline == {1, 2}
MCPass == {p1, p2}
MCDay == {1, 2}
MCInterval == {0, 1}

=============================================================================
