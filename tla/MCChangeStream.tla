--------------------------- MODULE MCChangeStream ---------------------------
(* Two tables, two rows in the first so that a page of one can be full, and *)
(* two transactions whose commits fall between the statements of a pull.    *)
EXTENDS ChangeStream

CONSTANTS r1, r2, r3, w1, w2

MCRow     == {r1, r2, r3}
MCWriter  == {w1, w2}
MCTableOf == [r \in MCRow |-> IF r = r3 THEN 2 ELSE 1]
=============================================================================
