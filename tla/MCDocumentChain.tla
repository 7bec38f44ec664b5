--------------------------- MODULE MCDocumentChain --------------------------
(* Two transactions side by side, which is what it takes for each lock to    *)
(* matter; which of them does what is no difference.                         *)
EXTENDS DocumentChain, TLC

CONSTANTS t1, t2

MCTransaction == {t1, t2}
MCSymmetry    == Permutations(MCTransaction)
MCOne         == {t1}

MCKinds    == {"time_and_material_report", "progress_invoice"}
MCProgress == {"progress_invoice"}
=============================================================================
