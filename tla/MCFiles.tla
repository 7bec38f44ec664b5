------------------------------ MODULE MCFiles -------------------------------
(***************************************************************************)
(* A photo with its preview, and a paper the server makes that comes out   *)
(* as the same bytes as the photo: enough for a file to be kept while      *)
(* another goes up, and for one to be put again while the sweep takes it.  *)
(***************************************************************************)
EXTENDS Files, TLC

CONSTANTS picture, preview, photo, paper, ours, q1, q2

MCHash == {picture, preview}
MCPhoto == {photo}
MCPaper == {paper}
MCTenant == {ours}
MCRequest == {q1, q2}
MCTenantOf == [d \in MCPhoto \cup MCPaper |-> ours]
MCFilesOf == (photo :> MCHash) @@ (paper :> {picture})

=============================================================================
