--------------------------- MODULE MCArticleImport --------------------------
(***************************************************************************)
(* Two imports, the second of which changes what the first does and one    *)
(* article more, so that a takeover numbers some of its rows and leaves    *)
(* others.                                                                 *)
(***************************************************************************)
EXTENDS ArticleImport, TLC

CONSTANTS a, b, i, j

MCArticle == {a, b}
MCImport == {i, j}
MCContents == (i :> {a}) @@ (j :> {a, b})

=============================================================================
