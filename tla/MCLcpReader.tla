---------------------------- MODULE MCLcpReader ----------------------------
(***************************************************************************)
(* LcpReader for TLC: two files, two protected books with passphrases of   *)
(* their own and one that is not protected.                                *)
(***************************************************************************)
EXTENDS LcpReader

MCPassphraseOf == [b \in Books |-> IF b = "novel" THEN "x"
                                   ELSE IF b = "essay" THEN "y"
                                   ELSE NotProtected]

\* The files have base names of their own, or are in two directories under one.
Apart == [f \in Files |-> IF f = "shelf/a.epub" THEN "a_lcp.epub" ELSE "b_lcp.epub"]
Alike == [f \in Files |-> "a_lcp.epub"]
ApartOrAlike == {Apart, Alike}
OnlyAlike == {Alike}
=============================================================================
