------------------------------- MODULE MCLfs -------------------------------
(***************************************************************************)
(* Instances of the local file system for TLC.                             *)
(***************************************************************************)
EXTENDS LfsFiles, TLC

\* Modes of opening: any file, an old one, a new one; one that lfgetmode refuses.
Modes == {<<>>, <<"o">>, <<"n">>, <<"o", "n">>}

CONSTANTS byte1, byte2, file1, file2

Symmetry == Permutations({byte1, byte2}) \union Permutations({file1, file2})

\* No call reads what the last one returned.
WithoutOut == <<lf_dir, lf_dirpresent, lf_dirdirty, lfltab, disk, panic>>
=============================================================================
