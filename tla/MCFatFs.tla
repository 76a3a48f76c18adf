------------------------------- MODULE MCFatFs -------------------------------
(* Two units to a sector, two sectors to a cluster, three FAT sectors.      *)
EXTENDS FatFs, TLC
FilSymmetry == Permutations(Fils)
ThePaths == {<<"a">>, <<"b">>, <<"d">>, <<"d", "b">>}
=============================================================================
