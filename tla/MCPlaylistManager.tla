-------------------------- MODULE MCPlaylistManager --------------------------
(* Instances of PlaylistManager: one playlist or two are found on disk.    *)
EXTENDS PlaylistManager

OneLoaded == 1 :> <<"a", 0>>
TwoLoaded == (1 :> <<"a", 0>>) @@ (2 :> <<"b", 0>>)
AppSymmetry == Permutations(App)
=============================================================================
