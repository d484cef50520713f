--------------------------- MODULE MCPlaylistStore ---------------------------
(* PlaylistStore on small instances: two playlists of two names that are   *)
(* edited, without clients; one playlist that two clients hold.            *)
EXTENDS PlaylistStore

CONSTANTS c1, c2

MCBounds == {[ids |-> 2, revs |-> 1, clients |-> {}],
             [ids |-> 1, revs |-> 0, clients |-> {c1, c2}]}
=============================================================================
