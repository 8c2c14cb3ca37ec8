------------------------------ MODULE MCHistory ------------------------------
(* History for TLC: pages of two, of a history of up to eight events that  *)
(* grows to ten; the cutoff and the limit both bite on some walks.  Two    *)
(* indexers may be deleted, with events next to each other and apart.  A   *)
(* grab is of one to three releases.                                       *)
EXTENDS History

CONSTANTS g1, g2, g3

MCStarts == 0..8
MCOwned == {{2, 5, 6}, {7, 8}}
MCReleases == {g1, g2, g3}
=============================================================================
