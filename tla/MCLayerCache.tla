---------------------------- MODULE MCLayerCache ----------------------------
(* Instances of LayerCache for TLC. *)
EXTENDS LayerCacheProperties, TLC

CONSTANTS u1, u2, corpus, r1, r2, w1, w2

\* One user has both files, the other none; the corpus has the first.
Some == {<<u1, 1>>, <<u1, 2>>, <<corpus, 1>>}
=============================================================================
