---------------------------- MODULE MCElasticPool ----------------------------
(* Three threads share a pool of at least one and at most two items. *)
EXTENDS ElasticPool

CONSTANTS p1, p2, p3

MCProcs == {p1, p2, p3}
=============================================================================
