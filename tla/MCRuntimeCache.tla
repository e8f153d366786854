--------------------------- MODULE MCRuntimeCache ---------------------------
(* Instance of RuntimeCache: more keys than fit, and time to expire twice.  *)
EXTENDS RuntimeCache

CONSTANTS k1, k2, k3, v1, v2

MCKeys == {k1, k2, k3}
MCValues == {v1, v2}

============================================================================
