---------------------------- MODULE MCSdwanAuth ----------------------------
(***************************************************************************)
(* Three tasks share a client.                                             *)
(***************************************************************************)
EXTENDS SdwanAuth

CONSTANTS t1, t2, t3

============================================================================
