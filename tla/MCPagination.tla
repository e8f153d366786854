---------------------------- MODULE MCPagination ----------------------------
(***************************************************************************)
(* Small reads: items 1 to 4 found under their own number or under the     *)
(* parents 11, 12 and 13.                                                  *)
(***************************************************************************)
EXTENDS Pagination

MCKeysOf == <<{1, 11}, {2, 11, 12}, {3, 12, 13}, {4, 13}>>

MCRequests ==
  {[kind |-> "services"], [kind |-> "limited"]}
    \cup {[kind |-> "addr_objects", keys |-> k] : k \in {<<>>, <<11>>, <<11, 12, 11, 13>>}}
    \cup {[kind |-> "policies", keys |-> k] : k \in {<<>>, <<1, 2, 3>>, <<3, 1, 4, 3>>}}

=============================================================================
