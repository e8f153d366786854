--------------------------- MODULE MCMappingScope ---------------------------
(***************************************************************************)
(* Small instances of MappingScope.                                        *)
(***************************************************************************)
EXTENDS MappingScope, TLC

CONSTANTS j1, j2, j3

\* An ambiguous address, one that can be created, a service and a zone: an entity
\* that cannot be created stands before and after the one that can.
MCKindOf == <<"addr", "addr", "service", "zone">>
MCMatches == <<{"a1", "a2"} \cap Objects, {}, {}, {"z1"} \cap Objects>>
MCUses ==
  {[rule |-> "r1", role |-> "SRC_ADDR", result |-> 1],
   [rule |-> "r1", role |-> "DST_ADDR", result |-> 2],
   [rule |-> "r2", role |-> "SRC_ZONE", result |-> 4]}

MCTypeOf ==
  [o \in Objects |-> IF o \in {"z1", "z2"} THEN "zone" ELSE "addr"]

Map == [op |-> "map", target |-> "DEVICE", priority |-> "LOCAL"]
MapGroup == [op |-> "map", target |-> "GROUP", priority |-> "LOCAL"]
Create == [op |-> "create", result |-> 2]
Auto == [op |-> "auto"]
Direct == [op |-> "direct", result |-> 1, object |-> "a1"]
Redirects == {[op |-> "direct", result |-> j, object |-> "z2"] : j \in Jobs}
AssignSrc == [op |-> "assign", object |-> "z1", role |-> "SRC_ZONE"]
AssignDst == [op |-> "assign", object |-> "z1", role |-> "DST_ZONE"]

JobsSymmetry == Permutations(Jobs)

SelectMenu == {Map, Direct, Create, Auto}
AssignMenu == {Map, AssignSrc, AssignDst} \cup Redirects

RaceMenus == {SelectMenu, AssignMenu, {MapGroup}}

=============================================================================
