--------------------------- MODULE AddressGroups ---------------------------
(***************************************************************************)
(* Address groups of the SD-WAN controller: SDWANCatalogGateway loads the  *)
(* objects below the wanted ones level by level, and                       *)
(* SDWANAddressGroupLeavesResolver walks the loaded list from a group to   *)
(* its leaves.  Groups are edited while they are loaded.                   *)
(*                                                                         *)
(* A read of address objects is one action per chunk of parents; its pages *)
(* are the subject of Pagination.  An object's addr_group equals its id.   *)
(***************************************************************************)
EXTENDS Integers, FiniteSets, FiniteSetsExt, Functions

CONSTANTS
  Groups, Leaves,  \* ids of groups and of other objects
  Graphs,          \* the memberships that are tried: object -> its parents
  WantedIds,       \* the lists of ids that are asked for; Objects is "all"
  BareSets,        \* the sets of network objects without a net that are tried
  Memberships,     \* the sets of groups an object may be edited to be in
  MaxDepth,        \* max_groups_depth, MAX_ADDR_GROUP_NESTING_LEVEL
  ChunkSize,       \* YAQL_FILTERS_LIMIT
  MaxEdits,        \* bound: memberships changed meanwhile
  Error

Objects == Groups \cup Leaves

ASSUME GroupsAssumption ==
  /\ IsFiniteSet(Objects) /\ Objects \subseteq Nat
  /\ Groups \cap Leaves = {}
  /\ Graphs \subseteq [Objects -> SUBSET Groups]
  /\ WantedIds \subseteq SUBSET Objects
  /\ BareSets \subseteq SUBSET Leaves
  /\ Memberships \subseteq SUBSET Groups
  /\ MaxDepth \in Nat \ {0}
  /\ ChunkSize \in Nat \ {0}
  /\ MaxEdits \in Nat
  /\ Error \notin Objects

VARIABLES
  parents,   \* the memberships on the controller (external)
  bare,      \* network objects whose network has no net (external)
  wanted,
  pc,
  loaded,    \* loaded_by_key: the objects with the parents they came with
  frontier,  \* current_group_ids
  depth,
  answers,   \* chunk -> what its query returned
  catalog,   \* the converted objects
  stable, ever, edits  \* history: links that stayed, links that were, edits made

loadVars == <<loaded, frontier, depth, answers, catalog>>
groupVars == <<parents, bare, wanted, pc, loadVars, stable, ever, edits>>

Entry == [id: Objects, parents: SUBSET Groups]

entry(o) == [id |-> o, parents |-> parents[o]]

entries(ps) == {[id |-> o, parents |-> ps[o]] : o \in Objects}

ids(es) == {e.id : e \in es}

\* The memberships an object list shows, as pairs of a group and a member.
links(es) == UNION {{<<g, e.id>> : g \in e.parents} : e \in es}

GroupsInit ==
  /\ parents \in Graphs
  /\ bare \in BareSets
  /\ wanted \in WantedIds
  /\ pc = IF wanted = {} THEN "done" ELSE "initial"
  /\ loaded = {} /\ frontier = {} /\ catalog = {}
  /\ depth = 0
  /\ answers = << >>
  /\ stable = links(entries(parents))
  /\ ever = stable
  /\ edits = 0

----------------------------------------------------------------------------
\* The loop goes on while there are groups and the depth allows it.
continue(groups, d) == IF groups # {} /\ d <= MaxDepth THEN "children" ELSE "networks"

\* Mutant of too_deep: groups on the last level are ignored.
too_deep_not(d, groups) == FALSE

\* The last level still has groups.
too_deep(d, groups) == d = MaxDepth /\ groups # {}

\* _save_objects_and_return_groups_ids for the objects that were asked for.
LoadInitial ==
  /\ pc = "initial"
  /\ loaded' = {entry(o) : o \in wanted}
  /\ frontier' = wanted \cap Groups
  /\ depth' = 1
  /\ pc' = continue(frontier', 1)
  /\ UNCHANGED <<parents, bare, wanted, answers, catalog, stable, ever, edits>>

\* Position of a group in the list of parents, and the chunk it is in.
position(g) == Cardinality({h \in frontier : h < g})
chunk(c) == {g \in frontier : position(g) \div ChunkSize = c}
Chunks == {position(g) \div ChunkSize : g \in frontier}

\* The query of one chunk is answered; gather runs the chunks concurrently.
ReadChunk(c) ==
  /\ pc = "children"
  /\ c \in Chunks \ DOMAIN answers
  /\ LET answer == {entry(o) : o \in {p \in Objects : parents[p] \cap chunk(c) # {}}}
     IN  answers' = [k \in DOMAIN answers \cup {c} |-> IF k = c THEN answer ELSE answers[k]]
  /\ UNCHANGED <<parents, bare, wanted, pc, loaded, frontier, depth, catalog, stable, ever, edits>>

\* The chunks are merged by id: the answer of the last chunk counts.
merged ==
  {e \in UNION Range(answers) :
     \E c \in DOMAIN answers :
       /\ e \in answers[c]
       /\ \A k \in DOMAIN answers : k > c => e.id \notin ids(answers[k])}

\* Every group among the children is expanded next, known or not.
next_frontier(es) == ids(es) \cap Groups

\* All chunks are there: the level is saved, and the next one is begun.
SaveChildren ==
  /\ pc = "children"
  /\ DOMAIN answers = Chunks
  /\ loaded' = loaded \cup merged
  /\ frontier' = next_frontier(merged)
  /\ depth' = depth + 1
  /\ pc' = IF too_deep(depth, frontier') THEN "failed" ELSE continue(frontier', depth + 1)
  /\ answers' = << >>
  /\ UNCHANGED <<parents, bare, wanted, catalog, stable, ever, edits>>

\* _get_addr_objects_from_resp: a network object without a net is left out.
Convert ==
  /\ pc = "networks"
  /\ catalog' = {e \in loaded : e.id \notin bare}
  /\ pc' = "done"
  /\ UNCHANGED <<parents, bare, wanted, loaded, frontier, depth, answers, stable, ever, edits>>

\* Somebody changes the groups an object is in.
Edit(o, new) ==
  /\ edits < MaxEdits
  /\ pc \notin {"done", "failed"}
  /\ parents' = [parents EXCEPT ![o] = new]
  /\ stable' = stable \cap links(entries(parents'))
  /\ ever' = ever \cup links(entries(parents'))
  /\ edits' = edits + 1
  /\ UNCHANGED <<bare, wanted, pc, loadVars>>

GroupsNext ==
  \/ LoadInitial
  \/ \E c \in Chunks : ReadChunk(c)
  \/ SaveChildren
  \/ Convert
  \/ \E o \in Objects, new \in Memberships : Edit(o, new)

----------------------------------------------------------------------------
\* _children_by_parent of the resolver.
children(g) == {e.id : e \in {f \in catalog : g \in f.parents}}

\* Mutant of levels: one level less.
levels_less == MaxDepth - 1

\* The group levels a walk may go down.
levels == MaxDepth

\* _resolve_leaves with so many group levels left: a set of leaves, and Error
\* when the walk raises.
resolve_below[left \in 0 .. MaxDepth] ==
  [o \in Objects |->
     IF o \notin ids(catalog) THEN {Error}
     ELSE IF o \in Leaves THEN {o}
     ELSE IF left = 0 THEN {Error}
     ELSE LET below == UNION {resolve_below[left - 1][c] : c \in children(o) \ {o}}
          IN  IF below = {} THEN {Error} ELSE below]

resolve_leaves(o) == resolve_below[levels][o]

----------------------------------------------------------------------------
\* The objects at or below o along links.
reached(o, ls) ==
  LET step[n \in 0 .. Cardinality(Objects)] ==
        IF n = 0 THEN {o}
        ELSE LET before == step[n - 1]
             IN  before \cup {l[2] : l \in {k \in ls : k[1] \in before}}
  IN  step[Cardinality(Objects)]

current == links(entries(parents))

\* Whether a chain of n groups hangs below, and at, the group g.
chain(g, ls, n) ==
  LET deep[k \in 1 .. n] ==
        IF k = 1 THEN Groups
        ELSE {h \in Groups : \E l \in ls : l[1] = h /\ l[2] \in deep[k - 1]}
  IN  g \in deep[n]

\* Every variable has its type.
GroupsTypeOK ==
  /\ parents \in [Objects -> SUBSET Groups]
  /\ bare \subseteq Leaves
  /\ wanted \subseteq Objects
  /\ pc \in {"initial", "children", "networks", "done", "failed"}
  /\ loaded \subseteq Entry /\ catalog \subseteq loaded
  /\ frontier \subseteq Groups
  /\ depth \in 0 .. MaxDepth + 1
  /\ links(loaded) \subseteq ever /\ stable \subseteq ever
  /\ edits \in 0 .. MaxEdits

\* A load that nobody disturbs is refused exactly when more groups than
\* max_groups_depth are nested below a wanted one, cycles included.
RefusedIffTooDeep ==
  (edits = 0 /\ pc \in {"done", "failed"})
    => (pc = "failed" <=> \E g \in wanted \cap Groups : chain(g, current, MaxDepth + 1))

\* What an undisturbed load accepts is resolved: the level limits of the loader
\* and of the resolver agree, and a wanted group has exactly the leaves below it,
\* unless a group below it shows no member.
ResolvesExactly ==
  (edits = 0 /\ pc = "done") =>
    \A o \in wanted :
      LET below == reached(o, current) \ bare
          hollow == {g \in below \cap Groups : children(g) = {}}
      IN  IF hollow # {} \/ o \in bare THEN Error \in resolve_leaves(o)
          ELSE resolve_leaves(o) = below \cap Leaves

============================================================================
