---------------------------- MODULE CanonicalPage ----------------------------
(***************************************************************************)
(* The page on which rules of a canonical snapshot are picked for a        *)
(* migration: filters, paging, and a table whose rows can be ticked.       *)
(*                                                                         *)
(* Streamlit runs the page's script again after every interaction.  An     *)
(* action is one interaction with the run it causes: what the widgets      *)
(* bring, then render, which may put the page right and shows it.  The     *)
(* table widget knows its ticks by row number only and keeps them as long  *)
(* as its key stays the same.                                              *)
(***************************************************************************)
EXTENDS CanonicalScope

CONSTANT PageSize

ASSUME PageAssumption == PageSize \in Nat \ {0}

VARIABLES
  shelf,    \* what there is to be, and what the users may do, fixed at the start:
            \* [snapshots, visited, filters, sorts, links] here, the rest in MappedRules
  latest,   \* which of them is the latest of the source
  page,     \* the session state of the page; NONE before it is opened
  \* bookkeeping of the model
  ticked,   \* the rules the user has ticked and not unticked
  left      \* whether the page was left and opened again; bound: once

pageVars == <<snapshot, shelf, latest, page, ticked, left>>

\* _ensure_page_state; rows are the ticks the widget with this key holds.
EmptyPage ==
  [number |-> 1, filter |-> NoFilter, sort |-> "default", selected |-> {}, visible |-> <<>>,
   key |-> NONE, rows |-> {}, pending |-> FALSE, pages |-> 0, shows |-> 1]

\* _reset_filters_state: the selection stays.
reset_filters(p) ==
  [p EXCEPT !.number = 1, !.filter = NoFilter, !.sort = "default", !.visible = <<>>,
            !.key = NONE, !.rows = {}, !.pending = FALSE]

\* _apply_canonical_deep_link: the link filters by what it leads to, or by the rule it came from.
apply_link(p, link) ==
  [reset_filters(p) EXCEPT !.filter =
     CASE link.kind = "object" -> [NoFilter EXCEPT !.objects = {link.id}]
       [] link.kind = "zone"   -> [NoFilter EXCEPT !.zones = {link.id}]
       [] OTHER                -> [NoFilter EXCEPT !.rule_ids = {link.id}]]

\* _sync_existing_canonical_for_selected_source: when another snapshot is the latest now, the
\* page starts over.  The filters stay, a rule filter of a link among them.
sync(p) ==
  IF p.shows = latest THEN p
  ELSE [p EXCEPT !.number = 1, !.selected = {}, !.visible = <<>>, !.key = NONE, !.rows = {},
                 !.pending = FALSE, !.shows = latest]

\* _render_id_multiselect: ids that are no options of this snapshot are dropped.
valid_options(p) ==
  [p EXCEPT !.filter.zones = @ \cap ids_of(snapshot.zones),
            !.filter.objects = @ \cap ids_of(snapshot.objects)]

pages_of(ids) == (Len(ids) + PageSize - 1) \div PageSize

\* _render_pagination comes last: the page number is put right for the next run.
cap_number(p, pages) ==
  [p EXCEPT !.pages = pages,
            !.number = IF pages = 0 THEN 1 ELSE IF @ > pages THEN pages ELSE @]

row_indices_for_selected_ids(ids, selected) == {n \in DOMAIN ids : ids[n] \in selected}

\* Mutant of merge_visible_page_selection: what is not on the page is forgotten.
merge_visible_page_only(selected, ids, rows) == {ids[n] : n \in rows}

merge_visible_page_selection(selected, ids, rows) ==
  (selected \ ToSet(ids)) \cup {ids[n] : n \in rows}

\* _render_rules_table.  Rows that are new, or known to be out of step, are ticked as the
\* selection says; only then do ticks count as clicks.
render_table(p, ids) ==
  IF ids = <<>>
  THEN [p EXCEPT !.visible = <<>>, !.pending = FALSE, !.key = NONE, !.rows = {}]
  ELSE LET key == <<p.shows, p.number, ids>>
           kept == IF p.key = key THEN p.rows ELSE {}
           expected == row_indices_for_selected_ids(ids, p.selected)
           seed == p.visible # ids \/ p.pending
           rows == IF seed THEN expected ELSE kept
       IN  [p EXCEPT !.key = key, !.rows = rows, !.visible = ids,
                     !.pending = seed /\ rows # expected,
                     !.selected = IF seed THEN @
                                  ELSE merge_visible_page_selection(@, ids, rows)]

shown_rules(p) == list_filtered(p.filter, p.sort)

\* One run of the script; ids are the rules that pass its filter.
render(p, ids) ==
  \E part \in {page_of(ids, PageSize, p.number)} : page' = cap_number(render_table(p, part), pages_of(ids))

----------------------------------------------------------------------------
\* What every interaction ends with, on the snapshot that is the latest then.
Rerun(p, t) ==
  /\ UNCHANGED <<snapshot, shelf, latest>>
  /\ ticked' = IF p.shows = latest THEN t ELSE {}
  /\ \E q \in {sync(p)} : \E v \in {valid_options(q)} : \E ids \in {shown_rules(v)} :
       render(v, ids)

OpenPage ==
  /\ page = NONE /\ shelf.visited
  /\ \/ Rerun([EmptyPage EXCEPT !.shows = latest], {})
     \/ \E link \in shelf.links :
          Rerun(apply_link([EmptyPage EXCEPT !.shows = latest], link), {})
  /\ UNCHANGED left

\* A click on the box of a row; the widget sends all its ticks.
Tick ==
  /\ page # NONE
  /\ page.visible # <<>>
  /\ \E n \in DOMAIN page.visible :
       LET rows == IF n \in page.rows THEN page.rows \ {n} ELSE page.rows \cup {n}
           id == page.visible[n]
       IN  Rerun([page EXCEPT !.rows = rows],
                 IF n \in page.rows THEN ticked \ {id} ELSE ticked \cup {id})
  /\ UNCHANGED left

\* The page number stays as it is: it may be past the end of what the filter leaves.
SetFilter ==
  /\ page # NONE
  /\ \E f \in shelf.filters :
       /\ f # [page.filter EXCEPT !.rule_ids = {}]
       /\ Rerun([page EXCEPT !.filter = [f EXCEPT !.rule_ids = page.filter.rule_ids]], ticked)
  /\ UNCHANGED left

SetSort ==
  /\ page # NONE
  /\ \E s \in shelf.sorts \ {page.sort} : Rerun([page EXCEPT !.sort = s], ticked)
  /\ UNCHANGED left

\* Reset, or "Clear Canonical ID filter" of the link's banner.
Reset ==
  /\ page # NONE
  /\ page.filter # NoFilter \/ page.sort # "default" \/ page.number # 1
  /\ Rerun(reset_filters(page), ticked)
  /\ UNCHANGED left

\* _go_prev_page, _go_next_page.
turn_to(number) == [page EXCEPT !.number = number, !.visible = <<>>, !.pending = TRUE]

\* The buttons are there when anything passes the filter.
TurnPage ==
  /\ page # NONE
  /\ \E number \in {page.number - 1, page.number + 1} \cap 1 .. page.pages :
       Rerun(turn_to(number), ticked)
  /\ UNCHANGED left

\* Another page of the application and back: the widgets' own state is gone, the values the
\* page keeps beside them are not.
LeaveAndReturn ==
  /\ page # NONE /\ ~left
  /\ Rerun([page EXCEPT !.rows = {}, !.sort = "default",
              !.filter = [@ EXCEPT !.search = NoFilter.search, !.facets = NoFacets]], ticked)
  /\ left' = TRUE

\* Elsewhere the configuration is mapped anew.
NewSnapshot ==
  /\ page # NONE
  /\ latest < Len(shelf.snapshots)
  /\ latest' = latest + 1
  /\ snapshot' = shelf.snapshots[latest']
  /\ UNCHANGED <<shelf, page, ticked, left>>

PageNext ==
  OpenPage \/ Tick \/ SetFilter \/ SetSort \/ Reset \/ TurnPage \/ LeaveAndReturn \/ NewSnapshot

----------------------------------------------------------------------------
\* Rows are matched to rules by number, across paging, filters, sorting and a new snapshot.
\* Nothing is selected that was not ticked, nothing ticked is lost unless the page was left
\* meanwhile, and the table shows the selection's ticks, those of the rules it shows.
SelectionFollowsClicks ==
  page # NONE =>
    /\ page.selected \subseteq ticked
    /\ ~left => page.selected = ticked
    /\ page.visible # <<>> =>
         {page.visible[n] : n \in page.rows} = page.selected \cap ToSet(page.visible)

\* The filter by object walks up the membership, a migration down: the rules shown for an
\* object are those whose scope would take it in.
FilterAgreesWithScope ==
  page = NONE /\ ticked = {} => \A o \in ids_of(snapshot.objects) :
    passing([NoFilter EXCEPT !.objects = {o}])
      = {u \in snapshot.rules : o \in ids_of(collect_objects(TRUE, {u.id}))}
=============================================================================
