------------------------------- MODULE Picker -------------------------------
(* The measure picker and the report selection of the workspace: the nested  *)
(* and the flat selection (selection.rs), the rows that show them and the    *)
(* keys that change them (ui.rs), and what a snapshot of the runner does to  *)
(* both while the operator searches and selects.                             *)
(*                                                                           *)
(* A measurement catalog has measures in its order, the group of each, and   *)
(* which of them are available; both builders give a group one benchmark of  *)
(* the same identifier and the catalog one pool, so the pool key finds no    *)
(* second pool.  A search is the sequence of the sets of measures that still *)
(* match after each of its characters.                                       *)
EXTENDS Naturals, Sequences, FiniteSets

CONSTANTS
    PickNone,          \* Option::None
    PickDevelopment,   \* default_benchmark_selection()'s catalog
    PickChosen,        \* the measures it has selected
    PickCatalogs,      \* the catalogs the runner may publish
    PickMatches,       \* bound: the sets of measures a character may match
    PickQueryMax,      \* bound: length of a search
    PickRuns,          \* the runs the runner may report, at most
    PickRevisionMax    \* bound: the runner's revisions

VARIABLES pick

PickIds(catalog) == {catalog.measures[i] : i \in 1..Len(catalog.measures)}
PickAny == PickCatalogs \cup {PickDevelopment}
PickEveryId == UNION {PickIds(c) : c \in PickAny}

PickQueries == Seq(SUBSET PickEveryId)
PickNestedType == [catalog : PickAny, selected : SUBSET PickEveryId, all : BOOLEAN, query : PickQueries]
PickFlatType == [catalog : PickCatalogs, query : PickQueries, selected : SUBSET PickEveryId]

(* A catalog lists its measures; what the default selection has chosen is    *)
(* available; a search is for what is in some catalog; None is no selection. *)
ASSUME PickAssumption ==
    /\ \A c \in PickAny : c.measures \in Seq(PickEveryId)
    /\ PickChosen \subseteq PickIds(PickDevelopment) \cap PickDevelopment.live
    /\ PickMatches \subseteq SUBSET PickEveryId
    /\ PickNone \notin PickNestedType /\ PickNone \notin PickFlatType

PickMatched(query, ids) == IF query = <<>> THEN ids ELSE ids \cap query[Len(query)]

-----------------------------------------------------------------------------
(* selection.rs: the nested selection.                                       *)

NewNested(catalog) == [catalog |-> catalog, selected |-> {}, all |-> FALSE, query |-> <<>>]

visible_measure_ids(n) == PickMatched(n.query, PickIds(n.catalog))
selected_measure_ids(n) == n.selected \cap PickIds(n.catalog)

(* The members of a group that the search shows and that can be selected. *)
GroupMembers(n, g) == {m \in visible_measure_ids(n) \cap n.catalog.live : n.catalog.of[m] = g}
BenchmarkMembers(n, b) == {m \in PickIds(n.catalog) : n.catalog.of[m] = b}

(* node_state(..) = All, of a group and of its benchmark. *)
AllSelected(n, g) == GroupMembers(n, g) # {} /\ GroupMembers(n, g) \subseteq n.selected

Choose(n, ids, select) ==
    [n EXCEPT !.selected = IF select THEN @ \cup ids ELSE @ \ ids, !.all = FALSE]

(* A careless variant: the mark of all workloads stays. *)
set_measure_keeping_all(n, m, select) ==
    IF m \notin PickIds(n.catalog) \/ (select /\ m \notin n.catalog.live) THEN n
    ELSE [n EXCEPT !.selected = IF select THEN @ \cup {m} ELSE @ \ {m}]

set_measure_selected(n, m, select) ==
    IF m \notin PickIds(n.catalog) \/ (select /\ m \notin n.catalog.live) THEN n
    ELSE Choose(n, {m}, select)

(* A benchmark with an unavailable measure cannot be selected as a whole. *)
set_benchmark_selected(n, b, select) ==
    IF select /\ ~(BenchmarkMembers(n, b) \subseteq n.catalog.live) THEN n
    ELSE Choose(n, BenchmarkMembers(n, b), select)

(* A careless variant: the search is not looked at. *)
set_whole_group_selected(n, g, select) ==
    Choose(n, BenchmarkMembers(n, g) \cap n.catalog.live, select)

set_group_selected(n, g, select) == Choose(n, GroupMembers(n, g), select)

set_explicit_all(n, enabled) ==
    [n EXCEPT !.all = enabled,
              !.selected = IF enabled THEN PickIds(n.catalog) \cap n.catalog.live ELSE {}]

campaign_handoff(n) == selected_measure_ids(n)

-----------------------------------------------------------------------------
(* ui.rs: building both selections from a published catalog.                 *)

(* The codec takes texts that are not ASCII, a measure does not. *)
Measurement_new(catalog) == catalog.ascii

(* The codec takes a group without measures, a benchmark does not ... *)
BenchmarkDefinition_new(catalog, g) == \E m \in PickIds(catalog) : catalog.of[m] = g

(* ... and a pool has a group. *)
BenchmarkPool_new(catalog) ==
    catalog.groups # {} /\ \A g \in catalog.groups : BenchmarkDefinition_new(catalog, g)

(* A careless variant: what the catalog no longer has stays selected. *)
selection_with_removed(catalog, previous) ==
    IF ~Measurement_new(catalog) THEN PickNone
    ELSE [catalog |-> catalog, query |-> <<>>,
          selected |-> IF previous = PickNone THEN {} ELSE previous.selected]

(* None when a measure is invalid.  The flat selection takes                 *)
(* every measure the earlier one had selected. *)
selection_from_catalog(catalog, previous) ==
    IF ~Measurement_new(catalog) THEN PickNone
    ELSE [catalog |-> catalog, query |-> <<>>,
          selected |-> IF previous = PickNone THEN {}
                       ELSE previous.selected \cap PickIds(catalog)]

(* A careless variant: the choices are not carried over. *)
nested_selection_anew(catalog, previous) ==
    IF ~BenchmarkPool_new(catalog) THEN PickNone
    ELSE NewNested(catalog)

(* None when the pool is invalid.  The nested one takes what can still be    *)
(* selected, and starts without a query. *)
nested_selection_from_catalog(catalog, previous) ==
    IF ~BenchmarkPool_new(catalog) THEN PickNone
    ELSE [NewNested(catalog) EXCEPT
             !.selected = IF previous = PickNone THEN {}
                          ELSE selected_measure_ids(previous) \cap PickIds(catalog) \cap catalog.live]

-----------------------------------------------------------------------------
(* The rows; what is visible is the set of their places.                     *)

visible_indices(p) ==
    LET shown(m) == IF p.nested # PickNone THEN m \in visible_measure_ids(p.nested)
                    ELSE m \in PickMatched(p.search, {m})
    IN  {i \in 1..Len(p.rows) : shown(p.rows[i])}

(* A careless variant: the cursor stays where it was. *)
KeepCursor(p) == p

clamp_measure_cursor(p) ==
    LET n == Cardinality(visible_indices(p))
    IN  [p EXCEPT !.cursor = IF n = 0 THEN 1 ELSE IF @ > n THEN n ELSE @]

(* The rows are the flat selection's, and their marks the nested one's.      *)
sync_measure_projection(p) ==
    LET flat == IF p.flat = PickNone THEN p
                ELSE [p EXCEPT !.rows = p.flat.catalog.measures, !.marked = p.flat.selected]
    IN  clamp_measure_cursor(
            IF p.nested = PickNone THEN flat
            ELSE [flat EXCEPT !.marked = {flat.rows[i] : i \in 1..Len(flat.rows)} \cap p.nested.selected])

(* The row under the cursor, which counts the visible ones. *)
Focused(p) ==
    LET visible == visible_indices(p)
    IN  {p.rows[i] : i \in {i \in visible : Cardinality({j \in visible : j <= i}) = p.cursor}}

(* The catalog the rows' groups are read from. *)
RowCatalog(p) == IF p.nested # PickNone THEN p.nested.catalog ELSE p.flat.catalog

VisibleSet(p) == {p.rows[i] : i \in visible_indices(p)}

FlatChoose(p, ids, select) ==
    [p EXCEPT !.flat.selected = IF select THEN @ \cup ids ELSE @ \ ids]

toggle_current_measure(p) ==
    {sync_measure_projection(
        IF p.nested # PickNone
        THEN [p EXCEPT !.nested = set_measure_selected(@, m, m \notin p.nested.selected)]
        ELSE FlatChoose(p, {m}, m \notin p.flat.selected)) : m \in Focused(p)}

toggle_visible_group(p) ==
    {LET g == RowCatalog(p).of[m]
         members == {v \in PickMatched(p.flat.query, PickIds(p.flat.catalog)) :
                        p.flat.catalog.of[v] = g}
     IN  sync_measure_projection(
            IF p.nested # PickNone
            THEN [p EXCEPT !.nested = set_group_selected(@, g, ~AllSelected(p.nested, g))]
            ELSE FlatChoose(p, members, members # {} /\ ~(members \subseteq p.flat.selected))) :
        m \in Focused(p)}

toggle_all_measures(p) ==
    LET select == ~(VisibleSet(p) \subseteq p.marked)
        available(m) == select => m \in p.nested.catalog.live
    IN  sync_measure_projection(
            IF p.nested = PickNone THEN FlatChoose(p, VisibleSet(p), select)
            ELSE IF p.search = <<>> THEN [p EXCEPT !.nested = set_explicit_all(@, select)]
            ELSE LET changed == {m \in VisibleSet(p) : available(m)}
                 IN  IF changed = {} THEN p
                     ELSE [p EXCEPT !.nested = Choose(@, changed, select)])

toggle_current_benchmark(p) ==
    {sync_measure_projection(
        [p EXCEPT !.nested = set_benchmark_selected(@, p.nested.catalog.of[m],
                                                    ~AllSelected(p.nested, p.nested.catalog.of[m]))]) :
        m \in IF p.nested = PickNone THEN {} ELSE Focused(p)}

-----------------------------------------------------------------------------
(* What the other screens take from the picker.                              *)

(* The benchmarks are those of the measures; {} is an error. *)
current_benchmark_campaign_handoff(p) ==
    IF p.nested = PickNone \/ (p.revision # PickNone /\ p.live.revision # PickNone
                               /\ p.revision # p.live.revision)
    THEN {} ELSE campaign_handoff(p.nested)

(* The whole pool, a selection of benchmarks, or an error. *)
recording_workload_scope(p) ==
    IF current_benchmark_campaign_handoff(p) = {} THEN "Err"
    ELSE IF p.nested.all THEN "All" ELSE "Selected"

(* The runs to compare are a set: their order is the report's. *)
PickReported(live) == {live.runs[i] : i \in 1..Len(live.runs)}

operator_run_selection(p) ==
    [selected |-> IF p.report \in 1..Len(p.live.runs) THEN {p.live.runs[p.report]} ELSE {},
     comparison |-> PickReported(p.live) \cap p.pair]

-----------------------------------------------------------------------------
(* Keys.                                                                     *)

AtMeasures == pick.screen = "Measures"
AtRows == AtMeasures /\ ~pick.focused

SetSearch(p, s) ==
    [sync_measure_projection(
        [p EXCEPT !.search = s,
                  !.flat = IF @ = PickNone THEN @ ELSE [@ EXCEPT !.query = s],
                  !.nested = IF @ = PickNone THEN @ ELSE [@ EXCEPT !.query = s]])
     EXCEPT !.cursor = 1]

KeySearch ==
    \/ AtRows /\ pick' = [pick EXCEPT !.focused = TRUE]
    \/ AtMeasures /\ pick.focused /\ pick' = [pick EXCEPT !.focused = FALSE]
    \/ /\ AtMeasures /\ pick.focused /\ Len(pick.search) < PickQueryMax
       /\ \E m \in PickMatches :
             pick' = SetSearch(pick, Append(pick.search, PickMatched(pick.search, m)))
    \/ /\ AtMeasures /\ pick.focused
       /\ pick' = SetSearch(pick, IF pick.search = <<>> THEN <<>>
                                  ELSE SubSeq(pick.search, 1, Len(pick.search) - 1))

KeyMeasure == AtRows /\ pick' \in toggle_current_measure(pick)
KeyGroup == AtRows /\ pick' \in toggle_visible_group(pick)
KeyBenchmark == AtRows /\ pick' \in toggle_current_benchmark(pick)
KeyAll == AtRows /\ pick' = toggle_all_measures(pick)

(* move_cursor: three report rows, whatever the runner reported. *)
KeyUpDown ==
    /\ ~(AtMeasures /\ pick.focused)
    /\ \E down \in BOOLEAN :
          LET n == IF AtMeasures THEN Cardinality(visible_indices(pick)) ELSE 3
              moved(c) == IF down THEN (IF c < n THEN c + 1 ELSE n) ELSE (IF c > 1 THEN c - 1 ELSE 1)
          IN  pick' = IF n = 0 THEN [pick EXCEPT !.cursor = 1]
                      ELSE IF AtMeasures THEN [pick EXCEPT !.cursor = moved(@)]
                      ELSE [pick EXCEPT !.report = moved(@)]

(* Space on the reports: at most two runs are compared. *)
KeyCompare ==
    /\ pick.screen = "Reports"
    /\ \E r \in operator_run_selection(pick).selected :
          pick' = IF r \in pick.pair THEN [pick EXCEPT !.pair = @ \ {r}]
                  ELSE IF Cardinality(pick.pair) < 2 THEN [pick EXCEPT !.pair = @ \cup {r}]
                  ELSE pick

KeyScreen ==
    /\ ~(AtMeasures /\ pick.focused)
    /\ pick' = [pick EXCEPT !.screen = IF AtMeasures THEN "Reports" ELSE "Measures"]

-----------------------------------------------------------------------------
(* A snapshot.                                                               *)

SnapshotSelections(p, s) ==
    LET flat == IF s.catalog = PickNone THEN PickNone ELSE selection_from_catalog(s.catalog, p.flat)
    IN  IF flat = PickNone THEN p
        ELSE sync_measure_projection(
                [p EXCEPT !.flat = flat,
                          !.nested = nested_selection_from_catalog(s.catalog, @),
                          !.revision = s.revision])

(* A careless variant: the compared runs stay. *)
SnapshotKeepingPair(p, s) ==
    clamp_measure_cursor([SnapshotSelections(p, s) EXCEPT !.live = s, !.report = 1])

PickSnapshot(p, s) ==
    clamp_measure_cursor([SnapshotSelections(p, s) EXCEPT !.pair = @ \cap PickReported(s),
                                                          !.live = s, !.report = 1])

(* The snapshots after an operation, and after the polls the loop makes      *)
(* beside a launch: the runner's revision has grown, it may have run         *)
(* something, and it may serve another catalog.                              *)
PickRefresh ==
    /\ \E r \in 0..PickRevisionMax, c \in PickCatalogs \cup {PickNone}, runs \in PickRuns :
          /\ pick.live.revision # PickNone => r >= pick.live.revision
          /\ c = PickNone => pick.live.catalog = PickNone
          /\ pick' = PickSnapshot(pick, [revision |-> r, catalog |-> c, runs |-> runs])

PickInit ==
    pick = [screen |-> "Measures", search |-> <<>>, focused |-> FALSE, cursor |-> 1,
            rows |-> PickDevelopment.measures, marked |-> PickChosen,
            nested |-> [NewNested(PickDevelopment) EXCEPT !.selected = PickChosen],
            flat |-> PickNone, revision |-> PickNone, report |-> 1, pair |-> {},
            live |-> [revision |-> PickNone, catalog |-> PickNone, runs |-> <<>>]]

PickNext ==
    \/ KeySearch \/ KeyMeasure \/ KeyGroup \/ KeyBenchmark \/ KeyAll \/ KeyUpDown
    \/ KeyCompare \/ KeyScreen \/ PickRefresh

PickSpec == PickInit /\ [][PickNext]_pick

-----------------------------------------------------------------------------
(* Types of the picker; the marks and the cursor are on rows. *)
PickTypeOK ==
    /\ pick.screen \in {"Measures", "Reports"}
    /\ pick.nested = PickNone \/
          (pick.nested.catalog \in PickAny /\ pick.nested.selected \subseteq PickIds(pick.nested.catalog))
    /\ pick.flat = PickNone \/
          (pick.flat.catalog \in PickCatalogs /\ pick.flat.selected \subseteq PickIds(pick.flat.catalog))
    /\ pick.marked \subseteq {pick.rows[i] : i \in 1..Len(pick.rows)}
    /\ pick.report \in 1..3 /\ Cardinality(pick.pair) <= 2
    /\ visible_indices(pick) # {} => pick.cursor <= Cardinality(visible_indices(pick))

(* A campaign is made of exactly the rows marked on the screen, each of them *)
(* available, whatever refreshes came between marking and dispatching (ui.rs, *)
(* sync_measure_projection and current_benchmark_campaign_handoff).          *)
PickHandoffShown ==
    current_benchmark_campaign_handoff(pick) # {} =>
        /\ current_benchmark_campaign_handoff(pick) = pick.marked
        /\ pick.marked \subseteq pick.nested.catalog.live

(* A recording of all workloads is one the operator asked for with every     *)
(* available measure of the catalog selected: no toggle, search or refresh   *)
(* leaves the mark behind (selection.rs, explicit_all).                      *)
PickAllIsAll ==
    recording_workload_scope(pick) = "All" =>
        current_benchmark_campaign_handoff(pick) = PickIds(pick.nested.catalog) \cap pick.nested.catalog.live

(* The two runs of a comparison are runs the runner still reports (ui.rs,    *)
(* apply_live_snapshot).                                                     *)
PickComparisonKnown ==
    operator_run_selection(pick).comparison = pick.pair

(* What is handed to a campaign or to a comparison is what the screen marks, *)
(* no more and no less, whatever toggles, searches and refreshes came before *)
(* (ui.rs, current_benchmark_campaign_handoff and operator_run_selection).   *)
PickCampaignShown == PickHandoffShown /\ PickAllIsAll /\ PickComparisonKnown

(* A refresh keeps the choice of every measure the new catalog still offers, *)
(* and selects nothing by itself (ui.rs, nested_selection_from_catalog).     *)
PickRefreshKeeps ==
    (/\ pick'.live # pick.live /\ pick.nested # PickNone /\ pick'.nested # PickNone)
    => pick'.nested.selected =
          pick.nested.selected \cap PickIds(pick'.nested.catalog) \cap pick'.nested.catalog.live

(* Whatever the rows show, a key changes only rows that are shown, or, for   *)
(* the benchmark key, rows of the focused row's benchmark (selection.rs,     *)
(* measure_matches).                                                         *)
PickHiddenUntouched ==
    (/\ pick'.live = pick.live /\ pick'.nested # PickNone /\ pick.nested # PickNone)
    => \A m \in PickIds(pick.nested.catalog) :
          (m \in pick.nested.selected) # (m \in pick'.nested.selected) =>
             \/ m \in VisibleSet(pick)
             \/ KeyBenchmark /\ \E f \in Focused(pick) : pick.nested.catalog.of[f] = pick.nested.catalog.of[m]

(* Nothing but a key pressed on what is shown changes the selection: not a   *)
(* refresh, and not a key aimed at other rows (ui.rs, apply_live_snapshot;   *)
(* selection.rs, measure_matches).                                           *)
PickOnlyAsked == [][PickRefreshKeeps /\ PickHiddenUntouched]_pick
=============================================================================
