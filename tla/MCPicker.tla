------------------------------ MODULE MCPicker ------------------------------
(* Two groups; catalogs in which a measure is unavailable, replaced, a group *)
(* is gone, and the text is not ASCII.                                       *)
EXTENDS Picker

MCDev == [groups |-> {"g", "h"}, measures |-> <<"a", "b", "c">>,
          of |-> [m \in {"a", "b", "c"} |-> IF m = "c" THEN "h" ELSE "g"],
          live |-> {"a", "b", "c"}, ascii |-> TRUE]
MCPickCatalogs ==
    {[MCDev EXCEPT !.live = {"a", "c"}],
     [MCDev EXCEPT !.measures = <<"a", "d", "c">>, !.live = {"a", "d"},
                   !.of = [m \in {"a", "d", "c"} |-> IF m = "c" THEN "h" ELSE "g"]],
     [MCDev EXCEPT !.measures = <<"d">>, !.live = {"d"}, !.of = [m \in {"d"} |-> "g"]],
     [MCDev EXCEPT !.ascii = FALSE]}
MCMatchSets == {{"a", "c"}, {"b", "d"}}
MCRuns == {<<>>, <<"r1">>, <<"r1", "r2">>, <<"r3", "r2">>}
=============================================================================
