----------------------------- MODULE MCPanelWorld ---------------------------
(* PanelWorld on small instances.  Partition 1 is there in all of them.    *)
EXTENDS PanelWorld

PlanFor(topics, requests, length) ==
  [partitions |-> {1}, zones |-> {}, outputs |-> {}, levels |-> {1, 2},
   topics |-> topics, requests |-> requests, hasty |-> TRUE, overlap |-> FALSE,
   lost |-> FALSE, resent |-> FALSE, line |-> length]

\* Every report that a refresh competes with, lost and resent ones included.
ImagePlan ==
  [PlanFor({"zones", "outputs", "arming", "light", "userlights"}, {"refresh"}, 1)
     EXCEPT !.zones = {1}, !.outputs = {1},
            !.overlap = TRUE, !.lost = TRUE, !.resent = TRUE]

\* A client follows a partition while refreshes overlap.
ViewPlan ==
  [PlanFor({"arming", "delays", "touchpad", "features"}, {"refresh", "get_info"}, 2)
     EXCEPT !.overlap = TRUE, !.resent = TRUE]

\* A client follows zones through refreshes that overlap, lists and CLEARs.
ZonePlan ==
  [PlanFor({"zones", "keyfobs"}, {"refresh", "get_info"}, 2)
     EXCEPT !.zones = {1}, !.levels = {1},
            !.overlap = TRUE, !.lost = TRUE, !.resent = TRUE]

\* A client follows zones and the sirens of two partitions; no refresh.
SignalPlan ==
  [PlanFor({"zones", "arming", "siren", "keyfobs"}, {"get_info"}, 2)
     EXCEPT !.partitions = {1, 2}, !.zones = {1}, !.levels = {1}, !.resent = TRUE]

CallPlan ==
  [PlanFor({"outputs", "arming", "delays", "programming"},
           {"output", "arm", "light", "bypass", "refresh"}, 1)
     EXCEPT !.zones = {1}, !.outputs = {1}, !.hasty = FALSE]

ViewPlans == {ImagePlan, ViewPlan, ZonePlan, SignalPlan}
CallPlans == {CallPlan}
LightPlans == {[PlanFor({"lights"}, {"light"}, 2) EXCEPT !.levels = {1}]}
SirenPlans == {PlanFor({"siren"}, {"arm"}, 3)}
=============================================================================
