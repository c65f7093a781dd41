------------------------------ MODULE MCLibUI -------------------------------
(* Model-checking instance of LibUI: an app with two Windows and one      *)
(* widget with a Pond window of its own (a popup), whose parent widget    *)
(* sits in the first Window.                                              *)
EXTENDS LibUI

MCWidgets == {"popup", "panel"}
MCParent == [w \in MCWidgets |-> IF w = "popup" THEN "panel" ELSE NoWidget]
MCParentWindow == [w \in MCWidgets |-> IF w = "panel" THEN "w1" ELSE NoWindow]
MCWidgetAt == [d \in {"d1"} |-> "popup"]
=============================================================================
