-------------------------- MODULE MCGraphExecutor --------------------------
(* An instance of GraphExecutor for TLC. *)
EXTENDS GraphExecutor

\* Two loads and a renderer that only needs literals; an autonomous group: a shim
\* and a renderer of its value, another shim, a load that is not a member's
\* operation and a persistent operation that needs it; the group's own operation;
\* and a renderer of values from both sides of the boundary.
PlanKind   == <<"load", "load", "renderer", "shim", "renderer", "shim", "load",
                "coordinator", "coordinator", "renderer">>
PlanDeps   == <<{}, {}, {}, {}, {4}, {}, {}, {5, 7}, {6, 8}, {3, 9}>>
PlanMember == <<"none", "none", "none", "g", "g", "g", "none", "g", "none", "none">>
PlanRegion == [g \in {"g"} |-> 4..9]
=============================================================================
