--------------------------- MODULE MCCollaboration ---------------------------
(***************************************************************************)
(* What agents share besides the scheduler: the message bus, the tools and *)
(* the blackboard with its merger.  No code path leads from one of the     *)
(* three to another, so that one run checks them side by side: `service`   *)
(* says which of them a behaviour uses.                                    *)
(***************************************************************************)
EXTENDS MessageBus, ToolRouter, Merger

CONSTANTS a1, a2, a3

VARIABLE service

MCAgents == {a1, a2, a3}

MCCallers == {a1, a2}

MCDefinitions ==
    {[needs |-> {}, guarded |-> TRUE], [needs |-> {"path"}, guarded |-> TRUE],
     [needs |-> {}, guarded |-> FALSE]}

\* The first may use any tool, the second a tool that nobody registers.
MCScopes == [t \in MCCallers |-> [tools |-> IF t = a1 THEN {} ELSE {"other"}]]

\* Two texts on the two sides of a choice, and one on neither.
MCStances == ("x" :> {<<"web", 1>>}) @@ ("y" :> {<<"web", 2>>}) @@ ("z" :> {})

TypeOK == BusTypeOK /\ ToolTypeOK /\ BoardTypeOK /\ service \in {"bus", "tools", "board"}

Init == BusInit /\ ToolInit /\ BoardInit /\ service \in {"bus", "tools", "board"}

Next ==
    \/ service = "bus" /\ BusNext /\ UNCHANGED <<toolVars, board, service>>
    \/ service = "tools" /\ ToolNext /\ UNCHANGED <<busVars, board, service>>
    \/ service = "board" /\ BoardNext /\ UNCHANGED <<busVars, toolVars, service>>

Spec == Init /\ [][Next]_<<busVars, toolVars, board, service>>
=============================================================================
