-------------------------- MODULE PermissionChecker --------------------------
(***************************************************************************)
(* src/runtime/permission_checker.py.  An agent is a record of the tools   *)
(* and memory scopes its AgentProcess lists; an empty list allows all.     *)
(***************************************************************************)

Allows(listed, x) == listed = {} \/ x \in listed

CheckTool(agent, tool) == Allows(agent.tools, tool)

CheckMemoryRead(agent, scope) == Allows(agent.readMemory, scope)

CheckMemoryWrite(agent, scope) == Allows(agent.writeMemory, scope)

\* An action that is none of the three is not restricted.
VerifyPermissions(agent, action, object) ==
    /\ action = "tool_call" => CheckTool(agent, object)
    /\ action = "memory_read" => CheckMemoryRead(agent, object)
    /\ action = "memory_write" => CheckMemoryWrite(agent, object)
=============================================================================
