-------------------------- MODULE SessionServices --------------------------
(***************************************************************************)
(* What the driver of a session has from outside: its model with the auto  *)
(* judge and the shared tokens (ModelCalls), and the MCP servers of its    *)
(* context (McpSession).  The driver is one task: servers are selected     *)
(* between turns, called within a batch, and a call's result goes with the *)
(* next request.  An interrupt cancels whichever of them is under way.     *)
(***************************************************************************)
EXTENDS ModelCalls

CONSTANTS Entries, Presets, Selections, Modern, HasResources, MaxRounds

ASSUME McpAssumption == MaxRounds \in Nat \ {0}

VARIABLES catalog, conns, context, work
mcpVars == << catalog, conns, context, work >>

Mcp == INSTANCE McpSession

vars == << callVars, authVars, mcpVars, left >>

Init == BudgetsGiven /\ CallsInit /\ Mcp!Init

Free == work = Mcp!Idle
Between == turn = "idle"

(* Inputs wait while servers are selected; a call of theirs ends before its result is settled, and   *)
(* is for the user to permit.                                                                        *)
Talks == (CallsNext \/ (Free /\ (Prompt \/ Settle \/ Judge))) /\ UNCHANGED mcpVars

Selects ==
  /\ Between /\ (Mcp!Select \/ Mcp!Selection \/ Mcp!End)
  /\ UNCHANGED << history, pending, turn, calls, stream, made, sent, authVars >>

CallsServer ==
  /\ turn = "batch" /\ (Mcp!Call \/ Mcp!Calling)
  /\ UNCHANGED << callVars, authVars >>

HasResult == Mcp!CallOver /\ Settle

Meanwhile ==
  /\ Mcp!Servers \/ Mcp!ProcessSteps
  /\ UNCHANGED << callVars, authVars >>

Next == Talks \/ Selects \/ CallsServer \/ HasResult \/ Meanwhile

(* The tasks of processes run, and a process that is killed ends. *)
Spec == Init /\ [][Next]_vars /\ WF_vars(Mcp!ProcessSteps /\ UNCHANGED << callVars, authVars >>)

UsableIsCurrent == Mcp!UsableIsCurrent
SelectionIsWhole == Mcp!SelectionIsWhole
ProcessesStop == Mcp!ProcessesStop
=============================================================================
