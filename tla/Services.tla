------------------------------ MODULE Services -------------------------------
(***************************************************************************)
(* The parts of the server beside the agent.  They share the database and  *)
(* nothing else: no lock, no channel and no row of one is another's.  So a *)
(* behaviour follows one of them, and the state space of all is the sum of *)
(* theirs, not the product.                                                *)
(***************************************************************************)
EXTENDS TerminalSession, LogStream, RecordedAction, ToolAudit,
        LoginThrottle, ProjectRegistry, TelemetryConfig, DockerLogDecoder

CONSTANT Followed   \* bound: the parts that behaviours follow

VARIABLE part       \* the one followed

vars == <<part, terminalVars, logVars, actionVars, toolVars,
          loginVars, projectVars, telemetryVars, decoderVars>>

Parts == {"terminal", "logs", "actions", "tools", "logins", "projects", "telemetry",
          "decoder"}

ASSUME FollowedAssumption == Followed \subseteq Parts

TypeOK ==
    /\ part \in Parts
    /\ TerminalTypeOK /\ LogTypeOK /\ ActionTypeOK /\ ToolTypeOK
    /\ LoginTypeOK /\ ProjectTypeOK /\ TelemetryTypeOK /\ DecoderTypeOK

Init ==
    /\ part \in Followed
    /\ TerminalInit /\ LogInit /\ ActionInit /\ ToolInit
    /\ LoginInit /\ ProjectInit /\ TelemetryInit /\ DecoderInit

Next ==
    /\ UNCHANGED part
    /\ \/ /\ part = "terminal" /\ TerminalNext
          /\ UNCHANGED <<logVars, actionVars, toolVars, loginVars, projectVars, telemetryVars, decoderVars>>
       \/ /\ part = "logs" /\ LogNext
          /\ UNCHANGED <<terminalVars, actionVars, toolVars, loginVars, projectVars, telemetryVars, decoderVars>>
       \/ /\ part = "actions" /\ ActionNext
          /\ UNCHANGED <<terminalVars, logVars, toolVars, loginVars, projectVars, telemetryVars, decoderVars>>
       \/ /\ part = "tools" /\ ToolNext
          /\ UNCHANGED <<terminalVars, logVars, actionVars, loginVars, projectVars, telemetryVars, decoderVars>>
       \/ /\ part = "logins" /\ LoginNext
          /\ UNCHANGED <<terminalVars, logVars, actionVars, toolVars, projectVars, telemetryVars, decoderVars>>
       \/ /\ part = "projects" /\ ProjectNext
          /\ UNCHANGED <<terminalVars, logVars, actionVars, toolVars, loginVars, telemetryVars, decoderVars>>
       \/ /\ part = "telemetry" /\ TelemetryNext
          /\ UNCHANGED <<terminalVars, logVars, actionVars, toolVars, loginVars, projectVars, decoderVars>>
       \/ /\ part = "decoder" /\ DecoderNext
          /\ UNCHANGED <<terminalVars, logVars, actionVars, toolVars, loginVars, projectVars, telemetryVars>>

\* Nothing of it binds a part that is not followed: none of its steps is
\* enabled before its first, to which no fairness applies.
Fairness == TerminalFairness /\ LogFairness /\ TelemetryFairness

Spec == Init /\ [][Next]_vars /\ Fairness

----------------------------------------------------------------------------
(* A property of two parts *)

\* What an operator is told was done, and what one is shown a tool has done, is
\* in the audit log, whichever statement fails and wherever handler or stream end;
\* for an action, a failed attempt at the record excepted, which is told instead.
ReportsAreRecorded == RecordMatchesWork /\ RelayedIsRecorded
=============================================================================
