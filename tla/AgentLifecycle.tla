---------------------------- MODULE AgentLifecycle ----------------------------
(***************************************************************************)
(* What the OpenCode manager promises its callers: processes are launched  *)
(* one after the other, each serves requests for at most one unbroken      *)
(* period, which begins after its start-up, and a process that stopped     *)
(* serving never serves again.  (docs/architecture.md: Sleeping, Starting, *)
(* Ready and Error.)                                                       *)
(***************************************************************************)
EXTENDS Naturals

VARIABLES
    launched,  \* number of processes launched so far
    stage,     \* of the last process launched
    running    \* processes the operating system still runs

Stages == {"none", "new", "serving", "ended"}

Init ==
    /\ launched = 0
    /\ stage = "none"
    /\ running = {}

Launch ==
    /\ stage \in {"none", "ended"}
    /\ launched' = launched + 1
    /\ stage' = "new"
    /\ running' = running \cup {launched + 1}

Serve ==
    /\ stage = "new"
    /\ stage' = "serving"
    /\ UNCHANGED <<launched, running>>

End ==
    /\ stage \in {"new", "serving"}
    /\ stage' = "ended"
    /\ UNCHANGED <<launched, running>>

Exit(c) ==
    /\ c \in running
    /\ running' = running \ {c}
    /\ UNCHANGED <<launched, stage>>

Next == Launch \/ Serve \/ End \/ \E c \in running : Exit(c)

Spec == Init /\ [][Next]_<<launched, stage, running>>
=============================================================================
