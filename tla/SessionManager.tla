---------------------------- MODULE SessionManager ----------------------------
(***************************************************************************)
(* The session manager (src/src/opencode/session_manager.rs): the rows of  *)
(* ai_sessions against the runtime they describe.  Every operation writes  *)
(* its rows with statements of their own, under transition_lock but not    *)
(* under `inner`; sync_sessions copies the runtime into a row with `inner` *)
(* held from its SELECT to its UPDATE, on behalf of any reader.  The       *)
(* backend may crash between any two statements.                           *)
(*                                                                         *)
(* Starting and stopping the process is AgentProcess: here each is reduced *)
(* to what the rows can tell, its phase, its session and its pid.          *)
(***************************************************************************)
EXTENDS Naturals

CONSTANTS
    Sessions,   \* ids of ai_sessions
    NoSession,
    Profiles,   \* (project_path, mode) pairs
    NoProfile,
    ProfileOf,  \* a session's project and mode, fixed at its creation
    MaxPids,    \* bound: processes spawned
    DbMayFail   \* whether a statement can fail

ASSUME ConstantsAssumption ==
    /\ MaxPids \in Nat
    /\ DbMayFail \in BOOLEAN
    /\ NoSession \notin Sessions
    /\ NoProfile \notin Profiles
    /\ ProfileOf \in [Sessions -> Profiles]

VARIABLES
    boot,  \* the backend: "down", "recovering" or "up"
    todo,  \* ids recover() has fetched and not yet reset
    row,   \* ai_sessions
    rt,    \* ProcessState
    pids,  \* number of processes spawned so far
    sync,  \* who is inside sync_sessions, between SELECT and UPDATE
    op,    \* the operation holding transition_lock
    ws     \* the holder of workspace_lock

vars == <<boot, todo, row, rt, pids, sync, op, ws>>

Pids == 0 .. MaxPids
NoPid == 0

Absent == {"none", "deleted"}
Transient == {"starting", "stopping"}
Statuses == Absent \cup Transient
            \cup {"created", "ready", "sleeping", "stopped", "archived", "error"}
Row == [status : Statuses, pid : Pids, mapped : BOOLEAN]

Runtime ==
    [phase : {"sleeping", "starting", "ready", "error"},
     session : Sessions \cup {NoSession}, profile : Profiles \cup {NoProfile}, child : Pids]

Stops == {"sleeping", "stopped", "archived"}
OpLabels ==
    {"idle", "sync", "detach", "look", "switch", "select", "prev", "starting", "enter",
     "claim", "spawn", "health", "ready", "failed", "map", "store", "history", "giveUp",
     "mark", "stopping", "detachOwn", "final", "check", "delete", "decide", "end", "gaveUp"}
Operation ==
    [kind : {"none", "start", "wake", "stop", "delete", "reap"} \cup Stops,
     at : OpLabels, next : OpLabels, session : Sessions \cup {NoSession},
     old : Sessions \cup {NoSession}, profile : Profiles \cup {NoProfile}, mine : Pids]

Holder ==
    [at : {"free", "wake", "waking", "reread", "send", "answer", "stopFirst", "stopping",
           "clear", "start", "starting", "delete", "deleting"},
     session : Sessions \cup {NoSession}, profile : Profiles \cup {NoProfile},
     chat : BOOLEAN]

TypeOK ==
    /\ boot \in {"down", "recovering", "up"}
    /\ todo \subseteq Sessions
    /\ row \in [Sessions -> Row]
    /\ rt \in Runtime
    /\ pids \in Pids
    /\ sync \in {"none", "op", "poll"}
    /\ op \in Operation
    /\ ws \in Holder

NoRuntime ==
    [phase |-> "sleeping", session |-> NoSession, profile |-> NoProfile, child |-> NoPid]
NoOp ==
    [kind |-> "none", at |-> "idle", next |-> "idle", session |-> NoSession,
     old |-> NoSession, profile |-> NoProfile, mine |-> NoPid]
Free == [at |-> "free", session |-> NoSession, profile |-> NoProfile, chat |-> FALSE]

Init ==
    /\ boot = "down"
    /\ todo = {}
    /\ row = [s \in Sessions |-> [status |-> "none", pid |-> NoPid, mapped |-> FALSE]]
    /\ rt = NoRuntime
    /\ pids = 0
    /\ sync = "none"
    /\ op = NoOp
    /\ ws = Free

-----------------------------------------------------------------------------
(* Statements on ai_sessions, and functions of the runtime. *)

\* UPDATE ai_sessions SET status=st, pid=p WHERE id=s AND c
Update(s, c, st, p) ==
    row' = IF row[s].status \notin Absent /\ c
           THEN [row EXCEPT ![s].status = st, ![s].pid = p]
           ELSE row

\* detach_child
Detach(r) == [r EXCEPT !.phase = "sleeping", !.child = NoPid]

\* refresh_child_status: the child runs, has exited, or waitpid failed.  A lost
\* event stream leaves the same runtime as an exit.
Refreshes(r) ==
    IF r.child = NoPid THEN {r}
    ELSE {r, [r EXCEPT !.phase = "error", !.child = NoPid], [r EXCEPT !.phase = "error"]}

InnerFree == sync = "none"

-----------------------------------------------------------------------------
(* sync_sessions. *)

\* Rows sync_sessions leaves alone.
Kept(s) == s = NoSession \/ row[s].status \in Absent \cup {"archived", "stopped"}

\* Lock `inner`, refresh, SELECT; without a row to write, that is all.
Poll ==
    /\ boot = "up"
    /\ InnerFree
    /\ rt' \in Refreshes(rt)
    /\ sync' = IF Kept(rt.session) THEN "none" ELSE "poll"
    /\ UNCHANGED <<boot, todo, row, pids, op, ws>>

\* The UPDATE, then `inner` is released.
PollWrite ==
    /\ sync = "poll"
    /\ \/ Update(rt.session, TRUE, rt.phase, rt.child)
       \/ DbMayFail /\ UNCHANGED row
    /\ sync' = "none"
    /\ UNCHANGED <<boot, todo, rt, pids, op, ws>>

\* status() or request_json(), or the cleanup of an event-stream task
Refresh ==
    /\ boot = "up"
    /\ InnerFree
    /\ rt' \in Refreshes(rt)
    /\ UNCHANGED <<boot, todo, row, pids, sync, op, ws>>

-----------------------------------------------------------------------------
(* Operations under transition_lock: how they begin, move on and end. *)

Goto(l) == op' = [op EXCEPT !.at = l]

\* sync_sessions, then go on at l
SyncThen(l) == op' = [op EXCEPT !.at = "sync", !.next = l]

\* stop_inner, then go on at l
StopThen(l) == op' = [op EXCEPT !.at = "detach", !.next = l]

\* What the holder of workspace_lock does next, once its operation has returned.
AfterOp(ok) ==
    IF ws.at = "stopping" THEN [ws EXCEPT !.at = "clear"]
    ELSE IF ws.at = "waking" /\ ws.chat /\ ok THEN [ws EXCEPT !.at = "reread"]
    ELSE IF ws.at \in {"waking", "starting", "deleting"} THEN Free
    ELSE ws

OpEnd ==
    /\ op.at \in {"end", "gaveUp"}
    /\ op' = NoOp
    /\ ws' = AfterOp(op.at = "end")
    /\ UNCHANGED <<boot, todo, row, rt, pids, sync>>

OpSync ==
    /\ op.at = "sync"
    /\ \/ /\ InnerFree
          /\ rt' \in Refreshes(rt)
          /\ IF Kept(rt.session)
             THEN Goto(op.next) /\ UNCHANGED sync
             ELSE sync' = "op" /\ UNCHANGED op
          /\ UNCHANGED row
       \/ /\ sync = "op"
          /\ Update(rt.session, TRUE, rt.phase, rt.child)
          /\ sync' = "none"
          /\ Goto(op.next)
          /\ UNCHANGED rt
    /\ UNCHANGED <<boot, todo, pids, ws>>

\* A statement fails, or the one before it: `?` leaves start_inner, wake's inner
\* block, session_action or delete_session; stop_inner and the reaper go on.
AfterDbError ==
    IF op.at \in {"look", "switch", "prev", "starting", "map", "store"} THEN "giveUp"
    ELSE IF op.at \in {"stopping", "final", "delete"} THEN "end"
    ELSE IF op.next \in {"spawn", "health"} THEN "failed"
    ELSE IF op.next = "map" THEN "giveUp"
    ELSE op.next

OpDbFails ==
    /\ DbMayFail
    /\ \/ op.at \in {"look", "switch", "prev", "starting", "map", "store", "stopping",
                     "final", "delete"}
       \/ op.at = "sync" /\ sync # "poll"
    /\ Goto(AfterDbError)
    /\ sync' = IF sync = "op" THEN "none" ELSE sync
    /\ UNCHANGED <<boot, todo, row, rt, pids, ws>>

\* stop_inner: detach, terminate, sync_sessions
OpDetach ==
    /\ op.at = "detach"
    /\ InnerFree
    /\ rt' = Detach(rt)
    /\ SyncThen(op.next)
    /\ UNCHANGED <<boot, todo, row, pids, sync, ws>>

Begin(o) ==
    /\ boot = "up"
    /\ op.at = "idle"
    /\ op' = o
    /\ UNCHANGED <<boot, todo, row, rt, pids, sync>>

\* stop(), for the stop and set_mode handlers
StopBegin ==
    /\ Begin([NoOp EXCEPT !.kind = "stop", !.at = "detach", !.next = "end"])
    /\ UNCHANGED ws

ReapBegin ==
    /\ Begin([NoOp EXCEPT !.kind = "reap", !.at = "decide"])
    /\ UNCHANGED ws

\* Variant: the reaper leaves the rows alone.
OpDecideUnsynced ==
    /\ op.at = "decide"
    /\ InnerFree
    /\ rt' \in Refreshes(rt)
    /\ Goto("end")
    /\ UNCHANGED <<boot, todo, row, pids, sync, ws>>

\* The reaper: an unhealthy process, an idle one, or neither.
OpDecide ==
    /\ op.at = "decide"
    /\ InnerFree
    /\ \E r \in Refreshes(rt) :
         \/ rt' = r
         \/ r.phase = "ready" /\ rt' = Detach(r)
         \/ rt.phase = "ready" /\ rt' = [Detach(r) EXCEPT !.phase = "error"]
    /\ SyncThen("end")
    /\ UNCHANGED <<boot, todo, row, pids, sync, ws>>

-----------------------------------------------------------------------------
(* session_action: sleep, stop and archive. *)

\* The row was read before, and may be gone by now.
StopSession(s, action) ==
    /\ row[s].status # "none"
    /\ Begin([NoOp EXCEPT !.kind = action, !.at = "stopping", !.session = s])
    /\ UNCHANGED ws

OpStopping ==
    /\ op.at = "stopping"
    /\ Update(op.session, row[op.session].status # "archived", "stopping", row[op.session].pid)
    /\ Goto("detachOwn")
    /\ UNCHANGED <<boot, todo, rt, pids, sync, ws>>

\* Only the active session's process is stopped.
OpDetachOwn ==
    /\ op.at = "detachOwn"
    /\ InnerFree
    /\ rt' = IF rt.session = op.session THEN Detach(rt) ELSE rt
    /\ Goto("final")
    /\ UNCHANGED <<boot, todo, row, pids, sync, ws>>

\* Variant: the row keeps its pid.
OpFinalKeepingPid ==
    /\ op.at = "final"
    /\ Update(op.session, TRUE, op.kind, row[op.session].pid)
    /\ Goto("end")
    /\ UNCHANGED <<boot, todo, rt, pids, sync, ws>>

\* Variant: the row gets the action's name for a status.
OpFinalUnmapped ==
    /\ op.at = "final"
    /\ Update(op.session, TRUE, IF op.kind = "stopped" THEN "stop" ELSE op.kind, NoPid)
    /\ Goto("end")
    /\ UNCHANGED <<boot, todo, rt, pids, sync, ws>>

\* Variant: only the active session's row is settled.
OpFinalIfActive ==
    /\ op.at = "final"
    /\ Update(op.session, rt.session = op.session, op.kind, NoPid)
    /\ Goto("end")
    /\ UNCHANGED <<boot, todo, rt, pids, sync, ws>>

OpFinal ==
    /\ op.at = "final"
    /\ Update(op.session, TRUE, op.kind, NoPid)
    /\ Goto("end")
    /\ UNCHANGED <<boot, todo, rt, pids, sync, ws>>

-----------------------------------------------------------------------------
(* create_session and delete_session. *)

CreateSession(s) ==
    /\ boot = "up"
    /\ row[s].status = "none"
    /\ row' = [row EXCEPT ![s].status = "created"]
    /\ UNCHANGED <<boot, todo, rt, pids, sync, op, ws>>

DeleteHandler(s) ==
    /\ boot = "up"
    /\ ws.at = "free"
    /\ ws' = [Free EXCEPT !.at = "delete", !.session = s]
    /\ UNCHANGED <<boot, todo, row, rt, pids, sync, op>>

\* ai_session finds the row, now that both locks are held, or the handler fails.
DeleteBegin ==
    /\ ws.at = "delete"
    /\ Begin([NoOp EXCEPT !.kind = "delete", !.session = ws.session,
                          !.at = IF row[ws.session].status \in Absent THEN "end" ELSE "check"])
    /\ ws' = [ws EXCEPT !.at = "deleting"]

\* Variant: whether the session has a process is not checked.
OpCheckNothing ==
    /\ op.at = "check"
    /\ InnerFree
    /\ Goto("delete")
    /\ UNCHANGED <<boot, todo, row, rt, pids, sync, ws>>

OpCheck ==
    /\ op.at = "check"
    /\ InnerFree
    /\ Goto(IF rt.session = op.session /\ rt.child # NoPid THEN "end" ELSE "delete")
    /\ UNCHANGED <<boot, todo, row, rt, pids, sync, ws>>

OpDelete ==
    /\ op.at = "delete"
    /\ row' = [row EXCEPT ![op.session] = [status |-> "deleted", pid |-> NoPid, mapped |-> FALSE]]
    /\ Goto("end")
    /\ UNCHANGED <<boot, todo, rt, pids, sync, ws>>

-----------------------------------------------------------------------------
(* start_request_inner and start_inner. *)

StartHandler(p) ==
    /\ boot = "up"
    /\ ws.at = "free"
    /\ InnerFree
    /\ ws' = [Free EXCEPT !.at = IF rt.profile = p THEN "start" ELSE "stopFirst", !.profile = p]
    /\ UNCHANGED <<boot, todo, row, rt, pids, sync, op>>

StartStopBegin ==
    /\ ws.at = "stopFirst"
    /\ Begin([NoOp EXCEPT !.kind = "stop", !.at = "detach", !.next = "end"])
    /\ ws' = [ws EXCEPT !.at = "stopping"]

StartClear ==
    /\ ws.at = "clear"
    /\ InnerFree
    /\ rt' = [rt EXCEPT !.session = NoSession]
    /\ ws' = [ws EXCEPT !.at = "start"]
    /\ UNCHANGED <<boot, todo, row, pids, sync, op>>

StartBegin ==
    /\ ws.at = "start"
    /\ Begin([NoOp EXCEPT !.kind = "start", !.at = "enter", !.profile = ws.profile])
    /\ ws' = [ws EXCEPT !.at = "starting"]

\* Variant: wake does not record the start.
StartedUnrecorded == IF op.kind = "wake" THEN Goto("map") ELSE Goto("end")

\* start_inner has succeeded: start() returns, wake goes on.
Started == IF op.kind = "wake" THEN SyncThen("map") ELSE Goto("end")

\* Reuse a ready process; or fail: no such directory, or requests are under way.
OpEnter ==
    /\ op.at = "enter"
    /\ InnerFree
    /\ rt' \in Refreshes(rt)
    /\ \/ IF rt'.phase = "ready" /\ rt'.profile = op.profile THEN Started ELSE Goto("claim")
       \/ Goto("failed")
    /\ UNCHANGED <<boot, todo, row, pids, sync, ws>>

\* No free port: the start fails.
OpClaim ==
    /\ op.at = "claim"
    /\ \/ /\ InnerFree
          /\ rt' = [Detach(rt) EXCEPT !.phase = "starting", !.profile = op.profile]
          /\ SyncThen("spawn")
       \/ Goto("failed") /\ UNCHANGED rt
    /\ UNCHANGED <<boot, todo, row, pids, sync, ws>>

OpSpawn ==
    /\ op.at = "spawn"
    /\ InnerFree
    /\ \/ /\ pids < MaxPids
          /\ pids' = pids + 1
          /\ rt' = [rt EXCEPT !.child = pids + 1]
          /\ op' = [op EXCEPT !.mine = pids + 1, !.at = "sync", !.next = "health"]
       \/ /\ rt' = [rt EXCEPT !.phase = "error"]
          /\ Goto("failed")
          /\ UNCHANGED pids
    /\ UNCHANGED <<boot, todo, row, sync, ws>>

\* Health and the event stream in time, or the process is given up.
OpHealth ==
    /\ op.at = "health"
    /\ \/ Goto("ready") /\ UNCHANGED rt
       \/ /\ InnerFree
          /\ rt' = [Detach(rt) EXCEPT !.phase = "error"]
          /\ Goto("failed")
    /\ UNCHANGED <<boot, todo, row, pids, sync, ws>>

OpReady ==
    /\ op.at = "ready"
    /\ InnerFree
    /\ IF rt.child = op.mine
       THEN rt' = [rt EXCEPT !.phase = "ready"] /\ Started
       ELSE Goto("failed") /\ UNCHANGED rt
    /\ UNCHANGED <<boot, todo, row, pids, sync, ws>>

\* start() gives up what is left Starting; wake records the failure, then itself.
OpFailed ==
    /\ op.at = "failed"
    /\ InnerFree
    /\ IF op.kind = "wake"
       THEN rt' = [rt EXCEPT !.phase = "error"] /\ SyncThen("giveUp")
       ELSE /\ rt' = IF rt.phase = "starting" THEN [Detach(rt) EXCEPT !.phase = "error"] ELSE rt
            /\ Goto("end")
    /\ UNCHANGED <<boot, todo, row, pids, sync, ws>>

-----------------------------------------------------------------------------
(* wake. *)

\* chat reads the row with workspace_lock held, the start and resume actions before.
WakeHandler(s, chat) ==
    /\ boot = "up"
    /\ ws.at = "free"
    /\ IF chat THEN row[s].status \notin Absent \cup {"archived"} ELSE row[s].status # "none"
    /\ ws' = [at |-> "wake", session |-> s, profile |-> ProfileOf[s], chat |-> chat]
    /\ UNCHANGED <<boot, todo, row, rt, pids, sync, op>>

WakeBegin ==
    /\ ws.at = "wake"
    /\ Begin([NoOp EXCEPT !.kind = "wake", !.at = "look", !.session = ws.session,
                          !.profile = ws.profile])
    /\ ws' = [ws EXCEPT !.at = "waking"]

\* Where wake goes on, by the runtime it has read.
Look ==
    /\ InnerFree
    /\ IF rt.session = op.session THEN Goto("select")
       ELSE IF rt.phase # "ready" \/ rt.profile # op.profile THEN StopThen("select")
       ELSE IF rt.session = NoSession THEN Goto("select")
       ELSE op' = [op EXCEPT !.at = "switch", !.old = rt.session]

\* Variant: the row is not read again under transition_lock.
OpLookUnchecked ==
    /\ op.at = "look"
    /\ Look
    /\ UNCHANGED <<boot, todo, row, rt, pids, sync, ws>>

\* Archived or deleted meanwhile: wake fails.
OpLook ==
    /\ op.at = "look"
    /\ IF row[op.session].status \in Absent \cup {"archived"} THEN Goto("giveUp") ELSE Look
    /\ UNCHANGED <<boot, todo, row, rt, pids, sync, ws>>

\* The process is kept across a change of session; `inner` is not held.
OpSwitch ==
    /\ op.at = "switch"
    /\ Update(op.old, row[op.old].status = "ready", "sleeping", NoPid)
    /\ Goto("select")
    /\ UNCHANGED <<boot, todo, rt, pids, sync, ws>>

OpSelect ==
    /\ op.at = "select"
    /\ InnerFree
    /\ rt' = [rt EXCEPT !.session = op.session]
    /\ Goto("prev")
    /\ UNCHANGED <<boot, todo, row, pids, sync, ws>>

OpPrev ==
    /\ op.at = "prev"
    /\ Goto(IF row[op.session].status = "ready" THEN "enter" ELSE "starting")
    /\ UNCHANGED <<boot, todo, row, rt, pids, sync, ws>>

OpStarting ==
    /\ op.at = "starting"
    /\ Update(op.session, TRUE, "starting", row[op.session].pid)
    /\ Goto("enter")
    /\ UNCHANGED <<boot, todo, rt, pids, sync, ws>>

\* request_json gets an answer only from a process it has found Ready.
Answered == InnerFree /\ rt.phase = "ready"

\* POST /session for a row without a remote session.
OpMap ==
    /\ op.at = "map"
    /\ \/ row[op.session].mapped /\ Goto("history")
       \/ ~row[op.session].mapped /\ Answered /\ Goto("store")
       \/ ~row[op.session].mapped /\ Goto("giveUp")
    /\ UNCHANGED <<boot, todo, row, rt, pids, sync, ws>>

OpStore ==
    /\ op.at = "store"
    /\ row' = [row EXCEPT ![op.session].mapped = TRUE]
    /\ Goto("history")
    /\ UNCHANGED <<boot, todo, rt, pids, sync, ws>>

OpHistory ==
    /\ op.at = "history"
    /\ \/ Answered /\ Goto("end")
       \/ Goto("giveUp")
    /\ UNCHANGED <<boot, todo, row, rt, pids, sync, ws>>

\* wake has failed: stop_inner, and the session is left in Error.
OpGiveUp ==
    /\ op.at = "giveUp"
    /\ StopThen("mark")
    /\ UNCHANGED <<boot, todo, row, rt, pids, sync, ws>>

OpMark ==
    /\ op.at = "mark"
    /\ InnerFree
    /\ rt' = [rt EXCEPT !.session = op.session, !.phase = "error"]
    /\ SyncThen("gaveUp")
    /\ UNCHANGED <<boot, todo, row, pids, sync, ws>>

-----------------------------------------------------------------------------
(* chat, after wake. *)

\* ai_session again; a row without a mapping ends the chat.
ChatReread ==
    /\ ws.at = "reread"
    /\ ws' = IF row[ws.session].status \notin Absent /\ row[ws.session].mapped
             THEN [ws EXCEPT !.at = "send"]
             ELSE Free
    /\ UNCHANGED <<boot, todo, row, rt, pids, sync, op>>

\* request_json: the prompt is sent if the process is Ready.
ChatSend ==
    /\ ws.at = "send"
    /\ InnerFree
    /\ rt' \in Refreshes(rt)
    /\ ws' = IF rt'.phase = "ready" THEN [ws EXCEPT !.at = "answer"] ELSE Free
    /\ UNCHANGED <<boot, todo, row, pids, sync, op>>

ChatDone ==
    /\ ws.at = "answer"
    /\ ws' = Free
    /\ UNCHANGED <<boot, todo, row, rt, pids, sync, op>>

-----------------------------------------------------------------------------
(* Crash and restart. *)

\* The parent-death signal kills the process with the backend.
Crash ==
    /\ boot # "down"
    /\ boot' = "down"
    /\ todo' = {}
    /\ rt' = NoRuntime
    /\ sync' = "none"
    /\ op' = NoOp
    /\ ws' = Free
    /\ UNCHANGED <<row, pids>>

\* Variant: recover() selects by status alone.
UnsettledByStatus == {s \in Sessions : row[s].status \in Transient \cup {"ready"}}

\* The rows recover() selects.
Unsettled ==
    {s \in Sessions : row[s].status \in Transient \cup {"ready"} \/ row[s].pid # NoPid}

RecoverBegin ==
    /\ boot = "down"
    /\ boot' = "recovering"
    /\ todo' = Unsettled
    /\ UNCHANGED <<row, rt, pids, sync, op, ws>>

RecoverRow(s) ==
    /\ s \in todo
    /\ Update(s, TRUE, "sleeping", NoPid)
    /\ todo' = todo \ {s}
    /\ UNCHANGED <<boot, rt, pids, sync, op, ws>>

RecoverDone ==
    /\ boot = "recovering"
    /\ todo = {}
    /\ boot' = "up"
    /\ UNCHANGED <<todo, row, rt, pids, sync, op, ws>>

-----------------------------------------------------------------------------
OpStep ==
    \/ OpEnd \/ OpSync \/ OpDetach \/ OpDecide
    \/ OpStopping \/ OpDetachOwn \/ OpFinal \/ OpCheck \/ OpDelete
    \/ OpEnter \/ OpClaim \/ OpSpawn \/ OpHealth \/ OpReady \/ OpFailed
    \/ OpLook \/ OpSwitch \/ OpSelect \/ OpPrev \/ OpStarting
    \/ OpMap \/ OpStore \/ OpHistory \/ OpGiveUp \/ OpMark \/ OpDbFails

HolderBegin == DeleteBegin \/ StartStopBegin \/ StartBegin \/ WakeBegin
HolderStep == StartClear \/ ChatReread \/ ChatSend \/ ChatDone
RecoverStep == RecoverBegin \/ RecoverDone \/ \E s \in Sessions : RecoverRow(s)

Next ==
    \/ OpStep \/ HolderBegin \/ HolderStep \/ RecoverStep
    \/ Poll \/ PollWrite \/ Refresh \/ Crash
    \/ StopBegin \/ ReapBegin
    \/ \E p \in Profiles : StartHandler(p)
    \/ \E s \in Sessions :
         \/ CreateSession(s) \/ DeleteHandler(s)
         \/ \E action \in Stops : StopSession(s, action)
         \/ \E chat \in BOOLEAN : WakeHandler(s, chat)

Spec == Init /\ [][Next]_vars

(* Fairness.  Statements and requests end; tokio's Mutex serves waiters in   *)
(* order, so a step that waits for `inner`, and an operation that waits for  *)
(* transition_lock, are strongly fair; the reaper ticks for ever; a backend  *)
(* that is started again and again gets on with its recovery.                *)
Fairness ==
    /\ SF_vars(OpStep) /\ WF_vars(PollWrite)
    /\ SF_vars(HolderBegin) /\ SF_vars(HolderStep) /\ SF_vars(ReapBegin)
    /\ SF_vars(RecoverBegin) /\ SF_vars(RecoverDone)
    /\ \A s \in Sessions : SF_vars(RecoverRow(s))

FairSpec == Spec /\ Fairness

-----------------------------------------------------------------------------
(* Properties. *)

\* A row at rest names no process ("Sleeping significa ausencia de processo
\* associado", docs/session-manager-audit.md).
RestingRowHasNoPid ==
    \A s \in Sessions : row[s].status \in Absent \cup Stops \cup {"created"} => row[s].pid = NoPid

\* After a restart no row claims a running or changing session, and no pid written
\* by an earlier backend is left.
RestartReconciles ==
    [][boot # "up" /\ boot' = "up" =>
         \A s \in Sessions :
            row[s].status \notin Transient \cup {"ready"} /\ row[s].pid = NoPid]_vars

\* A prompt is sent to a mapped session whose row says ready, or whose stop is under
\* way and will end the process.
PromptHasReadyRow ==
    [][ws.at = "send" /\ ws'.at = "answer" =>
         /\ rt.session = ws.session
         /\ row[ws.session].mapped
         /\ row[ws.session].status \in {"ready", "stopping"}]_vars

\* wake never brings an archived session back.
WakeKeepsArchived ==
    [][\A s \in Sessions :
         row[s].status = "archived" /\ op.kind = "wake" /\ sync = "none" =>
             row'[s].status = "archived"]_vars

\* Deleting a session takes its row from no running process.
DeleteSparesProcess ==
    [][\A s \in Sessions :
         row[s].status \notin Absent /\ row'[s].status = "deleted" =>
             rt.session # s \/ rt.child = NoPid]_vars

\* What sync_sessions makes of the active session's row.
Agrees(s) == Kept(s) \/ (row[s].status = rt.phase /\ row[s].pid = rt.child)

\* The active session's row catches up with the runtime, whatever wrote to it.
ActiveRowCatchesUp ==
    \A s \in Sessions : rt.session = s /\ ~Agrees(s) ~> rt.session # s \/ Agrees(s)

\* "starting e stopping sao transitorios": a stop of a session ends.
StoppingEnds ==
    \A s \in Sessions : row[s].status = "stopping" ~> row[s].status # "stopping"

\* "Arquivar ... bloqueia novos prompts" (docs/session-manager-audit.md): an archived
\* row stays so until a session action or a deletion changes it.
ArchivedIsStable ==
    [][\A s \in Sessions :
         row[s].status = "archived" /\ op.kind \notin Stops =>
             row'[s].status \in {"archived", "deleted"}]_vars

\* "Trocar de sessao ... desassocia o PID antigo" (docs/session-manager-audit.md): no
\* two rows name the same process.
OnePidPerRow ==
    \A s, t \in Sessions : s # t /\ row[s].pid # NoPid => row[s].pid # row[t].pid

\* "starting e stopping sao transitorios" (docs/session-manager-audit.md): when wake takes
\* the process over from another session, it does not leave that session's row, which
\* no reconciliation visits any more, in a transient state.
SwitchSettlesRow ==
    [][\A s \in Sessions :
         op.at = "select" /\ rt.session = s /\ rt'.session \notin {s, NoSession} =>
             row[s].status \notin Transient]_vars
=============================================================================
