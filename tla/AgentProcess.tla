----------------------------- MODULE AgentProcess -----------------------------
(***************************************************************************)
(* The OpenCode process manager (src/src/opencode.rs): one child process   *)
(* at a time behind the `inner` mutex, started, reused, stopped and reaped *)
(* by operations that hold `transition_lock` (and, inside it,              *)
(* `start_lock`), while HTTP requests, event-stream tasks and status polls *)
(* take `inner` alone between any two of their steps.                      *)
(*                                                                         *)
(* A step is one critical section of `inner`, one signal sent to a child,  *)
(* or one outcome of an await outside it.  A project path and a permission *)
(* mode always travel together, so the pair is one "profile".              *)
(***************************************************************************)
EXTENDS Naturals, FiniteSets

CONSTANTS
    Profiles,       \* (project_path, mode) pairs
    NoProfile,      \* no project selected since the backend started
    Sessions,       \* rows of ai_sessions
    NoSession,
    ProfileOf,      \* the project and mode a session was created with
    Handlers,       \* HTTP handlers that take workspace_lock
    Callers,        \* callers of request_json that do not take it
    Deciders,       \* those of them that run permission_decision
    MaxSpawns,      \* bound: children spawned
    MaxGeneration,  \* bound: no operation starts past this generation
    WaitMayFail     \* whether waitpid on the child can fail

Slots == Handlers \cup Callers
NoChild == 0
Children == 1 .. MaxSpawns
MaybeChild == 0 .. MaxSpawns

ASSUME ConstantsAssumption ==
    /\ MaxSpawns \in Nat
    /\ MaxGeneration \in Nat
    /\ WaitMayFail \in BOOLEAN
    /\ NoProfile \notin Profiles
    /\ NoSession \notin Sessions
    /\ ProfileOf \in [Sessions -> Profiles]
    /\ Deciders \subseteq Callers
    /\ Handlers \cap Callers = {}

ASSUME SlotsFinite == IsFiniteSet(Slots)

VARIABLES
    rt,       \* ProcessState
    alive,    \* children the operating system still runs
    kid,      \* what each child was spawned with
    spawned,  \* number of children spawned so far
    task,     \* the event-stream task of each child
    req,      \* the HTTP request each caller has in flight
    op,       \* the operation holding transition_lock
    ws        \* the handlers and what they do under workspace_lock

vars == <<rt, alive, kid, spawned, task, req, op, ws>>

Phases == {"sleeping", "starting", "ready", "error"}

Runtime ==
    [phase : Phases, session : Sessions \cup {NoSession},
     child : MaybeChild, conn : MaybeChild,
     profile : Profiles \cup {NoProfile},
     active : Nat, gen : Nat, eventTask : MaybeChild]

TaskStates == {"none", "open", "lost", "killing", "syncing", "done"}

OpKinds == {"none", "start", "stop", "sleep", "wake", "reap"}
OpLabels ==
    {"idle", "kill", "detach", "stopSync", "sleepDetach", "probe", "decide",
     "decideBad", "reapSync", "look", "select", "enter", "claim", "sync1",
     "spawn", "sync2", "health", "connect", "handle", "ready", "status",
     "failed", "failedSync", "wakeSync", "mapping", "history", "mark",
     "markSync"}

HandlerStates ==
    {"free", "stopFirst", "stopping", "clear", "start", "starting", "wake",
     "waking", "prompt", "prompting", "reread", "rereading"}

Kid == [gen : Nat, profile : Profiles \cup {NoProfile}]
Task == [at : TaskStates, victim : MaybeChild]
Request == [live : BOOLEAN, gen : Nat, via : MaybeChild, dropped : BOOLEAN]
Operation ==
    [kind : OpKinds, at : OpLabels, next : OpLabels, back : OpLabels,
     profile : Profiles \cup {NoProfile}, session : Sessions \cup {NoSession},
     victim : MaybeChild, mine : MaybeChild]
Handler ==
    [at : HandlerStates, session : Sessions \cup {NoSession},
     profile : Profiles \cup {NoProfile}, chat : BOOLEAN]

\* Every counter and every reference to a child stays in range: active_requests
\* never drops below zero, whatever late answers arrive.
TypeOK ==
    /\ rt \in Runtime
    /\ alive \subseteq Children
    /\ kid \in [Children -> Kid]
    /\ spawned \in MaybeChild
    /\ task \in [Children -> Task]
    /\ req \in [Slots -> Request]
    /\ op \in Operation
    /\ ws \in [Handlers -> Handler]

NoRequest == [live |-> FALSE, gen |-> 0, via |-> NoChild, dropped |-> FALSE]
NoTask == [at |-> "none", victim |-> NoChild]
Done == [at |-> "done", victim |-> NoChild]
NoOp ==
    [kind |-> "none", at |-> "idle", next |-> "idle", back |-> "idle",
     profile |-> NoProfile, session |-> NoSession,
     victim |-> NoChild, mine |-> NoChild]
Free == [at |-> "free", session |-> NoSession, profile |-> NoProfile, chat |-> FALSE]

Init ==
    /\ rt = [phase |-> "sleeping", session |-> NoSession,
             child |-> NoChild, conn |-> NoChild, profile |-> NoProfile,
             active |-> 0, gen |-> 0, eventTask |-> NoChild]
    /\ alive = {}
    /\ kid = [c \in Children |-> [gen |-> 0, profile |-> NoProfile]]
    /\ spawned = 0
    /\ task = [c \in Children |-> NoTask]
    /\ req = [s \in Slots |-> NoRequest]
    /\ op = NoOp
    /\ ws = [h \in Handlers |-> Free]

-----------------------------------------------------------------------------
(* The functions of ProcessState. *)

\* detach_child
Detach(r) ==
    [r EXCEPT !.phase = "sleeping", !.child = NoChild, !.conn = NoChild,
              !.active = 0, !.gen = @ + 1, !.eventTask = NoChild]

\* the branch of refresh_child_status taken when the child has exited
Exited(r) == [Detach(r) EXCEPT !.phase = "error"]

\* refresh_child_status: the states it may leave r in
Refreshes(r) ==
    IF r.child = NoChild THEN {r}
    ELSE {IF r.child \in alive THEN r ELSE Exited(r)}
         \cup (IF WaitMayFail THEN {[r EXCEPT !.phase = "error"]} ELSE {})

\* AbortHandle::abort takes effect where the task next has to wait: it may be past
\* its last wait before the cleanup, and its child's loss.
AbortedTask(t) ==
    IF t.at \in {"open", "lost"} THEN {Done, [t EXCEPT !.at = "lost"]}
    ELSE IF t.at = "syncing" THEN {Done, t}
    ELSE {t}

\* The tasks, when r becomes the ProcessState and lets go of an event task.
TasksAfter(r) ==
    IF rt.eventTask # NoChild /\ r.eventTask = NoChild
    THEN {[task EXCEPT ![rt.eventTask] = t] : t \in AbortedTask(task[rt.eventTask])}
    ELSE {task}

SetRuntime(r) == rt' = r /\ task' \in TasksAfter(r)

\* Variant: a late answer of an older process is counted against this one.
ReleasedOfAnyGeneration(q) == [rt EXCEPT !.active = IF @ > 0 THEN @ - 1 ELSE 0]

\* Variant: the same with a plain subtraction.
ReleasedUnsaturated(q) == [rt EXCEPT !.active = @ - 1]

\* ActiveRequestGuard::release
Released(q) ==
    IF rt.gen = q.gen
    THEN [rt EXCEPT !.active = IF @ > 0 THEN @ - 1 ELSE 0]
    ELSE rt

-----------------------------------------------------------------------------
(* request_json, for any caller. *)

RequestBegin(s, r) ==
    /\ r.phase = "ready"
    /\ SetRuntime([r EXCEPT !.active = @ + 1])
    /\ req' = [req EXCEPT ![s] = [NoRequest EXCEPT !.live = TRUE, !.gen = r.gen,
                                                   !.via = r.conn]]

RequestRefused(r) ==
    /\ r.phase # "ready"
    /\ SetRuntime(r)
    /\ UNCHANGED req

\* A response, an error, the timeout, or the guard dropped with its future.
RequestEnd(s) ==
    /\ req[s].live
    /\ rt' = Released(req[s])
    /\ req' = [req EXCEPT ![s] = NoRequest]
    /\ UNCHANGED task

\* Variant: permission_decision lets start_lock go before its request.
DecisionUnlocked == FALSE

\* permission_decision keeps start_lock across its request.
Deciding(d) == req[d].live /\ ~req[d].dropped
DecisionPending == \E d \in Deciders : Deciding(d)

\* The operation under way holds start_lock.
StartLocked ==
    \/ op.at \in {"stopSync", "decide", "decideBad", "reapSync", "claim", "sync1",
                  "spawn", "sync2", "health", "connect", "handle", "ready", "status"}
    \/ op.at = "kill" /\ (op.kind = "sleep" \/ op.next # "idle")

CallerRequest(s) ==
    /\ ~req[s].live
    /\ s \in Deciders => ~StartLocked /\ ~DecisionPending
    /\ \E r \in Refreshes(rt) : RequestBegin(s, r) \/ RequestRefused(r)
    /\ UNCHANGED <<alive, kid, spawned, op, ws>>

\* The client of a decision disconnects: its future is dropped, start_lock with it,
\* while the guard's release runs in a task of its own.
DecisionDropped(d) ==
    /\ Deciding(d)
    /\ req' = [req EXCEPT ![d].dropped = TRUE]
    /\ UNCHANGED <<rt, alive, kid, spawned, task, op, ws>>

CallerDone(s) ==
    /\ RequestEnd(s)
    /\ UNCHANGED <<alive, kid, spawned, op, ws>>

-----------------------------------------------------------------------------
(* The handlers that hold workspace_lock (a try_lock: no one waits for it). *)

\* Variant: the workspace is not locked.
WorkspaceUnlocked == TRUE

WorkspaceFree == \A h \in Handlers : ws[h].at = "free"

\* start_request_inner up to its decision to stop the current process first
StartHandler(h, p) ==
    /\ WorkspaceFree
    /\ rt.gen < MaxGeneration
    /\ ws' = [ws EXCEPT ![h] =
                 [Free EXCEPT !.at = IF rt.profile = p THEN "start" ELSE "stopFirst",
                              !.profile = p]]
    /\ UNCHANGED <<rt, alive, kid, spawned, task, req, op>>

\* state.opencode.inner.lock().await.session_id = None
StartHandlerClear(h) ==
    /\ ws[h].at = "clear"
    /\ ws' = [ws EXCEPT ![h].at = "start"]
    /\ rt' = [rt EXCEPT !.session = NoSession]
    /\ UNCHANGED <<alive, kid, spawned, task, req, op>>

\* chat_inner (chat) or the start/resume action, up to the call of wake
WakeHandler(h, s, chat) ==
    /\ WorkspaceFree
    /\ rt.gen < MaxGeneration
    /\ ws' = [ws EXCEPT ![h] = [at |-> "wake", session |-> s, profile |-> ProfileOf[s],
                                chat |-> chat]]
    /\ UNCHANGED <<rt, alive, kid, spawned, task, req, op>>

\* messages: reads the remote history only of the active, ready session
HistoryHandler(h, s) ==
    /\ WorkspaceFree
    /\ rt.session = s
    /\ rt.phase = "ready"
    /\ ws' = [ws EXCEPT ![h] = [Free EXCEPT !.at = "reread", !.session = s]]
    /\ UNCHANGED <<rt, alive, kid, spawned, task, req, op>>

\* chat_inner: the prompt, then one read of the history, whatever came of it
HandlerRequest(h) ==
    /\ \E r \in Refreshes(rt) :
         \/ /\ RequestBegin(h, r)
            /\ \/ ws[h].at = "prompt" /\ ws' = [ws EXCEPT ![h].at = "prompting"]
               \/ ws[h].at = "reread" /\ ws' = [ws EXCEPT ![h].at = "rereading"]
         \/ /\ RequestRefused(r)
            /\ \/ ws[h].at = "prompt" /\ ws' = [ws EXCEPT ![h].at = "reread"]
               \/ ws[h].at = "reread" /\ ws' = [ws EXCEPT ![h] = Free]
    /\ UNCHANGED <<alive, kid, spawned, op>>

HandlerDone(h) ==
    /\ RequestEnd(h)
    /\ \/ ws[h].at = "prompting" /\ ws' = [ws EXCEPT ![h].at = "reread"]
       \/ ws[h].at = "rereading" /\ ws' = [ws EXCEPT ![h] = Free]
    /\ UNCHANGED <<alive, kid, spawned, op>>

-----------------------------------------------------------------------------
(* Operations under transition_lock: how they begin, move on and end. *)

Goto(l) == op' = [op EXCEPT !.at = l]

\* terminate_child(c), then go on at l
Terminate(c, l) == op' = [op EXCEPT !.at = "kill", !.victim = c, !.next = l]

\* Variant: a failed wake keeps the workspace.
AfterOpKeepingLock(w, ok) ==
    IF w.at = "stopping" THEN [w EXCEPT !.at = "clear"]
    ELSE IF w.at = "waking" /\ w.chat /\ ok THEN [w EXCEPT !.at = "prompt"]
    ELSE IF w.at = "starting" \/ (w.at = "waking" /\ ok) THEN Free
    ELSE w

\* What a handler does next, once the operation it called has returned.
AfterOp(w, ok) ==
    IF w.at = "stopping" THEN [w EXCEPT !.at = "clear"]
    ELSE IF w.at = "waking" /\ w.chat /\ ok THEN [w EXCEPT !.at = "prompt"]
    ELSE IF w.at \in {"starting", "waking"} THEN Free
    ELSE w

EndOp(ok) ==
    /\ op' = NoOp
    /\ ws' = [h \in Handlers |-> AfterOp(ws[h], ok)]

Begin(k, l, p, s) ==
    /\ op.at = "idle"
    /\ op' = [NoOp EXCEPT !.kind = k, !.at = l, !.profile = p, !.session = s]

\* stop(), called by the stop and set_mode handlers and by shutdown
StopBegin ==
    /\ rt.gen < MaxGeneration
    /\ Begin("stop", "detach", NoProfile, NoSession)
    /\ UNCHANGED <<rt, alive, kid, spawned, task, req, ws>>

HandlerStopBegin(h) ==
    /\ ws[h].at = "stopFirst"
    /\ Begin("stop", "detach", NoProfile, NoSession)
    /\ ws' = [ws EXCEPT ![h].at = "stopping"]
    /\ UNCHANGED <<rt, alive, kid, spawned, task, req>>

\* start()
HandlerStartBegin(h) ==
    /\ ws[h].at = "start"
    /\ Begin("start", "enter", ws[h].profile, NoSession)
    /\ ws' = [ws EXCEPT ![h].at = "starting"]
    /\ UNCHANGED <<rt, alive, kid, spawned, task, req>>

\* wake()
HandlerWakeBegin(h) ==
    /\ ws[h].at = "wake"
    /\ Begin("wake", "look", ws[h].profile, ws[h].session)
    /\ ws' = [ws EXCEPT ![h].at = "waking"]
    /\ UNCHANGED <<rt, alive, kid, spawned, task, req>>

\* session_action: sleep, stop or archive
SleepBegin(s) ==
    /\ rt.gen < MaxGeneration
    /\ Begin("sleep", "sleepDetach", NoProfile, s)
    /\ UNCHANGED <<rt, alive, kid, spawned, task, req, ws>>

\* a tick of the idle reaper
ReapBegin ==
    /\ Begin("reap", "probe", NoProfile, NoSession)
    /\ UNCHANGED <<rt, alive, kid, spawned, task, req, ws>>

\* terminate_child: SIGKILL to the process group, then a bounded wait
OpKill ==
    /\ op.at = "kill"
    /\ alive' = alive \ {op.victim}
    /\ IF op.next = "idle"
       THEN EndOp(FALSE)
       ELSE op' = [op EXCEPT !.at = op.next, !.victim = NoChild] /\ UNCHANGED ws
    /\ UNCHANGED <<rt, kid, spawned, task, req>>

\* The refresh in sync_sessions (or status), where an operation calls it at l.
OpRefresh(l) ==
    /\ op.at = l
    /\ \E r \in Refreshes(rt) : SetRuntime(r)
    /\ UNCHANGED <<alive, kid, spawned, req>>

-----------------------------------------------------------------------------
(* stop_inner, the session actions and the idle reaper. *)

OpDetach ==
    /\ op.at = "detach"
    /\ ~DecisionPending
    /\ SetRuntime(Detach(rt))
    /\ Terminate(rt.child, "stopSync")
    /\ UNCHANGED <<alive, kid, spawned, req, ws>>

OpStopSync ==
    /\ OpRefresh("stopSync")
    /\ IF op.back = "idle" THEN EndOp(TRUE) ELSE Goto(op.back) /\ UNCHANGED ws

\* The first UPDATE may fail; otherwise only the active session's child goes.
OpSleepDetach ==
    /\ op.at = "sleepDetach"
    /\ ~DecisionPending
    /\ \/ /\ rt.session = op.session
          /\ SetRuntime(Detach(rt))
          /\ Terminate(rt.child, "idle")
          /\ UNCHANGED ws
       \/ EndOp(TRUE) /\ UNCHANGED <<rt, task>>
    /\ UNCHANGED <<alive, kid, spawned, req>>

\* The health probe runs outside `inner`, on the connection read before it.
OpProbe ==
    /\ op.at = "probe"
    /\ ~DecisionPending
    /\ \/ rt.phase = "ready" /\ Goto("decideBad")
       \/ (rt.phase = "ready" => rt.conn \in alive) /\ Goto("decide")
    /\ UNCHANGED <<rt, alive, kid, spawned, task, req, ws>>

OpDecideUnhealthy ==
    /\ op.at = "decideBad"
    /\ \E r \in Refreshes(rt) :
         /\ SetRuntime([Detach(r) EXCEPT !.phase = "error"])
         /\ Terminate(r.child, "reapSync")
    /\ UNCHANGED <<alive, kid, spawned, req, ws>>

\* Whether the idle timeout has passed is time's choice.
OpDecide ==
    /\ op.at = "decide"
    /\ \E r \in Refreshes(rt) :
         \/ /\ r.phase = "ready"
            /\ r.active = 0
            /\ SetRuntime(Detach(r))
            /\ Terminate(r.child, "reapSync")
         \/ SetRuntime(r) /\ Goto("reapSync")
    /\ UNCHANGED <<alive, kid, spawned, req, ws>>

OpReapSync == OpRefresh("reapSync") /\ EndOp(TRUE)

-----------------------------------------------------------------------------
(* start_inner. *)

\* Variant: active_requests is not looked at.
OpEnterUnchecked ==
    /\ op.at = "enter"
    /\ ~DecisionPending
    /\ \E r \in Refreshes(rt) :
         /\ SetRuntime(r)
         /\ Goto(IF r.phase = "ready" /\ r.profile = op.profile THEN "status" ELSE "claim")
    /\ UNCHANGED <<alive, kid, spawned, req, ws>>

\* Reuse a ready process of the same project and mode; refuse while requests run.
\* Canonicalising the path may fail first.
OpEnter ==
    /\ op.at = "enter"
    /\ ~DecisionPending
    /\ \/ \E r \in Refreshes(rt) :
            /\ SetRuntime(r)
            /\ Goto(IF r.phase = "ready" /\ r.profile = op.profile THEN "status"
                    ELSE IF r.active # 0 THEN "failed" ELSE "claim")
       \/ Goto("failed") /\ UNCHANGED <<rt, task>>
    /\ UNCHANGED <<alive, kid, spawned, req, ws>>

\* Variant: the old child is not detached.
OpClaimKeepingChild ==
    /\ op.at = "claim"
    /\ \E r \in Refreshes(rt) :
         SetRuntime([r EXCEPT !.phase = "starting", !.profile = op.profile])
    /\ Goto("sync1")
    /\ UNCHANGED <<alive, kid, spawned, req, ws>>

\* `inner` was released since OpEnter.  No free port: the start fails.
OpClaim ==
    /\ op.at = "claim"
    /\ \/ \E r \in Refreshes(rt) :
            /\ SetRuntime([Detach(r) EXCEPT !.phase = "starting", !.profile = op.profile])
            /\ Terminate(r.child, "sync1")
       \/ Goto("failed") /\ UNCHANGED <<rt, task>>
    /\ UNCHANGED <<alive, kid, spawned, req, ws>>

OpStartSync ==
    \/ OpRefresh("sync1") /\ (Goto("spawn") \/ Goto("failed")) /\ UNCHANGED ws
    \/ OpRefresh("sync2") /\ (Goto("health") \/ Goto("failed")) /\ UNCHANGED ws

\* Nobody else knows of the child before it is registered: one step.
OpSpawn ==
    /\ op.at = "spawn"
    /\ spawned < MaxSpawns
    /\ LET c == spawned + 1
           r == [rt EXCEPT !.gen = @ + 1, !.child = c, !.conn = c]
       IN /\ spawned' = c
          /\ alive' = alive \cup {c}
          /\ kid' = [kid EXCEPT ![c] = [gen |-> r.gen, profile |-> op.profile]]
          /\ rt' = r
          /\ op' = [op EXCEPT !.at = "sync2", !.mine = c]
    /\ UNCHANGED <<task, req, ws>>

OpSpawnFails ==
    /\ op.at = "spawn"
    /\ rt' = [rt EXCEPT !.phase = "error"]
    /\ Goto("failed")
    /\ UNCHANGED <<alive, kid, spawned, task, req, ws>>

\* Variant: the child is forgotten, not killed.
OpAbandonLeaking ==
    /\ op.at \in {"health", "connect"}
    /\ SetRuntime([Detach(rt) EXCEPT !.phase = "error"])
    /\ Goto("failed")
    /\ UNCHANGED <<alive, kid, spawned, req, ws>>

\* No health in time, or no event stream: give the child up.
OpAbandon ==
    /\ op.at \in {"health", "connect"}
    /\ SetRuntime([Detach(rt) EXCEPT !.phase = "error"])
    /\ Terminate(rt.child, "failed")
    /\ UNCHANGED <<alive, kid, spawned, req, ws>>

OpHealthy ==
    /\ op.at = "health"
    /\ op.mine \in alive
    /\ Goto("connect")
    /\ UNCHANGED <<rt, alive, kid, spawned, task, req, ws>>

\* connect_event_proxy spawns the task, and stores its handle only afterwards.
OpConnect ==
    /\ op.at = "connect"
    /\ op.mine \in alive
    /\ task' = [task EXCEPT ![op.mine].at = "open"]
    /\ Goto("handle")
    /\ UNCHANGED <<rt, alive, kid, spawned, req, ws>>

OpHandle ==
    /\ op.at = "handle"
    /\ rt' = [rt EXCEPT !.eventTask = op.mine]
    /\ Goto("ready")
    /\ UNCHANGED <<alive, kid, spawned, task, req, ws>>

\* Variant: the process is declared ready without a second look.
OpReadyUnchecked ==
    /\ op.at = "ready"
    /\ rt' = [rt EXCEPT !.phase = "ready"]
    /\ Goto("status")
    /\ UNCHANGED <<alive, kid, spawned, task, req, ws>>

OpReady ==
    /\ op.at = "ready"
    /\ IF rt.child = op.mine
       THEN rt' = [rt EXCEPT !.phase = "ready"] /\ Goto("status")
       ELSE Goto("failed") /\ UNCHANGED rt
    /\ UNCHANGED <<alive, kid, spawned, task, req, ws>>

\* start_inner returns Ok(self.status())
OpStatus ==
    /\ OpRefresh("status")
    /\ IF op.kind = "start" THEN EndOp(TRUE) ELSE Goto("wakeSync") /\ UNCHANGED ws

\* Variant: start() returns its error and cleans nothing up.
OpStartFailedUnclean ==
    /\ op.at = "failed"
    /\ op.kind = "start"
    /\ EndOp(FALSE)
    /\ UNCHANGED <<rt, alive, kid, spawned, task, req>>

\* start(): a process left Starting by the failure is given up.
OpStartFailed ==
    /\ op.at = "failed"
    /\ op.kind = "start"
    /\ IF rt.phase = "starting"
       THEN /\ SetRuntime([Detach(rt) EXCEPT !.phase = "error"])
            /\ Terminate(rt.child, "idle")
            /\ UNCHANGED ws
       ELSE EndOp(FALSE) /\ UNCHANGED <<rt, task>>
    /\ UNCHANGED <<alive, kid, spawned, req>>

-----------------------------------------------------------------------------
(* wake. *)

\* Any failure of wake: stop_inner, then OpMark.
GiveUp == op' = [op EXCEPT !.at = "detach", !.back = "mark"]

\* A ready process of the same profile is kept across a change of session.
\* An archived row, or a failed query, gives up.
OpLook ==
    /\ op.at = "look"
    /\ \/ op' = IF rt.session = op.session \/ (rt.phase = "ready" /\ rt.profile = op.profile)
                THEN [op EXCEPT !.at = "select"]
                ELSE [op EXCEPT !.at = "detach", !.back = "select"]
       \/ GiveUp
    /\ UNCHANGED <<rt, alive, kid, spawned, task, req, ws>>

OpSelect ==
    /\ op.at = "select"
    /\ \/ rt' = [rt EXCEPT !.session = op.session] /\ (Goto("enter") \/ GiveUp)
       \/ GiveUp /\ UNCHANGED rt
    /\ UNCHANGED <<alive, kid, spawned, task, req, ws>>

OpWakeFailed ==
    /\ op.at = "failed"
    /\ op.kind = "wake"
    /\ rt' = [rt EXCEPT !.phase = "error"]
    /\ Goto("failedSync")
    /\ UNCHANGED <<alive, kid, spawned, task, req, ws>>

OpWakeSync ==
    \/ OpRefresh("failedSync") /\ GiveUp /\ UNCHANGED ws
    \/ OpRefresh("wakeSync") /\ (Goto("mapping") \/ Goto("history") \/ GiveUp) /\ UNCHANGED ws

\* POST /session for a session without a remote one, then GET of its history.
OpAsk(h) ==
    /\ op.at \in {"mapping", "history"}
    /\ ws[h].at = "waking"
    /\ ~req[h].live
    /\ \E r \in Refreshes(rt) :
         \/ RequestBegin(h, r) /\ UNCHANGED op
         \/ RequestRefused(r) /\ GiveUp
    /\ UNCHANGED <<alive, kid, spawned, ws>>

OpAnswer(h) ==
    /\ op.at \in {"mapping", "history"}
    /\ ws[h].at = "waking"
    /\ RequestEnd(h)
    /\ \/ op.at = "mapping" /\ Goto("history") /\ UNCHANGED ws
       \/ op.at = "history" /\ EndOp(TRUE)
       \/ GiveUp /\ UNCHANGED ws
    /\ UNCHANGED <<alive, kid, spawned>>

OpMark ==
    /\ op.at = "mark"
    /\ rt' = [rt EXCEPT !.session = op.session, !.phase = "error"]
    /\ Goto("markSync")
    /\ UNCHANGED <<alive, kid, spawned, task, req, ws>>

OpMarkSync == OpRefresh("markSync") /\ EndOp(FALSE)

-----------------------------------------------------------------------------
(* Event-stream tasks, status polls and the children themselves. *)

\* The stream ends, a line is too long, or an event cannot be recorded.
TaskLoses(c) ==
    /\ task[c].at = "open"
    /\ task' = [task EXCEPT ![c].at = "lost"]
    /\ UNCHANGED <<rt, alive, kid, spawned, req, op, ws>>

\* Variant: the generation is not compared.
TaskCleanupUnchecked(c) ==
    /\ task[c].at = "lost"
    /\ rt' = [Detach(rt) EXCEPT !.phase = "error"]
    /\ task' = [task EXCEPT ![c] = [at |-> "killing", victim |-> rt.child]]
    /\ UNCHANGED <<alive, kid, spawned, req, op, ws>>

\* Variant: a busy process is spared.
TaskCleanupWhenIdle(c) ==
    /\ task[c].at = "lost"
    /\ IF rt.gen = kid[c].gen /\ rt.active = 0
       THEN /\ rt' = [Detach(rt) EXCEPT !.phase = "error"]
            /\ task' = [task EXCEPT ![c] = [at |-> "killing", victim |-> rt.child]]
       ELSE /\ task' = [task EXCEPT ![c].at = "syncing"]
            /\ UNCHANGED rt
    /\ UNCHANGED <<alive, kid, spawned, req, op, ws>>

\* Fail closed: the task of the current generation takes the child to stop it.
TaskCleanup(c) ==
    /\ task[c].at = "lost"
    /\ IF rt.gen = kid[c].gen
       THEN /\ rt' = [Detach(rt) EXCEPT !.phase = "error"]
            /\ task' = [task EXCEPT ![c] = [at |-> "killing", victim |-> rt.child]]
       ELSE /\ task' = [task EXCEPT ![c].at = "syncing"]
            /\ UNCHANGED rt
    /\ UNCHANGED <<alive, kid, spawned, req, op, ws>>

TaskKill(c) ==
    /\ task[c].at = "killing"
    /\ alive' = alive \ {task[c].victim}
    /\ task' = [task EXCEPT ![c] = [at |-> "syncing", victim |-> NoChild]]
    /\ UNCHANGED <<rt, kid, spawned, req, op, ws>>

TaskSync(c) ==
    /\ task[c].at = "syncing"
    /\ \E r \in Refreshes(rt) :
         /\ rt' = r
         /\ task' \in {[t EXCEPT ![c] = Done] : t \in TasksAfter(r)}
    /\ UNCHANGED <<alive, kid, spawned, req, op, ws>>

\* status() or sync_sessions() on behalf of a reader
Poll ==
    /\ \E r \in Refreshes(rt) : SetRuntime(r)
    /\ UNCHANGED <<alive, kid, spawned, req, op, ws>>

ChildDies(c) ==
    /\ c \in alive
    /\ alive' = alive \ {c}
    /\ UNCHANGED <<rt, kid, spawned, task, req, op, ws>>

-----------------------------------------------------------------------------
OpStep ==
    \/ OpKill \/ OpDetach \/ OpStopSync \/ OpSleepDetach
    \/ OpProbe \/ OpDecideUnhealthy \/ OpDecide \/ OpReapSync
    \/ OpEnter \/ OpClaim \/ OpStartSync \/ OpSpawn \/ OpSpawnFails \/ OpAbandon
    \/ OpHealthy \/ OpConnect \/ OpHandle \/ OpReady \/ OpStatus \/ OpStartFailed
    \/ OpLook \/ OpSelect \/ OpWakeFailed \/ OpWakeSync \/ OpMark \/ OpMarkSync
    \/ \E h \in Handlers : OpAsk(h) \/ OpAnswer(h)

HandlerStep(h) ==
    \/ HandlerStopBegin(h) \/ HandlerStartBegin(h) \/ HandlerWakeBegin(h)
    \/ StartHandlerClear(h) \/ HandlerRequest(h) \/ HandlerDone(h)

TaskStep(c) == TaskCleanup(c) \/ TaskKill(c) \/ TaskSync(c)

Next ==
    \/ OpStep
    \/ StopBegin \/ ReapBegin \/ Poll
    \/ \E s \in Sessions : SleepBegin(s)
    \/ \E h \in Handlers :
         \/ HandlerStep(h)
         \/ \E p \in Profiles : StartHandler(h, p)
         \/ \E s \in Sessions :
              HistoryHandler(h, s) \/ \E chat \in BOOLEAN : WakeHandler(h, s, chat)
    \/ \E s \in Callers : CallerRequest(s) \/ CallerDone(s)
    \/ \E d \in Deciders : DecisionDropped(d)
    \/ \E c \in Children : TaskStep(c) \/ TaskLoses(c) \/ ChildDies(c)

Spec == Init /\ [][Next]_vars

(* Fairness.  Every await of an operation is bounded by a timeout, and a    *)
(* dead child closes its sockets.  tokio's Mutex serves waiters in order:   *)
(* strong fairness for the steps that wait for transition_lock (a handler's *)
(* Begin) or start_lock (the operation's).                                  *)
Fairness ==
    /\ WF_vars(OpStep)
    /\ SF_vars(OpDetach) /\ SF_vars(OpEnter) /\ SF_vars(OpSleepDetach) /\ SF_vars(OpProbe)
    /\ \A h \in Handlers :
         /\ WF_vars(StartHandlerClear(h)) /\ WF_vars(HandlerRequest(h)) /\ WF_vars(HandlerDone(h))
         /\ SF_vars(HandlerStopBegin(h) \/ HandlerStartBegin(h) \/ HandlerWakeBegin(h))
    /\ \A s \in Callers : WF_vars(CallerDone(s))
    /\ \A c \in Children :
         /\ WF_vars(TaskStep(c))
         /\ WF_vars(c \notin alive /\ TaskLoses(c))

FairSpec == Spec /\ Fairness

-----------------------------------------------------------------------------
(* Properties. *)

\* A ready process has a connection, and an event-stream task, with its abort
\* handle stored, that is running or about to stop the process (architecture.md:
\* "Startup does not become `Ready` until health and the internal SSE audit
\* stream are connected").
ReadyIsObserved ==
    rt.phase = "ready" =>
        /\ rt.child # NoChild
        /\ rt.conn = rt.child
        /\ rt.eventTask = rt.child
        /\ task[rt.child].at \in {"open", "lost"}

\* active_requests counts exactly the requests sent to the current generation,
\* however requests, restarts and late responses interleave.
Current(s) == req[s].live /\ req[s].gen = rt.gen
ActiveCountExact == rt.active = Cardinality({s \in Slots : Current(s)})

\* Every running child is the managed one, or is about to be killed by the
\* operation or the event-stream task that took it: none is leaked.
NoStrayChild ==
    \A c \in alive :
        \/ rt.child = c
        \/ op.at = "kill" /\ op.victim = c
        \/ \E t \in Children : task[t].at = "killing" /\ task[t].victim = c

\* The managed child was spawned for the project and mode the state reports, on
\* which start_inner and wake rely to reuse it.
ChildHasProfile == rt.child # NoChild => kid[rt.child].profile = rt.profile

\* An event-stream task stops its own child and never the one that replaced it.
TaskStopsOnlyItsChild == \A c \in Children : task[c].victim \in {NoChild, c}

\* While the process a chat sent its prompt to is current, the runtime's session
\* is the chat's, and the process runs in that session's project and mode.
PromptRunsInItsSession ==
    \A h \in Handlers :
        ws[h].at = "prompting" /\ Current(h) =>
            /\ rt.session = ws[h].session
            /\ kid[req[h].via].profile = ProfileOf[ws[h].session]

\* Between operations nothing is left Starting, Sleeping holds no process, and
\* (unless waitpid failed) neither does Error.
RestingPhase ==
    op.at = "idle" =>
        /\ rt.phase # "starting"
        /\ rt.phase = "sleeping" => rt.child = NoChild
        /\ rt.phase = "error" /\ ~WaitMayFail => rt.child = NoChild

\* A tick of the reaper takes a process that some caller awaits an answer from only
\* because its health probe failed (at decideBad); the idle timeout never does, however
\* late guards of earlier processes are released.
ReaperSparesRequests ==
    [][op.kind = "reap" /\ op.at # "kill" /\ op'.at = "kill" =>
         \/ op.at = "decideBad"
         \/ \A s \in Slots : ~(req[s].live /\ req[s].via = rt.child)]_vars

\* start_inner takes the old process only when nobody awaits an answer from it,
\* although `inner` is free between its look at active_requests and the claim: no
\* request can begin there, for a process it does not reuse is not ready.  Excepted is
\* a wake that finds its session selected already, and the process ready in another
\* project or mode: wake compares those only when it changes the session.
ReplacementSparesRequests ==
    [][op.at = "claim" /\ op'.at = "kill" /\ ~(op.kind = "wake" /\ rt.profile # op.profile) =>
         \A s \in Slots : ~(req[s].live /\ req[s].via = rt.child)]_vars

\* "a project or permission-mode change cannot replace the managed child while an
\* OpenCode request is active" (docs/architecture.md): the stop that a start of
\* another project or mode begins with waits for requests.
ChangeWaitsForRequests ==
    [][op.at = "detach" /\ op'.at = "kill" /\ (\E h \in Handlers : ws[h].at = "stopping") =>
         \A s \in Slots : ~(req[s].live /\ req[s].via = rt.child)]_vars

\* While a permission decision is relayed, its process is replaced by nobody: it
\* goes only when it died or its event stream was lost.
DecisionKeepsProcess ==
    [][\A d \in Deciders :
         Deciding(d) /\ Deciding(d)' /\ rt.child = req[d].via /\ rt'.child # rt.child =>
             rt.child \notin alive \/ task[rt.child].at = "lost"]_vars

\* The start-up, service and end of the last process spawned.
Stage ==
    IF spawned = 0 THEN "none"
    ELSE IF rt.phase = "ready" THEN "serving"
    ELSE IF /\ rt.child = spawned
            /\ op.mine = spawned
            /\ op.at \in {"sync2", "health", "connect", "handle", "ready"} THEN "new"
    ELSE "ended"

Lifecycle == INSTANCE AgentLifecycle WITH
    launched <- spawned, stage <- Stage, running <- alive

\* The manager implements its contract: launches are serialized, and a process
\* that stopped serving never serves again.
ImplementsLifecycle == Lifecycle!Spec

\* Fail closed: a process whose event stream was lost is stopped.
StreamLossStopsProcess == \A c \in Children : task[c].at = "lost" ~> c \notin alive

\* A handler that took workspace_lock lets it go: no operation is stuck, and
\* neither is a handler waiting for one.
WorkspaceReleased == \A h \in Handlers : ws[h].at # "free" ~> ws[h].at = "free"

\* A ready process that dies does not stay Ready.
DeathIsNoticed == rt.phase = "ready" /\ rt.child \notin alive ~> rt.phase # "ready"
=============================================================================
