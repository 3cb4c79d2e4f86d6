----------------------------- MODULE Permissions -----------------------------
(***************************************************************************)
(* Permission requests of the agent process, from the event that announces *)
(* one to the reply it is given (src/src/opencode.rs, event proxy, and     *)
(* src/src/opencode/session_manager.rs, observe_event and                  *)
(* permission_decision), beside the operations that clear `pending` and    *)
(* `approvals`: a wake that switches sessions, stop, sleep, the reaper,    *)
(* and every reconciliation that finds no process.                         *)
(*                                                                         *)
(* A step is one critical section of a mutex or one await.  `inner` is     *)
(* never held across the clears; `pending` and `approvals` have a mutex    *)
(* each.  Rows, statuses and the process itself are the subject of         *)
(* SessionManager and AgentProcess; here a process is a number.            *)
(***************************************************************************)
EXTENDS Naturals, Sequences, FiniteSets

CONSTANTS
    Requests,     \* ids of permission requests, chosen by the agent
    Sessions,     \* rows of ai_sessions
    NoSession,
    NoRequest,
    ActionOf,     \* what approval_key distinguishes of a request
    MaxPending,   \* 128 in the code
    MaxProc       \* bound: processes spawned

Procs == 1 .. MaxProc
NoProc == 0
Modes == {"read_only", "approval"}   \* an unrestricted process asks nothing
Replies == {"once", "always", "reject"}

ASSUME PermissionsAssumption ==
    /\ NoSession \notin Sessions
    /\ NoRequest \notin Requests
    /\ MaxPending \in Nat
    /\ MaxProc \in Nat

VARIABLES
    mode,       \* permission_mode of each row, fixed when it is created
    inner,      \* ProcessState: process, phase, session_id, mode
    alive,      \* the processes the operating system runs
    spawned,    \* processes spawned so far
    ask,        \* each request as the agent process knows it
    task,       \* the event-stream task of each process, with its stream
    pending,    \* OpenCodeManager.pending
    approvals,  \* OpenCodeManager.approvals
    start,      \* who holds start_lock
    life,       \* the operation holding transition_lock
    chat,       \* the session whose prompt holds workspace_lock
    dec,        \* the permission_decision holding start_lock
    trail,      \* the decisions in the audit log by which operators allowed
    rested      \* rows a session action stopped and no wake selected since

vars == <<mode, inner, alive, spawned, ask, task, pending, approvals, start,
          life, chat, dec, trail, rested>>
rows == <<mode, alive, spawned, ask, task>>
log == <<trail, rested>>

Inner == [proc : Procs \cup {NoProc}, phase : {"ready", "starting", "down"},
          session : Sessions \cup {NoSession}, mode : Modes]
Ask == [at : {"new", "waiting", "left", "gone", "once", "reject"},
        session : Sessions \cup {NoSession}, proc : Procs \cup {NoProc}]
Task == [at : {"none", "read", "asking", "insert", "once", "reject", "lost", "sync"},
         req : Requests \cup {NoRequest},
         wire : Seq(Requests \X {"asked", "replied"}), live : BOOLEAN]
Life == [at : {"idle", "kill", "clear", "switch", "select", "start", "spawn", "woken", "act"},
         session : Sessions \cup {NoSession}, wakes : BOOLEAN]
Dec == [at : {"idle", "audited", "relayed"},
        req : Requests \cup {NoRequest}, reply : Replies]

TypeOK ==
    /\ mode \in [Sessions -> Modes]
    /\ inner \in Inner
    /\ alive \subseteq Procs
    /\ spawned \in 0 .. MaxProc
    /\ ask \in [Requests -> Ask]
    /\ task \in [Procs -> Task]
    /\ pending \subseteq Requests
    /\ approvals \subseteq Sessions \X {ActionOf[r] : r \in Requests}
    /\ start \in {"free", "life", "dec"}
    /\ life \in Life
    /\ chat \in Sessions \cup {NoSession}
    /\ dec \in Dec
    /\ trail \subseteq Requests \X {"once", "always"}
    /\ rested \subseteq Sessions

IdleTask == [at |-> "none", req |-> NoRequest, wire |-> <<>>, live |-> FALSE]
IdleLife == [at |-> "idle", session |-> NoSession, wakes |-> FALSE]
IdleDec == [at |-> "idle", req |-> NoRequest, reply |-> "reject"]

Init ==
    /\ mode \in [Sessions -> Modes]
    /\ inner = [proc |-> NoProc, phase |-> "down", session |-> NoSession, mode |-> "read_only"]
    /\ alive = {}
    /\ spawned = 0
    /\ ask = [r \in Requests |-> [at |-> "new", session |-> NoSession, proc |-> NoProc]]
    /\ task = [p \in Procs |-> IdleTask]
    /\ pending = {}
    /\ approvals = {}
    /\ start = "free"
    /\ life = IdleLife
    /\ chat = NoSession
    /\ dec = IdleDec
    /\ trail = {}
    /\ rested = {}

----------------------------------------------------------------------------
(* The agent process (not under src/, modelled from what the code awaits). *)

\* "left": the prompt that asked is over, and the agent does not know.
Waiting(r) == ask[r].at \in {"waiting", "left"}

\* A tool of the prompt under way needs a permission and announces it.
Asks(r) ==
    /\ chat # NoSession
    /\ inner.proc \in alive
    /\ ask[r].at = "new"
    /\ ask' = [ask EXCEPT ![r] = [at |-> "waiting", session |-> chat, proc |-> inner.proc]]
    /\ task' = [task EXCEPT ![inner.proc].wire = Append(@, <<r, "asked">>)]
    /\ UNCHANGED <<mode, inner, alive, spawned, pending, approvals, start, life, chat, dec, log>>

\* The requests of processes `dead` are waited for no longer.
Forgotten(dead) ==
    [r \in Requests |-> IF Waiting(r) /\ ask[r].proc \in dead
                        THEN [ask[r] EXCEPT !.at = "gone"] ELSE ask[r]]

Crash ==
    /\ alive # {}
    /\ alive' = {}
    /\ ask' = Forgotten(alive)
    /\ UNCHANGED <<mode, inner, spawned, task, pending, approvals, start, life, chat, dec, log>>

\* POST /permission/{r}/reply through request_json: only a request the
\* current process waits for can be answered, and the answer is announced.
CanRelay(r) == inner.phase = "ready" /\ inner.proc \in alive
               /\ Waiting(r) /\ ask[r].proc = inner.proc

\* Variant: the operator's reply is relayed as it is.
UpstreamVerbatim(reply) == reply

\* "always" is never sent: newer agents would persist it.
Upstream(reply) == IF reply = "reject" THEN "reject" ELSE "once"

AskAnswered(r, reply) == [ask EXCEPT ![r].at = Upstream(reply)]
WireAnswered(r) == [task EXCEPT ![inner.proc].wire = Append(@, <<r, "replied">>)]

\* The prompt's POST returns: the agent is done with it, or the 15 minutes
\* are over and the abort that follows may or may not reach the agent.
PromptEnds ==
    /\ chat # NoSession
    /\ chat' = NoSession
    /\ ask' \in {Forgotten(alive),
                [r \in Requests |-> IF ask[r].at = "waiting"
                                    THEN [ask[r] EXCEPT !.at = "left"] ELSE ask[r]]}
    /\ UNCHANGED <<mode, inner, alive, spawned, task, pending, approvals, start, life, dec, log>>

----------------------------------------------------------------------------
(* The event-stream task of process p. *)

\* abort() of a task: it ends at the await it is in, but one that is past
\* its last await, about to insert, still may do so.
Aborted(ts, p) ==
    IF p = NoProc THEN ts
    ELSE [ts EXCEPT ![p] = IF @.at = "insert"
                           THEN [@ EXCEPT !.live = FALSE] ELSE IdleTask]

Took(p) == [task EXCEPT ![p].wire = Tail(@)]

\* observe_event finds the row and compares it with inner.session_id; an
\* event of another session is relayed and nothing more.
ObserveAsked(p) ==
    /\ task[p].at = "read" /\ task[p].wire # <<>> /\ Head(task[p].wire)[2] = "asked"
    /\ LET r == Head(task[p].wire)[1] IN
       task' = IF ask[r].session = inner.session
               THEN [Took(p) EXCEPT ![p].at = "asking", ![p].req = r] ELSE Took(p)
    /\ UNCHANGED <<mode, inner, alive, spawned, ask, pending, approvals, start, life, chat, dec, log>>

ObserveReplied(p) ==
    /\ task[p].at = "read" /\ task[p].wire # <<>> /\ Head(task[p].wire)[2] = "replied"
    /\ LET r == Head(task[p].wire)[1] IN
       pending' = IF ask[r].session = inner.session THEN pending \ {r} ELSE pending
    /\ task' = Took(p)
    /\ UNCHANGED <<mode, inner, alive, spawned, ask, approvals, start, life, chat, dec, log>>

\* approval_key, bound to the session.
Grant(r) == <<ask[r].session, ActionOf[r]>>

\* Variant: a grant is not bound to its session.
ChoiceByAction(r) == IF inner.mode = "read_only" THEN "reject"
                     ELSE IF \E g \in approvals : g[2] = ActionOf[r] THEN "once" ELSE "insert"

\* Record "permission.asked", then choose: an automatic reply to a read-only
\* process or under a grant, an entry of `pending` otherwise.
Choice(r) == IF inner.mode = "read_only" THEN "reject"
             ELSE IF Grant(r) \in approvals THEN "once" ELSE "insert"

RecordAsked(p) ==
    /\ task[p].at = "asking"
    /\ task' = [task EXCEPT ![p].at = Choice(task[p].req)]
    /\ UNCHANGED <<mode, inner, alive, spawned, ask, pending, approvals, start, life, chat, dec, log>>

\* Variant: a request too many is dropped.
InsertOrDrop(p) ==
    /\ task[p].at = "insert"
    /\ pending' = IF Cardinality(pending) < MaxPending THEN pending \cup {task[p].req} ELSE pending
    /\ task' = [task EXCEPT ![p] =
          IF @.live THEN [@ EXCEPT !.at = "read", !.req = NoRequest] ELSE IdleTask]
    /\ UNCHANGED <<mode, inner, alive, spawned, ask, approvals, start, life, chat, dec, log>>

\* The 129th ends the stream, and with it the process.
Insert(p) ==
    /\ task[p].at = "insert"
    /\ IF Cardinality(pending) < MaxPending
       THEN /\ pending' = pending \cup {task[p].req}
            /\ task' = [task EXCEPT ![p] =
                  IF @.live THEN [@ EXCEPT !.at = "read", !.req = NoRequest] ELSE IdleTask]
       ELSE /\ task' = [task EXCEPT ![p] =
                  IF @.live THEN [@ EXCEPT !.at = "lost", !.req = NoRequest] ELSE IdleTask]
            /\ UNCHANGED pending
    /\ UNCHANGED <<mode, inner, alive, spawned, ask, approvals, start, life, chat, dec, log>>

\* The abort takes effect after all: `pending` was locked by another.
InsertAborted(p) ==
    /\ task[p].at = "insert" /\ ~task[p].live
    /\ task' = [task EXCEPT ![p] = IdleTask]
    /\ UNCHANGED <<mode, inner, alive, spawned, ask, pending, approvals, start, life, chat, dec, log>>

\* The reply, recorded once the agent has it (a failed record ends the stream).
AutoReply(p) ==
    /\ task[p].at \in {"once", "reject"}
    /\ LET r == task[p].req IN
       /\ CanRelay(r)
       /\ ask' = AskAnswered(r, task[p].at)
       /\ task' = [WireAnswered(r) EXCEPT ![p].at = "read", ![p].req = NoRequest]
    /\ UNCHANGED <<mode, inner, alive, spawned, pending, approvals, start, life, chat, dec, log>>

\* A record or a reply fails, the stream breaks, or the process is gone.
StreamLost(p) ==
    /\ task[p].at \in {"read", "asking", "once", "reject"}
    /\ task' = [task EXCEPT ![p].at = "lost", ![p].req = NoRequest, ![p].wire = <<>>]
    /\ UNCHANGED <<mode, inner, alive, spawned, ask, pending, approvals, start, life, chat, dec, log>>

\* detach_child: the process leaves `inner` and its task is aborted.  The
\* kill follows at once; what matters of its delay is the order of the steps.
Detach(phase) ==
    /\ inner' = [inner EXCEPT !.proc = NoProc, !.phase = phase]
    /\ alive' = {}
    /\ ask' = Forgotten(alive)

\* The task stops the process it belongs to, and only that one.
StreamCleanup(p) ==
    /\ task[p].at = "lost"
    /\ IF inner.proc = p THEN Detach("down") ELSE UNCHANGED <<inner, alive, ask>>
    /\ task' = [task EXCEPT ![p].at = "sync"]
    /\ UNCHANGED <<mode, spawned, pending, approvals, start, life, chat, dec, log>>

----------------------------------------------------------------------------
(* Reconciliation: without a process nothing stays pending or granted. *)

\* A process that is ready, or being started, keeps them.
ClearWhen(phase) == phase = "down"

Cleared ==
    IF ClearWhen(inner.phase) THEN pending' = {} /\ approvals' = {}
    ELSE UNCHANGED <<pending, approvals>>

\* refresh_child_status: the child exited and nobody noticed yet.
Exited == inner.proc # NoProc /\ inner.proc \notin alive

\* (A reconciliation that finds the next process exited is Poll.)
TaskSync(p) ==
    /\ task[p].at = "sync" /\ ~Exited
    /\ Cleared
    /\ task' = [task EXCEPT ![p] = IdleTask]
    /\ UNCHANGED <<mode, inner, alive, spawned, ask, start, life, chat, dec, log>>

\* sync_sessions of a status or session page.
Poll ==
    /\ inner.phase = "down" \/ Exited
    /\ IF Exited THEN inner' = [inner EXCEPT !.proc = NoProc, !.phase = "down"] ELSE UNCHANGED inner
    /\ task' = IF Exited THEN Aborted(task, inner.proc) ELSE task
    /\ pending' = {} /\ approvals' = {}
    /\ UNCHANGED <<mode, alive, spawned, ask, start, life, chat, dec, log>>

----------------------------------------------------------------------------
(* The operations under transition_lock. *)

Reusable(s) == inner.phase = "ready" /\ inner.mode = mode[s]

\* wake, called by a prompt or by start/resume with workspace_lock held.
Wake(s) ==
    /\ life.at = "idle" /\ chat = NoSession
    /\ life' = [at |-> IF inner.session = s THEN "select"
                       ELSE IF Reusable(s) THEN "switch" ELSE "kill",
                session |-> s, wakes |-> TRUE]
    /\ UNCHANGED <<rows, inner, pending, approvals, start, chat, dec, log>>

\* The stop button, and the stop a failed wake ends with.
Stop ==
    /\ life.at = "idle"
    /\ life' = [IdleLife EXCEPT !.at = "kill"]
    /\ UNCHANGED <<rows, inner, pending, approvals, start, chat, dec, log>>

\* stop_inner, under start_lock: detach and kill, then clear approvals, then
\* pending, then reconcile.  The clears are one step: no event task is left
\* that would read either set between them.
StopKill ==
    /\ life.at = "kill" /\ start = "free"
    /\ start' = "life"
    /\ Detach("down")
    /\ task' = Aborted(task, inner.proc)
    /\ life' = [life EXCEPT !.at = "clear"]
    /\ UNCHANGED <<mode, spawned, pending, approvals, chat, dec, log>>

StopClears ==
    /\ life.at = "clear"
    /\ pending' = {} /\ approvals' = {}
    /\ start' = "free"
    /\ life' = IF life.wakes THEN [life EXCEPT !.at = "switch"] ELSE IdleLife
    /\ UNCHANGED <<rows, inner, chat, dec, log>>

\* The reaper detaches a process that is idle, or that fails its health check
\* whatever it is doing.
Reap ==
    /\ life.at = "idle" /\ start = "free" /\ inner.phase = "ready"
    /\ start' = "life"
    /\ Detach("down")
    /\ task' = Aborted(task, inner.proc)
    /\ life' = [IdleLife EXCEPT !.at = "clear"]
    /\ UNCHANGED <<mode, spawned, pending, approvals, chat, dec, log>>

\* Variant: only the requests are dropped.
SwitchKeepsGrants ==
    /\ life.at = "switch"
    /\ pending' = {}
    /\ life' = [life EXCEPT !.at = "select"]
    /\ UNCHANGED <<rows, inner, approvals, start, chat, dec, log>>

\* A wake of another session drops what was pending and granted (one step:
\* no other step tells the two clears apart) ...
SwitchClears ==
    /\ life.at = "switch"
    /\ pending' = {} /\ approvals' = {}
    /\ life' = [life EXCEPT !.at = "select"]
    /\ UNCHANGED <<rows, inner, start, chat, dec, log>>

\* ... and selects it.
Select ==
    /\ life.at = "select"
    /\ inner' = [inner EXCEPT !.session = life.session]
    /\ life' = [life EXCEPT !.at = "start"]
    /\ rested' = rested \ {life.session}
    /\ UNCHANGED <<rows, pending, approvals, start, chat, dec, trail>>

\* start_inner: reuse, or replace what there is.  Reconciling in phase
\* "starting" clears nothing.
StartReuse ==
    /\ life.at = "start" /\ start = "free"
    /\ Reusable(life.session) /\ ~Exited
    /\ life' = [life EXCEPT !.at = "woken"]
    /\ UNCHANGED <<rows, inner, pending, approvals, start, chat, dec, log>>

StartReplace ==
    /\ life.at = "start" /\ start = "free"
    /\ ~Reusable(life.session) \/ Exited
    /\ start' = "life"
    /\ inner' = [inner EXCEPT !.proc = NoProc, !.phase = "starting", !.mode = mode[life.session]]
    /\ alive' = {}
    /\ ask' = Forgotten(alive)
    /\ task' = Aborted(task, inner.proc)
    /\ life' = [life EXCEPT !.at = "spawn"]
    /\ UNCHANGED <<mode, spawned, pending, approvals, chat, dec, log>>

Spawn ==
    /\ life.at = "spawn" /\ spawned < MaxProc
    /\ spawned' = spawned + 1
    /\ alive' = alive \cup {spawned'}
    /\ inner' = [inner EXCEPT !.proc = spawned', !.phase = "ready"]
    /\ task' = [task EXCEPT ![spawned'] = [IdleTask EXCEPT !.at = "read", !.live = TRUE]]
    /\ start' = "free"
    /\ life' = [life EXCEPT !.at = "woken"]
    /\ UNCHANGED <<mode, ask, pending, approvals, chat, dec, log>>

\* A start that fails ends in a stop.
SpawnFails ==
    /\ life.at = "spawn"
    /\ inner' = [inner EXCEPT !.phase = "down"]
    /\ start' = "free"
    /\ life' = [life EXCEPT !.at = "kill", !.wakes = FALSE]
    /\ UNCHANGED <<rows, pending, approvals, chat, dec, log>>

\* The history was read: the prompt is sent, or workspace_lock released.
Woken ==
    /\ life.at = "woken" /\ inner.phase = "ready" /\ inner.proc \in alive
    /\ chat' \in {life.session, NoSession}
    /\ life' = IdleLife
    /\ UNCHANGED <<rows, inner, pending, approvals, start, dec, log>>

WakeFails ==
    /\ life.at = "woken"
    /\ life' = [life EXCEPT !.at = "kill", !.wakes = FALSE]
    /\ UNCHANGED <<rows, inner, pending, approvals, start, chat, dec, log>>

\* Sleep, stop or archive of session s, its process or not.
SessionAction(s) ==
    /\ life.at = "idle" /\ start = "free"
    /\ start' = "life"
    /\ IF inner.session = s
       THEN Detach("down") /\ task' = Aborted(task, inner.proc)
       ELSE UNCHANGED <<inner, alive, ask, task>>
    /\ life' = [at |-> "act", session |-> s, wakes |-> FALSE]
    /\ UNCHANGED <<mode, spawned, pending, approvals, chat, dec, log>>

ActionClears ==
    /\ life.at = "act"
    /\ pending' = {r \in pending : ask[r].session # life.session}
    /\ approvals' = {g \in approvals : g[1] # life.session}
    /\ rested' = rested \cup {life.session}
    /\ start' = "free"
    /\ life' = IdleLife
    /\ UNCHANGED <<rows, inner, chat, dec, trail>>

----------------------------------------------------------------------------
(* permission_decision, under start_lock. *)

\* Only a pending request of the session that has the process, and only an
\* approval session may do more than reject.
Decidable(r, reply) ==
    /\ r \in pending
    /\ ask[r].session = inner.session
    /\ mode[ask[r].session] = "approval" \/ reply = "reject"

\* Variant: start_lock is not taken.
DecideUnlocked(r, reply) ==
    /\ dec.at = "idle"
    /\ Decidable(r, reply)
    /\ dec' = [at |-> "audited", req |-> r, reply |-> reply]
    /\ trail' = IF reply = "reject" THEN trail ELSE trail \cup {<<r, reply>>}
    /\ UNCHANGED <<rows, inner, pending, approvals, start, life, chat, rested>>

\* The checks and the record, which comes before the reply.
Decide(r, reply) ==
    /\ dec.at = "idle" /\ start = "free"
    /\ Decidable(r, reply)
    /\ start' = "dec"
    /\ dec' = [at |-> "audited", req |-> r, reply |-> reply]
    /\ trail' = IF reply = "reject" THEN trail ELSE trail \cup {<<r, reply>>}
    /\ UNCHANGED <<rows, inner, pending, approvals, life, chat, rested>>

DecisionRelayed ==
    /\ dec.at = "audited" /\ CanRelay(dec.req)
    /\ ask' = AskAnswered(dec.req, dec.reply)
    /\ task' = WireAnswered(dec.req)
    /\ dec' = [dec EXCEPT !.at = "relayed"]
    /\ UNCHANGED <<mode, inner, alive, spawned, pending, approvals, start, life, chat, log>>

DecisionDone ==
    /\ dec.at = "relayed"
    /\ approvals' = IF dec.reply = "always" THEN approvals \cup {Grant(dec.req)} ELSE approvals
    /\ pending' = pending \ {dec.req}
    /\ dec' = IdleDec
    /\ start' = "free"
    /\ UNCHANGED <<rows, inner, life, chat, log>>

\* The relay fails, or its answer does not arrive: the entry
\* of `pending` stays.
DecisionFails ==
    /\ dec.at \in {"audited", "relayed"}
    /\ dec' = IdleDec
    /\ start' = "free"
    /\ UNCHANGED <<rows, inner, pending, approvals, life, chat, log>>

----------------------------------------------------------------------------
TaskStep(p) ==
    \/ ObserveAsked(p) \/ ObserveReplied(p) \/ RecordAsked(p) \/ Insert(p)
    \/ AutoReply(p) \/ StreamCleanup(p) \/ TaskSync(p)

LifeStep ==
    \/ StopKill \/ StopClears
    \/ SwitchClears \/ Select
    \/ StartReuse \/ StartReplace \/ Spawn \/ SpawnFails \/ Woken \/ WakeFails
    \/ ActionClears

DecisionStep ==
    DecisionRelayed \/ DecisionDone \/ DecisionFails

Next ==
    \/ \E r \in Requests : Asks(r)
    \/ Crash
    \/ PromptEnds
    \/ \E p \in Procs : TaskStep(p) \/ InsertAborted(p) \/ StreamLost(p)
    \/ Poll
    \/ \E s \in Sessions : Wake(s) \/ SessionAction(s)
    \/ Stop
    \/ Reap
    \/ LifeStep
    \/ \E r \in Requests, reply \in Replies : Decide(r, reply)
    \/ DecisionStep

Spec == Init /\ [][Next]_vars

----------------------------------------------------------------------------
(* Properties *)

Authorised(r) ==
    \/ <<r, "once">> \in trail \/ <<r, "always">> \in trail
    \/ \E q \in Requests : /\ <<q, "always">> \in trail
                           /\ ask[q].session = ask[r].session
                           /\ ActionOf[q] = ActionOf[r]

\* No action is allowed that an operator did not allow: by a recorded decision
\* on the request itself, or by "always" on the same action of the same
\* session; and in a read-only session none is.
OnceIsAuthorised ==
    \A r \in Requests : ask[r].at = "once" =>
        mode[ask[r].session] = "approval" /\ Authorised(r)

\* A session put to rest by stop, sleep or archive has no grant left, also
\* when a decision for it was in flight: its next process starts with none.
RestedHasNoGrant == \A g \in approvals : g[1] \notin rested

\* A switch discards grants (docs/session-manager-audit.md): the session it
\* selects has none left from before, although decisions go on while a wake
\* clears, and one in flight adds its grant after the clearing.
SwitchDropsGrants ==
    [][inner'.session # inner.session =>
        \A g \in approvals : g[1] # inner'.session]_vars

\* A request the agent waits for is never lost on its way to the operators: it
\* is in the stream, with the task, or pending, unless the prompt or the stream
\* is over.  The queue of 128 may not swallow one: the process is stopped.
AskedIsTracked ==
    \A r \in Requests :
        ask[r].at = "waiting" /\ ask[r].proc = inner.proc =>
            LET t == task[inner.proc] IN
            \/ r \in pending
            \/ t.req = r
            \/ \E i \in DOMAIN t.wire : t.wire[i] = <<r, "asked">>
            \/ t.at = "lost"
=============================================================================
