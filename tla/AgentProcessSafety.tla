-------------------------- MODULE AgentProcessSafety --------------------------
(***************************************************************************)
(* The safety invariants of AgentProcess, proved for every value of its    *)
(* constants from one inductive invariant.                                 *)
(***************************************************************************)
EXTENDS AgentProcessProofs

\* The generation tells every child ever spawned from the managed one: this is
\* what the comparison in the event-stream task relies on.
GenerationsTell ==
    \A c \in Children :
        IF c <= spawned
        THEN kid[c].gen <= rt.gen /\ (kid[c].gen = rt.gen => rt.child = c)
        ELSE c \notin alive /\ task[c] = NoTask

ChildKnown ==
    /\ rt.conn = rt.child
    /\ rt.child # NoChild => rt.child <= spawned /\ kid[rt.child].gen = rt.gen

\* start_inner, from its claim of the runtime to the spawn
BeforeSpawn == op.at \in {"sync1", "spawn"} \/ (op.at = "kill" /\ op.next = "sync1")

\* start_inner, from the spawn to the declaration that the process is ready
AfterSpawn == op.at \in {"sync2", "health", "connect", "handle", "ready"}

ClaimHeld ==
    BeforeSpawn =>
        rt.child = NoChild /\ rt.profile = op.profile /\ rt.phase # "ready"

StartupOwnsChild ==
    AfterSpawn =>
        /\ op.mine \in Children
        /\ op.mine <= spawned
        /\ rt.child \in {NoChild, op.mine}
        /\ rt.phase # "ready"
        /\ op.at \in {"sync2", "health", "connect"} => task[op.mine] = NoTask
        /\ op.at \in {"handle", "ready"} /\ rt.child = op.mine =>
             task[op.mine].at \in {"open", "lost"}
        /\ op.at = "ready" /\ rt.child = op.mine => rt.eventTask = op.mine

\* An operation comes back only to labels outside the start-up, or to sync1.
Returns ==
    /\ op.back \in {"idle", "mark", "select"}
    /\ op.at = "kill" => op.next \in {"idle", "stopSync", "reapSync", "sync1", "failed"}

World ==
    /\ GenerationsTell
    /\ ChildKnown
    /\ ChildHasProfile
    /\ ReadyIsObserved
    /\ TaskStopsOnlyItsChild

Startup == ClaimHeld /\ StartupOwnsChild /\ Returns

Safe == World /\ Startup /\ NoStrayChild

IInv == TypeOK /\ Safe

-----------------------------------------------------------------------------
(* What a step does to the runtime and the tasks.  Nearly every step is one *)
(* of two kinds: the child stays, or it is detached.                        *)

Same(r, q) ==
    /\ q.child = r.child /\ q.conn = r.conn /\ q.eventTask = r.eventTask
    /\ q.gen = r.gen /\ q.profile = r.profile
    /\ q.phase = "ready" => r.phase = "ready"

Gone(r, q) ==
    /\ q.child = NoChild /\ q.conn = NoChild
    /\ q.gen \in Nat /\ q.gen > r.gen
    /\ q.phase # "ready"

TasksOnlyAbort ==
    \A c \in Children :
        \/ task'[c] = task[c]
        \/ /\ task[c].at \in {"open", "lost", "syncing"}
           /\ task'[c].at \notin {"killing", "none"}
           /\ task'[c].victim \in {NoChild, task[c].victim}

Calm == Same(rt, rt') /\ task' = task

Lost ==
    /\ Gone(rt, rt') /\ rt'.profile = rt.profile
    /\ rt.child \notin alive
    /\ TasksOnlyAbort

LEMMA AbortedTasksFacts ==
    ASSUME TypeOK, NEW r \in Runtime, NEW t \in TasksAfter(r), NEW d \in Children
    PROVE  \/ t[d] = task[d]
           \/ /\ task[d].at \in {"open", "lost", "syncing"}
              /\ t[d].at \notin {"killing", "none"}
              /\ t[d].victim \in {NoChild, task[d].victim}
<1>0. task \in [Children -> Task] /\ rt.eventTask \in MaybeChild
  BY DEF TypeOK, Runtime, Task
<1>1. CASE rt.eventTask # NoChild /\ r.eventTask = NoChild
  <2>1. rt.eventTask \in Children
    BY <1>0, <1>1, ConstantsAssumption DEF MaybeChild, Children, NoChild
  <2>2. PICK u \in AbortedTask(task[rt.eventTask]) : t = [task EXCEPT ![rt.eventTask] = u]
    BY <1>1 DEF TasksAfter
  <2>3. \/ u = task[rt.eventTask]
        \/ /\ task[rt.eventTask].at \in {"open", "lost", "syncing"}
           /\ u.at \notin {"killing", "none"}
           /\ u.victim \in {NoChild, task[rt.eventTask].victim}
    <3>1. task[rt.eventTask] \in Task
      BY <1>0, <2>1
    <3> QED  BY <2>2, <3>1 DEF AbortedTask, Done, Task
  <2> QED  BY <1>0, <2>1, <2>2, <2>3
<1>2. CASE ~(rt.eventTask # NoChild /\ r.eventTask = NoChild)
  BY <1>2 DEF TasksAfter
<1> QED  BY <1>1, <1>2

LEMMA AbortFacts ==
    ASSUME TypeOK, NEW r \in Runtime, SetRuntime(r)
    PROVE  /\ TasksOnlyAbort
           /\ Same(rt, r) => task' = task
<1>1. TasksOnlyAbort
  BY AbortedTasksFacts DEF SetRuntime, TasksOnlyAbort
<1>2. Same(rt, r) => task' = task
  BY DEF SetRuntime, TasksAfter, Same
<1> QED  BY <1>1, <1>2

LEMMA DetachGone ==
    ASSUME NEW r \in Runtime
    PROVE  /\ Gone(r, Detach(r)) /\ Detach(r).profile = r.profile
           /\ Gone(r, [Detach(r) EXCEPT !.phase = "error"])
           /\ Gone(r, Exited(r)) /\ Exited(r).profile = r.profile
           /\ \A p : /\ Gone(r, [Detach(r) EXCEPT !.phase = "starting", !.profile = p])
                     /\ [Detach(r) EXCEPT !.phase = "starting", !.profile = p].profile = p
BY DEF Runtime, Detach, Exited, Gone

\* refresh_child_status keeps the child, or detaches one that has exited.
LEMMA RefreshFacts ==
    ASSUME TypeOK, NEW r \in Refreshes(rt)
    PROVE  \/ Same(rt, r)
           \/ Gone(rt, r) /\ r.profile = rt.profile /\ rt.child \notin alive
<1>1. rt \in Runtime
  BY DEF TypeOK
<1>2. CASE r = rt \/ r = [rt EXCEPT !.phase = "error"]
  BY <1>1, <1>2 DEF Same, Runtime
<1>3. CASE r = Exited(rt) /\ rt.child \notin alive
  BY <1>1, <1>3, DetachGone
<1> QED  BY <1>2, <1>3 DEF Refreshes

\* A critical section that refreshes the runtime, and may count a request in it.
LEMMA RefreshedCalmOrLost ==
    ASSUME TypeOK, NEW r \in Refreshes(rt), NEW q \in Runtime, SetRuntime(q),
           q = r \/ q = [r EXCEPT !.active = @ + 1]
    PROVE  Calm \/ Lost
<1>1. r \in Runtime /\ rt' = q
  BY RefreshType DEF SetRuntime
<1>2. /\ q.child = r.child /\ q.conn = r.conn /\ q.eventTask = r.eventTask
      /\ q.gen = r.gen /\ q.profile = r.profile /\ q.phase = r.phase
  BY <1>1 DEF Runtime
<1>3. CASE Same(rt, r)
  <2>1. Same(rt, q)
    BY <1>2, <1>3 DEF Same
  <2> QED  BY <1>1, <2>1, AbortFacts DEF Calm
<1>4. CASE Gone(rt, r) /\ r.profile = rt.profile /\ rt.child \notin alive
  <2>1. Gone(rt, q) /\ q.profile = rt.profile
    BY <1>2, <1>4 DEF Gone
  <2> QED  BY <1>1, <1>4, <2>1, AbortFacts DEF Lost
<1> QED  BY <1>3, <1>4, RefreshFacts

LEMMA RefreshStepFacts ==
    ASSUME TypeOK, \E r \in Refreshes(rt) : SetRuntime(r)
    PROVE  Calm \/ Lost
BY RefreshType, RefreshedCalmOrLost

LEMMA RequestFacts ==
    ASSUME TypeOK, NEW s \in Slots
    PROVE  /\ (\E r \in Refreshes(rt) : RequestBegin(s, r) \/ RequestRefused(r)) => Calm \/ Lost
           /\ RequestEnd(s) => Calm
<1>0. rt \in Runtime
  BY DEF TypeOK
<1>1. ASSUME NEW r \in Refreshes(rt), RequestBegin(s, r) \/ RequestRefused(r)
      PROVE  Calm \/ Lost
  <2>1. r \in Runtime /\ r.active + 1 \in Nat
    BY RefreshType DEF Runtime
  <2>2. [r EXCEPT !.active = @ + 1] \in Runtime
    BY <2>1, FieldTypes
  <2> QED  BY <1>1, <2>1, <2>2, RefreshedCalmOrLost DEF RequestBegin, RequestRefused
<1>2. ASSUME RequestEnd(s) PROVE Calm
  BY <1>0, <1>2 DEF RequestEnd, Released, Calm, Same, Runtime
<1> QED  BY <1>1, <1>2

-----------------------------------------------------------------------------
(* What those two kinds of steps keep. *)

LEMMA WorldCalm ==
    ASSUME TypeOK, World, Calm, UNCHANGED <<kid, spawned>>, alive' \subseteq alive
    PROVE  World'
<1>1. GenerationsTell'
  BY DEF World, GenerationsTell, Calm, Same
<1>2. ChildKnown'
  BY DEF World, ChildKnown, Calm, Same
<1>3. ChildHasProfile'
  BY DEF World, ChildHasProfile, Calm, Same
<1>4. ReadyIsObserved'
  BY DEF World, ReadyIsObserved, Calm, Same
<1>5. TaskStopsOnlyItsChild'
  BY DEF World, TaskStopsOnlyItsChild, Calm
<1> QED  BY <1>1, <1>2, <1>3, <1>4, <1>5 DEF World

LEMMA WorldGone ==
    ASSUME TypeOK, World, Gone(rt, rt'), TasksOnlyAbort,
           UNCHANGED <<kid, spawned>>, alive' \subseteq alive
    PROVE  World'
<1>0. /\ rt.gen \in Nat /\ rt'.gen \in Nat /\ rt'.gen > rt.gen
      /\ kid \in [Children -> Kid]
  BY RuntimeParts DEF TypeOK, Gone
<1>1. GenerationsTell'
  <2> SUFFICES ASSUME NEW c \in Children
               PROVE  IF c <= spawned
                      THEN kid[c].gen <= rt'.gen /\ (kid[c].gen = rt'.gen => rt'.child = c)
                      ELSE c \notin alive' /\ task'[c] = NoTask
    BY DEF GenerationsTell
  <2>1. kid[c].gen \in Nat
    BY <1>0 DEF Kid
  <2>2. CASE c <= spawned
    BY <1>0, <2>1, <2>2 DEF World, GenerationsTell
  <2>3. CASE ~(c <= spawned)
    <3>1. task[c] = NoTask /\ c \notin alive
      BY <2>3 DEF World, GenerationsTell
    <3>2. task'[c] = task[c]
      BY <3>1 DEF TasksOnlyAbort, NoTask
    <3> QED  BY <2>3, <3>1, <3>2
  <2> QED  BY <2>2, <2>3
<1>2. ChildKnown' /\ ChildHasProfile' /\ ReadyIsObserved'
  BY DEF Gone, ChildKnown, ChildHasProfile, ReadyIsObserved
<1>3. TaskStopsOnlyItsChild'
  BY DEF World, TaskStopsOnlyItsChild, TasksOnlyAbort
<1> QED  BY <1>1, <1>2, <1>3 DEF World

LEMMA StartupKept ==
    ASSUME TypeOK, Startup, Calm \/ Lost, UNCHANGED <<op, spawned>>
    PROVE  Startup'
<1>1. ClaimHeld'
  BY DEF Startup, ClaimHeld, BeforeSpawn, Calm, Lost, Same, Gone
<1>2. Returns'
  BY DEF Startup, Returns
<1>3. CASE Calm
  <2>1. StartupOwnsChild'
    BY <1>3 DEF Startup, StartupOwnsChild, AfterSpawn, Calm, Same
  <2> QED  BY <1>1, <1>2, <2>1 DEF Startup
<1>4. CASE Lost
  <2> SUFFICES ASSUME AfterSpawn PROVE StartupOwnsChild'
    BY <1>1, <1>2 DEF Startup, StartupOwnsChild, AfterSpawn
  <2>1. op.mine \in Children /\ op.mine <= spawned
    BY DEF Startup, StartupOwnsChild
  <2>2. op.mine # NoChild
    BY <2>1, ChildFacts
  <2>3. task[op.mine] = NoTask => task'[op.mine] = NoTask
    BY <1>4, <2>1 DEF Lost, TasksOnlyAbort, NoTask
  <2>4. op.at \in {"sync2", "health", "connect"} => task[op.mine] = NoTask
    BY DEF Startup, StartupOwnsChild
  <2>5. rt'.child = NoChild /\ rt'.phase # "ready"
    BY <1>4 DEF Lost, Gone
  <2> QED  BY <2>1, <2>2, <2>3, <2>4, <2>5 DEF StartupOwnsChild, AfterSpawn
<1> QED  BY <1>3, <1>4

LEMMA StrayKept ==
    ASSUME NoStrayChild, Calm \/ Lost, UNCHANGED alive, op' = op \/ op.at # "kill"
    PROVE  NoStrayChild'
<1> SUFFICES ASSUME NEW c \in alive,
                    rt.child = c \/ (op.at = "kill" /\ op.victim = c)
                    \/ \E t \in Children : task[t].at = "killing" /\ task[t].victim = c
             PROVE  \/ rt'.child = c
                    \/ op'.at = "kill" /\ op'.victim = c
                    \/ \E t \in Children : task'[t].at = "killing" /\ task'[t].victim = c
  BY DEF NoStrayChild
<1>1. \A t \in Children : task[t].at = "killing" => task'[t] = task[t]
  BY DEF Calm, Lost, TasksOnlyAbort
<1>2. rt.child = c => rt'.child = c
  BY DEF Calm, Lost, Same
<1> QED  BY <1>1, <1>2

\* A step of anybody but the operation.
LEMMA OtherStep ==
    ASSUME IInv, Calm \/ Lost, UNCHANGED <<alive, kid, spawned, op>>
    PROVE  Safe'
<1>1. World'
  BY WorldCalm, WorldGone DEF IInv, Safe, Lost
<1>2. Startup'
  BY StartupKept DEF IInv, Safe
<1>3. NoStrayChild'
  BY StrayKept DEF IInv, Safe
<1> QED  BY <1>1, <1>2, <1>3 DEF Safe

\* A step of the operation, outside the start-up, that takes no child.
LEMMA PlainStep ==
    ASSUME IInv, Calm \/ Lost, UNCHANGED <<alive, kid, spawned>>,
           op.at # "kill", op'.at # "kill", ~BeforeSpawn', ~AfterSpawn',
           op'.back \in {"idle", "mark", "select"}
    PROVE  Safe'
<1>1. World'
  BY WorldCalm, WorldGone DEF IInv, Safe, Lost
<1>2. Startup'
  BY DEF Startup, ClaimHeld, StartupOwnsChild, Returns
<1>3. NoStrayChild'
  BY StrayKept DEF IInv, Safe
<1> QED  BY <1>1, <1>2, <1>3 DEF Safe

\* A step of the operation that detaches the child to kill it.
LEMMA TakeStep ==
    ASSUME IInv, Gone(rt, rt'), TasksOnlyAbort, UNCHANGED <<alive, kid, spawned>>,
           op.at # "kill", op'.at = "kill", rt.child \in alive => op'.victim = rt.child,
           op'.next \in {"idle", "stopSync", "reapSync", "sync1", "failed"},
           op'.next = "sync1" => rt'.profile = op'.profile,
           op'.back = op.back
    PROVE  Safe'
<1>1. World'
  BY WorldGone DEF IInv, Safe
<1>2. Startup'
  BY DEF IInv, Safe, Startup, ClaimHeld, BeforeSpawn, StartupOwnsChild, AfterSpawn, Returns, Gone
<1>3. NoStrayChild'
  <2>1. \A t \in Children : task[t].at = "killing" => task'[t] = task[t]
    BY DEF TasksOnlyAbort
  <2> QED  BY <2>1 DEF IInv, Safe, NoStrayChild
<1> QED  BY <1>1, <1>2, <1>3 DEF Safe

-----------------------------------------------------------------------------
(* One lemma per group of actions. *)

LEMMA OpRefreshFacts ==
    ASSUME TypeOK, NEW l \in OpLabels, OpRefresh(l)
    PROVE  (Calm \/ Lost) /\ op.at = l /\ UNCHANGED <<alive, kid, spawned>>
BY RefreshStepFacts DEF OpRefresh

LEMMA UnchangedIsCalm ==
    ASSUME TypeOK, UNCHANGED <<rt, task>>
    PROVE  Calm
BY DEF TypeOK, Calm, Same

\* op' keeps every field of op but those an operator of AgentProcess names.
LEMMA MoveFacts ==
    ASSUME TypeOK
    PROVE  /\ \A l : Goto(l) => op'.at = l /\ op'.back = op.back /\ op'.mine = op.mine
                                /\ op'.profile = op.profile
           /\ \A c, l : Terminate(c, l) =>
                op'.at = "kill" /\ op'.victim = c /\ op'.next = l /\ op'.back = op.back
                /\ op'.profile = op.profile
           /\ GiveUp => op'.at = "detach" /\ op'.back = "mark"
           /\ \A ok : EndOp(ok) => op'.at = "idle" /\ op'.back = "idle"
           /\ \A k, l, p, s : Begin(k, l, p, s) =>
                op.at = "idle" /\ op'.at = l /\ op'.back = "idle"
<1>0. op \in Operation
  BY DEF TypeOK
<1>1. ASSUME NEW l, Goto(l)
      PROVE  op'.at = l /\ op'.back = op.back /\ op'.mine = op.mine /\ op'.profile = op.profile
  BY <1>0, <1>1 DEF Operation, Goto
<1>2. ASSUME NEW c, NEW l, Terminate(c, l)
      PROVE  /\ op'.at = "kill" /\ op'.victim = c /\ op'.next = l /\ op'.back = op.back
             /\ op'.profile = op.profile
  BY <1>0, <1>2 DEF Operation, Terminate
<1>3. ASSUME GiveUp PROVE op'.at = "detach" /\ op'.back = "mark"
  BY <1>0, <1>3 DEF Operation, GiveUp
<1>4. ASSUME NEW ok, EndOp(ok) PROVE op'.at = "idle" /\ op'.back = "idle"
  BY <1>4 DEF EndOp, NoOp
<1>5. ASSUME NEW k, NEW l, NEW p, NEW s, Begin(k, l, p, s)
      PROVE  op.at = "idle" /\ op'.at = l /\ op'.back = "idle"
  BY <1>5 DEF Begin, NoOp
<1> QED  BY <1>1, <1>2, <1>3, <1>4, <1>5

LEMMA KillSafe ==
    ASSUME IInv, OpKill
    PROVE  Safe'
<1>0. TypeOK /\ World /\ Startup /\ NoStrayChild
  BY DEF IInv, Safe
<1>1. Calm /\ UNCHANGED <<kid, spawned>> /\ alive' = alive \ {op.victim}
  BY <1>0, UnchangedIsCalm DEF OpKill
<1>2. World'
  BY <1>0, <1>1, WorldCalm
<1>4. \/ op'.at = "idle" /\ op'.back = "idle"
      \/ op'.at = op.next /\ op'.back = op.back /\ op'.profile = op.profile
  BY <1>0, MoveFacts DEF OpKill, TypeOK, Operation
<1>5. Startup'
  <2>1. op.next \in {"idle", "stopSync", "reapSync", "sync1", "failed"} /\ op.at = "kill"
    BY <1>0 DEF OpKill, Startup, Returns
  <2>2. Returns' /\ StartupOwnsChild'
    BY <1>0, <1>4, <2>1 DEF Startup, Returns, StartupOwnsChild, AfterSpawn
  <2>3. BeforeSpawn' => BeforeSpawn /\ op'.profile = op.profile
    BY <1>4, <2>1 DEF BeforeSpawn
  <2>4. ClaimHeld'
    BY <1>0, <1>1, <2>3 DEF Startup, ClaimHeld, Calm, Same
  <2> QED  BY <2>2, <2>4 DEF Startup
<1>6. NoStrayChild'
  BY <1>0, <1>1 DEF NoStrayChild, Calm, Same
<1> QED  BY <1>2, <1>5, <1>6 DEF Safe

LEMMA StopSafe ==
    ASSUME IInv,
           OpDetach \/ OpStopSync \/ OpSleepDetach
           \/ OpProbe \/ OpDecideUnhealthy \/ OpDecide \/ OpReapSync
    PROVE  Safe'
<1>0. TypeOK /\ rt \in Runtime /\ op.back \in {"idle", "mark", "select"}
  BY DEF IInv, Safe, Startup, Returns, TypeOK
<1>1. CASE OpDetach
  <2>1. Gone(rt, rt') /\ TasksOnlyAbort
    BY <1>0, <1>1, DetachType, DetachGone, AbortFacts DEF OpDetach, SetRuntime
  <2> QED  BY <1>0, <1>1, <2>1, MoveFacts, TakeStep DEF OpDetach
<1>2. CASE OpStopSync
  <2>1. (Calm \/ Lost) /\ op.at = "stopSync" /\ UNCHANGED <<alive, kid, spawned>>
    BY <1>0, <1>2, OpRefreshFacts, LabelFacts DEF OpStopSync
  <2>2. op'.at \in {"idle", "mark", "select"} /\ op'.back \in {"idle", "mark", "select"}
    BY <1>0, <1>2, MoveFacts DEF OpStopSync
  <2> QED  BY <2>1, <2>2, PlainStep DEF BeforeSpawn, AfterSpawn
<1>3. CASE OpSleepDetach
  <2>1. CASE SetRuntime(Detach(rt)) /\ Terminate(rt.child, "idle")
    <3>1. Gone(rt, rt') /\ TasksOnlyAbort
      BY <1>0, <2>1, DetachType, DetachGone, AbortFacts DEF SetRuntime
    <3> QED  BY <1>0, <1>3, <2>1, <3>1, MoveFacts, TakeStep DEF OpSleepDetach
  <2>2. CASE EndOp(TRUE) /\ UNCHANGED <<rt, task>>
    BY <1>0, <1>3, <2>2, MoveFacts, UnchangedIsCalm, PlainStep
       DEF OpSleepDetach, BeforeSpawn, AfterSpawn
  <2> QED  BY <1>3, <2>1, <2>2 DEF OpSleepDetach
<1>4. CASE OpProbe
  <2>1. op.at = "probe" /\ op'.at \in {"idle", "decide", "decideBad"}
        /\ op'.back \in {"idle", "mark", "select"}
    BY <1>0, <1>4, MoveFacts DEF OpProbe
  <2>2. Calm /\ UNCHANGED <<alive, kid, spawned>>
    BY <1>0, <1>4, UnchangedIsCalm DEF OpProbe
  <2> QED  BY <2>1, <2>2, PlainStep DEF BeforeSpawn, AfterSpawn
<1>5. ASSUME NEW r \in Refreshes(rt), NEW q \in {Detach(r), [Detach(r) EXCEPT !.phase = "error"]},
             op.at \in {"decide", "decideBad"}, SetRuntime(q), Terminate(r.child, "reapSync"),
             UNCHANGED <<alive, kid, spawned>>
      PROVE  Safe'
  <2>1. r \in Runtime /\ q \in Runtime
    BY <1>0, RefreshType, DetachType
  <2>2. TasksOnlyAbort /\ rt' = q
    BY <1>0, <1>5, <2>1, AbortFacts DEF SetRuntime
  <2>3. Gone(r, q)
    BY <2>1, DetachGone
  <2>4. Gone(rt, rt') /\ (rt.child \in alive => r.child = rt.child)
    BY <1>0, <2>1, <2>2, <2>3, RefreshFacts, RuntimeParts DEF Same, Gone
  <2> QED  BY <1>0, <1>5, <2>2, <2>4, MoveFacts, TakeStep
<1>6. CASE OpDecideUnhealthy
  BY <1>5, <1>6 DEF OpDecideUnhealthy
<1>7. CASE OpDecide
  <2>1. CASE \E r \in Refreshes(rt) : SetRuntime(r) /\ Goto("reapSync")
    <3>1. Calm \/ Lost
      BY <1>0, <2>1, RefreshStepFacts
    <3> QED  BY <1>0, <1>7, <2>1, <3>1, MoveFacts, PlainStep DEF OpDecide, BeforeSpawn, AfterSpawn
  <2> QED  BY <1>5, <1>7, <2>1 DEF OpDecide
<1>8. CASE OpReapSync
  <2>1. (Calm \/ Lost) /\ op.at = "reapSync" /\ UNCHANGED <<alive, kid, spawned>>
    BY <1>0, <1>8, OpRefreshFacts, LabelFacts DEF OpReapSync
  <2> QED  BY <1>0, <1>8, <2>1, MoveFacts, PlainStep DEF OpReapSync, BeforeSpawn, AfterSpawn
<1> QED  BY <1>1, <1>2, <1>3, <1>4, <1>6, <1>7, <1>8

\* The start-up moves on, with its child kept or lost meanwhile.
LEMMA StartupMoves ==
    ASSUME IInv, Calm \/ Lost, UNCHANGED <<alive, kid, spawned>>,
           op.at \in {"sync2", "health"}, op'.at \in {"health", "connect"},
           op'.mine = op.mine, op'.back = op.back
    PROVE  Safe'
<1>0. TypeOK /\ World /\ Startup /\ NoStrayChild /\ AfterSpawn
  BY DEF IInv, Safe, AfterSpawn
<1>1. World'
  BY <1>0, WorldCalm, WorldGone DEF Lost
<1>2. op.mine \in Children /\ op.mine <= spawned /\ task[op.mine] = NoTask
      /\ rt.child \in {NoChild, op.mine} /\ rt.phase # "ready"
  BY <1>0 DEF Startup, StartupOwnsChild
<1>3. task'[op.mine] = NoTask /\ rt'.child \in {NoChild, op.mine} /\ rt'.phase # "ready"
  BY <1>2 DEF Calm, Lost, Same, Gone, TasksOnlyAbort, NoTask
<1>4. Startup'
  BY <1>0, <1>2, <1>3 DEF Startup, StartupOwnsChild, ClaimHeld, BeforeSpawn, Returns
<1>5. NoStrayChild'
  BY <1>0, StrayKept
<1> QED  BY <1>1, <1>4, <1>5 DEF Safe

LEMMA ClaimSafe ==
    ASSUME IInv, OpClaim
    PROVE  Safe'
<1>0. TypeOK /\ rt \in Runtime /\ op.back \in {"idle", "mark", "select"}
      /\ op.profile \in Profiles \cup {NoProfile}
  BY DEF IInv, Safe, Startup, Returns, TypeOK, Operation
<1>1. ASSUME NEW r \in Refreshes(rt),
             SetRuntime([Detach(r) EXCEPT !.phase = "starting", !.profile = op.profile]),
             Terminate(r.child, "sync1")
      PROVE  Safe'
  <2> DEFINE q == [Detach(r) EXCEPT !.phase = "starting", !.profile = op.profile]
  <2>1. r \in Runtime /\ Detach(r) \in Runtime
    BY <1>0, RefreshType, DetachType
  <2>2. q \in Runtime
    BY <1>0, <2>1 DEF Runtime, Phases
  <2>3. TasksOnlyAbort /\ rt' = q
    BY <1>0, <1>1, <2>2, AbortFacts DEF SetRuntime
  <2>4. Gone(r, q) /\ q.profile = op.profile
    BY <2>1, DetachGone
  <2>5. Gone(rt, rt') /\ (rt.child \in alive => r.child = rt.child)
    BY <1>0, <2>1, <2>3, <2>4, RefreshFacts, RuntimeParts DEF Same, Gone
  <2> HIDE DEF q
  <2> QED  BY <1>0, <1>1, <2>3, <2>4, <2>5, MoveFacts, TakeStep DEF OpClaim
<1>2. CASE Goto("failed") /\ UNCHANGED <<rt, task>>
  <2>1. op.at = "claim" /\ UNCHANGED <<alive, kid, spawned>>
    BY DEF OpClaim
  <2>2. op'.at = "failed" /\ op'.back = op.back
    BY <1>0, <1>2, MoveFacts
  <2>3. Calm
    BY <1>0, <1>2, UnchangedIsCalm
  <2> QED  BY <1>0, <2>1, <2>2, <2>3, PlainStep DEF BeforeSpawn, AfterSpawn
<1> QED  BY <1>1, <1>2 DEF OpClaim

LEMMA SpawnSafe ==
    ASSUME IInv, OpSpawn
    PROVE  Safe'
<1> DEFINE c == spawned + 1
<1>0. TypeOK /\ World /\ Startup /\ NoStrayChild
  BY DEF IInv, Safe
<1>1. /\ c \in Children /\ spawned \in Nat /\ spawned < c /\ rt.gen \in Nat
      /\ kid \in [Children -> Kid] /\ op \in Operation /\ rt \in Runtime
  BY <1>0, ConstantsAssumption DEF OpSpawn, TypeOK, MaybeChild, Children, Runtime
<1>2. rt.child = NoChild /\ rt.profile = op.profile /\ rt.phase # "ready"
  BY <1>0 DEF OpSpawn, Startup, ClaimHeld, BeforeSpawn
<1>3. /\ rt'.gen = rt.gen + 1 /\ rt'.child = c /\ rt'.conn = c
      /\ rt'.phase = rt.phase /\ rt'.profile = rt.profile
  BY <1>1 DEF OpSpawn, Runtime
<1>4. /\ spawned' = c /\ alive' = alive \cup {c} /\ task' = task
      /\ kid' = [kid EXCEPT ![c] = [gen |-> rt.gen + 1, profile |-> op.profile]]
      /\ op'.at = "sync2" /\ op'.mine = c /\ op'.back = op.back
  BY <1>1 DEF OpSpawn, Runtime, Operation
<1>5. c \notin alive /\ task[c] = NoTask
  BY <1>0, <1>1 DEF World, GenerationsTell
<1>6. GenerationsTell'
  <2> SUFFICES ASSUME NEW d \in Children
               PROVE  IF d <= c
                      THEN kid'[d].gen <= rt'.gen /\ (kid'[d].gen = rt'.gen => rt'.child = d)
                      ELSE d \notin alive' /\ task'[d] = NoTask
    BY <1>4 DEF GenerationsTell
  <2>0. d \in Nat /\ kid[d].gen \in Nat
    BY <1>1 DEF Children, Kid
  <2>1. CASE d = c
    BY <1>1, <1>3, <1>4, <2>1
  <2>2. CASE d <= c /\ d # c
    <3>1. d <= spawned /\ kid'[d] = kid[d]
      BY <1>1, <1>4, <2>0, <2>2
    <3>2. kid[d].gen <= rt.gen
      BY <1>0, <3>1 DEF World, GenerationsTell
    <3> QED  BY <1>1, <1>3, <2>0, <2>2, <3>1, <3>2
  <2>3. CASE ~(d <= c)
    <3>1. ~(d <= spawned) /\ d # c
      BY <1>1, <2>0, <2>3
    <3> QED  BY <1>0, <1>4, <2>3, <3>1 DEF World, GenerationsTell
  <2> QED  BY <2>1, <2>2, <2>3
<1>7. ChildKnown' /\ ChildHasProfile' /\ ReadyIsObserved'
  BY <1>1, <1>2, <1>3, <1>4 DEF ChildKnown, ChildHasProfile, ReadyIsObserved
<1>8. TaskStopsOnlyItsChild'
  BY <1>0, <1>4 DEF World, TaskStopsOnlyItsChild
<1>9. Startup'
  BY <1>0, <1>1, <1>2, <1>3, <1>4, <1>5
     DEF Startup, ClaimHeld, BeforeSpawn, StartupOwnsChild, Returns
<1>10. NoStrayChild'
  <2>1. op.at # "kill"
    BY DEF OpSpawn
  <2>2. ASSUME NEW d \in alive'
        PROVE  \/ rt'.child = d
               \/ \E t \in Children : task'[t].at = "killing" /\ task'[t].victim = d
    <3>1. CASE d = c
      BY <1>3, <3>1
    <3>2. CASE d \in alive
      <4>1. d # NoChild
        BY <1>0, <3>2, ChildFacts DEF TypeOK
      <4> QED  BY <1>0, <1>2, <1>4, <2>1, <3>2, <4>1 DEF NoStrayChild
    <3> QED  BY <1>4, <3>1, <3>2
  <2> QED  BY <2>2 DEF NoStrayChild
<1> QED  BY <1>6, <1>7, <1>8, <1>9, <1>10 DEF Safe, World

LEMMA ConnectSafe ==
    ASSUME IInv, OpConnect
    PROVE  Safe'
<1>0. TypeOK /\ World /\ Startup /\ NoStrayChild /\ AfterSpawn
  BY DEF IInv, Safe, AfterSpawn, OpConnect
<1>1. /\ op.mine \in Children /\ op.mine <= spawned /\ task[op.mine] = NoTask
      /\ rt.child \in {NoChild, op.mine} /\ rt.phase # "ready" /\ op.at = "connect"
  BY <1>0 DEF Startup, StartupOwnsChild, OpConnect
<1>2. /\ task' = [task EXCEPT ![op.mine].at = "open"]
      /\ UNCHANGED <<rt, alive, kid, spawned>>
      /\ op'.at = "handle" /\ op'.mine = op.mine /\ op'.back = op.back
  BY <1>0, MoveFacts DEF OpConnect
<1>3. task \in [Children -> Task] /\ task'[op.mine].at = "open" /\ task'[op.mine].victim = NoChild
      /\ \A c \in Children : c # op.mine => task'[c] = task[c]
  BY <1>0, <1>1, <1>2 DEF TypeOK, Task, NoTask
<1>4. GenerationsTell'
  <2>1. ASSUME NEW c \in Children, ~(c <= spawned)
        PROVE  c \notin alive /\ task'[c] = NoTask
    BY <1>0, <1>1, <1>3, <2>1 DEF World, GenerationsTell
  <2>2. \A c \in Children :
          c <= spawned => kid[c].gen <= rt.gen /\ (kid[c].gen = rt.gen => rt.child = c)
    BY <1>0 DEF World, GenerationsTell
  <2> QED  BY <1>2, <2>1, <2>2 DEF GenerationsTell
<1>5. ChildKnown' /\ ChildHasProfile' /\ ReadyIsObserved'
  BY <1>0, <1>1, <1>2 DEF World, ChildKnown, ChildHasProfile, ReadyIsObserved
<1>6. TaskStopsOnlyItsChild'
  BY <1>0, <1>3 DEF World, TaskStopsOnlyItsChild
<1>7. Startup'
  BY <1>0, <1>1, <1>2, <1>3 DEF Startup, ClaimHeld, BeforeSpawn, StartupOwnsChild, Returns
<1>8. NoStrayChild'
  <2>1. task[op.mine].at # "killing"
    BY <1>1 DEF NoTask
  <2>2. \A t \in Children : task[t].at = "killing" => task'[t] = task[t]
    BY <1>3, <2>1
  <2>3. op.at # "kill" /\ UNCHANGED <<rt, alive>> /\ NoStrayChild
    BY <1>0, <1>1, <1>2
  <2> QED  BY <2>2, <2>3 DEF NoStrayChild
<1> QED  BY <1>4, <1>5, <1>6, <1>7, <1>8 DEF Safe, World

\* The handle is stored; whether the task still runs is checked by the next step.
LEMMA HandleSafe ==
    ASSUME IInv, OpHandle
    PROVE  Safe'
<1>0. TypeOK /\ World /\ Startup /\ NoStrayChild /\ AfterSpawn /\ rt \in Runtime
  BY DEF IInv, Safe, AfterSpawn, OpHandle, TypeOK
<1>1. /\ op.mine \in Children /\ op.mine <= spawned /\ op.at = "handle"
      /\ rt.child \in {NoChild, op.mine} /\ rt.phase # "ready"
      /\ rt.child = op.mine => task[op.mine].at \in {"open", "lost"}
  BY <1>0 DEF Startup, StartupOwnsChild, OpHandle
<1>2. /\ UNCHANGED <<alive, kid, spawned, task>>
      /\ op'.at = "ready" /\ op'.mine = op.mine /\ op'.back = op.back
      /\ rt'.eventTask = op.mine
      /\ rt'.child = rt.child /\ rt'.conn = rt.conn /\ rt'.gen = rt.gen
      /\ rt'.phase = rt.phase /\ rt'.profile = rt.profile
  BY <1>0, MoveFacts DEF OpHandle, Runtime
<1>3. World'
  BY <1>0, <1>1, <1>2
     DEF World, GenerationsTell, ChildKnown, ChildHasProfile, ReadyIsObserved, TaskStopsOnlyItsChild
<1>4. Startup'
  BY <1>0, <1>1, <1>2 DEF Startup, ClaimHeld, BeforeSpawn, StartupOwnsChild, Returns
<1>5. NoStrayChild'
  BY <1>0, <1>1, <1>2 DEF NoStrayChild
<1> QED  BY <1>3, <1>4, <1>5 DEF Safe

LEMMA ReadySafe ==
    ASSUME IInv, OpReady
    PROVE  Safe'
<1>0. TypeOK /\ World /\ Startup /\ NoStrayChild /\ AfterSpawn /\ rt \in Runtime
  BY DEF IInv, Safe, AfterSpawn, OpReady, TypeOK
<1>1. /\ op.mine \in Children /\ op.at = "ready"
      /\ rt.child = op.mine => task[op.mine].at \in {"open", "lost"} /\ rt.eventTask = op.mine
  BY <1>0 DEF Startup, StartupOwnsChild, OpReady
<1>2. CASE rt.child = op.mine
  <2>1. /\ UNCHANGED <<alive, kid, spawned, task>>
        /\ op'.at = "status" /\ op'.back = op.back
        /\ rt'.eventTask = op.mine
        /\ rt'.child = rt.child /\ rt'.conn = rt.conn /\ rt'.gen = rt.gen
        /\ rt'.profile = rt.profile
    BY <1>0, <1>1, <1>2, MoveFacts DEF OpReady, Runtime
  <2>2. World'
    BY <1>0, <1>1, <1>2, <2>1, ChildFacts
       DEF World, GenerationsTell, ChildKnown, ChildHasProfile, ReadyIsObserved, TaskStopsOnlyItsChild
  <2>3. Startup'
    BY <1>0, <2>1 DEF Startup, ClaimHeld, BeforeSpawn, StartupOwnsChild, AfterSpawn, Returns
  <2>4. NoStrayChild'
    BY <1>0, <1>1, <2>1 DEF NoStrayChild
  <2> QED  BY <2>2, <2>3, <2>4 DEF Safe
<1>3. CASE rt.child # op.mine
  <2>1. op'.at = "failed" /\ op'.back = op.back /\ UNCHANGED <<rt, task, alive, kid, spawned>>
    BY <1>0, <1>3, MoveFacts DEF OpReady
  <2>2. op.back \in {"idle", "mark", "select"}
    BY <1>0 DEF Startup, Returns
  <2> QED  BY <1>0, <1>1, <2>1, <2>2, UnchangedIsCalm, PlainStep DEF BeforeSpawn, AfterSpawn
<1> QED  BY <1>2, <1>3

LEMMA StartSafe ==
    ASSUME IInv,
           OpEnter \/ OpStartSync \/ OpSpawnFails \/ OpAbandon
           \/ OpHealthy \/ OpStatus \/ OpStartFailed
    PROVE  Safe'
<1>0. /\ TypeOK /\ rt \in Runtime /\ op.back \in {"idle", "mark", "select"}
      /\ [Detach(rt) EXCEPT !.phase = "error"] \in Runtime
      /\ Gone(rt, [Detach(rt) EXCEPT !.phase = "error"])
  BY DetachType, DetachGone DEF IInv, Safe, Startup, Returns, TypeOK
<1>1. CASE OpEnter
  <2>1. op.at = "enter" /\ UNCHANGED <<alive, kid, spawned>>
    BY <1>1 DEF OpEnter
  <2>2. op'.at \in {"status", "failed", "claim"} /\ op'.back = op.back
    BY <1>0, <1>1, MoveFacts DEF OpEnter
  <2>3. Calm \/ Lost
    BY <1>0, <1>1, RefreshStepFacts, UnchangedIsCalm DEF OpEnter
  <2> QED  BY <1>0, <2>1, <2>2, <2>3, PlainStep DEF BeforeSpawn, AfterSpawn
<1>2. CASE OpRefresh("sync1") /\ (Goto("spawn") \/ Goto("failed"))
  <2>1. op.at = "sync1" /\ UNCHANGED <<alive, kid, spawned>>
    BY <1>2 DEF OpRefresh
  <2>2. rt.child = NoChild /\ rt.profile = op.profile /\ rt.phase # "ready"
    BY <2>1 DEF IInv, Safe, Startup, ClaimHeld, BeforeSpawn
  <2>3. Calm
    BY <1>0, <1>2, <2>2, AbortFacts DEF OpRefresh, Refreshes, SetRuntime, Same, Calm
  <2>4. World'
    BY <1>0, <2>1, <2>3, WorldCalm DEF IInv, Safe
  <2>5. op'.at \in {"spawn", "failed"} /\ op'.back = op.back /\ op'.profile = op.profile
    BY <1>0, <1>2, MoveFacts
  <2>6. Startup'
    BY <1>0, <2>2, <2>3, <2>5
       DEF Startup, ClaimHeld, StartupOwnsChild, AfterSpawn, Returns, Calm, Same
  <2>7. NoStrayChild'
    BY <2>1, <2>3, StrayKept DEF IInv, Safe
  <2> QED  BY <2>4, <2>6, <2>7 DEF Safe
<1>3. CASE OpRefresh("sync2") /\ (Goto("health") \/ Goto("failed"))
  <2>1. (Calm \/ Lost) /\ op.at = "sync2" /\ UNCHANGED <<alive, kid, spawned>>
    BY <1>0, <1>3, OpRefreshFacts, LabelFacts
  <2>2. op'.at \in {"health", "failed"} /\ op'.back = op.back /\ op'.mine = op.mine
    BY <1>0, <1>3, MoveFacts
  <2>3. CASE op'.at = "failed"
    BY <1>0, <2>1, <2>2, <2>3, PlainStep DEF BeforeSpawn, AfterSpawn
  <2> QED  BY <2>1, <2>2, <2>3, StartupMoves
<1>4. CASE OpSpawnFails
  <2>1. op.at = "spawn" /\ UNCHANGED <<alive, kid, spawned>>
    BY <1>4 DEF OpSpawnFails
  <2>2. op'.at = "failed" /\ op'.back = op.back
    BY <1>0, <1>4, MoveFacts DEF OpSpawnFails
  <2>3. Calm
    BY <1>0, <1>4 DEF OpSpawnFails, Calm, Same, Runtime
  <2> QED  BY <1>0, <2>1, <2>2, <2>3, PlainStep DEF BeforeSpawn, AfterSpawn
<1>5. CASE OpAbandon
  <2>1. op.at \in {"health", "connect"} /\ UNCHANGED <<alive, kid, spawned>>
    BY <1>5 DEF OpAbandon
  <2>2. Gone(rt, rt') /\ TasksOnlyAbort
    BY <1>0, <1>5, AbortFacts DEF OpAbandon, SetRuntime
  <2>3. op'.at = "kill" /\ op'.victim = rt.child /\ op'.next = "failed" /\ op'.back = op.back
    BY <1>0, <1>5, MoveFacts DEF OpAbandon
  <2> QED  BY <2>1, <2>2, <2>3, TakeStep
<1>6. CASE OpHealthy
  <2>1. op.at = "health" /\ UNCHANGED <<alive, kid, spawned>> /\ Calm
    BY <1>0, <1>6, UnchangedIsCalm DEF OpHealthy
  <2>2. op'.at = "connect" /\ op'.back = op.back /\ op'.mine = op.mine
    BY <1>0, <1>6, MoveFacts DEF OpHealthy
  <2> QED  BY <2>1, <2>2, StartupMoves
<1>7. CASE OpStatus
  <2>1. (Calm \/ Lost) /\ op.at = "status" /\ UNCHANGED <<alive, kid, spawned>>
    BY <1>0, <1>7, OpRefreshFacts, LabelFacts DEF OpStatus
  <2>2. op'.at \in {"idle", "wakeSync"} /\ op'.back \in {"idle", "mark", "select"}
    BY <1>0, <1>7, MoveFacts DEF OpStatus
  <2> QED  BY <2>1, <2>2, PlainStep DEF BeforeSpawn, AfterSpawn
<1>8. CASE OpStartFailed
  <2>1. op.at = "failed" /\ UNCHANGED <<alive, kid, spawned>>
    BY <1>8 DEF OpStartFailed
  <2>2. CASE rt.phase = "starting"
    <3>1. Gone(rt, rt') /\ TasksOnlyAbort
      BY <1>0, <1>8, <2>2, AbortFacts DEF OpStartFailed, SetRuntime
    <3>2. op'.at = "kill" /\ op'.victim = rt.child /\ op'.next = "idle" /\ op'.back = op.back
      BY <1>0, <1>8, <2>2, MoveFacts DEF OpStartFailed
    <3> QED  BY <2>1, <3>1, <3>2, TakeStep
  <2>3. CASE rt.phase # "starting"
    <3>1. op'.at = "idle" /\ op'.back = "idle" /\ Calm
      BY <1>0, <1>8, <2>3, MoveFacts, UnchangedIsCalm DEF OpStartFailed
    <3> QED  BY <2>1, <3>1, PlainStep DEF BeforeSpawn, AfterSpawn
  <2> QED  BY <2>2, <2>3
<1> QED  BY <1>1, <1>2, <1>3, <1>4, <1>5, <1>6, <1>7, <1>8 DEF OpStartSync

LEMMA WakeSafe ==
    ASSUME IInv,
           OpLook \/ OpSelect \/ OpWakeFailed \/ OpWakeSync \/ OpMark \/ OpMarkSync
           \/ \E h \in Handlers : OpAsk(h) \/ OpAnswer(h)
    PROVE  Safe'
<1>0. TypeOK /\ rt \in Runtime /\ op.back \in {"idle", "mark", "select"} /\ Handlers \subseteq Slots
  BY DEF IInv, Safe, Startup, Returns, TypeOK, Slots
<1>1. ASSUME NEW l \in {"look", "select", "failed", "failedSync", "wakeSync", "mapping",
                         "history", "mark", "markSync"},
             op.at = l, Calm \/ Lost, UNCHANGED <<alive, kid, spawned>>,
             op'.at \in {"idle", "detach", "select", "enter", "failedSync", "mapping",
                         "history", "markSync"},
             op'.back \in {"idle", "mark", "select"}
      PROVE  Safe'
  BY <1>1, PlainStep DEF BeforeSpawn, AfterSpawn
<1>2. CASE OpLook
  <2>1. op' = [op EXCEPT !.at = "select"] \/ op' = [op EXCEPT !.at = "detach", !.back = "select"]
        \/ GiveUp
    BY <1>2 DEF OpLook
  <2>2. op'.at \in {"select", "detach"} /\ op'.back \in {"idle", "mark", "select"}
    BY <1>0, <2>1, MoveFacts DEF TypeOK, Operation
  <2>3. op.at = "look" /\ UNCHANGED <<rt, task, alive, kid, spawned>>
    BY <1>2 DEF OpLook
  <2> QED  BY <1>0, <1>1, <2>2, <2>3, UnchangedIsCalm
<1>3. CASE OpSelect
  <2>1. Calm /\ op.at = "select" /\ UNCHANGED <<alive, kid, spawned>>
    BY <1>0, <1>3 DEF OpSelect, Calm, Same, Runtime
  <2>2. op'.at \in {"enter", "detach"} /\ op'.back \in {"idle", "mark", "select"}
    BY <1>0, <1>3, MoveFacts DEF OpSelect
  <2> QED  BY <1>1, <2>1, <2>2
<1>4. CASE OpWakeFailed
  <2>1. Calm /\ op.at = "failed" /\ UNCHANGED <<alive, kid, spawned>>
    BY <1>0, <1>4 DEF OpWakeFailed, Calm, Same, Runtime
  <2>2. op'.at = "failedSync" /\ op'.back \in {"idle", "mark", "select"}
    BY <1>0, <1>4, MoveFacts DEF OpWakeFailed
  <2> QED  BY <1>1, <2>1, <2>2
<1>5. CASE OpWakeSync
  <2>1. (Calm \/ Lost) /\ op.at \in {"failedSync", "wakeSync"} /\ UNCHANGED <<alive, kid, spawned>>
    BY <1>0, <1>5, OpRefreshFacts, LabelFacts DEF OpWakeSync
  <2>2. op'.at \in {"mapping", "history", "detach"} /\ op'.back \in {"idle", "mark", "select"}
    BY <1>0, <1>5, MoveFacts DEF OpWakeSync
  <2> QED  BY <1>1, <2>1, <2>2
<1>6. CASE OpMark
  <2>1. Calm /\ op.at = "mark" /\ UNCHANGED <<alive, kid, spawned>>
    BY <1>0, <1>6 DEF OpMark, Calm, Same, Runtime
  <2>2. op'.at = "markSync" /\ op'.back \in {"idle", "mark", "select"}
    BY <1>0, <1>6, MoveFacts DEF OpMark
  <2> QED  BY <1>1, <2>1, <2>2
<1>7. CASE OpMarkSync
  <2>1. (Calm \/ Lost) /\ op.at = "markSync" /\ UNCHANGED <<alive, kid, spawned>>
    BY <1>0, <1>7, OpRefreshFacts, LabelFacts DEF OpMarkSync
  <2>2. op'.at = "idle" /\ op'.back \in {"idle", "mark", "select"}
    BY <1>0, <1>7, MoveFacts DEF OpMarkSync
  <2> QED  BY <1>1, <2>1, <2>2
<1>8. ASSUME NEW h \in Handlers, OpAsk(h) PROVE Safe'
  <2>1. op.at \in {"mapping", "history"} /\ UNCHANGED <<alive, kid, spawned>>
    BY <1>8 DEF OpAsk
  <2>2. Calm \/ Lost
    BY <1>0, <1>8, RequestFacts DEF OpAsk
  <2>3. op' = op \/ GiveUp
    BY <1>8 DEF OpAsk
  <2> QED  BY <1>0, <1>1, <2>1, <2>2, <2>3, MoveFacts
<1>9. ASSUME NEW h \in Handlers, OpAnswer(h) PROVE Safe'
  <2>1. op.at \in {"mapping", "history"} /\ UNCHANGED <<alive, kid, spawned>>
    BY <1>9 DEF OpAnswer
  <2>2. Calm
    BY <1>0, <1>9, RequestFacts DEF OpAnswer
  <2>3. op'.at \in {"history", "idle", "detach"} /\ op'.back \in {"idle", "mark", "select"}
    BY <1>0, <1>9, MoveFacts DEF OpAnswer
  <2> QED  BY <1>1, <2>1, <2>2, <2>3
<1> QED  BY <1>2, <1>3, <1>4, <1>5, <1>6, <1>7, <1>8, <1>9

LEMMA HandlerSafe ==
    ASSUME IInv, NEW h \in Handlers,
           \/ HandlerStep(h)
           \/ \E p \in Profiles : StartHandler(h, p)
           \/ \E s \in Sessions :
                HistoryHandler(h, s) \/ \E chat \in BOOLEAN : WakeHandler(h, s, chat)
    PROVE  Safe'
<1>0. TypeOK /\ h \in Slots /\ rt \in Runtime
  BY DEF IInv, TypeOK, Slots
<1>1. CASE HandlerRequest(h) \/ HandlerDone(h)
  <2>1. Calm \/ Lost
    BY <1>0, <1>1, RequestFacts DEF HandlerRequest, HandlerDone
  <2> QED  BY <1>1, <2>1, OtherStep DEF HandlerRequest, HandlerDone
<1>2. CASE StartHandlerClear(h)
  <2>1. Calm
    BY <1>0, <1>2 DEF StartHandlerClear, Calm, Same, Runtime
  <2> QED  BY <1>2, <2>1, OtherStep DEF StartHandlerClear
<1>3. CASE HandlerStopBegin(h) \/ HandlerStartBegin(h) \/ HandlerWakeBegin(h)
  <2>1. UNCHANGED <<rt, task, alive, kid, spawned>>
    BY <1>3 DEF HandlerStopBegin, HandlerStartBegin, HandlerWakeBegin
  <2>2. op.at = "idle" /\ op'.at \in {"detach", "enter", "look"} /\ op'.back = "idle"
    BY <1>0, <1>3, MoveFacts DEF HandlerStopBegin, HandlerStartBegin, HandlerWakeBegin
  <2> QED  BY <1>0, <2>1, <2>2, UnchangedIsCalm, PlainStep DEF BeforeSpawn, AfterSpawn
<1>4. CASE ~HandlerStep(h)
  <2>1. UNCHANGED <<rt, task, alive, kid, spawned, op>>
    BY <1>4 DEF StartHandler, HistoryHandler, WakeHandler
  <2> QED  BY <1>0, <2>1, UnchangedIsCalm, OtherStep
<1> QED  BY <1>1, <1>2, <1>3, <1>4 DEF HandlerStep

LEMMA BeginSafe ==
    ASSUME IInv, StopBegin \/ ReapBegin \/ \E s \in Sessions : SleepBegin(s)
    PROVE  Safe'
<1>1. TypeOK /\ UNCHANGED <<rt, task, alive, kid, spawned>>
  BY DEF IInv, StopBegin, ReapBegin, SleepBegin
<1>2. op.at = "idle" /\ op'.at \in {"detach", "probe", "sleepDetach"} /\ op'.back = "idle"
  BY <1>1, MoveFacts DEF StopBegin, ReapBegin, SleepBegin
<1> QED  BY <1>1, <1>2, UnchangedIsCalm, PlainStep DEF BeforeSpawn, AfterSpawn

LEMMA CallerSafe ==
    ASSUME IInv, NEW s \in Callers, CallerRequest(s) \/ CallerDone(s)
    PROVE  Safe'
<1>1. TypeOK /\ s \in Slots
  BY DEF IInv, Slots
<1>2. Calm \/ Lost
  BY <1>1, RequestFacts DEF CallerRequest, CallerDone
<1> QED  BY <1>2, OtherStep DEF CallerRequest, CallerDone

\* One event-stream task moves on, and the child stays.
LEMMA TaskMoveSafe ==
    ASSUME IInv, Same(rt, rt'), UNCHANGED <<kid, spawned, op>>, alive' \subseteq alive,
           NEW c \in Children, \A d \in Children : d # c => task'[d] = task[d],
           task[c].at # "none", task'[c].victim \in {NoChild, task[c].victim},
           task[c].at \in {"open", "lost"} /\ rt.child = c => task'[c].at \in {"open", "lost"},
           task[c].at = "killing" => task[c].victim \notin alive'
    PROVE  Safe'
<1>0. TypeOK /\ World /\ Startup /\ NoStrayChild
  BY DEF IInv, Safe
<1>1. GenerationsTell'
  <2>1. ASSUME NEW d \in Children, ~(d <= spawned) PROVE d \notin alive' /\ task'[d] = NoTask
    BY <1>0, <2>1 DEF World, GenerationsTell, NoTask
  <2>2. \A d \in Children :
          d <= spawned => kid[d].gen <= rt.gen /\ (kid[d].gen = rt.gen => rt.child = d)
    BY <1>0 DEF World, GenerationsTell
  <2>3. rt'.gen = rt.gen /\ rt'.child = rt.child
    BY DEF Same
  <2> QED  BY <2>1, <2>2, <2>3 DEF GenerationsTell
<1>2. ChildKnown' /\ ChildHasProfile'
  BY <1>0 DEF World, ChildKnown, ChildHasProfile, Same
<1>3. ReadyIsObserved'
  <2> SUFFICES ASSUME rt'.phase = "ready"
               PROVE  rt'.child # NoChild /\ rt'.conn = rt'.child /\ rt'.eventTask = rt'.child
                      /\ task'[rt'.child].at \in {"open", "lost"}
    BY DEF ReadyIsObserved
  <2>1. /\ rt.child # NoChild /\ rt.conn = rt.child /\ rt.eventTask = rt.child
        /\ task[rt.child].at \in {"open", "lost"}
        /\ rt'.child = rt.child /\ rt'.conn = rt.conn /\ rt'.eventTask = rt.eventTask
    BY <1>0 DEF World, ReadyIsObserved, Same
  <2>2. rt.child \in Children
    BY <1>0, <2>1, ConstantsAssumption DEF TypeOK, Runtime, MaybeChild, Children, NoChild
  <2> QED  BY <2>1, <2>2
<1>4. TaskStopsOnlyItsChild'
  BY <1>0 DEF World, TaskStopsOnlyItsChild
<1>5. Startup'
  <2>1. ClaimHeld' /\ Returns'
    BY <1>0 DEF Startup, ClaimHeld, BeforeSpawn, Returns, Same
  <2> SUFFICES ASSUME AfterSpawn PROVE StartupOwnsChild'
    BY <2>1 DEF Startup, StartupOwnsChild, AfterSpawn
  <2>2. /\ op.mine \in Children /\ op.mine <= spawned
        /\ rt.child \in {NoChild, op.mine} /\ rt.phase # "ready"
        /\ op.at \in {"sync2", "health", "connect"} => task[op.mine] = NoTask
        /\ op.at \in {"handle", "ready"} /\ rt.child = op.mine =>
             task[op.mine].at \in {"open", "lost"}
        /\ op.at = "ready" /\ rt.child = op.mine => rt.eventTask = op.mine
    BY <1>0 DEF Startup, StartupOwnsChild
  <2>3. rt'.child = rt.child /\ rt'.eventTask = rt.eventTask /\ rt'.phase # "ready"
    BY <2>2 DEF Same
  <2>4. task[op.mine] = NoTask => task'[op.mine] = task[op.mine]
    BY <2>2 DEF NoTask
  <2>5. rt.child = op.mine /\ task[op.mine].at \in {"open", "lost"} =>
          task'[op.mine].at \in {"open", "lost"}
    BY <2>2
  <2> QED  BY <2>2, <2>3, <2>4, <2>5 DEF StartupOwnsChild
<1>6. NoStrayChild'
  <2> SUFFICES ASSUME NEW d \in alive'
               PROVE  \/ rt'.child = d
                      \/ op'.at = "kill" /\ op'.victim = d
                      \/ \E t \in Children : task'[t].at = "killing" /\ task'[t].victim = d
    BY DEF NoStrayChild
  <2>1. \/ rt.child = d
        \/ op.at = "kill" /\ op.victim = d
        \/ \E t \in Children : task[t].at = "killing" /\ task[t].victim = d
    BY <1>0 DEF NoStrayChild
  <2>2. \A t \in Children : task[t].at = "killing" /\ task[t].victim = d => task'[t] = task[t]
    OBVIOUS
  <2> QED  BY <2>1, <2>2 DEF Same
<1> QED  BY <1>1, <1>2, <1>3, <1>4, <1>5, <1>6 DEF Safe, World

LEMMA CleanupSafe ==
    ASSUME IInv, NEW c \in Children, TaskCleanup(c)
    PROVE  Safe'
<1>0. /\ TypeOK /\ World /\ Startup /\ NoStrayChild
      /\ rt \in Runtime /\ task \in [Children -> Task] /\ task[c].at = "lost"
      /\ rt.child \in MaybeChild
  BY DEF IInv, Safe, TypeOK, Task, Runtime, TaskCleanup
<1>1. UNCHANGED <<alive, kid, spawned, op>>
  BY DEF TaskCleanup
<1>2. c <= spawned
  BY <1>0 DEF World, GenerationsTell, NoTask
<1>3. CASE rt.gen = kid[c].gen
  <2>1. rt.child = c
    BY <1>0, <1>2, <1>3 DEF World, GenerationsTell
  <2>2. Gone(rt, rt') /\ rt'.profile = rt.profile
    <3>1. rt' = [Detach(rt) EXCEPT !.phase = "error"]
      BY <1>3 DEF TaskCleanup
    <3>2. Detach(rt) \in Runtime /\ Detach(rt).profile = rt.profile
      BY <1>0, DetachType, DetachGone
    <3>3. rt'.profile = rt.profile
      BY <3>1, <3>2 DEF Runtime
    <3> QED  BY <1>0, <3>1, <3>3, DetachGone
  <2>3. /\ task'[c].at = "killing" /\ task'[c].victim = c
        /\ \A d \in Children : d # c => task'[d] = task[d]
    BY <1>0, <1>3, <2>1 DEF TaskCleanup
  <2>4. GenerationsTell'
    <3> SUFFICES ASSUME NEW d \in Children
                 PROVE  IF d <= spawned
                        THEN kid[d].gen <= rt'.gen /\ (kid[d].gen = rt'.gen => rt'.child = d)
                        ELSE d \notin alive /\ task'[d] = NoTask
      BY <1>1 DEF GenerationsTell
    <3>1. kid[d].gen \in Nat /\ rt.gen \in Nat /\ rt'.gen \in Nat /\ rt'.gen > rt.gen
      BY <1>0, <2>2 DEF TypeOK, Kid, Runtime, Gone
    <3>2. CASE d <= spawned
      BY <1>0, <3>1, <3>2 DEF World, GenerationsTell
    <3>3. CASE ~(d <= spawned)
      BY <1>0, <1>2, <2>3, <3>3 DEF World, GenerationsTell
    <3> QED  BY <3>2, <3>3
  <2>5. ChildKnown' /\ ChildHasProfile' /\ ReadyIsObserved'
    BY <2>2 DEF Gone, ChildKnown, ChildHasProfile, ReadyIsObserved
  <2>6. TaskStopsOnlyItsChild'
    BY <1>0, <2>3 DEF World, TaskStopsOnlyItsChild
  <2>7. Startup'
    <3>1. ClaimHeld' /\ Returns'
      BY <1>0, <1>1, <2>2 DEF Startup, ClaimHeld, BeforeSpawn, Returns, Gone
    <3>2. ASSUME AfterSpawn PROVE StartupOwnsChild'
      <4>1. /\ op.mine \in Children /\ op.mine <= spawned
            /\ op.at \in {"sync2", "health", "connect"} => task[op.mine] = NoTask
        BY <1>0, <3>2 DEF Startup, StartupOwnsChild
      <4>2. op.mine # NoChild /\ (task[op.mine] = NoTask => task'[op.mine] = NoTask)
        BY <1>0, <2>3, <4>1, ChildFacts DEF NoTask
      <4>3. rt'.child = NoChild /\ rt'.phase # "ready"
        BY <2>2 DEF Gone
      <4> QED  BY <1>1, <4>1, <4>2, <4>3 DEF StartupOwnsChild
    <3> QED  BY <1>1, <3>1, <3>2 DEF Startup, StartupOwnsChild, AfterSpawn
  <2>8. NoStrayChild'
    <3>1. \A t \in Children : task[t].at = "killing" => task'[t] = task[t]
      BY <1>0, <2>3
    <3> QED  BY <1>0, <1>1, <2>1, <2>3, <3>1 DEF NoStrayChild
  <2> QED  BY <2>4, <2>5, <2>6, <2>7, <2>8 DEF Safe, World
<1>4. CASE rt.gen # kid[c].gen
  <2>1. rt.child # c
    BY <1>0, <1>4, ChildFacts DEF World, ChildKnown
  <2>2. /\ UNCHANGED rt
        /\ task' = [task EXCEPT ![c].at = "syncing"]
    BY <1>4 DEF TaskCleanup
  <2>3. /\ task'[c].victim = task[c].victim
        /\ \A d \in Children : d # c => task'[d] = task[d]
    BY <1>0, <2>2 DEF Task
  <2>4. Same(rt, rt')
    BY <2>2 DEF Same
  <2> QED  BY <1>0, <1>1, <2>1, <2>3, <2>4, TaskMoveSafe
<1> QED  BY <1>3, <1>4

LEMMA TaskSafe ==
    ASSUME IInv, NEW c \in Children, TaskStep(c) \/ TaskLoses(c) \/ ChildDies(c)
    PROVE  Safe'
<1>0. TypeOK /\ rt \in Runtime /\ task \in [Children -> Task]
  BY DEF IInv, TypeOK, Task
<1>1. CASE TaskCleanup(c)
  BY <1>1, CleanupSafe
<1>2. CASE TaskKill(c)
  <2>1. /\ task'[c].victim = NoChild /\ task[c].at = "killing" /\ task[c].victim \notin alive'
        /\ alive' \subseteq alive /\ UNCHANGED <<rt, kid, spawned, op>>
        /\ \A d \in Children : d # c => task'[d] = task[d]
    BY <1>0, <1>2 DEF TaskKill
  <2> QED  BY <2>1, TaskMoveSafe DEF Same
<1>3. CASE TaskSync(c)
  <2>0. PICK r \in Refreshes(rt) :
          rt' = r /\ task' \in {[t EXCEPT ![c] = Done] : t \in TasksAfter(r)}
    BY <1>3 DEF TaskSync
  <2>1. PICK t \in TasksAfter(r) : rt' = r /\ task' = [t EXCEPT ![c] = Done]
    BY <2>0
  <2>2. /\ task[c].at = "syncing" /\ UNCHANGED <<alive, kid, spawned, op>>
        /\ r \in Runtime /\ t \in [Children -> Task]
    BY <1>0, <1>3, <2>1, RefreshType, TasksAfterType DEF TaskSync
  <2>3. /\ task'[c].victim = NoChild /\ task'[c].at = "done"
        /\ \A d \in Children : d # c => task'[d] = t[d]
    BY <2>1, <2>2 DEF Done
  <2>4. CASE Same(rt, r)
    <3>1. t = task
      BY <2>1, <2>4 DEF TasksAfter, Same
    <3> QED  BY <2>1, <2>2, <2>3, <2>4, <3>1, TaskMoveSafe
  <2>5. CASE Gone(rt, r) /\ r.profile = rt.profile /\ rt.child \notin alive
    <3>1. \A d \in Children :
            \/ t[d] = task[d]
            \/ /\ task[d].at \in {"open", "lost", "syncing"}
               /\ t[d].at \notin {"killing", "none"}
               /\ t[d].victim \in {NoChild, task[d].victim}
      BY <1>0, <2>1, <2>2, AbortedTasksFacts
    <3>2. TasksOnlyAbort
      BY <2>2, <2>3, <3>1 DEF TasksOnlyAbort
    <3> QED  BY <2>1, <2>2, <2>5, <3>2, OtherStep DEF Lost
  <2> QED  BY <1>0, <2>4, <2>5, RefreshFacts
<1>4. CASE TaskLoses(c)
  <2>1. /\ task[c].at = "open" /\ task'[c].at = "lost" /\ task'[c].victim = task[c].victim
        /\ UNCHANGED <<rt, alive, kid, spawned, op>>
        /\ \A d \in Children : d # c => task'[d] = task[d]
    BY <1>0, <1>4 DEF TaskLoses, Task
  <2> QED  BY <2>1, TaskMoveSafe DEF Same
<1>5. CASE ChildDies(c)
  <2>1. Calm /\ alive' \subseteq alive /\ UNCHANGED <<rt, task, kid, spawned, op>>
    BY <1>0, <1>5, UnchangedIsCalm DEF ChildDies
  <2>2. World' /\ Startup'
    BY <1>0, <2>1, WorldCalm, StartupKept DEF IInv, Safe
  <2>3. NoStrayChild'
    BY <2>1 DEF IInv, Safe, NoStrayChild
  <2> QED  BY <2>2, <2>3 DEF Safe
<1> QED  BY <1>1, <1>2, <1>3, <1>4, <1>5 DEF TaskStep

-----------------------------------------------------------------------------
LEMMA InitSafe == Init => Safe
<1> SUFFICES ASSUME Init PROVE Safe
  OBVIOUS
<1>1. World
  BY ChildFacts, ConstantsAssumption
     DEF Init, World, GenerationsTell, ChildKnown, ChildHasProfile, ReadyIsObserved,
         TaskStopsOnlyItsChild, NoTask, NoChild, Children
<1>2. Startup /\ NoStrayChild
  BY DEF Init, NoOp, Startup, ClaimHeld, BeforeSpawn, StartupOwnsChild, AfterSpawn, Returns,
         NoStrayChild
<1> QED  BY <1>1, <1>2 DEF Safe

LEMMA IInvInductive == IInv /\ [Next]_vars => IInv'
<1> SUFFICES ASSUME IInv, [Next]_vars PROVE Safe'
  BY NextType DEF IInv
<1>1. CASE OpStep
  BY <1>1, KillSafe, StopSafe, ClaimSafe, SpawnSafe, ConnectSafe, HandleSafe, ReadySafe,
     StartSafe, WakeSafe DEF OpStep
<1>2. CASE StopBegin \/ ReapBegin \/ \E s \in Sessions : SleepBegin(s)
  BY <1>2, BeginSafe
<1>3. CASE \E h \in Handlers :
              \/ HandlerStep(h)
              \/ \E p \in Profiles : StartHandler(h, p)
              \/ \E s \in Sessions :
                   HistoryHandler(h, s) \/ \E chat \in BOOLEAN : WakeHandler(h, s, chat)
  BY <1>3, HandlerSafe
<1>4. CASE \E s \in Callers : CallerRequest(s) \/ CallerDone(s)
  BY <1>4, CallerSafe
<1>5. CASE \E c \in Children : TaskStep(c) \/ TaskLoses(c) \/ ChildDies(c)
  BY <1>5, TaskSafe
<1>6. CASE Poll
  BY <1>6, RefreshStepFacts, OtherStep DEF Poll, IInv
<1>7. CASE UNCHANGED vars
  BY <1>7, UnchangedIsCalm, OtherStep DEF vars, IInv
<1>8. CASE \E d \in Deciders : DecisionDropped(d)
  BY <1>8, UnchangedIsCalm, OtherStep DEF DecisionDropped, IInv
<1> QED  BY <1>1, <1>2, <1>3, <1>4, <1>5, <1>6, <1>7, <1>8 DEF Next

\* The inductive invariant holds in every behaviour: the managed child, its profile,
\* its event-stream task and the operation at work on it always agree.
THEOREM InvariantHolds == Spec => []IInv
<1>1. Init => IInv
  BY InitType, InitSafe DEF IInv
<1>2. IInv /\ [Next]_vars => IInv'
  BY IInvInductive
<1> QED  BY <1>1, <1>2, PTL DEF Spec

\* A process is Ready only with a live-or-failing event stream whose task can be
\* aborted, whatever happened between the health check and the last step of a start.
THEOREM ReadyAlwaysObserved == Spec => []ReadyIsObserved
<1>1. IInv => ReadyIsObserved
  BY DEF IInv, Safe, World
<1> QED  BY <1>1, InvariantHolds, PTL

\* No interleaving of stops, starts, failures and lost streams leaks a process.
THEOREM NoChildLeaks == Spec => []NoStrayChild
<1>1. IInv => NoStrayChild
  BY DEF IInv, Safe
<1> QED  BY <1>1, InvariantHolds, PTL

\* start_inner and wake may reuse a process on the strength of the state's profile.
THEOREM ReuseIsSound == Spec => []ChildHasProfile
<1>1. IInv => ChildHasProfile
  BY DEF IInv, Safe, World
<1> QED  BY <1>1, InvariantHolds, PTL

\* The generation check keeps a late event-stream task from killing a newer process.
THEOREM TaskNeverStopsAnother == Spec => []TaskStopsOnlyItsChild
<1>1. IInv => TaskStopsOnlyItsChild
  BY DEF IInv, Safe, World
<1> QED  BY <1>1, InvariantHolds, PTL
=============================================================================
