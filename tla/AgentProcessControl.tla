-------------------------- MODULE AgentProcessControl --------------------------
(***************************************************************************)
(* The control of AgentProcess, for every value of its constants: which    *)
(* operation can be where, in which phase it finds the runtime, and for    *)
(* which handler it works.  From it follow RestingPhase and the            *)
(* implementation of AgentLifecycle; AgentProcessRequests needs it for the *)
(* requests in flight.                                                     *)
(***************************************************************************)
EXTENDS AgentProcessSafety

WakeLabels ==
    {"look", "select", "failedSync", "wakeSync", "mapping", "history", "mark", "markSync"}
StartLabels ==
    {"enter", "claim", "sync1", "spawn", "sync2", "health", "connect", "handle", "ready",
     "status", "failed"}
ReapLabels == {"probe", "decide", "decideBad", "reapSync"}

\* Where the operation is or, while it kills a child, where it goes on.
Place == IF op.at = "kill" THEN op.next ELSE op.at

\* Each kind of operation keeps to its own labels.
Route ==
    /\ op.at = "idle" => op.kind = "none"
    /\ op.at = "kill" /\ op.next = "idle" => op.kind \in {"start", "sleep"}
    /\ Place \in WakeLabels => op.kind = "wake"
    /\ Place \in StartLabels => op.kind \in {"start", "wake"}
    /\ Place \in ReapLabels => op.kind = "reap"
    /\ Place = "sleepDetach" => op.kind = "sleep"
    /\ Place \in {"detach", "stopSync"} =>
         op.kind = IF op.back = "idle" THEN "stop" ELSE "wake"

\* The phase is "starting" from the claim to the end of a start-up and never without
\* one; a runtime at rest, or in error, holds no process unless waitpid failed.
Phased ==
    /\ op.at \in {"kill", "stopSync", "mark"} => rt.child = NoChild
    /\ BeforeSpawn => rt.phase = "starting"
    /\ rt.phase = "starting" => BeforeSpawn \/ AfterSpawn \/ op.at = "failed"
    /\ rt.phase = "sleeping" => rt.child = NoChild
    /\ rt.phase = "error" /\ ~WaitMayFail /\ rt.child # NoChild =>
         op.at \in {"failedSync", "detach"}
    /\ AfterSpawn => op.mine = spawned
    /\ rt.child = NoChild => rt.active = 0

\* Where a wake has selected its session and not given up.
Chosen ==
    {"enter", "claim", "sync1", "spawn", "sync2", "health", "connect", "handle", "ready",
     "status", "wakeSync", "mapping", "history"}

\* A wake that left the process of another project or mode, for its session was
\* selected already.
Unmatched == op.kind = "wake" /\ rt.profile # op.profile

\* The runtime shows the session and the profile the operation is about; and what a
\* claim replaces is not ready and owes no answer.
Aimed ==
    /\ op.kind = "wake" /\ Place \in Chosen => rt.session = op.session
    /\ AfterSpawn \/ op.at \in {"status", "wakeSync", "mapping", "history"} =>
         rt.profile = op.profile
    /\ op.kind = "start" /\ op.at = "enter" /\ rt.phase = "ready" => rt.profile = op.profile
    /\ op.at = "claim" /\ ~Unmatched => rt.phase # "ready" /\ rt.active = 0

\* workspace_lock is held once.
OneHandler ==
    \A g \in Handlers : \A h \in Handlers :
        g # h => ws[g].at = "free" \/ ws[h].at = "free"

\* An operation of kind start or wake has the handler that called it, and a handler
\* that called one has it.
Engaged ==
    /\ op.kind = "start" => \E h \in Handlers : ws[h].at = "starting"
    /\ op.kind = "wake" => \E h \in Handlers : ws[h].at = "waking"
    /\ \A h \in Handlers :
         /\ ws[h].at = "stopping" => op.kind = "stop"
         /\ ws[h].at = "starting" => op.kind = "start"
         /\ ws[h].at = "waking" =>
              op.kind = "wake" /\ op.session = ws[h].session /\ op.profile = ws[h].profile

\* What a handler knows of the runtime between its operations, until it lets go of
\* workspace_lock: no one else changes session or profile.
HandlerFacts(w) ==
    /\ w.at \in {"wake", "waking", "prompt", "prompting"} => w.profile = ProfileOf[w.session]
    /\ w.at = "start" /\ rt.phase = "ready" => rt.profile = w.profile
    /\ w.at = "clear" => rt.phase # "ready"
    /\ w.at \in {"prompt", "prompting"} => rt.session = w.session
    /\ w.at = "prompt" => rt.profile = w.profile

Turns == OneHandler /\ Engaged /\ \A h \in Handlers : HandlerFacts(ws[h])

Control == Route /\ Phased /\ Aimed /\ Turns

-----------------------------------------------------------------------------
(* What a step does to the runtime, as far as the control is concerned. *)

\* q keeps the child of rt, with at most a failed waitpid recorded.
Stays(q) ==
    /\ q.child = rt.child /\ q.session = rt.session /\ q.profile = rt.profile
    /\ \/ q.phase = rt.phase
       \/ q.phase = "error" /\ WaitMayFail /\ rt.child # NoChild
    /\ rt.phase # "ready" /\ rt.active = 0 => q.active = 0

\* q has let go of a child that exited or whose event stream was lost.
Leaves(q) ==
    /\ rt.child # NoChild
    /\ q.child = NoChild /\ q.session = rt.session /\ q.profile = rt.profile
    /\ q.phase = "error" /\ q.active = 0

\* q is r without its child: an operation has taken it.
Taken(r, q) ==
    /\ q.child = NoChild /\ q.session = r.session /\ q.active = 0

\* The operation goes on, about the same session and profile.
OpKeeps == op'.kind = op.kind /\ op'.profile = op.profile /\ op'.session = op.session

LEMMA DetachedFields ==
    ASSUME NEW r \in Runtime
    PROVE  /\ Taken(r, Detach(r)) /\ Detach(r).phase = "sleeping"
           /\ Detach(r).profile = r.profile
           /\ Taken(r, [Detach(r) EXCEPT !.phase = "error"])
           /\ [Detach(r) EXCEPT !.phase = "error"].phase = "error"
           /\ [Detach(r) EXCEPT !.phase = "error"].profile = r.profile
           /\ \A p : LET q == [Detach(r) EXCEPT !.phase = "starting", !.profile = p]
                     IN  Taken(r, q) /\ q.phase = "starting" /\ q.profile = p
BY DEF Runtime, Detach, Taken

LEMMA RefreshShape ==
    ASSUME TypeOK, NEW r \in Refreshes(rt)
    PROVE  /\ r \in Runtime
           /\ Stays(r) \/ Leaves(r)
           /\ r.phase = "ready" => r = rt
<1>1. rt \in Runtime /\ r \in Runtime
  BY RefreshType DEF TypeOK
<1>2. CASE r = rt
  BY <1>1, <1>2 DEF Stays
<1>3. CASE r = [rt EXCEPT !.phase = "error"] /\ WaitMayFail /\ rt.child # NoChild
  BY <1>1, <1>3 DEF Stays, Runtime
<1>4. CASE r = Exited(rt) /\ rt.child # NoChild
  BY <1>1, <1>4 DEF Leaves, Exited, Detach, Runtime
<1> QED  BY <1>1, <1>2, <1>3, <1>4 DEF Refreshes

LEMMA RefreshedShape ==
    ASSUME TypeOK, \E r \in Refreshes(rt) : SetRuntime(r)
    PROVE  Stays(rt') \/ Leaves(rt')
BY RefreshShape DEF SetRuntime

LEMMA RequestShape ==
    ASSUME TypeOK, NEW s \in Slots
    PROVE  /\ \A r \in Refreshes(rt) :
                RequestBegin(s, r) \/ RequestRefused(r) => Stays(rt') \/ Leaves(rt')
           /\ RequestEnd(s) => Stays(rt')
<1>0. rt \in Runtime
  BY DEF TypeOK
<1>1. ASSUME NEW r \in Refreshes(rt), RequestBegin(s, r) PROVE Stays(rt')
  <2>1. r = rt /\ r.phase = "ready" /\ rt' = [r EXCEPT !.active = @ + 1]
    BY <1>1, RefreshShape DEF RequestBegin, SetRuntime
  <2> QED  BY <1>0, <2>1 DEF Stays, Runtime
<1>2. ASSUME NEW r \in Refreshes(rt), RequestRefused(r) PROVE Stays(rt') \/ Leaves(rt')
  BY <1>2, RefreshShape DEF RequestRefused, SetRuntime
<1>3. ASSUME RequestEnd(s) PROVE Stays(rt')
  BY <1>0, <1>3 DEF RequestEnd, Released, Stays, Runtime
<1> QED  BY <1>1, <1>2, <1>3

LEMMA OpFields ==
    ASSUME TypeOK
    PROVE  /\ \A l : Goto(l) =>
                op'.at = l /\ op'.back = op.back /\ op'.mine = op.mine /\ OpKeeps
           /\ \A c, l : Terminate(c, l) =>
                op'.at = "kill" /\ op'.next = l /\ op'.back = op.back /\ OpKeeps
           /\ GiveUp => op'.at = "detach" /\ op'.back = "mark" /\ OpKeeps
           /\ \A ok : EndOp(ok) => op'.at = "idle" /\ op'.kind = "none"
<1>0. op \in Operation
  BY DEF TypeOK
<1>1. ASSUME NEW l, Goto(l)
      PROVE  op'.at = l /\ op'.back = op.back /\ op'.mine = op.mine /\ OpKeeps
  BY <1>0, <1>1 DEF Operation, Goto, OpKeeps
<1>2. ASSUME NEW c, NEW l, Terminate(c, l)
      PROVE  op'.at = "kill" /\ op'.next = l /\ op'.back = op.back /\ OpKeeps
  BY <1>0, <1>2 DEF Operation, Terminate, OpKeeps
<1>3. ASSUME GiveUp PROVE op'.at = "detach" /\ op'.back = "mark" /\ OpKeeps
  BY <1>0, <1>3 DEF Operation, GiveUp, OpKeeps
<1>4. ASSUME NEW ok, EndOp(ok) PROVE op'.at = "idle" /\ op'.kind = "none"
  BY <1>4 DEF EndOp, NoOp
<1> QED  BY <1>1, <1>2, <1>3, <1>4

-----------------------------------------------------------------------------
LEMMA TurnsKept ==
    ASSUME Turns, OpKeeps, UNCHANGED ws,
           rt'.session = rt.session, rt'.profile = rt.profile,
           rt'.phase = "ready" => rt.phase = "ready"
    PROVE  Turns'
BY DEF Turns, OneHandler, Engaged, HandlerFacts, OpKeeps

LEMMA TurnsOfOperation ==
    ASSUME Turns, OpKeeps, UNCHANGED ws, op.kind \in {"start", "wake"}
    PROVE  Turns'
<1>1. PICK g \in Handlers : ws[g].at \in {"starting", "waking"}
  BY DEF Turns, Engaged
<1>2. \A h \in Handlers : ws[h].at \notin {"start", "clear", "prompt", "prompting"}
  BY <1>1 DEF Turns, OneHandler
<1>3. ASSUME NEW h \in Handlers PROVE HandlerFacts(ws[h])'
  BY <1>2 DEF Turns, HandlerFacts
<1>4. OneHandler' /\ Engaged'
  BY DEF Turns, OneHandler, Engaged, OpKeeps
<1> QED  BY <1>3, <1>4 DEF Turns

LEMMA TurnsEnd ==
    ASSUME Turns, NEW ok \in BOOLEAN, EndOp(ok),
           rt'.session = rt.session, rt'.profile = rt.profile,
           rt'.phase = "ready" => rt.phase = "ready",
           op.kind = "stop" => rt'.phase # "ready",
           ok /\ op.kind = "wake" => rt.session = op.session /\ rt.profile = op.profile
    PROVE  Turns'
<1>0. op'.kind = "none" /\ \A h \in Handlers : ws'[h] = AfterOp(ws[h], ok)
  BY DEF EndOp, NoOp
<1>1. ASSUME NEW h \in Handlers
      PROVE  /\ ws'[h].at # "free" => ws[h].at # "free"
             /\ ws'[h].at \notin {"stopping", "starting", "waking"}
             /\ HandlerFacts(ws[h])'
  <2>1. CASE ws[h].at = "stopping"
    <3>1. op.kind = "stop" /\ ws'[h] = [ws[h] EXCEPT !.at = "clear"]
      BY <1>0, <2>1 DEF Turns, Engaged, AfterOp
    <3>2. ws'[h].at = "clear"
      BY <3>1
    <3> QED  BY <2>1, <3>1, <3>2 DEF HandlerFacts
  <2>2. CASE ws[h].at = "waking"
    <3>1. /\ op.kind = "wake" /\ op.session = ws[h].session /\ op.profile = ws[h].profile
          /\ ws[h].profile = ProfileOf[ws[h].session]
      BY <2>2 DEF Turns, Engaged, HandlerFacts
    <3>2. CASE ws'[h] = Free
      BY <2>2, <3>2 DEF Free, HandlerFacts
    <3>3. CASE ok /\ ws'[h] = [ws[h] EXCEPT !.at = "prompt"]
      BY <2>2, <3>1, <3>3 DEF HandlerFacts
    <3> QED  BY <1>0, <2>2, <3>2, <3>3 DEF AfterOp
  <2>3. CASE ws[h].at = "starting"
    <3>1. ws'[h] = Free
      BY <1>0, <2>3 DEF AfterOp
    <3> QED  BY <2>3, <3>1 DEF Free, HandlerFacts
  <2>4. CASE ws[h].at \notin {"stopping", "waking", "starting"}
    <3>1. ws'[h] = ws[h]
      BY <1>0, <2>4 DEF AfterOp
    <3> QED  BY <2>4, <3>1 DEF Turns, HandlerFacts
  <2> QED  BY <2>1, <2>2, <2>3, <2>4
<1>2. OneHandler' /\ Engaged'
  BY <1>0, <1>1 DEF Turns, OneHandler, Engaged
<1> QED  BY <1>1, <1>2 DEF Turns

\* A step of anybody but the operation and the handlers.
LEMMA OthersKeepPlace ==
    ASSUME IInv, Control, Stays(rt') \/ Leaves(rt'), UNCHANGED <<op, spawned>>
    PROVE  Route' /\ Phased' /\ Aimed'
<1>1. Route'
  BY DEF Control, Route, Place
<1>2. BeforeSpawn => rt.child = NoChild
  BY DEF IInv, Safe, Startup, ClaimHeld
<1>3. Phased'
  <2>1. rt.child = NoChild => rt.phase # "ready"
    BY DEF IInv, Safe, World, ReadyIsObserved
  <2> QED  BY <1>2, <2>1 DEF Control, Phased, Stays, Leaves, BeforeSpawn, AfterSpawn
<1>4. Aimed'
  BY DEF Control, Aimed, Unmatched, Stays, Leaves, AfterSpawn, Place
<1> QED  BY <1>1, <1>3, <1>4

LEMMA OthersKeepControl ==
    ASSUME IInv, Control, Stays(rt') \/ Leaves(rt'), UNCHANGED <<op, spawned, ws>>
    PROVE  Control'
<1>1. Turns'
  BY TurnsKept DEF Control, Stays, Leaves, OpKeeps
<1> QED  BY <1>1, OthersKeepPlace DEF Control

-----------------------------------------------------------------------------
(* One lemma per group of actions. *)

LEMMA KillControl ==
    ASSUME IInv, Control, OpKill
    PROVE  Control'
<1>0. /\ TypeOK /\ op \in Operation /\ op.at = "kill" /\ rt.child = NoChild
      /\ UNCHANGED <<rt, spawned>>
      /\ op.next \in {"idle", "stopSync", "reapSync", "sync1", "failed"}
  BY DEF IInv, Safe, Startup, Returns, TypeOK, Control, Phased, OpKill
<1>1. CASE op.next = "idle"
  <2>1. EndOp(FALSE) /\ op'.at = "idle" /\ op'.kind = "none"
    BY <1>0, <1>1, OpFields DEF OpKill
  <2>2. op.kind \in {"start", "sleep"} /\ rt.phase # "starting"
    BY <1>0, <1>1 DEF Control, Route, Phased, BeforeSpawn, AfterSpawn
  <2>3. Turns'
    BY <1>0, <2>1, <2>2, TurnsEnd DEF Control
  <2>4. Route' /\ Aimed'
    BY <2>1 DEF Route, Aimed, Place, AfterSpawn, WakeLabels, StartLabels, ReapLabels
  <2>5. Phased'
    BY <1>0, <2>1, <2>2 DEF Control, Phased, BeforeSpawn, AfterSpawn
  <2> QED  BY <2>3, <2>4, <2>5 DEF Control
<1>2. CASE op.next # "idle"
  <2>1. op'.at = op.next /\ op'.back = op.back /\ OpKeeps /\ UNCHANGED ws
    BY <1>0, <1>2 DEF OpKill, Operation, OpKeeps
  <2>2. Turns'
    BY <1>0, <2>1, TurnsKept DEF Control
  <2>3. Route'
    BY <1>0, <1>2, <2>1 DEF Control, Route, Place, OpKeeps, WakeLabels, StartLabels, ReapLabels
  <2>4. Phased'
    BY <1>0, <1>2, <2>1 DEF Control, Phased, BeforeSpawn, AfterSpawn
  <2>5. Aimed'
    BY <1>0, <1>2, <2>1 DEF Control, Aimed, Place, AfterSpawn, OpKeeps
  <2> QED  BY <2>2, <2>3, <2>4, <2>5 DEF Control
<1> QED  BY <1>1, <1>2

\* A step of the operation that ends it.
LEMMA EndControl ==
    ASSUME IInv, Control, NEW ok \in BOOLEAN, EndOp(ok), UNCHANGED spawned,
           Stays(rt') \/ Leaves(rt'), op.at # "idle",
           op.at \notin {"failedSync", "detach", "failed"} \/ rt'.child = NoChild,
           rt.phase # "starting",
           op.kind = "stop" => rt'.phase # "ready",
           ok /\ op.kind = "wake" => rt.session = op.session /\ rt.profile = op.profile
    PROVE  Control'
<1>1. op'.at = "idle" /\ op'.kind = "none"
  BY OpFields DEF IInv
<1>2. Turns'
  BY TurnsEnd DEF Control, Stays, Leaves
<1>3. Route' /\ Aimed'
  BY <1>1 DEF Route, Aimed, Place, AfterSpawn, WakeLabels, StartLabels, ReapLabels
<1>4. Phased'
  <2>1. rt.child = NoChild => rt.phase # "ready"
    BY DEF IInv, Safe, World, ReadyIsObserved
  <2> QED  BY <1>1, <2>1 DEF Control, Phased, BeforeSpawn, AfterSpawn, Stays, Leaves
<1> QED  BY <1>2, <1>3, <1>4 DEF Control

\* A step of the operation that takes the child to kill it.
LEMMA TakeControl ==
    ASSUME IInv, Control, UNCHANGED <<spawned, ws>>, OpKeeps,
           op'.at = "kill", op'.next \in {"idle", "stopSync", "reapSync", "failed"},
           op'.back = op.back,
           Taken(rt, rt'), rt'.profile = rt.profile, rt'.phase \in {"sleeping", "error"},
           op'.next = "idle" => op.kind \in {"start", "sleep"},
           op'.next = "reapSync" => op.kind = "reap",
           op'.next = "failed" => op.kind \in {"start", "wake"},
           op'.next = "stopSync" => op.at = "detach"
    PROVE  Control'
<1>1. Turns'
  BY TurnsKept DEF Control, Taken
<1>2. Route'
  BY DEF Control, Route, Place, OpKeeps, WakeLabels, StartLabels, ReapLabels
<1>3. Phased'
  BY DEF Phased, BeforeSpawn, AfterSpawn, Taken
<1>4. Aimed'
  BY DEF Aimed, Place, AfterSpawn, Chosen
<1> QED  BY <1>1, <1>2, <1>3, <1>4 DEF Control

LEMMA StopControl ==
    ASSUME IInv, Control,
           OpDetach \/ OpStopSync \/ OpSleepDetach
           \/ OpProbe \/ OpDecideUnhealthy \/ OpDecide \/ OpReapSync
    PROVE  Control'
<1>0. /\ TypeOK /\ rt \in Runtime /\ op.back \in {"idle", "mark", "select"}
      /\ UNCHANGED spawned
  BY DEF IInv, Safe, Startup, Returns, TypeOK, OpDetach, OpStopSync, OpSleepDetach, OpProbe,
         OpDecideUnhealthy, OpDecide, OpReapSync, OpRefresh
<1>1. CASE OpDetach
  <2>1. Taken(rt, rt') /\ rt'.profile = rt.profile /\ rt'.phase = "sleeping"
    BY <1>0, <1>1, DetachedFields DEF OpDetach, SetRuntime
  <2>2. op'.at = "kill" /\ op'.next = "stopSync" /\ op'.back = op.back /\ OpKeeps
    BY <1>0, <1>1, OpFields DEF OpDetach
  <2> QED  BY <1>0, <1>1, <2>1, <2>2, TakeControl DEF OpDetach
<1>2. CASE OpStopSync
  <2>1. /\ op.at = "stopSync" /\ rt.child = NoChild
        /\ op.kind = IF op.back = "idle" THEN "stop" ELSE "wake"
    BY <1>2 DEF OpStopSync, OpRefresh, Control, Phased, Route, Place
  <2>2. rt' = rt
    BY <1>2, <2>1 DEF OpStopSync, OpRefresh, Refreshes, SetRuntime
  <2>3. rt.phase # "ready" /\ rt.phase # "starting"
    BY <2>1 DEF IInv, Safe, World, ReadyIsObserved, Control, Phased, BeforeSpawn, AfterSpawn
  <2>4. CASE op.back = "idle"
    <3>1. EndOp(TRUE) /\ Stays(rt')
      BY <1>2, <2>2, <2>4 DEF OpStopSync, Stays
    <3> QED  BY <1>0, <2>1, <2>2, <2>3, <2>4, <3>1, EndControl
  <2>5. CASE op.back # "idle"
    <3>1. op'.at = op.back /\ OpKeeps /\ UNCHANGED ws /\ op.kind = "wake"
      BY <1>0, <1>2, <2>1, <2>5, OpFields DEF OpStopSync
    <3>2. Turns'
      BY <2>2, <3>1, TurnsKept DEF Control
    <3>3. Route'
      BY <1>0, <2>5, <3>1 DEF Route, Place, OpKeeps, WakeLabels, StartLabels, ReapLabels
    <3>4. Phased'
      BY <1>0, <2>1, <2>2, <2>3, <2>5, <3>1 DEF Control, Phased, BeforeSpawn, AfterSpawn
    <3>5. Aimed'
      BY <1>0, <2>5, <3>1 DEF Aimed, Place, AfterSpawn, Chosen, OpKeeps
    <3> QED  BY <3>2, <3>3, <3>4, <3>5 DEF Control
  <2> QED  BY <2>4, <2>5
<1>3. CASE OpSleepDetach
  <2>0. op.at = "sleepDetach" /\ op.kind = "sleep" /\ rt.phase # "starting"
    BY <1>3 DEF OpSleepDetach, Control, Route, Place, Phased, BeforeSpawn, AfterSpawn
  <2>1. CASE SetRuntime(Detach(rt)) /\ Terminate(rt.child, "idle") /\ UNCHANGED ws
    <3>1. Taken(rt, rt') /\ rt'.profile = rt.profile /\ rt'.phase = "sleeping"
      BY <1>0, <2>1, DetachedFields DEF SetRuntime
    <3>2. op'.at = "kill" /\ op'.next = "idle" /\ op'.back = op.back /\ OpKeeps
      BY <1>0, <2>1, OpFields
    <3> QED  BY <1>0, <2>0, <2>1, <3>1, <3>2, TakeControl
  <2>2. CASE EndOp(TRUE) /\ UNCHANGED <<rt, task>>
    <3>1. Stays(rt')
      BY <2>2 DEF Stays
    <3> QED  BY <1>0, <2>0, <2>2, <3>1, EndControl
  <2> QED  BY <1>3, <2>1, <2>2 DEF OpSleepDetach
<1>4. CASE OpProbe
  <2>1. /\ op.at = "probe" /\ op.kind = "reap" /\ UNCHANGED <<rt, ws>>
        /\ op'.at \in {"decide", "decideBad"} /\ OpKeeps
    BY <1>0, <1>4, OpFields DEF OpProbe, Control, Route, Place, ReapLabels
  <2>2. Turns'
    BY <2>1, TurnsKept DEF Control
  <2>3. Route'
    BY <2>1 DEF Route, Place, OpKeeps, WakeLabels, StartLabels, ReapLabels
  <2>4. Phased'
    BY <1>0, <2>1 DEF Control, Phased, BeforeSpawn, AfterSpawn
  <2>5. Aimed'
    BY <2>1 DEF Aimed, Place, AfterSpawn, Chosen, OpKeeps
  <2> QED  BY <2>2, <2>3, <2>4, <2>5 DEF Control
<1>5. CASE OpDecideUnhealthy
  <2>0. op.at = "decideBad" /\ op.kind = "reap"
    BY <1>5 DEF OpDecideUnhealthy, Control, Route, Place, ReapLabels
  <2>1. PICK r \in Refreshes(rt) : /\ SetRuntime([Detach(r) EXCEPT !.phase = "error"])
                                   /\ Terminate(r.child, "reapSync")
    BY <1>5 DEF OpDecideUnhealthy
  <2>2. Taken(rt, rt') /\ rt'.profile = rt.profile /\ rt'.phase = "error"
    BY <1>0, <2>1, DetachedFields, RefreshShape DEF SetRuntime, Stays, Leaves, Taken
  <2>3. op'.at = "kill" /\ op'.next = "reapSync" /\ op'.back = op.back /\ OpKeeps
    BY <1>0, <2>1, OpFields
  <2> QED  BY <1>0, <1>5, <2>0, <2>2, <2>3, TakeControl DEF OpDecideUnhealthy
<1>6. CASE OpDecide
  <2>0. op.at = "decide" /\ op.kind = "reap" /\ rt.phase # "starting" /\ UNCHANGED ws
    BY <1>6 DEF OpDecide, Control, Route, Place, ReapLabels, Phased, BeforeSpawn, AfterSpawn
  <2>1. CASE \E r \in Refreshes(rt) : SetRuntime(Detach(r)) /\ Terminate(r.child, "reapSync")
    <3>1. PICK r \in Refreshes(rt) : SetRuntime(Detach(r)) /\ Terminate(r.child, "reapSync")
      BY <2>1
    <3>2. Taken(rt, rt') /\ rt'.profile = rt.profile /\ rt'.phase = "sleeping"
      BY <1>0, <3>1, DetachedFields, RefreshShape DEF SetRuntime, Stays, Leaves, Taken
    <3>3. op'.at = "kill" /\ op'.next = "reapSync" /\ op'.back = op.back /\ OpKeeps
      BY <1>0, <3>1, OpFields
    <3> QED  BY <1>0, <2>0, <3>2, <3>3, TakeControl
  <2>2. CASE \E r \in Refreshes(rt) : SetRuntime(r) /\ Goto("reapSync")
    <3>1. Stays(rt') \/ Leaves(rt')
      BY <1>0, <2>2, RefreshedShape
    <3>2. op'.at = "reapSync" /\ OpKeeps
      BY <1>0, <2>2, OpFields
    <3>3. Turns'
      BY <2>0, <3>1, <3>2, TurnsKept DEF Control, Stays, Leaves
    <3>4. Route'
      BY <2>0, <3>2 DEF Route, Place, OpKeeps, WakeLabels, StartLabels, ReapLabels
    <3>5. Phased'
      <4>1. rt.child = NoChild => rt.phase # "ready"
        BY DEF IInv, Safe, World, ReadyIsObserved
      <4> QED  BY <2>0, <3>1, <3>2, <4>1
                  DEF Control, Phased, BeforeSpawn, AfterSpawn, Stays, Leaves
    <3>6. Aimed'
      BY <2>0, <3>2 DEF Aimed, Place, AfterSpawn, Chosen, OpKeeps
    <3> QED  BY <3>3, <3>4, <3>5, <3>6 DEF Control
  <2> QED  BY <1>6, <2>1, <2>2 DEF OpDecide
<1>7. CASE OpReapSync
  <2>1. /\ op.at = "reapSync" /\ op.kind = "reap" /\ rt.phase # "starting" /\ EndOp(TRUE)
        /\ \E r \in Refreshes(rt) : SetRuntime(r)
    BY <1>7 DEF OpReapSync, OpRefresh, Control, Route, Place, ReapLabels, Phased, BeforeSpawn,
                AfterSpawn
  <2> QED  BY <1>0, <2>1, RefreshedShape, EndControl
<1> QED  BY <1>1, <1>2, <1>3, <1>4, <1>5, <1>6, <1>7

\* start_inner moves on.
LEMMA MoveControl ==
    ASSUME IInv, Control, OpKeeps, UNCHANGED ws,
           op.at \in StartLabels, op'.at \in StartLabels, Phased', Aimed'
    PROVE  Control'
<1>1. op.kind \in {"start", "wake"}
  BY DEF Control, Route, Place, StartLabels
<1>2. Route'
  BY <1>1 DEF Route, Place, OpKeeps, WakeLabels, StartLabels, ReapLabels
<1>3. Turns'
  BY <1>1, TurnsOfOperation DEF Control
<1> QED  BY <1>2, <1>3 DEF Control

LEMMA EnterControl ==
    ASSUME IInv, Control, OpEnter
    PROVE  Control'
<1>0. TypeOK /\ op.at = "enter" /\ UNCHANGED <<spawned, ws>> /\ rt.phase # "starting"
  BY DEF IInv, OpEnter, Control, Phased, BeforeSpawn, AfterSpawn
<1>1. \/ \E r \in Refreshes(rt) :
           /\ SetRuntime(r)
           /\ Goto(IF r.phase = "ready" /\ r.profile = op.profile THEN "status"
                   ELSE IF r.active # 0 THEN "failed" ELSE "claim")
      \/ Goto("failed") /\ UNCHANGED rt
  BY DEF OpEnter
<1>2. /\ OpKeeps
      /\ \/ op'.at = "failed"
         \/ op'.at = "status" /\ rt'.phase = "ready" /\ rt'.profile = op.profile
         \/ /\ op'.at = "claim" /\ rt'.active = 0
            /\ ~(rt'.phase = "ready" /\ rt'.profile = op.profile)
  BY <1>0, <1>1, OpFields DEF SetRuntime
<1>3. Stays(rt') \/ Leaves(rt')
  BY <1>0, <1>1, RefreshedShape DEF Stays
<1>4. Phased'
  <2>1. rt.child = NoChild => rt.phase # "ready"
    BY DEF IInv, Safe, World, ReadyIsObserved
  <2> QED  BY <1>0, <1>2, <1>3, <2>1 DEF Control, Phased, BeforeSpawn, AfterSpawn, Stays, Leaves
<1>5. Aimed'
  <2>1. op.kind = "wake" => rt'.session = op.session
    BY <1>0, <1>3 DEF Control, Aimed, Place, Chosen, Stays, Leaves
  <2>2. op.kind \in {"start", "wake"}
    BY <1>0 DEF Control, Route, Place, StartLabels
  <2>3. op.kind = "start" /\ rt'.phase = "ready" => rt'.profile = op.profile
    BY <1>0, <1>3 DEF Control, Aimed, Stays, Leaves
  <2> QED  BY <1>0, <1>2, <2>1, <2>2, <2>3
              DEF Aimed, Place, Chosen, Unmatched, AfterSpawn, OpKeeps
<1> QED  BY <1>0, <1>2, <1>4, <1>5, MoveControl DEF StartLabels

LEMMA ClaimControl ==
    ASSUME IInv, Control, OpClaim
    PROVE  Control'
<1>0. TypeOK /\ op.at = "claim" /\ UNCHANGED <<spawned, ws>> /\ rt.phase # "starting"
  BY DEF IInv, OpClaim, Control, Phased, BeforeSpawn, AfterSpawn
<1>1. op.kind \in {"start", "wake"} /\ (op.kind = "wake" => rt.session = op.session)
  BY <1>0 DEF Control, Route, Aimed, Place, StartLabels, Chosen
<1>2. CASE Goto("failed") /\ UNCHANGED rt
  <2>1. op'.at = "failed" /\ OpKeeps
    BY <1>0, <1>2, OpFields
  <2>2. Phased'
    BY <1>0, <1>2, <2>1 DEF Control, Phased, BeforeSpawn, AfterSpawn
  <2>3. Aimed'
    BY <2>1 DEF Aimed, Place, Chosen, AfterSpawn
  <2> QED  BY <1>0, <2>1, <2>2, <2>3, MoveControl DEF StartLabels
<1>3. ASSUME NEW r \in Refreshes(rt),
             SetRuntime([Detach(r) EXCEPT !.phase = "starting", !.profile = op.profile]),
             Terminate(r.child, "sync1")
      PROVE  Control'
  <2>1. r \in Runtime /\ r.session = rt.session
    BY <1>0, RefreshShape DEF Stays, Leaves
  <2>2. Taken(rt, rt') /\ rt'.phase = "starting" /\ rt'.profile = op.profile
    BY <1>3, <2>1, DetachedFields DEF SetRuntime, Taken
  <2>3. op'.at = "kill" /\ op'.next = "sync1" /\ OpKeeps
    BY <1>0, <1>3, OpFields
  <2>4. Turns'
    BY <1>0, <1>1, <2>3, TurnsOfOperation DEF Control
  <2>5. Route'
    BY <1>1, <2>3 DEF Route, Place, OpKeeps, WakeLabels, StartLabels, ReapLabels
  <2>6. Phased'
    BY <2>2, <2>3 DEF Phased, BeforeSpawn, AfterSpawn, Taken
  <2>7. Aimed'
    BY <1>1, <2>2, <2>3 DEF Aimed, Place, Chosen, AfterSpawn, OpKeeps, Taken
  <2> QED  BY <2>4, <2>5, <2>6, <2>7 DEF Control
<1> QED  BY <1>2, <1>3 DEF OpClaim

LEMMA SpawnControl ==
    ASSUME IInv, Control, OpSpawn \/ OpSpawnFails
    PROVE  Control'
<1>0. /\ TypeOK /\ rt \in Runtime /\ op \in Operation /\ op.at = "spawn" /\ UNCHANGED ws
      /\ rt.phase = "starting" /\ rt.child = NoChild /\ rt.profile = op.profile
  BY DEF IInv, TypeOK, OpSpawn, OpSpawnFails, Safe, Startup, ClaimHeld, BeforeSpawn, Control, Phased
<1>1. /\ op.kind = "wake" => rt.session = op.session
      /\ rt.active = 0
  BY <1>0 DEF Control, Aimed, Phased, Place, Chosen
<1>2. CASE OpSpawn
  <2>1. /\ spawned' = spawned + 1 /\ rt'.child = spawned' /\ rt'.phase = "starting"
        /\ rt'.profile = op.profile /\ rt'.session = rt.session /\ rt'.active = 0
        /\ op'.at = "sync2" /\ op'.mine = spawned' /\ OpKeeps
    BY <1>0, <1>1, <1>2 DEF OpSpawn, Runtime, Operation, OpKeeps
  <2>2. Phased'
    BY <2>1 DEF Phased, BeforeSpawn, AfterSpawn
  <2>3. Aimed'
    BY <1>1, <2>1 DEF Aimed, Place, AfterSpawn, OpKeeps
  <2> QED  BY <1>0, <2>1, <2>2, <2>3, MoveControl DEF StartLabels
<1>3. CASE OpSpawnFails
  <2>1. /\ rt'.child = NoChild /\ rt'.phase = "error" /\ rt'.active = 0
        /\ op'.at = "failed" /\ OpKeeps
    BY <1>0, <1>1, <1>3, OpFields DEF OpSpawnFails, Runtime
  <2>2. Phased'
    BY <2>1 DEF Phased, BeforeSpawn, AfterSpawn
  <2>3. Aimed'
    BY <2>1 DEF Aimed, Place, Chosen, AfterSpawn
  <2> QED  BY <1>0, <2>1, <2>2, <2>3, MoveControl DEF StartLabels
<1> QED  BY <1>2, <1>3

\* From the spawn to the end of start_inner.
LEMMA StartupControl ==
    ASSUME IInv, Control, OpStartSync \/ OpHealthy \/ OpConnect \/ OpHandle \/ OpReady
    PROVE  Control'
<1>0. /\ TypeOK /\ rt \in Runtime /\ op \in Operation /\ UNCHANGED <<spawned, ws>>
      /\ op.at \in {"sync1", "sync2", "health", "connect", "handle", "ready"}
      /\ Stays(rt') \/ Leaves(rt') \/ OpReady
  <2>1. OpStartSync => Stays(rt') \/ Leaves(rt')
    BY RefreshedShape DEF IInv, OpStartSync, OpRefresh
  <2>2. OpHealthy \/ OpConnect \/ OpHandle => Stays(rt')
    BY DEF IInv, TypeOK, OpHealthy, OpConnect, OpHandle, Stays, Runtime
  <2> QED  BY <2>1, <2>2 DEF IInv, TypeOK, OpStartSync, OpRefresh, OpHealthy, OpConnect, OpHandle,
                            OpReady
<1>1. /\ op.kind = "wake" => rt.session = op.session
      /\ rt.profile = op.profile
      /\ rt.phase # "ready"
      /\ op.at \in {"sync1", "spawn"} => rt.child = NoChild /\ rt.phase = "starting"
      /\ op.at # "sync1" => op.mine = spawned
  BY <1>0 DEF IInv, Safe, Startup, ClaimHeld, StartupOwnsChild, BeforeSpawn, AfterSpawn,
              Control, Aimed, Phased, Place, Chosen
<1>2. ASSUME Stays(rt') \/ Leaves(rt'), OpKeeps,
             \/ op'.at = "failed"
             \/ op.at = "sync1" /\ op'.at = "spawn"
             \/ op.at # "sync1" /\ op'.mine = op.mine
                /\ op'.at \in {"health", "connect", "handle", "ready"}
      PROVE  Control'
  <2>1. Phased'
    BY <1>0, <1>1, <1>2 DEF Control, Phased, BeforeSpawn, AfterSpawn, Stays, Leaves
  <2>2. Aimed'
    BY <1>1, <1>2 DEF Aimed, Place, Chosen, AfterSpawn, OpKeeps, Stays, Leaves
  <2> QED  BY <1>0, <1>2, <2>1, <2>2, MoveControl DEF StartLabels
<1>3. CASE OpStartSync
  BY <1>0, <1>2, <1>3, RefreshedShape, OpFields DEF OpStartSync, OpRefresh
<1>4. CASE OpHealthy \/ OpConnect \/ OpHandle
  <2>1. Stays(rt')
    BY <1>0, <1>4 DEF OpHealthy, OpConnect, OpHandle, Stays, Runtime
  <2> QED  BY <1>0, <1>2, <1>4, <2>1, OpFields DEF OpHealthy, OpConnect, OpHandle
<1>5. CASE OpReady
  <2>1. CASE rt.child = op.mine
    <3>1. /\ rt'.child = rt.child /\ rt'.phase = "ready" /\ rt'.profile = rt.profile
          /\ rt'.session = rt.session /\ op'.at = "status" /\ OpKeeps
      BY <1>0, <1>5, <2>1, OpFields DEF OpReady, Runtime
    <3>2. rt.child # NoChild
      BY <1>0, <1>5, <2>1, ChildFacts
         DEF IInv, Safe, Startup, StartupOwnsChild, AfterSpawn, OpReady
    <3>3. Phased'
      BY <3>1, <3>2 DEF Phased, BeforeSpawn, AfterSpawn
    <3>4. Aimed'
      BY <1>1, <3>1 DEF Aimed, Place, Chosen, AfterSpawn, OpKeeps
    <3> QED  BY <1>0, <3>1, <3>3, <3>4, MoveControl DEF StartLabels
  <2>2. CASE rt.child # op.mine
    <3>1. Stays(rt') /\ op'.at = "failed" /\ OpKeeps
      BY <1>0, <1>5, <2>2, OpFields DEF OpReady, Stays
    <3> QED  BY <1>2, <3>1
  <2> QED  BY <2>1, <2>2
<1> QED  BY <1>3, <1>4, <1>5

\* How start_inner, and start(), end.
LEMMA StartControl ==
    ASSUME IInv, Control, OpAbandon \/ OpStatus \/ OpStartFailed
    PROVE  Control'
<1>0. /\ TypeOK /\ rt \in Runtime /\ UNCHANGED spawned
      /\ [Detach(rt) EXCEPT !.phase = "error"] \in Runtime
  BY DetachType DEF IInv, TypeOK, OpAbandon, OpStatus, OpStartFailed, OpRefresh
<1>1. CASE OpAbandon
  <2>1. op.kind \in {"start", "wake"} /\ UNCHANGED ws
    BY <1>1 DEF OpAbandon, Control, Route, Place, StartLabels
  <2>2. Taken(rt, rt') /\ rt'.profile = rt.profile /\ rt'.phase = "error"
    BY <1>0, <1>1, DetachedFields DEF OpAbandon, SetRuntime
  <2>3. op'.at = "kill" /\ op'.next = "failed" /\ op'.back = op.back /\ OpKeeps
    BY <1>0, <1>1, OpFields DEF OpAbandon
  <2> QED  BY <1>0, <2>1, <2>2, <2>3, TakeControl
<1>2. CASE OpStatus
  <2>0. /\ op.at = "status" /\ op.kind \in {"start", "wake"} /\ rt.phase # "starting"
        /\ op.kind = "wake" => rt.session = op.session
        /\ rt.profile = op.profile
    BY <1>2 DEF OpStatus, OpRefresh, Control, Route, Aimed, Place, StartLabels, Chosen, Phased,
                BeforeSpawn, AfterSpawn
  <2>1. Stays(rt') \/ Leaves(rt')
    BY <1>0, <1>2, RefreshedShape DEF OpStatus, OpRefresh
  <2>2. CASE op.kind = "start"
    BY <1>0, <1>2, <2>0, <2>1, <2>2, EndControl DEF OpStatus
  <2>3. CASE op.kind # "start"
    <3>1. op'.at = "wakeSync" /\ OpKeeps /\ UNCHANGED ws /\ op.kind = "wake"
      BY <1>0, <1>2, <2>0, <2>3, OpFields DEF OpStatus
    <3>2. Turns'
      BY <3>1, TurnsOfOperation DEF Control
    <3>3. Route'
      BY <3>1 DEF Route, Place, OpKeeps, WakeLabels, StartLabels, ReapLabels
    <3>4. Phased'
      <4>1. rt.child = NoChild => rt.phase # "ready"
        BY DEF IInv, Safe, World, ReadyIsObserved
      <4> QED  BY <1>0, <2>0, <2>1, <3>1, <4>1
                  DEF Control, Phased, BeforeSpawn, AfterSpawn, Stays, Leaves
    <3>5. Aimed'
      BY <2>0, <2>1, <3>1 DEF Aimed, Place, Chosen, AfterSpawn, OpKeeps, Stays, Leaves
    <3> QED  BY <3>2, <3>3, <3>4, <3>5 DEF Control
  <2> QED  BY <2>2, <2>3
<1>3. CASE OpStartFailed
  <2>0. op.at = "failed" /\ op.kind = "start"
    BY <1>3 DEF OpStartFailed
  <2>1. CASE rt.phase = "starting"
    <3>0. rt' = [Detach(rt) EXCEPT !.phase = "error"]
      BY <1>3, <2>1 DEF OpStartFailed, SetRuntime
    <3>1. Taken(rt, rt') /\ rt'.profile = rt.profile /\ rt'.phase = "error"
      BY <1>0, <3>0, DetachedFields
    <3>2. op'.at = "kill" /\ op'.next = "idle" /\ op'.back = op.back /\ OpKeeps /\ UNCHANGED ws
      BY <1>0, <1>3, <2>1, OpFields DEF OpStartFailed
    <3> QED  BY <1>0, <2>0, <3>1, <3>2, TakeControl
  <2>2. CASE rt.phase # "starting"
    <3>1. Stays(rt') /\ EndOp(FALSE) /\ rt' = rt
      BY <1>3, <2>2 DEF OpStartFailed, Stays
    <3>2. Turns'
      BY <2>0, <3>1, TurnsEnd DEF Control
    <3>3. op'.at = "idle" /\ op'.kind = "none"
      BY <1>0, <3>1, OpFields
    <3>4. Route' /\ Aimed'
      BY <3>3 DEF Route, Aimed, Place, AfterSpawn, WakeLabels, StartLabels, ReapLabels
    <3>5. Phased'
      BY <1>0, <2>0, <2>2, <3>1, <3>3 DEF Control, Phased, BeforeSpawn, AfterSpawn
    <3> QED  BY <3>2, <3>4, <3>5 DEF Control
  <2> QED  BY <2>1, <2>2
<1> QED  BY <1>1, <1>2, <1>3

\* wake, between two steps of it.
LEMMA WakeMoveControl ==
    ASSUME IInv, Control, OpKeeps, UNCHANGED ws, op.kind = "wake",
           \/ op'.at = "detach" /\ op'.back \in {"mark", "select"}
           \/ op'.at \in {"select", "enter", "failedSync", "mapping", "history", "markSync"},
           Phased', Aimed'
    PROVE  Control'
<1>1. Route'
  BY DEF Route, Place, OpKeeps, WakeLabels, StartLabels, ReapLabels
<1>2. Turns'
  BY TurnsOfOperation DEF Control
<1> QED  BY <1>1, <1>2 DEF Control

\* wake gives up.
LEMMA GiveUpControl ==
    ASSUME IInv, Control, GiveUp, UNCHANGED <<ws, spawned>>, op.kind = "wake",
           op.at \notin {"failed", "kill", "sync1", "spawn"}, ~AfterSpawn,
           Stays(rt') \/ Leaves(rt')
           \/ (rt'.child = rt.child /\ rt'.phase = rt.phase /\ rt'.active = rt.active)
    PROVE  Control'
<1>1. op'.at = "detach" /\ op'.back = "mark" /\ OpKeeps
  BY OpFields DEF IInv
<1>2. Phased'
  <2>1. rt.child = NoChild => rt.phase # "ready"
    BY DEF IInv, Safe, World, ReadyIsObserved
  <2> QED  BY <1>1, <2>1 DEF Control, Phased, BeforeSpawn, AfterSpawn, Stays, Leaves
<1>3. Aimed'
  BY <1>1 DEF Aimed, Place, Chosen, AfterSpawn, OpKeeps
<1> QED  BY <1>1, <1>2, <1>3, WakeMoveControl

LEMMA WakeControl ==
    ASSUME IInv, Control,
           OpLook \/ OpSelect \/ OpWakeFailed \/ OpWakeSync \/ OpMark \/ OpMarkSync
    PROVE  Control'
<1>0. /\ TypeOK /\ rt \in Runtime /\ op \in Operation /\ UNCHANGED spawned
      /\ op.kind = "wake"
      /\ rt.child = NoChild => rt.phase # "ready"
  <2>1. TypeOK /\ UNCHANGED spawned
    BY DEF IInv, OpLook, OpSelect, OpWakeFailed, OpWakeSync, OpMark, OpMarkSync, OpRefresh
  <2>2. op.kind = "wake"
    BY DEF OpLook, OpSelect, OpWakeFailed, OpWakeSync, OpMark, OpMarkSync, OpRefresh, Control,
           Route, Place, WakeLabels
  <2> QED  BY <2>1, <2>2 DEF IInv, TypeOK, Safe, World, ReadyIsObserved
<1>1. CASE OpLook
  <2>1. op.at = "look" /\ UNCHANGED <<rt, ws>> /\ Stays(rt')
    BY <1>1 DEF OpLook, Stays
  <2>2. CASE GiveUp
    BY <1>0, <2>1, <2>2, GiveUpControl DEF AfterSpawn
  <2>3. CASE op' = [op EXCEPT !.at = "select"] \/ op' = [op EXCEPT !.at = "detach", !.back = "select"]
    <3>1. /\ OpKeeps
          /\ op'.at = "select" \/ (op'.at = "detach" /\ op'.back = "select")
      BY <1>0, <2>3 DEF Operation, OpKeeps
    <3>2. Phased'
      BY <1>0, <2>1, <3>1 DEF Control, Phased, BeforeSpawn, AfterSpawn
    <3>3. Aimed'
      BY <3>1 DEF Aimed, Place, Chosen, AfterSpawn
    <3> QED  BY <1>0, <2>1, <3>1, <3>2, <3>3, WakeMoveControl
  <2> QED  BY <1>1, <2>2, <2>3 DEF OpLook
<1>2. CASE OpSelect
  <2>1. op.at = "select" /\ UNCHANGED ws
    BY <1>2 DEF OpSelect
  <2>2. /\ rt'.child = rt.child /\ rt'.phase = rt.phase /\ rt'.active = rt.active
        /\ Goto("enter") => rt'.session = op.session
    <3>1. CASE rt' = [rt EXCEPT !.session = op.session]
      BY <1>0, <3>1 DEF Runtime
    <3>2. CASE GiveUp /\ UNCHANGED rt
      <4>1. op'.at = "detach"
        BY <1>0, <3>2, OpFields
      <4>2. ~Goto("enter")
        BY <1>0, <4>1, OpFields
      <4> QED  BY <3>2, <4>2
    <3> QED  BY <1>2, <3>1, <3>2 DEF OpSelect
  <2>3. CASE GiveUp
    BY <1>0, <2>1, <2>2, <2>3, GiveUpControl DEF AfterSpawn
  <2>4. CASE Goto("enter")
    <3>1. op'.at = "enter" /\ OpKeeps
      BY <1>0, <2>4, OpFields
    <3>2. Phased'
      BY <1>0, <2>1, <2>2, <3>1 DEF Control, Phased, BeforeSpawn, AfterSpawn
    <3>3. Aimed'
      BY <1>0, <2>2, <2>4, <3>1 DEF Aimed, Place, AfterSpawn, OpKeeps
    <3> QED  BY <1>0, <2>1, <3>1, <3>2, <3>3, WakeMoveControl
  <2> QED  BY <1>2, <2>3, <2>4 DEF OpSelect
<1>3. CASE OpWakeFailed
  <2>1. /\ op.at = "failed" /\ rt'.child = rt.child /\ rt'.phase = "error"
        /\ rt'.active = rt.active /\ UNCHANGED ws /\ op'.at = "failedSync" /\ OpKeeps
    BY <1>0, <1>3, OpFields DEF OpWakeFailed, Runtime
  <2>2. Phased'
    BY <2>1 DEF Control, Phased, BeforeSpawn, AfterSpawn
  <2>3. Aimed'
    BY <2>1 DEF Aimed, Place, Chosen, AfterSpawn
  <2> QED  BY <1>0, <2>1, <2>2, <2>3, WakeMoveControl
<1>4. CASE OpWakeSync
  <2>1. /\ op.at \in {"failedSync", "wakeSync"} /\ UNCHANGED ws
        /\ Stays(rt') \/ Leaves(rt')
    BY <1>0, <1>4, RefreshedShape DEF OpWakeSync, OpRefresh
  <2>2. CASE GiveUp
    BY <1>0, <2>1, <2>2, GiveUpControl DEF AfterSpawn
  <2>3. CASE op.at = "wakeSync" /\ (Goto("mapping") \/ Goto("history"))
    <3>1. op'.at \in {"mapping", "history"} /\ OpKeeps
      BY <1>0, <2>3, OpFields
    <3>2. Phased'
      BY <1>0, <2>1, <2>3, <3>1 DEF Control, Phased, BeforeSpawn, AfterSpawn, Stays, Leaves
    <3>3. Aimed'
      BY <1>0, <2>1, <2>3, <3>1 DEF Control, Aimed, Place, Chosen, AfterSpawn, OpKeeps, Stays, Leaves
    <3> QED  BY <1>0, <2>1, <3>1, <3>2, <3>3, WakeMoveControl
  <2> QED  BY <1>4, <2>2, <2>3 DEF OpWakeSync, OpRefresh
<1>5. CASE OpMark
  <2>1. /\ op.at = "mark" /\ rt.child = NoChild /\ rt.active = 0
        /\ rt'.child = NoChild /\ rt'.phase = "error" /\ rt'.active = 0
        /\ UNCHANGED ws /\ op'.at = "markSync" /\ OpKeeps
    BY <1>0, <1>5, OpFields DEF OpMark, Runtime, Control, Phased
  <2>2. Phased'
    BY <2>1 DEF Phased, BeforeSpawn, AfterSpawn
  <2>3. Aimed'
    BY <2>1 DEF Aimed, Place, Chosen, AfterSpawn
  <2> QED  BY <1>0, <2>1, <2>2, <2>3, WakeMoveControl
<1>6. CASE OpMarkSync
  <2>1. /\ op.at = "markSync" /\ EndOp(FALSE) /\ rt.phase # "starting"
        /\ Stays(rt') \/ Leaves(rt')
    BY <1>0, <1>6, RefreshedShape
       DEF OpMarkSync, OpRefresh, Control, Phased, BeforeSpawn, AfterSpawn
  <2> QED  BY <1>0, <2>1, EndControl
<1> QED  BY <1>1, <1>2, <1>3, <1>4, <1>5, <1>6

\* The requests of a wake.
LEMMA AskControl ==
    ASSUME IInv, Control, NEW h \in Handlers, OpAsk(h) \/ OpAnswer(h)
    PROVE  Control'
<1>0. /\ TypeOK /\ h \in Slots /\ UNCHANGED spawned
      /\ op.at \in {"mapping", "history"} /\ op.kind = "wake"
      /\ Stays(rt') \/ Leaves(rt')
      /\ rt.session = op.session /\ rt.profile = op.profile /\ rt.phase # "starting"
      /\ rt.child = NoChild => rt.phase # "ready"
  <2>1. op.at \in {"mapping", "history"} /\ UNCHANGED spawned /\ TypeOK /\ h \in Slots
    BY DEF IInv, OpAsk, OpAnswer, Slots
  <2>2. Stays(rt') \/ Leaves(rt')
    BY <2>1, RequestShape DEF OpAsk, OpAnswer
  <2>3. op.kind = "wake"
    BY <2>1 DEF Control, Route, Place, WakeLabels
  <2>4. rt.session = op.session /\ rt.profile = op.profile /\ rt.phase # "starting"
    BY <2>1, <2>3 DEF Control, Aimed, Place, Chosen, Phased, BeforeSpawn, AfterSpawn
  <2> QED  BY <2>1, <2>2, <2>3, <2>4 DEF IInv, Safe, World, ReadyIsObserved
<1>1. CASE op' = op /\ UNCHANGED ws
  BY <1>0, <1>1, OthersKeepControl
<1>2. CASE GiveUp /\ UNCHANGED ws
  BY <1>0, <1>2, GiveUpControl DEF AfterSpawn
<1>3. CASE EndOp(TRUE)
  BY <1>0, <1>3, EndControl
<1>4. CASE Goto("history") /\ UNCHANGED ws
  <2>1. op'.at = "history" /\ OpKeeps
    BY <1>0, <1>4, OpFields
  <2>2. Phased'
    BY <1>0, <2>1 DEF Control, Phased, BeforeSpawn, AfterSpawn, Stays, Leaves
  <2>3. Aimed'
    BY <1>0, <2>1 DEF Aimed, Place, Chosen, AfterSpawn, OpKeeps, Stays, Leaves
  <2> QED  BY <1>0, <1>4, <2>1, <2>2, <2>3, WakeMoveControl
<1> QED  BY <1>1, <1>2, <1>3, <1>4 DEF OpAsk, OpAnswer

-----------------------------------------------------------------------------
(* The handlers, and everybody else. *)

\* One handler moves on, and the others are free.
LEMMA HandlerTurns ==
    ASSUME Turns, NEW h \in Handlers, NEW w, ws' = [ws EXCEPT ![h] = w], TypeOK,
           \/ ws[h].at # "free"
           \/ WorkspaceFree,
           rt'.session = rt.session, rt'.profile = rt.profile,
           rt'.phase = "ready" => rt.phase = "ready",
           UNCHANGED op,
           ws[h].at \notin {"stopping", "starting", "waking"},
           w.at \notin {"stopping", "starting", "waking"},
           HandlerFacts(w)'
    PROVE  Turns'
<1>1. /\ ws'[h] = w
      /\ \A g \in Handlers : g # h => ws'[g] = ws[g] /\ ws[g].at = "free"
  <2>1. \A g \in Handlers : g # h => ws[g].at = "free"
    BY DEF Turns, OneHandler, WorkspaceFree
  <2> QED  BY <2>1 DEF TypeOK
<1>2. OneHandler'
  BY <1>1 DEF OneHandler
<1>3. Engaged'
  BY <1>1 DEF Turns, Engaged
<1>4. ASSUME NEW g \in Handlers PROVE HandlerFacts(ws[g])'
  <2>1. CASE g = h
    BY <1>1, <2>1 DEF HandlerFacts
  <2>2. CASE g # h
    BY <1>1, <2>2 DEF HandlerFacts
  <2> QED  BY <2>1, <2>2
<1> QED  BY <1>2, <1>3, <1>4 DEF Turns

LEMMA HandlerControl ==
    ASSUME IInv, Control, NEW h \in Handlers,
           \/ StartHandlerClear(h) \/ HandlerRequest(h) \/ HandlerDone(h)
           \/ \E p \in Profiles : StartHandler(h, p)
           \/ \E s \in Sessions :
                HistoryHandler(h, s) \/ \E chat \in BOOLEAN : WakeHandler(h, s, chat)
    PROVE  Control'
<1>0. /\ TypeOK /\ Turns /\ rt \in Runtime /\ ws \in [Handlers -> Handler] /\ h \in Slots
      /\ UNCHANGED <<op, spawned>>
      /\ HandlerFacts(ws[h])
  BY DEF IInv, TypeOK, Slots, Handler, StartHandlerClear, HandlerRequest, HandlerDone, StartHandler,
         HistoryHandler, WakeHandler, Control, Turns
<1>1. CASE HandlerRequest(h) \/ HandlerDone(h)
  <2>1. Stays(rt') \/ Leaves(rt')
    BY <1>0, <1>1, RequestShape DEF HandlerRequest, HandlerDone
  <2>2. PICK w : /\ ws' = [ws EXCEPT ![h] = w]
                 /\ ws[h].at \in {"prompt", "prompting", "reread", "rereading"}
                 /\ w.at \in {"prompting", "reread", "rereading", "free"}
                 /\ w.at = "prompting" =>
                      ws[h].at = "prompt" /\ w.session = ws[h].session /\ w.profile = ws[h].profile
    <3> DEFINE To(l) == [ws[h] EXCEPT !.at = l]
    <3>1. /\ Free.at = "free"
          /\ \A l : To(l).at = l /\ To(l).session = ws[h].session /\ To(l).profile = ws[h].profile
      BY <1>0 DEF Free, Handler
    <3>2. \/ ws[h].at = "prompt" /\ ws' = [ws EXCEPT ![h] = To("prompting")]
          \/ ws[h].at \in {"prompt", "prompting"} /\ ws' = [ws EXCEPT ![h] = To("reread")]
          \/ ws[h].at = "reread" /\ ws' = [ws EXCEPT ![h] = To("rereading")]
          \/ ws[h].at \in {"reread", "rereading"} /\ ws' = [ws EXCEPT ![h] = Free]
      BY <1>1 DEF HandlerRequest, HandlerDone
    <3> HIDE DEF To
    <3> QED  BY <3>1, <3>2
  <2>3. HandlerFacts(w)'
    BY <1>0, <2>1, <2>2 DEF HandlerFacts, Stays, Leaves
  <2>4. Turns'
    BY <1>0, <2>1, <2>2, <2>3, HandlerTurns DEF Stays, Leaves
  <2> QED  BY <1>0, <2>1, <2>4, OthersKeepPlace DEF Control
<1>2. CASE StartHandlerClear(h)
  <2>1. /\ rt'.child = rt.child /\ rt'.phase = rt.phase /\ rt'.profile = rt.profile
        /\ rt'.active = rt.active
        /\ ws[h].at = "clear" /\ ws' = [ws EXCEPT ![h].at = "start"]
    BY <1>0, <1>2 DEF StartHandlerClear, Runtime
  <2>2. \A g \in Handlers : g # h => ws'[g] = ws[g] /\ ws[g].at = "free"
    BY <1>0, <2>1 DEF Turns, OneHandler
  <2>3. ws'[h].at = "start" /\ rt.phase # "ready"
    BY <1>0, <2>1 DEF HandlerFacts, Handler
  <2>4. op.kind \notin {"start", "wake"}
    BY <2>1, <2>2 DEF Control, Turns, Engaged
  <2>5. OneHandler' /\ Engaged'
    BY <1>0, <2>1, <2>2, <2>3, <2>4 DEF OneHandler, Engaged, Turns
  <2>6. ASSUME NEW g \in Handlers PROVE HandlerFacts(ws[g])'
    <3>1. CASE g = h
      BY <2>1, <2>3, <3>1 DEF HandlerFacts
    <3>2. CASE g # h
      BY <2>2, <3>2 DEF HandlerFacts
    <3> QED  BY <3>1, <3>2
  <2>7. Route' /\ Phased'
    BY <1>0, <2>1 DEF Control, Route, Place, Phased, BeforeSpawn, AfterSpawn
  <2>8. Aimed'
    BY <1>0, <2>1, <2>4 DEF Control, Aimed, Place, AfterSpawn, Unmatched
  <2> QED  BY <2>5, <2>6, <2>7, <2>8 DEF Control, Turns
<1>3. CASE /\ \/ \E p \in Profiles : StartHandler(h, p)
              \/ \E s \in Sessions :
                   HistoryHandler(h, s) \/ \E chat \in BOOLEAN : WakeHandler(h, s, chat)
  <2>1. WorkspaceFree /\ UNCHANGED rt /\ Stays(rt') /\ ws[h].at = "free"
    BY <1>3 DEF StartHandler, HistoryHandler, WakeHandler, WorkspaceFree, Stays
  <2>2. PICK w : /\ ws' = [ws EXCEPT ![h] = w]
                 /\ \/ w.at = "stopFirst"
                    \/ w.at = "start" /\ rt.profile = w.profile
                    \/ w.at = "wake" /\ w.profile = ProfileOf[w.session]
                    \/ w.at = "reread"
    <3>1. CASE \E p \in Profiles : StartHandler(h, p)
      <4>1. PICK p \in Profiles : StartHandler(h, p)
        BY <3>1
      <4> DEFINE w == [Free EXCEPT !.at = IF rt.profile = p THEN "start" ELSE "stopFirst",
                                   !.profile = p]
      <4>2. /\ w.profile = p
            /\ w.at = IF rt.profile = p THEN "start" ELSE "stopFirst"
        BY DEF Free
      <4>3. ws' = [ws EXCEPT ![h] = w]
        BY <4>1 DEF StartHandler
      <4> HIDE DEF w
      <4> QED  BY <4>2, <4>3
    <3>2. CASE \E s \in Sessions : HistoryHandler(h, s)
      <4>1. PICK s \in Sessions : HistoryHandler(h, s)
        BY <3>2
      <4> DEFINE w == [Free EXCEPT !.at = "reread", !.session = s]
      <4>2. w.at = "reread"
        BY DEF Free
      <4>3. ws' = [ws EXCEPT ![h] = w]
        BY <4>1 DEF HistoryHandler
      <4> HIDE DEF w
      <4> QED  BY <4>2, <4>3
    <3>3. CASE \E s \in Sessions : \E chat \in BOOLEAN : WakeHandler(h, s, chat)
      <4>1. PICK s \in Sessions, chat \in BOOLEAN : WakeHandler(h, s, chat)
        BY <3>3
      <4> DEFINE w == [at |-> "wake", session |-> s, profile |-> ProfileOf[s], chat |-> chat]
      <4>2. w.at = "wake" /\ w.profile = ProfileOf[w.session]
        OBVIOUS
      <4>3. ws' = [ws EXCEPT ![h] = w]
        BY <4>1 DEF WakeHandler
      <4> HIDE DEF w
      <4> QED  BY <4>2, <4>3
    <3> QED  BY <1>3, <3>1, <3>2, <3>3
  <2>3. HandlerFacts(w)'
    BY <2>1, <2>2 DEF HandlerFacts
  <2>4. Turns'
    BY <1>0, <2>1, <2>2, <2>3, HandlerTurns
  <2> QED  BY <1>0, <2>1, <2>4, OthersKeepPlace DEF Control
<1> QED  BY <1>1, <1>2, <1>3

LEMMA BeginControl ==
    ASSUME IInv, Control,
           \/ StopBegin \/ ReapBegin \/ \E s \in Sessions : SleepBegin(s)
           \/ \E h \in Handlers :
                HandlerStopBegin(h) \/ HandlerStartBegin(h) \/ HandlerWakeBegin(h)
    PROVE  Control'
<1>0. /\ TypeOK /\ Turns /\ UNCHANGED <<rt, spawned>> /\ op.at = "idle" /\ op.kind = "none"
      /\ rt.phase # "starting" /\ ws \in [Handlers -> Handler]
  <2>1. TypeOK /\ UNCHANGED <<rt, spawned>> /\ op.at = "idle"
    BY DEF IInv, StopBegin, ReapBegin, SleepBegin, HandlerStopBegin, HandlerStartBegin,
           HandlerWakeBegin, Begin
  <2> QED  BY <2>1 DEF Control, Route, Phased, BeforeSpawn, AfterSpawn, TypeOK, Handler
<1>1. \A h \in Handlers : ws[h].at \notin {"stopping", "starting", "waking"}
  BY <1>0 DEF Turns, Engaged
<1>2. ASSUME NEW k, NEW l, NEW p, NEW s, Begin(k, l, p, s)
      PROVE  op'.kind = k /\ op'.at = l /\ op'.profile = p /\ op'.session = s /\ op'.back = "idle"
  BY <1>2 DEF Begin, NoOp
<1>3. ASSUME op'.at \in {"detach", "sleepDetach", "probe", "enter", "look"}
      PROVE  Phased'
  BY <1>0, <1>3 DEF Control, Phased, BeforeSpawn, AfterSpawn
<1>4. CASE StopBegin \/ ReapBegin \/ \E s \in Sessions : SleepBegin(s)
  <2>1. /\ UNCHANGED ws /\ op'.back = "idle"
        /\ \/ op'.at = "detach" /\ op'.kind = "stop"
           \/ op'.at = "probe" /\ op'.kind = "reap"
           \/ op'.at = "sleepDetach" /\ op'.kind = "sleep"
    BY <1>2, <1>4 DEF StopBegin, ReapBegin, SleepBegin
  <2>2. Route'
    BY <2>1 DEF Route, Place, WakeLabels, StartLabels, ReapLabels
  <2>3. Aimed'
    BY <2>1 DEF Aimed, Place, Chosen, AfterSpawn
  <2>4. Turns'
    BY <1>0, <1>1, <2>1 DEF Turns, OneHandler, Engaged, HandlerFacts
  <2> QED  BY <1>3, <2>1, <2>2, <2>3, <2>4 DEF Control
<1>5. ASSUME NEW h \in Handlers,
             HandlerStopBegin(h) \/ HandlerStartBegin(h) \/ HandlerWakeBegin(h)
      PROVE  Control'
  <2>1. /\ \A g \in Handlers : g # h => ws'[g] = ws[g] /\ ws[g].at = "free"
        /\ ws'[h].session = ws[h].session /\ ws'[h].profile = ws[h].profile
        /\ op'.back = "idle"
        /\ \/ /\ ws[h].at = "stopFirst" /\ ws'[h].at = "stopping"
              /\ op'.at = "detach" /\ op'.kind = "stop"
           \/ /\ ws[h].at = "start" /\ ws'[h].at = "starting"
              /\ op'.at = "enter" /\ op'.kind = "start" /\ op'.profile = ws[h].profile
           \/ /\ ws[h].at = "wake" /\ ws'[h].at = "waking"
              /\ op'.at = "look" /\ op'.kind = "wake" /\ op'.profile = ws[h].profile
              /\ op'.session = ws[h].session
    <3>1. ws[h].at # "free"
      BY <1>5 DEF HandlerStopBegin, HandlerStartBegin, HandlerWakeBegin
    <3>2. \A g \in Handlers : g # h => ws[g].at = "free"
      BY <1>0, <3>1 DEF Turns, OneHandler
    <3>3. CASE HandlerStopBegin(h)
      BY <1>0, <1>2, <3>2, <3>3 DEF HandlerStopBegin, Handler
    <3>4. CASE HandlerStartBegin(h)
      BY <1>0, <1>2, <3>2, <3>4 DEF HandlerStartBegin, Handler
    <3>5. CASE HandlerWakeBegin(h)
      BY <1>0, <1>2, <3>2, <3>5 DEF HandlerWakeBegin, Handler
    <3> QED  BY <1>5, <3>3, <3>4, <3>5
  <2>2. Route'
    BY <2>1 DEF Route, Place, WakeLabels, StartLabels, ReapLabels
  <2>3. HandlerFacts(ws[h])
    BY <1>0 DEF Turns
  <2>4. Aimed'
    BY <1>0, <2>1, <2>3 DEF Aimed, Place, Chosen, AfterSpawn, HandlerFacts
  <2>5. OneHandler' /\ Engaged'
    BY <1>0, <2>1 DEF OneHandler, Engaged
  <2>6. ASSUME NEW g \in Handlers PROVE HandlerFacts(ws[g])'
    <3>1. CASE g = h
      BY <1>0, <2>1, <2>3, <3>1 DEF HandlerFacts
    <3>2. CASE g # h
      BY <2>1, <3>2 DEF HandlerFacts
    <3> QED  BY <3>1, <3>2
  <2> QED  BY <1>3, <2>1, <2>2, <2>4, <2>5, <2>6 DEF Control, Turns
<1> QED  BY <1>4, <1>5

LEMMA CallerControl ==
    ASSUME IInv, Control,
           \/ Poll
           \/ \E s \in Callers : CallerRequest(s) \/ CallerDone(s)
           \/ \E d \in Deciders : DecisionDropped(d)
    PROVE  Control'
<1>1. CASE Poll
  BY <1>1, RefreshedShape, OthersKeepControl DEF Poll, IInv
<1>2. ASSUME NEW s \in Callers, CallerRequest(s) \/ CallerDone(s) PROVE Control'
  <2>1. s \in Slots
    BY DEF Slots
  <2>2. Stays(rt') \/ Leaves(rt')
    BY <1>2, <2>1, RequestShape DEF CallerRequest, CallerDone, IInv
  <2> QED  BY <1>2, <2>2, OthersKeepControl DEF CallerRequest, CallerDone
<1>3. ASSUME NEW d \in Deciders, DecisionDropped(d) PROVE Control'
  BY <1>3, OthersKeepControl DEF DecisionDropped, Stays
<1> QED  BY <1>1, <1>2, <1>3

LEMMA TaskShape ==
    ASSUME IInv, NEW c \in Children, TaskStep(c) \/ TaskLoses(c) \/ ChildDies(c)
    PROVE  Stays(rt') \/ Leaves(rt')
<1>0. TypeOK /\ rt \in Runtime
  BY DEF IInv, TypeOK
<1>1. CASE TaskCleanup(c)
  <2>1. CASE rt.gen = kid[c].gen
    <3>1. task[c].at = "lost" /\ rt' = [Detach(rt) EXCEPT !.phase = "error"]
      BY <1>1, <2>1 DEF TaskCleanup
    <3>2. rt.child = c /\ c # NoChild
      BY <2>1, <3>1, ChildFacts DEF IInv, Safe, World, GenerationsTell, NoTask
    <3> QED  BY <1>0, <3>1, <3>2, DetachedFields DEF Leaves, Taken
  <2>2. CASE rt.gen # kid[c].gen
    BY <1>1, <2>2 DEF TaskCleanup, Stays
  <2> QED  BY <2>1, <2>2
<1>2. CASE TaskSync(c)
  <2>1. rt' \in Refreshes(rt)
    BY <1>2 DEF TaskSync
  <2> QED  BY <1>0, <2>1, RefreshShape
<1>3. CASE TaskKill(c) \/ TaskLoses(c) \/ ChildDies(c)
  BY <1>3 DEF TaskKill, TaskLoses, ChildDies, Stays
<1> QED  BY <1>1, <1>2, <1>3 DEF TaskStep

LEMMA TaskControl ==
    ASSUME IInv, Control, NEW c \in Children, TaskStep(c) \/ TaskLoses(c) \/ ChildDies(c)
    PROVE  Control'
<1>1. UNCHANGED <<op, spawned, ws>>
  BY DEF TaskStep, TaskCleanup, TaskKill, TaskSync, TaskLoses, ChildDies
<1> QED  BY <1>1, TaskShape, OthersKeepControl

-----------------------------------------------------------------------------
LEMMA InitControl == Init => Control
<1> SUFFICES ASSUME Init PROVE Control
  OBVIOUS
<1>1. /\ op.at = "idle" /\ op.kind = "none" /\ op.back = "idle"
      /\ rt.phase = "sleeping" /\ rt.child = NoChild /\ rt.active = 0
      /\ \A h \in Handlers : ws[h].at = "free"
  BY DEF Init, NoOp, Free
<1>2. Route /\ Aimed
  BY <1>1 DEF Route, Aimed, Place, Chosen, AfterSpawn, WakeLabels, StartLabels, ReapLabels
<1>3. Phased
  BY <1>1 DEF Phased, BeforeSpawn, AfterSpawn
<1>4. Turns
  BY <1>1 DEF Turns, OneHandler, Engaged, HandlerFacts
<1> QED  BY <1>2, <1>3, <1>4 DEF Control

LEMMA ControlInductive == IInv /\ Control /\ [Next]_vars => Control'
<1> SUFFICES ASSUME IInv, Control, [Next]_vars PROVE Control'
  OBVIOUS
<1>1. CASE OpStep
  BY <1>1, KillControl, StopControl, EnterControl, ClaimControl, SpawnControl, StartupControl,
     StartControl, WakeControl, AskControl DEF OpStep
<1>2. CASE StopBegin \/ ReapBegin \/ \E s \in Sessions : SleepBegin(s)
  BY <1>2, BeginControl
<1>3. ASSUME NEW h \in Handlers,
             \/ HandlerStep(h)
             \/ \E p \in Profiles : StartHandler(h, p)
             \/ \E s \in Sessions :
                  HistoryHandler(h, s) \/ \E chat \in BOOLEAN : WakeHandler(h, s, chat)
      PROVE  Control'
  BY <1>3, HandlerControl, BeginControl DEF HandlerStep
<1>4. CASE Poll \/ (\E s \in Callers : CallerRequest(s) \/ CallerDone(s))
           \/ \E d \in Deciders : DecisionDropped(d)
  BY <1>4, CallerControl
<1>5. CASE \E c \in Children : TaskStep(c) \/ TaskLoses(c) \/ ChildDies(c)
  BY <1>5, TaskControl
<1>6. CASE UNCHANGED vars
  BY <1>6, OthersKeepControl DEF vars, Stays
<1> QED  BY <1>1, <1>2, <1>3, <1>4, <1>5, <1>6 DEF Next

\* Whatever interleaves with it, an operation is where its kind says, the runtime is
\* in the phase its place says, and the one handler that waits for it, if any, is the
\* one it works for.
THEOREM ControlHolds == Spec => [](IInv /\ Control)
<1>1. Init => IInv /\ Control
  BY InitType, InitSafe, InitControl DEF IInv
<1>2. IInv /\ Control /\ [Next]_vars => (IInv /\ Control)'
  BY IInvInductive, ControlInductive
<1> QED  BY <1>1, <1>2, PTL DEF Spec

\* No operation, failed or not, leaves the runtime Starting behind it, nor a process
\* in a runtime that is Sleeping, nor (while waitpid works) in one in Error.
THEOREM RestingPhaseHolds == Spec => []RestingPhase
<1>1. Control => RestingPhase
  BY DEF Control, Phased, BeforeSpawn, AfterSpawn, RestingPhase
<1> QED  BY <1>1, ControlHolds, PTL

-----------------------------------------------------------------------------
(* The refinement: a step of the manager is a step of AgentLifecycle, or none. *)

\* The last process spawned is in its start-up.
New == AfterSpawn /\ rt.child = spawned /\ op.mine = spawned

LifecycleStep == [Lifecycle!Next]_<<spawned, Stage, alive>>

LEMMA StageFacts ==
    Stage = IF spawned = 0 THEN "none"
            ELSE IF rt.phase = "ready" THEN "serving"
            ELSE IF New THEN "new" ELSE "ended"
BY DEF Stage, New, AfterSpawn

LEMMA StageFactsNext ==
    Stage' = IF spawned' = 0 THEN "none"
             ELSE IF rt'.phase = "ready" THEN "serving"
             ELSE IF New' THEN "new" ELSE "ended"
BY DEF Stage, New, AfterSpawn

\* Nothing is launched or exits, nothing becomes ready, and no start-up begins.
LEMMA QuietStep ==
    ASSUME IInv, UNCHANGED <<spawned, alive>>,
           rt'.phase = "ready" => rt.phase = "ready",
           spawned # 0 /\ New' => New
    PROVE  LifecycleStep
<1>1. New => rt.phase # "ready"
  BY DEF IInv, Safe, Startup, StartupOwnsChild, New
<1>2. Stage' = Stage \/ (Stage \in {"new", "serving"} /\ Stage' = "ended")
  BY <1>1, StageFacts, StageFactsNext
<1> QED  BY <1>2 DEF LifecycleStep, Lifecycle!Next, Lifecycle!End

\* A child may exit, and nothing else happens.
LEMMA ExitStep ==
    ASSUME UNCHANGED <<spawned, rt>>, New' <=> New, NEW c, alive' = alive \ {c}
    PROVE  LifecycleStep
<1>1. Stage' = Stage
  BY StageFacts, StageFactsNext
<1>2. CASE c \in alive
  BY <1>1, <1>2 DEF LifecycleStep, Lifecycle!Next, Lifecycle!Exit
<1>3. CASE c \notin alive
  BY <1>1, <1>3 DEF LifecycleStep
<1> QED  BY <1>2, <1>3

LEMMA OthersQuiet ==
    ASSUME IInv, Stays(rt') \/ Leaves(rt'), UNCHANGED <<spawned, alive, op>>
    PROVE  LifecycleStep
<1>1. spawned # 0 /\ New' => New
  BY DEF New, AfterSpawn, Stays, Leaves, NoChild
<1> QED  BY <1>1, QuietStep DEF Stays, Leaves

\* A step of the operation outside the start-up.
LEMMA OperationQuiet ==
    ASSUME IInv, UNCHANGED <<spawned, alive>>, rt'.phase = "ready" => rt.phase = "ready",
           ~AfterSpawn'
    PROVE  LifecycleStep
BY QuietStep DEF New

LEMMA StopQuiet ==
    ASSUME IInv, Control,
           OpKill \/ OpDetach \/ OpStopSync \/ OpSleepDetach
           \/ OpProbe \/ OpDecideUnhealthy \/ OpDecide \/ OpReapSync
    PROVE  LifecycleStep
<1>0. TypeOK /\ rt \in Runtime /\ op \in Operation /\ op.back \in {"idle", "mark", "select"}
  BY DEF IInv, Safe, Startup, Returns, TypeOK
<1>1. CASE OpKill
  <2>1. op'.at \in {"idle", op.next} /\ op.at = "kill"
    BY <1>0, <1>1, OpFields DEF OpKill, Operation
  <2>2. op.next \in {"idle", "stopSync", "reapSync", "sync1", "failed"}
    BY <2>1 DEF IInv, Safe, Startup, Returns
  <2>3. ~New /\ ~New'
    BY <2>1, <2>2 DEF New, AfterSpawn
  <2> QED  BY <1>1, <2>3, ExitStep DEF OpKill
<1>2. CASE ~OpKill
  <2>1. UNCHANGED <<spawned, alive>>
    BY <1>2 DEF OpDetach, OpStopSync, OpSleepDetach, OpProbe, OpDecideUnhealthy, OpDecide,
                OpReapSync, OpRefresh
  <2>2. op'.at \in {"kill", "idle", "mark", "select", "decide", "decideBad", "reapSync"}
    BY <1>0, <1>2, OpFields DEF OpDetach, OpStopSync, OpSleepDetach, OpProbe, OpDecideUnhealthy,
       OpDecide, OpReapSync
  <2>3. \A r \in Refreshes(rt) :
          /\ r.phase = "ready" => rt.phase = "ready"
          /\ Detach(r).phase # "ready" /\ [Detach(r) EXCEPT !.phase = "error"].phase # "ready"
    BY <1>0, RefreshShape, DetachedFields
  <2>4. Detach(rt).phase # "ready"
    BY <1>0, DetachedFields
  <2>5. rt'.phase = "ready" => rt.phase = "ready"
    <3>1. CASE OpDetach \/ OpSleepDetach \/ OpProbe
      BY <2>4, <3>1 DEF OpDetach, OpSleepDetach, OpProbe, SetRuntime
    <3>2. CASE OpStopSync \/ OpReapSync
      BY <2>3, <3>2 DEF OpStopSync, OpReapSync, OpRefresh, SetRuntime
    <3>3. CASE OpDecideUnhealthy \/ OpDecide
      BY <2>3, <3>3 DEF OpDecideUnhealthy, OpDecide, SetRuntime
    <3> QED  BY <1>2, <3>1, <3>2, <3>3
  <2> QED  BY <2>1, <2>2, <2>5, OperationQuiet DEF AfterSpawn
<1> QED  BY <1>1, <1>2

LEMMA StartQuiet ==
    ASSUME IInv, Control,
           OpEnter \/ OpClaim \/ OpSpawnFails \/ OpAbandon \/ OpStatus \/ OpStartFailed
    PROVE  LifecycleStep
<1>0. TypeOK /\ rt \in Runtime /\ op \in Operation /\ UNCHANGED <<spawned, alive>>
  BY DEF IInv, TypeOK, OpEnter, OpClaim, OpSpawnFails, OpAbandon, OpStatus, OpStartFailed, OpRefresh
<1>1. op'.at \in {"status", "failed", "claim", "kill", "idle", "wakeSync"}
  BY <1>0, OpFields DEF OpEnter, OpClaim, OpSpawnFails, OpAbandon, OpStatus, OpStartFailed
<1>2. \A r \in Refreshes(rt) :
        /\ r.phase = "ready" => rt.phase = "ready"
        /\ [Detach(r) EXCEPT !.phase = "starting", !.profile = op.profile].phase = "starting"
  <2> SUFFICES ASSUME NEW r \in Refreshes(rt)
               PROVE  /\ r.phase = "ready" => rt.phase = "ready"
                      /\ [Detach(r) EXCEPT !.phase = "starting", !.profile = op.profile].phase
                         = "starting"
    OBVIOUS
  <2>1. r \in Runtime /\ (r.phase = "ready" => rt.phase = "ready")
    BY <1>0, RefreshShape
  <2> QED  BY <2>1 DEF Detach, Runtime
<1>3. [Detach(rt) EXCEPT !.phase = "error"].phase = "error"
  BY <1>0, DetachedFields
<1>4. rt'.phase = "ready" => rt.phase = "ready"
  <2>1. CASE OpEnter \/ OpStatus
    BY <1>2, <2>1 DEF OpEnter, OpStatus, OpRefresh, SetRuntime
  <2>2. CASE OpClaim
    BY <1>2, <2>2 DEF OpClaim, SetRuntime
  <2>3. CASE OpSpawnFails
    BY <1>0, <2>3 DEF OpSpawnFails, Runtime
  <2>4. CASE OpAbandon
    BY <1>3, <2>4 DEF OpAbandon, SetRuntime
  <2>5. CASE OpStartFailed
    <3>1. rt' = [Detach(rt) EXCEPT !.phase = "error"] \/ rt' = rt
      BY <2>5 DEF OpStartFailed, SetRuntime
    <3> QED  BY <1>3, <3>1
  <2> QED  BY <2>1, <2>2, <2>3, <2>4, <2>5
<1> QED  BY <1>0, <1>1, <1>4, OperationQuiet DEF AfterSpawn

LEMMA WakeQuiet ==
    ASSUME IInv, Control,
           OpLook \/ OpSelect \/ OpWakeFailed \/ OpWakeSync \/ OpMark \/ OpMarkSync
           \/ \E h \in Handlers : OpAsk(h) \/ OpAnswer(h)
    PROVE  LifecycleStep
<1>0. TypeOK /\ rt \in Runtime /\ op \in Operation /\ UNCHANGED <<spawned, alive>>
  BY DEF IInv, TypeOK, OpLook, OpSelect, OpWakeFailed, OpWakeSync, OpMark, OpMarkSync, OpRefresh,
         OpAsk, OpAnswer
<1>1. op'.at \in {"select", "detach", "enter", "failedSync", "mapping", "history", "markSync", "idle"}
  <2>1. CASE OpLook
    BY <1>0, <2>1, OpFields DEF OpLook, Operation
  <2>2. CASE ~OpLook
    BY <1>0, <2>2, OpFields
       DEF OpSelect, OpWakeFailed, OpWakeSync, OpMark, OpMarkSync, OpAsk, OpAnswer
  <2> QED  BY <2>1, <2>2
<1>2. rt'.phase = "ready" => rt.phase = "ready"
  <2>1. CASE OpLook \/ OpSelect \/ OpWakeFailed \/ OpMark
    BY <1>0, <2>1 DEF OpLook, OpSelect, OpWakeFailed, OpMark, Runtime
  <2>2. CASE OpWakeSync \/ OpMarkSync
    BY <1>0, <2>2, RefreshedShape DEF OpWakeSync, OpMarkSync, OpRefresh, Stays, Leaves
  <2>3. CASE \E h \in Handlers : OpAsk(h) \/ OpAnswer(h)
    <3>1. Handlers \subseteq Slots
      BY DEF Slots
    <3> QED  BY <1>0, <2>3, <3>1, RequestShape DEF OpAsk, OpAnswer, Stays, Leaves
  <2> QED  BY <2>1, <2>2, <2>3
<1> QED  BY <1>0, <1>1, <1>2, OperationQuiet DEF AfterSpawn

\* The start-up itself: a launch, a service, or one more step of the start-up.
LEMMA StartupStep ==
    ASSUME IInv, Control, OpStartSync \/ OpSpawn \/ OpHealthy \/ OpConnect \/ OpHandle \/ OpReady
    PROVE  LifecycleStep
<1>0. TypeOK /\ rt \in Runtime /\ op \in Operation /\ spawned \in Nat
  BY ConstantsAssumption DEF IInv, TypeOK, MaybeChild
<1>1. CASE OpSpawn
  <2>1. rt.phase = "starting" /\ ~New
    BY <1>1 DEF Control, Phased, BeforeSpawn, OpSpawn, New, AfterSpawn
  <2>2. /\ spawned' = spawned + 1 /\ rt'.child = spawned' /\ rt'.phase = "starting"
        /\ op'.at = "sync2" /\ op'.mine = spawned' /\ alive' = alive \cup {spawned + 1}
    BY <1>0, <1>1, <2>1 DEF OpSpawn, Runtime, Operation
  <2>3. Stage \in {"none", "ended"} /\ Stage' = "new"
    <3>1. spawned' # 0 /\ New'
      BY <1>0, <2>2 DEF New, AfterSpawn
    <3> QED  BY <2>1, <2>2, <3>1, StageFacts, StageFactsNext
  <2> QED  BY <2>2, <2>3 DEF LifecycleStep, Lifecycle!Next, Lifecycle!Launch
<1>2. CASE OpReady /\ rt.child = op.mine
  <2>1. New /\ rt.phase # "ready" /\ spawned # 0
    BY <1>2, ChildFacts
       DEF OpReady, New, AfterSpawn, IInv, Safe, Startup, StartupOwnsChild, Control, Phased, NoChild
  <2>2. rt'.phase = "ready" /\ UNCHANGED <<spawned, alive>>
    BY <1>0, <1>2 DEF OpReady, Runtime
  <2>3. Stage = "new" /\ Stage' = "serving"
    BY <2>1, <2>2, StageFacts, StageFactsNext
  <2> QED  BY <2>2, <2>3 DEF LifecycleStep, Lifecycle!Next, Lifecycle!Serve
<1>3. CASE OpStartSync \/ OpHealthy \/ OpConnect \/ OpHandle \/ (OpReady /\ rt.child # op.mine)
  <2>1. Stays(rt') \/ Leaves(rt')
    <3>1. CASE OpStartSync
      BY <1>0, <3>1, RefreshedShape DEF OpStartSync, OpRefresh
    <3>2. CASE OpHealthy \/ OpConnect \/ OpHandle \/ (OpReady /\ rt.child # op.mine)
      BY <1>0, <3>2 DEF OpHealthy, OpConnect, OpHandle, OpReady, Stays, Runtime
    <3> QED  BY <1>3, <3>1, <3>2
  <2>2. /\ UNCHANGED <<spawned, alive>>
        /\ op'.mine = op.mine
        /\ op'.at \in {"spawn", "failed"} \/ AfterSpawn
    BY <1>0, <1>3, OpFields DEF OpStartSync, OpRefresh, OpHealthy, OpConnect, OpHandle, OpReady,
       AfterSpawn
  <2>3. spawned # 0 /\ New' => New
    BY <2>1, <2>2 DEF New, AfterSpawn, Stays, Leaves, NoChild
  <2> QED  BY <2>1, <2>2, <2>3, QuietStep DEF Stays, Leaves
<1> QED  BY <1>1, <1>2, <1>3

LEMMA BeginQuiet ==
    ASSUME IInv, Control,
           \/ StopBegin \/ ReapBegin \/ \E s \in Sessions : SleepBegin(s)
           \/ \E h \in Handlers :
                HandlerStopBegin(h) \/ HandlerStartBegin(h) \/ HandlerWakeBegin(h)
    PROVE  LifecycleStep
<1>1. UNCHANGED <<rt, spawned, alive>>
  BY DEF StopBegin, ReapBegin, SleepBegin, HandlerStopBegin, HandlerStartBegin, HandlerWakeBegin
<1>2. op'.at \in {"detach", "probe", "sleepDetach", "enter", "look"}
  BY MoveFacts DEF IInv, StopBegin, ReapBegin, SleepBegin, HandlerStopBegin, HandlerStartBegin,
                   HandlerWakeBegin
<1> QED  BY <1>1, <1>2, OperationQuiet DEF AfterSpawn

LEMMA HandlerQuiet ==
    ASSUME IInv, NEW h \in Handlers,
           \/ StartHandlerClear(h) \/ HandlerRequest(h) \/ HandlerDone(h)
           \/ \E p \in Profiles : StartHandler(h, p)
           \/ \E s \in Sessions :
                HistoryHandler(h, s) \/ \E chat \in BOOLEAN : WakeHandler(h, s, chat)
    PROVE  LifecycleStep
<1>0. TypeOK /\ rt \in Runtime /\ h \in Slots /\ UNCHANGED <<spawned, alive, op>>
  BY DEF IInv, TypeOK, Slots, StartHandlerClear, HandlerRequest, HandlerDone, StartHandler,
         HistoryHandler, WakeHandler
<1>1. CASE HandlerRequest(h) \/ HandlerDone(h)
  BY <1>0, <1>1, RequestShape, OthersQuiet DEF HandlerRequest, HandlerDone
<1>2. CASE StartHandlerClear(h)
  <2>1. rt'.phase = rt.phase /\ rt'.child = rt.child
    BY <1>0, <1>2 DEF StartHandlerClear, Runtime
  <2> QED  BY <1>0, <2>1, QuietStep DEF New, AfterSpawn
<1>3. CASE UNCHANGED rt
  BY <1>0, <1>3, OthersQuiet DEF Stays
<1> QED  BY <1>1, <1>2, <1>3 DEF StartHandler, HistoryHandler, WakeHandler

LEMMA OtherQuiet ==
    ASSUME IInv, Control,
           \/ Poll
           \/ \E s \in Callers : CallerRequest(s) \/ CallerDone(s)
           \/ \E d \in Deciders : DecisionDropped(d)
    PROVE  LifecycleStep
<1>1. CASE Poll
  BY <1>1, RefreshedShape, OthersQuiet DEF Poll, IInv
<1>2. ASSUME NEW s \in Callers, CallerRequest(s) \/ CallerDone(s) PROVE LifecycleStep
  <2>1. s \in Slots
    BY DEF Slots
  <2>2. Stays(rt') \/ Leaves(rt')
    BY <1>2, <2>1, RequestShape DEF CallerRequest, CallerDone, IInv
  <2> QED  BY <1>2, <2>2, OthersQuiet DEF CallerRequest, CallerDone
<1>3. ASSUME NEW d \in Deciders, DecisionDropped(d) PROVE LifecycleStep
  BY <1>3, OthersQuiet DEF DecisionDropped, Stays
<1> QED  BY <1>1, <1>2, <1>3

LEMMA TaskQuiet ==
    ASSUME IInv, NEW c \in Children, TaskStep(c) \/ TaskLoses(c) \/ ChildDies(c)
    PROVE  LifecycleStep
<1>0. UNCHANGED <<op, spawned>>
  BY DEF TaskStep, TaskCleanup, TaskKill, TaskSync, TaskLoses, ChildDies
<1>1. CASE TaskKill(c) \/ ChildDies(c)
  <2>1. UNCHANGED rt /\ (New' <=> New)
    BY <1>0, <1>1 DEF TaskKill, ChildDies, New, AfterSpawn
  <2>2. CASE TaskKill(c)
    BY <1>0, <2>1, <2>2, ExitStep DEF TaskKill
  <2>3. CASE ChildDies(c)
    BY <1>0, <2>1, <2>3, ExitStep DEF ChildDies
  <2> QED  BY <1>1, <2>2, <2>3
<1>2. CASE TaskCleanup(c) \/ TaskSync(c) \/ TaskLoses(c)
  <2>1. Stays(rt') \/ Leaves(rt')
    BY <1>2, TaskShape DEF TaskStep
  <2> QED  BY <1>0, <1>2, <2>1, OthersQuiet DEF TaskCleanup, TaskSync, TaskLoses
<1> QED  BY <1>1, <1>2 DEF TaskStep

LEMMA EveryStepOfLifecycle == IInv /\ Control /\ [Next]_vars => LifecycleStep
<1> SUFFICES ASSUME IInv, Control, [Next]_vars PROVE LifecycleStep
  OBVIOUS
<1>1. CASE OpStep
  BY <1>1, StopQuiet, StartQuiet, WakeQuiet, StartupStep DEF OpStep
<1>2. CASE StopBegin \/ ReapBegin \/ \E s \in Sessions : SleepBegin(s)
  BY <1>2, BeginQuiet
<1>3. ASSUME NEW h \in Handlers,
             \/ HandlerStep(h)
             \/ \E p \in Profiles : StartHandler(h, p)
             \/ \E s \in Sessions :
                  HistoryHandler(h, s) \/ \E chat \in BOOLEAN : WakeHandler(h, s, chat)
      PROVE  LifecycleStep
  BY <1>3, HandlerQuiet, BeginQuiet DEF HandlerStep
<1>4. CASE Poll \/ (\E s \in Callers : CallerRequest(s) \/ CallerDone(s))
           \/ \E d \in Deciders : DecisionDropped(d)
  BY <1>4, OtherQuiet
<1>5. CASE \E c \in Children : TaskStep(c) \/ TaskLoses(c) \/ ChildDies(c)
  BY <1>5, TaskQuiet
<1>6. CASE UNCHANGED vars
  BY <1>6, OthersQuiet DEF vars, Stays
<1> QED  BY <1>1, <1>2, <1>3, <1>4, <1>5, <1>6 DEF Next

LEMMA InitOfLifecycle == Init => Lifecycle!Init
BY StageFacts DEF Init, Lifecycle!Init

\* The manager implements its contract, whatever number of processes, projects,
\* sessions and callers there is: launches are serialized, a process serves only
\* after its start-up, and one that stopped serving never serves again.
THEOREM LifecycleImplemented == Spec => ImplementsLifecycle
<1>1. Init => Lifecycle!Init
  BY InitOfLifecycle
<1>2. IInv /\ Control /\ [Next]_vars => [Lifecycle!Next]_<<spawned, Stage, alive>>
  BY EveryStepOfLifecycle DEF LifecycleStep
<1> QED  BY <1>1, <1>2, ControlHolds, PTL DEF Spec, ImplementsLifecycle, Lifecycle!Spec

================================================================================
