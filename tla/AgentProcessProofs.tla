-------------------------- MODULE AgentProcessProofs --------------------------
(* Theorems about AgentProcess, for every value of its constants. *)
EXTENDS AgentProcess, TLAPS

LEMMA ChildFacts ==
    /\ NoChild \in MaybeChild
    /\ Children \subseteq MaybeChild
    /\ \A c \in Children : c # NoChild
BY ConstantsAssumption DEF NoChild, MaybeChild, Children

LEMMA FieldTypes ==
    ASSUME NEW r \in Runtime
    PROVE  /\ \A x \in Phases : [r EXCEPT !.phase = x] \in Runtime
           /\ \A x \in Sessions \cup {NoSession} : [r EXCEPT !.session = x] \in Runtime
           /\ \A x \in Profiles : [r EXCEPT !.profile = x] \in Runtime
           /\ \A x \in Nat : [r EXCEPT !.active = x] \in Runtime
           /\ \A x \in MaybeChild : [r EXCEPT !.eventTask = x] \in Runtime
BY DEF Runtime

LEMMA DetachType ==
    ASSUME NEW r \in Runtime
    PROVE  /\ Detach(r) \in Runtime
           /\ [Detach(r) EXCEPT !.phase = "error"] \in Runtime
           /\ Exited(r) \in Runtime
<1>1. r.gen + 1 \in Nat /\ 0 \in Nat
  BY DEF Runtime
<1>2. Detach(r) \in Runtime
  BY <1>1, ChildFacts DEF Detach, Runtime, Phases
<1>3. "error" \in Phases
  BY DEF Phases
<1> QED  BY <1>2, <1>3, FieldTypes DEF Exited

LEMMA RefreshType ==
    ASSUME TypeOK, NEW r \in Refreshes(rt)
    PROVE  r \in Runtime
BY DetachType DEF TypeOK, Refreshes, Runtime, Phases

LEMMA AbortedTaskType ==
    ASSUME NEW t \in Task, NEW u \in AbortedTask(t)
    PROVE  u \in Task
BY ChildFacts DEF Task, AbortedTask, Done, TaskStates

LEMMA TasksAfterType ==
    ASSUME TypeOK, NEW r \in Runtime, NEW t \in TasksAfter(r)
    PROVE  t \in [Children -> Task]
<1>1. task \in [Children -> Task] /\ rt.eventTask \in MaybeChild
  BY DEF TypeOK, Task, Runtime
<1>2. CASE rt.eventTask # NoChild /\ r.eventTask = NoChild
  <2>1. rt.eventTask \in Children
    BY <1>1, <1>2, ConstantsAssumption DEF MaybeChild, Children, NoChild
  <2>2. PICK u \in AbortedTask(task[rt.eventTask]) : t = [task EXCEPT ![rt.eventTask] = u]
    BY <1>2 DEF TasksAfter
  <2>3. u \in Task
    BY <1>1, <2>1, AbortedTaskType
  <2> QED  BY <1>1, <2>2, <2>3
<1>3. CASE ~(rt.eventTask # NoChild /\ r.eventTask = NoChild)
  BY <1>1, <1>3 DEF TasksAfter
<1> QED  BY <1>2, <1>3

LEMMA SetRuntimeType ==
    ASSUME TypeOK, NEW r \in Runtime, SetRuntime(r)
    PROVE  rt' \in Runtime /\ task' \in [Children -> Task]
BY TasksAfterType DEF SetRuntime

LEMMA AfterOpType ==
    ASSUME NEW w \in Handler, NEW ok \in BOOLEAN
    PROVE  AfterOp(w, ok) \in Handler
BY DEF AfterOp, Handler, HandlerStates, Free

LEMMA EndOpType ==
    ASSUME TypeOK, NEW ok \in BOOLEAN, EndOp(ok)
    PROVE  op' \in Operation /\ ws' \in [Handlers -> Handler]
<1>1. op' \in Operation
  BY ChildFacts DEF EndOp, NoOp, Operation, OpKinds, OpLabels
<1>2. ws \in [Handlers -> Handler]
  BY DEF TypeOK, Handler
<1>3. ws' \in [Handlers -> Handler]
  BY <1>2, AfterOpType DEF EndOp
<1> QED  BY <1>1, <1>3

LEMMA LabelFacts ==
    /\ "idle" \in OpLabels /\ "kill" \in OpLabels /\ "detach" \in OpLabels
    /\ "stopSync" \in OpLabels /\ "sleepDetach" \in OpLabels /\ "probe" \in OpLabels
    /\ "decide" \in OpLabels /\ "decideBad" \in OpLabels /\ "reapSync" \in OpLabels
    /\ "look" \in OpLabels /\ "select" \in OpLabels /\ "enter" \in OpLabels
    /\ "claim" \in OpLabels /\ "sync1" \in OpLabels /\ "spawn" \in OpLabels
    /\ "sync2" \in OpLabels /\ "health" \in OpLabels /\ "connect" \in OpLabels
    /\ "handle" \in OpLabels /\ "ready" \in OpLabels /\ "status" \in OpLabels
    /\ "failed" \in OpLabels /\ "failedSync" \in OpLabels /\ "wakeSync" \in OpLabels
    /\ "mapping" \in OpLabels /\ "history" \in OpLabels /\ "mark" \in OpLabels
    /\ "markSync" \in OpLabels
BY DEF OpLabels

LEMMA GotoType ==
    ASSUME TypeOK, NEW l \in OpLabels
    PROVE  /\ Goto(l) => op' \in Operation
           /\ \A c \in MaybeChild : Terminate(c, l) => op' \in Operation
BY LabelFacts DEF TypeOK, Goto, Terminate, Operation

LEMMA GiveUpType ==
    ASSUME TypeOK, GiveUp
    PROVE  op' \in Operation
BY LabelFacts DEF TypeOK, GiveUp, Operation

LEMMA BeginType ==
    ASSUME NEW k \in OpKinds, NEW l \in OpLabels,
           NEW p \in Profiles \cup {NoProfile}, NEW s \in Sessions \cup {NoSession},
           Begin(k, l, p, s)
    PROVE  op' \in Operation
BY ChildFacts, LabelFacts DEF Begin, NoOp, Operation, OpKinds

-----------------------------------------------------------------------------
LEMMA InitType == Init => TypeOK
<1> SUFFICES ASSUME Init PROVE TypeOK
  OBVIOUS
<1>1. rt \in Runtime
  BY ChildFacts DEF Init, Runtime, Phases
<1>2. alive \subseteq Children /\ spawned \in MaybeChild
  BY ChildFacts DEF Init, NoChild
<1>3. kid \in [Children -> Kid]
  BY DEF Init, Kid
<1>4. task \in [Children -> Task]
  BY ChildFacts DEF Init, Task, NoTask, TaskStates
<1>5. req \in [Slots -> Request]
  BY ChildFacts DEF Init, Request, NoRequest
<1>6. op \in Operation
  BY ChildFacts, LabelFacts DEF Init, NoOp, Operation, OpKinds
<1>7. ws \in [Handlers -> Handler]
  BY DEF Init, Handler, HandlerStates, Free
<1> QED  BY <1>1, <1>2, <1>3, <1>4, <1>5, <1>6, <1>7 DEF TypeOK

LEMMA RefreshStepType ==
    ASSUME TypeOK, \E r \in Refreshes(rt) : SetRuntime(r)
    PROVE  rt' \in Runtime /\ task' \in [Children -> Task]
BY RefreshType, SetRuntimeType

LEMMA RequestType ==
    ASSUME TypeOK, NEW s \in Slots
    PROVE  /\ \A r \in Refreshes(rt) : RequestBegin(s, r) \/ RequestRefused(r) =>
                 rt' \in Runtime /\ task' \in [Children -> Task] /\ req' \in [Slots -> Request]
           /\ RequestEnd(s) =>
                 rt' \in Runtime /\ task' \in [Children -> Task] /\ req' \in [Slots -> Request]
<1>0. req \in [Slots -> Request] /\ rt \in Runtime /\ task \in [Children -> Task]
  BY DEF TypeOK, Request, Task
<1>1. ASSUME NEW r \in Refreshes(rt), RequestBegin(s, r)
      PROVE  rt' \in Runtime /\ task' \in [Children -> Task] /\ req' \in [Slots -> Request]
  <2>1. r \in Runtime /\ r.active + 1 \in Nat /\ r.gen \in Nat /\ r.conn \in MaybeChild
    BY RefreshType DEF Runtime
  <2>2. [r EXCEPT !.active = r.active + 1] \in Runtime
    BY <2>1, FieldTypes
  <2>3. rt' \in Runtime /\ task' \in [Children -> Task]
    BY <1>1, <2>2, SetRuntimeType DEF RequestBegin
  <2>4. req' \in [Slots -> Request]
    BY <1>0, <1>1, <2>1 DEF RequestBegin, Request, NoRequest
  <2> QED  BY <2>3, <2>4
<1>2. ASSUME NEW r \in Refreshes(rt), RequestRefused(r)
      PROVE  rt' \in Runtime /\ task' \in [Children -> Task] /\ req' \in [Slots -> Request]
  BY <1>0, <1>2, RefreshType, SetRuntimeType DEF RequestRefused
<1>3. ASSUME RequestEnd(s)
      PROVE  rt' \in Runtime /\ task' \in [Children -> Task] /\ req' \in [Slots -> Request]
  <2>1. Released(req[s]) \in Runtime
    <3>1. rt.active \in Nat
      BY <1>0 DEF Runtime
    <3>2. (IF rt.active > 0 THEN rt.active - 1 ELSE 0) \in Nat
      BY <3>1
    <3> QED  BY <1>0, <3>2, FieldTypes DEF Released
  <2>2. req' \in [Slots -> Request]
    BY <1>0, <1>3, ChildFacts DEF RequestEnd, Request, NoRequest
  <2> QED  BY <1>0, <1>3, <2>1, <2>2 DEF RequestEnd
<1> QED  BY <1>1, <1>2, <1>3

-----------------------------------------------------------------------------
(* One lemma per group of actions: each keeps the types. *)

LEMMA CallerType ==
    ASSUME TypeOK, NEW s \in Callers, CallerRequest(s) \/ CallerDone(s)
    PROVE  TypeOK'
<1>1. s \in Slots
  BY DEF Slots
<1>2. rt' \in Runtime /\ task' \in [Children -> Task] /\ req' \in [Slots -> Request]
  BY <1>1, RequestType DEF CallerRequest, CallerDone
<1>3. UNCHANGED <<alive, kid, spawned, op, ws>>
  BY DEF CallerRequest, CallerDone
<1> QED  BY <1>2, <1>3 DEF TypeOK

LEMMA DropType ==
    ASSUME TypeOK, NEW d \in Deciders, DecisionDropped(d)
    PROVE  TypeOK'
<1>1. d \in Slots /\ req \in [Slots -> Request]
  BY ConstantsAssumption DEF Slots, TypeOK
<1>2. req' \in [Slots -> Request]
  BY <1>1 DEF DecisionDropped, Request
<1> QED  BY <1>2 DEF DecisionDropped, TypeOK

LEMMA HandlerType ==
    ASSUME TypeOK, NEW h \in Handlers
    PROVE  /\ HandlerStep(h) => TypeOK'
           /\ \A p \in Profiles : StartHandler(h, p) => TypeOK'
           /\ \A s \in Sessions : HistoryHandler(h, s) => TypeOK'
           /\ \A s \in Sessions, chat \in BOOLEAN : WakeHandler(h, s, chat) => TypeOK'
<1>0. ws \in [Handlers -> Handler] /\ h \in Slots
  BY DEF TypeOK, Slots
<1>5. /\ \A x \in HandlerStates : [ws EXCEPT ![h].at = x] \in [Handlers -> Handler]
      /\ [ws EXCEPT ![h] = Free] \in [Handlers -> Handler]
  BY <1>0 DEF Handler, HandlerStates, Free
<1>1. ASSUME NEW p \in Profiles, StartHandler(h, p) PROVE TypeOK'
  <2>1. ws' \in [Handlers -> Handler]
    BY <1>0, <1>1 DEF StartHandler, Handler, HandlerStates, Free
  <2> QED  BY <1>1, <2>1 DEF StartHandler, TypeOK
<1>2. ASSUME NEW s \in Sessions, HistoryHandler(h, s) PROVE TypeOK'
  <2>1. ws' \in [Handlers -> Handler]
    BY <1>0, <1>2 DEF HistoryHandler, Handler, HandlerStates, Free
  <2> QED  BY <1>2, <2>1 DEF HistoryHandler, TypeOK
<1>3. ASSUME NEW s \in Sessions, NEW chat \in BOOLEAN, WakeHandler(h, s, chat) PROVE TypeOK'
  <2>1. ws' \in [Handlers -> Handler]
    BY <1>0, <1>3, ConstantsAssumption DEF WakeHandler, Handler, HandlerStates, Free
  <2> QED  BY <1>3, <2>1 DEF WakeHandler, TypeOK
<1>4. ASSUME HandlerStep(h) PROVE TypeOK'
  <2>1. CASE HandlerStopBegin(h)
    <3>1. ws' \in [Handlers -> Handler] /\ op' \in Operation
      BY <1>0, <2>1, BeginType, LabelFacts DEF HandlerStopBegin, OpKinds, Handler, HandlerStates
    <3> QED  BY <2>1, <3>1 DEF HandlerStopBegin, TypeOK
  <2>2. CASE HandlerStartBegin(h)
    <3>1. ws' \in [Handlers -> Handler] /\ ws[h].profile \in Profiles \cup {NoProfile}
      BY <1>0, <2>2 DEF HandlerStartBegin, Handler, HandlerStates, Free
    <3>2. op' \in Operation
      BY <2>2, <3>1, BeginType, LabelFacts DEF HandlerStartBegin, OpKinds
    <3> QED  BY <2>2, <3>1, <3>2 DEF HandlerStartBegin, TypeOK
  <2>3. CASE HandlerWakeBegin(h)
    <3>1. /\ ws' \in [Handlers -> Handler]
          /\ ws[h].profile \in Profiles \cup {NoProfile}
          /\ ws[h].session \in Sessions \cup {NoSession}
      BY <1>0, <2>3 DEF HandlerWakeBegin, Handler, HandlerStates, Free
    <3>2. op' \in Operation
      BY <2>3, <3>1, BeginType, LabelFacts DEF HandlerWakeBegin, OpKinds
    <3> QED  BY <2>3, <3>1, <3>2 DEF HandlerWakeBegin, TypeOK
  <2>4. CASE StartHandlerClear(h)
    <3>1. ws' \in [Handlers -> Handler] /\ rt' \in Runtime
      BY <1>0, <2>4, FieldTypes DEF StartHandlerClear, TypeOK, Handler, HandlerStates
    <3> QED  BY <2>4, <3>1 DEF StartHandlerClear, TypeOK
  <2>5. CASE HandlerRequest(h)
    <3>0. \/ \E x \in HandlerStates : ws' = [ws EXCEPT ![h].at = x]
          \/ ws' = [ws EXCEPT ![h] = Free]
      BY <2>5 DEF HandlerRequest, HandlerStates
    <3>1. ws' \in [Handlers -> Handler]
      BY <1>5, <3>0
    <3>2. rt' \in Runtime /\ task' \in [Children -> Task] /\ req' \in [Slots -> Request]
      BY <1>0, <2>5, RequestType DEF HandlerRequest
    <3>3. UNCHANGED <<alive, kid, spawned, op>>
      BY <2>5 DEF HandlerRequest
    <3> QED  BY <3>1, <3>2, <3>3 DEF TypeOK
  <2>6. CASE HandlerDone(h)
    <3>0. \/ \E x \in HandlerStates : ws' = [ws EXCEPT ![h].at = x]
          \/ ws' = [ws EXCEPT ![h] = Free]
      BY <2>6 DEF HandlerDone, HandlerStates
    <3>1. ws' \in [Handlers -> Handler]
      BY <1>5, <3>0
    <3>2. rt' \in Runtime /\ task' \in [Children -> Task] /\ req' \in [Slots -> Request]
      BY <1>0, <2>6, RequestType DEF HandlerDone
    <3> QED  BY <2>6, <3>1, <3>2 DEF HandlerDone, TypeOK
  <2> QED  BY <1>4, <2>1, <2>2, <2>3, <2>4, <2>5, <2>6 DEF HandlerStep
<1> QED  BY <1>1, <1>2, <1>3, <1>4

LEMMA RuntimeParts ==
    ASSUME NEW r \in Runtime
    PROVE  /\ r.child \in MaybeChild /\ r.conn \in MaybeChild /\ r.eventTask \in MaybeChild
           /\ r.gen \in Nat /\ r.active \in Nat
           /\ r.phase \in Phases /\ r.profile \in Profiles \cup {NoProfile}
BY DEF Runtime

LEMMA OpRefreshType ==
    ASSUME TypeOK, NEW l \in OpLabels, OpRefresh(l)
    PROVE  rt' \in Runtime /\ task' \in [Children -> Task] /\ UNCHANGED <<alive, kid, spawned, req>>
BY RefreshStepType DEF OpRefresh

\* What is left to show of a step that changes neither children nor requests.
LEMMA OpTypeCombine ==
    ASSUME TypeOK, rt' \in Runtime, task' \in [Children -> Task],
           UNCHANGED <<alive, kid, spawned, req>>,
           op' \in Operation, ws' \in [Handlers -> Handler]
    PROVE  TypeOK'
BY DEF TypeOK

LEMMA StopType ==
    ASSUME TypeOK,
           OpKill \/ OpDetach \/ OpStopSync \/ OpSleepDetach
           \/ OpProbe \/ OpDecideUnhealthy \/ OpDecide \/ OpReapSync
    PROVE  TypeOK'
<1>0. /\ rt \in Runtime /\ task \in [Children -> Task]
      /\ op \in Operation /\ ws \in [Handlers -> Handler]
      /\ rt.child \in MaybeChild /\ Detach(rt) \in Runtime
  BY RuntimeParts, DetachType DEF TypeOK
<1>1. CASE OpKill
  <2>1. CASE op.next = "idle"
    <3>1. op' \in Operation /\ ws' \in [Handlers -> Handler]
      BY <1>1, <2>1, EndOpType DEF OpKill
    <3> QED  BY <1>1, <3>1 DEF OpKill, TypeOK
  <2>2. CASE op.next # "idle"
    <3>1. op' \in Operation /\ UNCHANGED ws
      BY <1>0, <1>1, <2>2, ChildFacts DEF OpKill, Operation
    <3> QED  BY <1>1, <3>1 DEF OpKill, TypeOK
  <2> QED  BY <2>1, <2>2
<1>2. CASE OpDetach
  <2>1. rt' \in Runtime /\ task' \in [Children -> Task]
    BY <1>0, <1>2, SetRuntimeType DEF OpDetach
  <2>2. op' \in Operation
    BY <1>0, <1>2, GotoType, LabelFacts DEF OpDetach
  <2> QED  BY <1>0, <1>2, <2>1, <2>2, OpTypeCombine DEF OpDetach
<1>3. CASE OpStopSync
  <2>1. rt' \in Runtime /\ task' \in [Children -> Task] /\ UNCHANGED <<alive, kid, spawned, req>>
    BY <1>3, OpRefreshType, LabelFacts DEF OpStopSync
  <2>2. op.back \in OpLabels
    BY <1>0 DEF Operation
  <2>3. op' \in Operation /\ ws' \in [Handlers -> Handler]
    BY <1>0, <1>3, <2>2, EndOpType, GotoType DEF OpStopSync
  <2> QED  BY <2>1, <2>3, OpTypeCombine
<1>4. CASE OpSleepDetach
  <2>1. CASE SetRuntime(Detach(rt)) /\ Terminate(rt.child, "idle") /\ UNCHANGED ws
    <3>1. rt' \in Runtime /\ task' \in [Children -> Task] /\ op' \in Operation
      BY <1>0, <2>1, SetRuntimeType, GotoType, LabelFacts
    <3> QED  BY <1>0, <1>4, <2>1, <3>1, OpTypeCombine DEF OpSleepDetach
  <2>2. CASE EndOp(TRUE) /\ UNCHANGED <<rt, task>>
    BY <1>0, <1>4, <2>2, EndOpType, OpTypeCombine DEF OpSleepDetach
  <2> QED  BY <1>4, <2>1, <2>2 DEF OpSleepDetach
<1>5. CASE OpProbe
  BY <1>0, <1>5, GotoType, LabelFacts, OpTypeCombine DEF OpProbe
<1>6. CASE OpDecideUnhealthy
  <2>1. PICK r \in Refreshes(rt) : /\ SetRuntime([Detach(r) EXCEPT !.phase = "error"])
                                   /\ Terminate(r.child, "reapSync")
    BY <1>6 DEF OpDecideUnhealthy
  <2>2. r.child \in MaybeChild /\ [Detach(r) EXCEPT !.phase = "error"] \in Runtime
    BY RefreshType, RuntimeParts, DetachType
  <2>3. rt' \in Runtime /\ task' \in [Children -> Task] /\ op' \in Operation
    BY <2>1, <2>2, SetRuntimeType, GotoType, LabelFacts
  <2> QED  BY <1>0, <1>6, <2>3, OpTypeCombine DEF OpDecideUnhealthy
<1>7. CASE OpDecide
  <2>1. PICK r \in Refreshes(rt) :
          \/ SetRuntime(Detach(r)) /\ Terminate(r.child, "reapSync")
          \/ SetRuntime(r) /\ Goto("reapSync")
    BY <1>7 DEF OpDecide
  <2>2. r \in Runtime /\ r.child \in MaybeChild /\ Detach(r) \in Runtime
    BY RefreshType, RuntimeParts, DetachType
  <2>3. rt' \in Runtime /\ task' \in [Children -> Task] /\ op' \in Operation
    BY <2>1, <2>2, SetRuntimeType, GotoType, LabelFacts
  <2> QED  BY <1>0, <1>7, <2>3, OpTypeCombine DEF OpDecide
<1>8. CASE OpReapSync
  BY <1>8, OpRefreshType, EndOpType, LabelFacts, OpTypeCombine DEF OpReapSync
<1> QED  BY <1>1, <1>2, <1>3, <1>4, <1>5, <1>6, <1>7, <1>8

LEMMA SpawnType ==
    ASSUME TypeOK, OpSpawn
    PROVE  TypeOK'
<1> DEFINE c == spawned + 1
           r == [rt EXCEPT !.gen = @ + 1, !.child = c, !.conn = c]
<1>1. c \in Children /\ c \in MaybeChild
  BY ConstantsAssumption DEF OpSpawn, TypeOK, MaybeChild, Children
<1>2. rt \in Runtime /\ rt.gen + 1 \in Nat
  BY RuntimeParts DEF TypeOK
<1>3. r \in Runtime /\ r.gen = rt.gen + 1
  BY <1>1, <1>2 DEF Runtime
<1>4. kid' \in [Children -> Kid]
  <2>1. op.profile \in Profiles \cup {NoProfile}
    BY DEF TypeOK, Operation
  <2>2. [gen |-> r.gen, profile |-> op.profile] \in Kid
    BY <1>2, <1>3, <2>1 DEF Kid
  <2> QED  BY <2>2, <1>1 DEF OpSpawn, TypeOK
<1>5. op' \in Operation
  BY <1>1, LabelFacts DEF OpSpawn, TypeOK, Operation
<1>6. rt' = r /\ spawned' = c /\ alive' = alive \cup {c} /\ UNCHANGED <<task, req, ws>>
  BY DEF OpSpawn
<1> QED  BY <1>1, <1>3, <1>4, <1>5, <1>6 DEF TypeOK

LEMMA StartType ==
    ASSUME TypeOK,
           OpEnter \/ OpClaim \/ OpStartSync \/ OpSpawnFails \/ OpAbandon
           \/ OpHealthy \/ OpConnect \/ OpHandle \/ OpReady \/ OpStatus \/ OpStartFailed
    PROVE  TypeOK'
<1>0. /\ rt \in Runtime /\ task \in [Children -> Task]
      /\ op \in Operation /\ ws \in [Handlers -> Handler] /\ alive \subseteq Children
      /\ op.mine \in MaybeChild /\ rt.child \in MaybeChild
      /\ [Detach(rt) EXCEPT !.phase = "error"] \in Runtime
      /\ "error" \in Phases /\ "ready" \in Phases /\ "starting" \in Phases
  BY RuntimeParts, DetachType DEF TypeOK, Operation, Phases
<1>1. CASE OpEnter
  <2>1. rt' \in Runtime /\ task' \in [Children -> Task]
    BY <1>0, <1>1, RefreshType, SetRuntimeType DEF OpEnter
  <2>2. op' \in Operation
    BY <1>1, GotoType, LabelFacts DEF OpEnter
  <2> QED  BY <1>0, <1>1, <2>1, <2>2, OpTypeCombine DEF OpEnter
<1>2. CASE OpClaim
  <2>1. ASSUME NEW r \in Refreshes(rt),
               SetRuntime([Detach(r) EXCEPT !.phase = "starting", !.profile = op.profile]),
               Terminate(r.child, "sync1")
        PROVE  rt' \in Runtime /\ task' \in [Children -> Task] /\ op' \in Operation
    <3>1. r \in Runtime /\ r.child \in MaybeChild /\ Detach(r) \in Runtime
      BY RefreshType, RuntimeParts, DetachType
    <3>2. op.profile \in Profiles \cup {NoProfile}
      BY <1>0 DEF Operation
    <3>3. [Detach(r) EXCEPT !.phase = "starting", !.profile = op.profile] \in Runtime
      BY <1>0, <3>1, <3>2 DEF Runtime
    <3> QED  BY <2>1, <3>1, <3>3, SetRuntimeType, GotoType, LabelFacts
  <2>2. ASSUME Goto("failed"), UNCHANGED <<rt, task>>
        PROVE  rt' \in Runtime /\ task' \in [Children -> Task] /\ op' \in Operation
    BY <1>0, <2>2, GotoType, LabelFacts
  <2>3. rt' \in Runtime /\ task' \in [Children -> Task] /\ op' \in Operation
    BY <1>2, <2>1, <2>2 DEF OpClaim
  <2> QED  BY <1>0, <1>2, <2>3, OpTypeCombine DEF OpClaim
<1>3. CASE OpStartSync
  <2>1. rt' \in Runtime /\ task' \in [Children -> Task] /\ UNCHANGED <<alive, kid, spawned, req>>
    BY <1>3, OpRefreshType, LabelFacts DEF OpStartSync
  <2>2. op' \in Operation /\ UNCHANGED ws
    BY <1>3, GotoType, LabelFacts DEF OpStartSync
  <2> QED  BY <1>0, <2>1, <2>2, OpTypeCombine
<1>4. CASE OpSpawnFails
  BY <1>0, <1>4, FieldTypes, GotoType, LabelFacts, OpTypeCombine DEF OpSpawnFails
<1>5. CASE OpAbandon
  <2>1. rt' \in Runtime /\ task' \in [Children -> Task] /\ op' \in Operation
    BY <1>0, <1>5, SetRuntimeType, GotoType, LabelFacts DEF OpAbandon
  <2> QED  BY <1>0, <1>5, <2>1, OpTypeCombine DEF OpAbandon
<1>6. CASE OpHealthy
  BY <1>0, <1>6, GotoType, LabelFacts, OpTypeCombine DEF OpHealthy
<1>7. CASE OpConnect
  <2>1. op.mine \in Children
    BY <1>0, <1>7 DEF OpConnect
  <2>2. task' \in [Children -> Task]
    BY <1>0, <1>7, <2>1 DEF OpConnect, Task, TaskStates
  <2> QED  BY <1>0, <1>7, <2>2, GotoType, LabelFacts, OpTypeCombine DEF OpConnect
<1>8. CASE OpHandle
  BY <1>0, <1>8, FieldTypes, GotoType, LabelFacts, OpTypeCombine DEF OpHandle
<1>9. CASE OpReady
  <2>1. rt' \in Runtime /\ op' \in Operation
    BY <1>0, <1>9, FieldTypes, GotoType, LabelFacts DEF OpReady
  <2> QED  BY <1>0, <1>9, <2>1, OpTypeCombine DEF OpReady
<1>10. CASE OpStatus
  <2>1. rt' \in Runtime /\ task' \in [Children -> Task] /\ UNCHANGED <<alive, kid, spawned, req>>
    BY <1>10, OpRefreshType, LabelFacts DEF OpStatus
  <2>2. op' \in Operation /\ ws' \in [Handlers -> Handler]
    BY <1>0, <1>10, GotoType, EndOpType, LabelFacts DEF OpStatus
  <2> QED  BY <2>1, <2>2, OpTypeCombine
<1>11. CASE OpStartFailed
  <2>1. CASE rt.phase = "starting"
    <3>1. rt' \in Runtime /\ task' \in [Children -> Task] /\ op' \in Operation
      BY <1>0, <1>11, <2>1, SetRuntimeType, GotoType, LabelFacts DEF OpStartFailed
    <3> QED  BY <1>0, <1>11, <2>1, <3>1, OpTypeCombine DEF OpStartFailed
  <2>2. CASE rt.phase # "starting"
    BY <1>0, <1>11, <2>2, EndOpType, OpTypeCombine DEF OpStartFailed
  <2> QED  BY <2>1, <2>2
<1> QED  BY <1>1, <1>2, <1>3, <1>4, <1>5, <1>6, <1>7, <1>8, <1>9, <1>10, <1>11

LEMMA WakeType ==
    ASSUME TypeOK,
           OpLook \/ OpSelect \/ OpWakeFailed \/ OpWakeSync \/ OpMark \/ OpMarkSync
           \/ \E h \in Handlers : OpAsk(h) \/ OpAnswer(h)
    PROVE  TypeOK'
<1>0. /\ rt \in Runtime /\ task \in [Children -> Task]
      /\ op \in Operation /\ ws \in [Handlers -> Handler]
      /\ op.session \in Sessions \cup {NoSession}
      /\ "error" \in Phases
      /\ Handlers \subseteq Slots
  BY DEF TypeOK, Operation, Phases, Slots
<1>1. CASE OpLook
  <2>1. op' \in Operation
    BY <1>0, <1>1, GiveUpType, LabelFacts DEF OpLook, Operation
  <2> QED  BY <1>0, <1>1, <2>1, OpTypeCombine DEF OpLook
<1>2. CASE OpSelect
  <2>1. rt' \in Runtime
    BY <1>0, <1>2, FieldTypes DEF OpSelect
  <2>2. op' \in Operation
    BY <1>2, GiveUpType, GotoType, LabelFacts DEF OpSelect
  <2> QED  BY <1>0, <1>2, <2>1, <2>2, OpTypeCombine DEF OpSelect
<1>3. CASE OpWakeFailed
  BY <1>0, <1>3, FieldTypes, GotoType, LabelFacts, OpTypeCombine DEF OpWakeFailed
<1>4. CASE OpWakeSync
  <2>1. rt' \in Runtime /\ task' \in [Children -> Task] /\ UNCHANGED <<alive, kid, spawned, req>>
    BY <1>4, OpRefreshType, LabelFacts DEF OpWakeSync
  <2>2. op' \in Operation /\ UNCHANGED ws
    BY <1>4, GotoType, GiveUpType, LabelFacts DEF OpWakeSync
  <2> QED  BY <1>0, <2>1, <2>2, OpTypeCombine
<1>5. CASE OpMark
  <2>1. [rt EXCEPT !.session = op.session, !.phase = "error"] \in Runtime
    BY <1>0 DEF Runtime
  <2>2. op' \in Operation
    BY <1>5, GotoType, LabelFacts DEF OpMark
  <2> QED  BY <1>0, <1>5, <2>1, <2>2, OpTypeCombine DEF OpMark
<1>6. CASE OpMarkSync
  BY <1>6, OpRefreshType, EndOpType, LabelFacts, OpTypeCombine DEF OpMarkSync
<1>7. ASSUME NEW h \in Handlers, OpAsk(h)
      PROVE  TypeOK'
  <2>1. rt' \in Runtime /\ task' \in [Children -> Task] /\ req' \in [Slots -> Request]
    BY <1>0, <1>7, RequestType DEF OpAsk
  <2>2. op' \in Operation
    BY <1>0, <1>7, GiveUpType DEF OpAsk
  <2>3. UNCHANGED <<alive, kid, spawned, ws>>
    BY <1>7 DEF OpAsk
  <2> QED  BY <2>1, <2>2, <2>3 DEF TypeOK
<1>8. ASSUME NEW h \in Handlers, OpAnswer(h)
      PROVE  TypeOK'
  <2>1. rt' \in Runtime /\ task' \in [Children -> Task] /\ req' \in [Slots -> Request]
    BY <1>0, <1>8, RequestType DEF OpAnswer
  <2>2. op' \in Operation /\ ws' \in [Handlers -> Handler]
    BY <1>0, <1>8, GiveUpType, GotoType, EndOpType, LabelFacts DEF OpAnswer
  <2>3. UNCHANGED <<alive, kid, spawned>>
    BY <1>8 DEF OpAnswer
  <2> QED  BY <2>1, <2>2, <2>3 DEF TypeOK
<1> QED  BY <1>1, <1>2, <1>3, <1>4, <1>5, <1>6, <1>7, <1>8

LEMMA BeginStepType ==
    ASSUME TypeOK, StopBegin \/ ReapBegin \/ \E s \in Sessions : SleepBegin(s)
    PROVE  TypeOK'
<1>1. op' \in Operation
  BY BeginType, LabelFacts DEF StopBegin, ReapBegin, SleepBegin, OpKinds
<1> QED  BY <1>1 DEF StopBegin, ReapBegin, SleepBegin, TypeOK

LEMMA TaskStepType ==
    ASSUME TypeOK, NEW c \in Children, TaskStep(c) \/ TaskLoses(c) \/ ChildDies(c)
    PROVE  TypeOK'
<1>0. /\ rt \in Runtime /\ task \in [Children -> Task] /\ rt.child \in MaybeChild
      /\ [Detach(rt) EXCEPT !.phase = "error"] \in Runtime
      /\ Done \in Task
  BY RuntimeParts, DetachType, ChildFacts DEF TypeOK, Done, Task, TaskStates
<1>1. CASE TaskCleanup(c)
  <2>1. rt' \in Runtime
    BY <1>0, <1>1 DEF TaskCleanup
  <2>2. task' \in [Children -> Task]
    BY <1>0, <1>1 DEF TaskCleanup, Task, TaskStates
  <2> QED  BY <1>1, <2>1, <2>2 DEF TaskCleanup, TypeOK
<1>2. CASE TaskKill(c)
  <2>1. task' \in [Children -> Task]
    BY <1>0, <1>2, ChildFacts DEF TaskKill, Task, TaskStates
  <2> QED  BY <1>2, <2>1 DEF TaskKill, TypeOK
<1>3. CASE TaskSync(c)
  <2>1. PICK r \in Refreshes(rt) :
          rt' = r /\ task' \in {[t EXCEPT ![c] = Done] : t \in TasksAfter(r)}
    BY <1>3 DEF TaskSync
  <2>2. r \in Runtime
    BY RefreshType
  <2>3. \A t \in TasksAfter(r) : [t EXCEPT ![c] = Done] \in [Children -> Task]
    BY <1>0, <2>2, TasksAfterType
  <2>4. task' \in [Children -> Task]
    BY <2>1, <2>3
  <2> QED  BY <1>3, <2>1, <2>2, <2>4 DEF TaskSync, TypeOK
<1>4. CASE TaskLoses(c)
  <2>1. task' \in [Children -> Task]
    BY <1>0, <1>4 DEF TaskLoses, Task, TaskStates
  <2> QED  BY <1>4, <2>1 DEF TaskLoses, TypeOK
<1>5. CASE ChildDies(c)
  BY <1>5 DEF ChildDies, TypeOK
<1> QED  BY <1>1, <1>2, <1>3, <1>4, <1>5 DEF TaskStep

LEMMA PollType == ASSUME TypeOK, Poll PROVE TypeOK'
BY RefreshStepType DEF Poll, TypeOK

LEMMA NextType == ASSUME TypeOK, [Next]_vars PROVE TypeOK'
<1>1. CASE OpStep
  BY <1>1, StopType, SpawnType, StartType, WakeType DEF OpStep
<1>2. CASE StopBegin \/ ReapBegin \/ \E s \in Sessions : SleepBegin(s)
  BY <1>2, BeginStepType
<1>3. CASE \E h \in Handlers :
              \/ HandlerStep(h)
              \/ \E p \in Profiles : StartHandler(h, p)
              \/ \E s \in Sessions :
                   HistoryHandler(h, s) \/ \E chat \in BOOLEAN : WakeHandler(h, s, chat)
  BY <1>3, HandlerType
<1>4. CASE \E s \in Callers : CallerRequest(s) \/ CallerDone(s)
  BY <1>4, CallerType
<1>5. CASE \E c \in Children : TaskStep(c) \/ TaskLoses(c) \/ ChildDies(c)
  BY <1>5, TaskStepType
<1>6. CASE Poll
  BY <1>6, PollType
<1>7. CASE UNCHANGED vars
  BY <1>7 DEF vars, TypeOK
<1>8. CASE \E d \in Deciders : DecisionDropped(d)
  BY <1>8, DropType
<1> QED  BY <1>1, <1>2, <1>3, <1>4, <1>5, <1>6, <1>7, <1>8 DEF Next

\* active_requests, the generation and every reference to a child stay in range in
\* all behaviours: the release of a late request never takes the counter below zero.
THEOREM TypeCorrect == Spec => []TypeOK
<1>1. Init => TypeOK
  BY InitType
<1>2. TypeOK /\ [Next]_vars => TypeOK'
  BY NextType
<1> QED  BY <1>1, <1>2, PTL DEF Spec
=============================================================================
