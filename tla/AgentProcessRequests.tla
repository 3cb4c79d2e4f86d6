------------------------- MODULE AgentProcessRequests -------------------------
(***************************************************************************)
(* The requests in flight in AgentProcess, for every value of its          *)
(* constants: the count in the runtime is exact, a prompt is answered by a *)
(* process of its session's project and mode, and the reaper, a            *)
(* replacement and whoever may meet a permission decision spare the        *)
(* process that owes an answer.                                            *)
(***************************************************************************)
EXTENDS AgentProcessControl, FiniteSetTheorems

CurrentSlots == {s \in Slots : Current(s)}

\* A request went to a child already spawned, and its generation names that child;
\* the process being started has been asked nothing.
Traced(s) ==
    req[s].live =>
        /\ req[s].via \in Children /\ req[s].via <= spawned
        /\ req[s].gen <= rt.gen
        /\ kid[req[s].via].gen = req[s].gen
        /\ rt.phase = "starting" => req[s].via # rt.child

\* A handler has a request in flight only at the labels where it awaits one.
Asking(h) ==
    req[h].live =>
        \/ ws[h].at \in {"prompting", "rereading"}
        \/ ws[h].at = "waking" /\ op.at \in {"mapping", "history"}

\* The process a prompt went to was spawned with the handler's profile.
PromptFits(h) ==
    ws[h].at = "prompting" /\ req[h].live => kid[req[h].via].profile = ws[h].profile

\* start_lock is held by a decision or by the operation, not by both.
DecisionLocks == DecisionPending => ~StartLocked

Requests ==
    /\ ActiveCountExact
    /\ \A s \in Slots : Traced(s)
    /\ \A h \in Handlers : Asking(h) /\ PromptFits(h)
    /\ DecisionLocks

-----------------------------------------------------------------------------
(* What a step does to the runtime, as far as the requests are concerned. *)

\* q counts what rt counts.
Holds(q) == q.gen = rt.gen /\ q.active = rt.active

\* q is of a later generation, which was sent nothing yet.
Drops(q) == q.gen \in Nat /\ q.gen > rt.gen /\ q.active = 0

\* q is not the start of a process that has been asked something.
NoNewStart(q) ==
    q.phase = "starting" =>
        q.child = NoChild \/ (rt.phase = "starting" /\ q.child = rt.child)

LEMMA RefreshCounts ==
    ASSUME TypeOK, NEW r \in Refreshes(rt)
    PROVE  /\ r \in Runtime
           /\ Holds(r) \/ Drops(r)
           /\ NoNewStart(r)
           /\ r.phase = "ready" => r = rt
<1>1. rt \in Runtime /\ r \in Runtime
  BY RefreshType DEF TypeOK
<1>2. CASE r = rt
  BY <1>1, <1>2 DEF Holds, NoNewStart
<1>3. CASE r = [rt EXCEPT !.phase = "error"]
  BY <1>1, <1>3 DEF Holds, NoNewStart, Runtime
<1>4. CASE r = Exited(rt)
  BY <1>1, <1>4 DEF Drops, NoNewStart, Exited, Detach, Runtime
<1> QED  BY <1>1, <1>2, <1>3, <1>4 DEF Refreshes

LEMMA DetachCounts ==
    ASSUME TypeOK, NEW r \in Runtime, Holds(r) \/ Drops(r)
    PROVE  /\ Drops(Detach(r)) /\ NoNewStart(Detach(r))
           /\ Drops([Detach(r) EXCEPT !.phase = "error"])
           /\ NoNewStart([Detach(r) EXCEPT !.phase = "error"])
           /\ \A p : LET q == [Detach(r) EXCEPT !.phase = "starting", !.profile = p]
                     IN  Drops(q) /\ NoNewStart(q)
<1>1. rt.gen \in Nat /\ r.gen \in Nat /\ r.gen >= rt.gen
  BY RuntimeParts DEF TypeOK, Holds, Drops
<1> QED  BY <1>1 DEF Runtime, Detach, Drops, NoNewStart

\* The requests stay; at most the process they were sent to goes.
LEMMA CountStep ==
    ASSUME IInv, Requests, UNCHANGED req, Holds(rt') \/ Drops(rt')
    PROVE  ActiveCountExact'
<1>1. CASE Holds(rt')
  BY <1>1 DEF Requests, ActiveCountExact, Current, Holds
<1>2. CASE Drops(rt')
  <2>1. \A s \in Slots : ~Current(s)'
    <3> SUFFICES ASSUME NEW s \in Slots, req[s].live PROVE req[s].gen # rt'.gen
      BY DEF Current
    <3>1. req[s].gen \in Nat /\ rt.gen \in Nat /\ req[s].gen <= rt.gen
      BY RuntimeParts DEF IInv, TypeOK, Request, Requests, Traced
    <3> QED  BY <1>2, <3>1 DEF Drops
  <2>2. {s \in Slots : Current(s)'} = {}
    BY <2>1
  <2> QED  BY <1>2, <2>2, FS_EmptySet DEF ActiveCountExact, Drops
<1> QED  BY <1>1, <1>2

LEMMA TracedStep ==
    ASSUME IInv, Requests, UNCHANGED <<req, kid, spawned>>,
           Holds(rt') \/ Drops(rt'), NoNewStart(rt')
    PROVE  \A s \in Slots : Traced(s)'
<1> SUFFICES ASSUME NEW s \in Slots, req[s].live PROVE Traced(s)'
  BY DEF Traced
<1>1. /\ req[s].via \in Children /\ req[s].via <= spawned /\ req[s].gen <= rt.gen
      /\ kid[req[s].via].gen = req[s].gen
      /\ rt.phase = "starting" => req[s].via # rt.child
  BY DEF Requests, Traced
<1>2. req[s].gen <= rt'.gen
  <2>1. req[s].gen \in Nat /\ rt.gen \in Nat
    BY RuntimeParts DEF IInv, TypeOK, Request
  <2> QED  BY <1>1, <2>1 DEF Holds, Drops
<1>3. rt'.phase = "starting" => req[s].via # rt'.child
  BY <1>1, ChildFacts DEF NoNewStart
<1> QED  BY <1>1, <1>2, <1>3 DEF Traced

LEMMA CountBegin ==
    ASSUME IInv, Requests, NEW s \in Slots, NEW r \in Refreshes(rt), RequestBegin(s, r),
           ~req[s].live, UNCHANGED <<kid, spawned>>
    PROVE  /\ ActiveCountExact'
           /\ \A d \in Slots : Traced(d)'
           /\ req' = [req EXCEPT ![s] = req'[s]]
           /\ req'[s].live /\ ~req'[s].dropped
           /\ kid[req'[s].via].profile = rt.profile
<1>0. TypeOK /\ rt \in Runtime /\ req \in [Slots -> Request]
  BY DEF IInv, TypeOK
<1>1. /\ r = rt /\ rt.phase = "ready" /\ rt' = [rt EXCEPT !.active = @ + 1]
      /\ req' = [req EXCEPT ![s] = [NoRequest EXCEPT !.live = TRUE, !.gen = rt.gen,
                                                     !.via = rt.conn]]
  BY <1>0, RefreshCounts DEF RequestBegin, SetRuntime
<1>2. /\ req'[s].live /\ ~req'[s].dropped /\ req'[s].gen = rt.gen /\ req'[s].via = rt.conn
      /\ req' = [req EXCEPT ![s] = req'[s]]
      /\ \A d \in Slots : d # s => req'[d] = req[d]
      /\ rt'.gen = rt.gen /\ rt'.active = rt.active + 1
      /\ rt'.phase = "ready" /\ rt'.child = rt.child
  BY <1>0, <1>1 DEF NoRequest, Runtime
<1>3. /\ rt.conn = rt.child /\ rt.child \in Children /\ rt.child <= spawned
      /\ kid[rt.child].gen = rt.gen /\ kid[rt.child].profile = rt.profile
  <2>1. rt.child # NoChild /\ rt.conn = rt.child
    BY <1>1 DEF IInv, Safe, World, ReadyIsObserved
  <2>2. rt.child \in Children
    BY <1>0, <2>1, ConstantsAssumption DEF Runtime, MaybeChild, Children, NoChild
  <2> QED  BY <2>1, <2>2 DEF IInv, Safe, World, ChildKnown, ChildHasProfile
<1>4. ActiveCountExact'
  <2>1. s \notin CurrentSlots /\ {d \in Slots : Current(d)'} = CurrentSlots \cup {s}
    BY <1>2 DEF CurrentSlots, Current
  <2>2. IsFiniteSet(CurrentSlots)
    BY SlotsFinite, FS_Subset DEF CurrentSlots
  <2>3. rt.active = Cardinality(CurrentSlots)
    BY DEF Requests, ActiveCountExact, CurrentSlots
  <2> QED  BY <1>2, <2>1, <2>2, <2>3, FS_AddElement DEF ActiveCountExact
<1>5. ASSUME NEW d \in Slots PROVE Traced(d)'
  <2>1. CASE d = s
    <3>1. rt.gen \in Nat
      BY <1>0 DEF Runtime
    <3> QED  BY <1>2, <1>3, <2>1, <3>1 DEF Traced
  <2>2. CASE d # s
    <3>1. req'[d] = req[d] /\ Traced(d)
      BY <1>2, <2>2 DEF Requests
    <3> QED  BY <1>2, <3>1 DEF Traced
  <2> QED  BY <2>1, <2>2
<1> QED  BY <1>2, <1>3, <1>4, <1>5

LEMMA CountEnd ==
    ASSUME IInv, Requests, NEW s \in Slots, RequestEnd(s), UNCHANGED <<kid, spawned>>
    PROVE  /\ ActiveCountExact'
           /\ \A d \in Slots : Traced(d)'
           /\ req' = [req EXCEPT ![s] = req'[s]]
           /\ req[s].live /\ ~req'[s].live
<1>0. TypeOK /\ rt \in Runtime /\ rt.active \in Nat /\ req \in [Slots -> Request]
  BY DEF IInv, TypeOK, Runtime
<1>1. /\ req[s].live /\ ~req'[s].live
      /\ req' = [req EXCEPT ![s] = req'[s]]
      /\ \A d \in Slots : d # s => req'[d] = req[d]
      /\ rt'.gen = rt.gen /\ rt'.phase = rt.phase /\ rt'.child = rt.child
      /\ rt'.active = IF rt.gen = req[s].gen
                      THEN IF rt.active > 0 THEN rt.active - 1 ELSE 0
                      ELSE rt.active
  BY <1>0 DEF RequestEnd, NoRequest, Released, Runtime
<1>2. ActiveCountExact'
  <2>1. {d \in Slots : Current(d)'} = CurrentSlots \ {s}
    BY <1>1 DEF CurrentSlots, Current
  <2>2. IsFiniteSet(CurrentSlots)
    BY SlotsFinite, FS_Subset DEF CurrentSlots
  <2>3. rt.active = Cardinality(CurrentSlots)
    BY DEF Requests, ActiveCountExact, CurrentSlots
  <2>4. s \in CurrentSlots <=> rt.gen = req[s].gen
    BY <1>1 DEF CurrentSlots, Current
  <2>5. Cardinality(CurrentSlots \ {s}) =
          IF s \in CurrentSlots THEN Cardinality(CurrentSlots) - 1 ELSE Cardinality(CurrentSlots)
    BY <2>2, FS_RemoveElement
  <2>6. s \in CurrentSlots => rt.active > 0
    <3>1. CurrentSlots # {} => Cardinality(CurrentSlots) # 0
      BY <2>2, FS_EmptySet
    <3> QED  BY <1>0, <2>3, <3>1
  <2> QED  BY <1>0, <1>1, <2>1, <2>3, <2>4, <2>5, <2>6 DEF ActiveCountExact
<1>3. ASSUME NEW d \in Slots PROVE Traced(d)'
  <2>1. CASE d = s
    BY <1>1, <2>1 DEF Traced
  <2>2. CASE d # s
    <3>1. req'[d] = req[d] /\ Traced(d)
      BY <1>1, <2>2 DEF Requests
    <3> QED  BY <1>1, <3>1 DEF Traced
  <2> QED  BY <2>1, <2>2
<1> QED  BY <1>1, <1>2, <1>3

-----------------------------------------------------------------------------
(* The steps of the operation that send no request. *)

LEMMA LockFacts ==
    ASSUME op'.at \in {"idle", "detach", "sleepDetach", "probe", "look", "select", "enter",
                       "failed", "failedSync", "wakeSync", "mapping", "history", "mark",
                       "markSync"}
    PROVE  ~StartLocked'
BY DEF StartLocked

LEMMA RequestsKept ==
    ASSUME IInv, Requests, UNCHANGED <<req, kid, spawned>>,
           Holds(rt') \/ Drops(rt'), NoNewStart(rt'),
           \/ UNCHANGED <<op, ws>>
           \/ /\ op.at \notin {"mapping", "history"}
              /\ UNCHANGED ws \/ \E ok \in BOOLEAN : EndOp(ok),
           StartLocked' => StartLocked \/ ~DecisionPending
    PROVE  Requests'
<1>1. ActiveCountExact'
  BY CountStep
<1>2. ASSUME NEW s \in Slots PROVE Traced(s)'
  BY TracedStep
<1>3. ASSUME NEW h \in Handlers PROVE Asking(h)' /\ PromptFits(h)'
  <2>1. Asking(h) /\ PromptFits(h)
    BY DEF Requests
  <2>2. CASE UNCHANGED <<op, ws>>
    BY <2>1, <2>2 DEF Asking, PromptFits
  <2>3. CASE op.at \notin {"mapping", "history"} /\ UNCHANGED ws
    BY <2>1, <2>3 DEF Asking, PromptFits
  <2>4. ASSUME op.at \notin {"mapping", "history"}, NEW ok \in BOOLEAN, EndOp(ok)
        PROVE  Asking(h)' /\ PromptFits(h)'
    <3>1. ws[h] \in Handler /\ ws'[h] = AfterOp(ws[h], ok)
      BY <2>4 DEF EndOp, IInv, TypeOK
    <3>2. ws[h].at \in {"prompting", "rereading"} => ws'[h] = ws[h]
      BY <3>1 DEF AfterOp
    <3>3. ws'[h].at = "prompting" => ws'[h] = ws[h]
      BY <3>1 DEF AfterOp, Free, Handler
    <3> QED  BY <2>1, <2>4, <3>2, <3>3 DEF Asking, PromptFits
  <2> QED  BY <2>2, <2>3, <2>4
<1>4. DecisionLocks'
  BY DEF Requests, DecisionLocks, DecisionPending, Deciding
<1> QED  BY <1>1, <1>2, <1>3, <1>4 DEF Requests

LEMMA HoldFacts ==
    ASSUME TypeOK
    PROVE  /\ UNCHANGED rt => Holds(rt') /\ NoNewStart(rt')
           /\ \A r \in Refreshes(rt) :
                /\ SetRuntime(r) => (Holds(rt') \/ Drops(rt')) /\ NoNewStart(rt')
                /\ SetRuntime(Detach(r)) => Drops(rt') /\ NoNewStart(rt')
                /\ SetRuntime([Detach(r) EXCEPT !.phase = "error"]) =>
                     Drops(rt') /\ NoNewStart(rt')
                /\ \A p : SetRuntime([Detach(r) EXCEPT !.phase = "starting", !.profile = p]) =>
                     Drops(rt') /\ NoNewStart(rt')
           /\ SetRuntime(Detach(rt)) => Drops(rt') /\ NoNewStart(rt')
           /\ SetRuntime([Detach(rt) EXCEPT !.phase = "error"]) => Drops(rt') /\ NoNewStart(rt')
           /\ \A l : OpRefresh(l) => (Holds(rt') \/ Drops(rt')) /\ NoNewStart(rt')
<1>1. rt \in Runtime /\ Holds(rt) /\ NoNewStart(rt)
  BY DEF TypeOK, Holds, NoNewStart
<1>2. ASSUME NEW r \in Refreshes(rt)
      PROVE  /\ SetRuntime(r) => (Holds(rt') \/ Drops(rt')) /\ NoNewStart(rt')
             /\ SetRuntime(Detach(r)) => Drops(rt') /\ NoNewStart(rt')
             /\ SetRuntime([Detach(r) EXCEPT !.phase = "error"]) => Drops(rt') /\ NoNewStart(rt')
             /\ \A p : SetRuntime([Detach(r) EXCEPT !.phase = "starting", !.profile = p]) =>
                  Drops(rt') /\ NoNewStart(rt')
  <2>1. r \in Runtime /\ (Holds(r) \/ Drops(r)) /\ NoNewStart(r)
    BY RefreshCounts
  <2> QED  BY <2>1, DetachCounts DEF SetRuntime
<1>3. /\ SetRuntime(Detach(rt)) => Drops(rt') /\ NoNewStart(rt')
      /\ SetRuntime([Detach(rt) EXCEPT !.phase = "error"]) => Drops(rt') /\ NoNewStart(rt')
  BY <1>1, DetachCounts DEF SetRuntime
<1>4. ASSUME NEW l, OpRefresh(l) PROVE (Holds(rt') \/ Drops(rt')) /\ NoNewStart(rt')
  BY <1>2, <1>4 DEF OpRefresh
<1> QED  BY <1>1, <1>2, <1>3, <1>4

LEMMA StopRequests ==
    ASSUME IInv, Control, Requests,
           OpKill \/ OpDetach \/ OpStopSync \/ OpSleepDetach
           \/ OpProbe \/ OpDecideUnhealthy \/ OpDecide \/ OpReapSync
    PROVE  Requests'
<1>0. /\ TypeOK /\ op \in Operation /\ op.back \in {"idle", "mark", "select"}
      /\ UNCHANGED <<req, kid, spawned>>
  BY DEF IInv, Safe, Startup, Returns, TypeOK, OpKill, OpDetach, OpStopSync, OpSleepDetach,
         OpProbe, OpDecideUnhealthy, OpDecide, OpReapSync, OpRefresh
<1>1. (Holds(rt') \/ Drops(rt')) /\ NoNewStart(rt')
  <2>1. CASE OpKill \/ OpProbe
    BY <1>0, <2>1, HoldFacts DEF OpKill, OpProbe
  <2>2. CASE OpDetach \/ OpSleepDetach
    BY <1>0, <2>2, HoldFacts DEF OpDetach, OpSleepDetach
  <2>3. CASE OpStopSync \/ OpReapSync
    BY <1>0, <2>3, HoldFacts DEF OpStopSync, OpReapSync
  <2>4. CASE OpDecideUnhealthy \/ OpDecide
    BY <1>0, <2>4, HoldFacts DEF OpDecideUnhealthy, OpDecide
  <2> QED  BY <2>1, <2>2, <2>3, <2>4
<1>2. /\ op.at \notin {"mapping", "history"}
      /\ UNCHANGED ws \/ \E ok \in BOOLEAN : EndOp(ok)
  BY DEF OpKill, OpDetach, OpStopSync, OpSleepDetach, OpProbe, OpDecideUnhealthy, OpDecide,
         OpReapSync, OpRefresh
<1>3. StartLocked' => StartLocked \/ ~DecisionPending
  <2>1. CASE OpKill
    <3>1. CASE op.next = "idle"
      BY <1>0, <2>1, <3>1, OpFields, LockFacts DEF OpKill
    <3>2. CASE op.next # "idle"
      BY <2>1, <3>2 DEF OpKill, StartLocked
    <3> QED  BY <3>1, <3>2
  <2>2. CASE OpDetach \/ OpSleepDetach \/ OpProbe
    BY <2>2 DEF OpDetach, OpSleepDetach, OpProbe
  <2>3. CASE OpStopSync \/ OpReapSync
    <3>1. op'.at \in {"idle", "mark", "select"}
      BY <1>0, <2>3, OpFields DEF OpStopSync, OpReapSync
    <3> QED  BY <3>1, LockFacts
  <2>4. CASE OpDecideUnhealthy \/ OpDecide
    BY <2>4 DEF OpDecideUnhealthy, OpDecide, StartLocked
  <2> QED  BY <2>1, <2>2, <2>3, <2>4
<1> QED  BY <1>0, <1>1, <1>2, <1>3, RequestsKept

LEMMA StartRequests ==
    ASSUME IInv, Control, Requests,
           OpEnter \/ OpClaim \/ OpStartSync \/ OpSpawnFails \/ OpAbandon
           \/ OpHealthy \/ OpConnect \/ OpHandle \/ OpReady \/ OpStatus \/ OpStartFailed
    PROVE  Requests'
<1>0. TypeOK /\ rt \in Runtime /\ op \in Operation /\ UNCHANGED <<req, kid, spawned>>
  BY DEF IInv, TypeOK, OpEnter, OpClaim, OpStartSync, OpSpawnFails, OpAbandon, OpHealthy,
         OpConnect, OpHandle, OpReady, OpStatus, OpStartFailed, OpRefresh
<1>1. (Holds(rt') \/ Drops(rt')) /\ NoNewStart(rt')
  <2>1. CASE OpEnter \/ OpClaim
    BY <1>0, <2>1, HoldFacts DEF OpEnter, OpClaim
  <2>2. CASE OpStartSync \/ OpStatus
    BY <1>0, <2>2, HoldFacts DEF OpStartSync, OpStatus
  <2>3. CASE OpAbandon \/ OpStartFailed
    BY <1>0, <2>3, HoldFacts DEF OpAbandon, OpStartFailed
  <2>4. CASE OpHealthy \/ OpConnect
    BY <1>0, <2>4, HoldFacts DEF OpHealthy, OpConnect
  <2>5. CASE OpSpawnFails \/ OpHandle \/ OpReady
    BY <1>0, <2>5 DEF OpSpawnFails, OpHandle, OpReady, Holds, NoNewStart, Runtime
  <2> QED  BY <2>1, <2>2, <2>3, <2>4, <2>5
<1>2. /\ op.at \notin {"mapping", "history"}
      /\ UNCHANGED ws \/ \E ok \in BOOLEAN : EndOp(ok)
  BY DEF OpEnter, OpClaim, OpStartSync, OpSpawnFails, OpAbandon, OpHealthy, OpConnect, OpHandle,
         OpReady, OpStatus, OpStartFailed, OpRefresh
<1>3. StartLocked' => StartLocked \/ ~DecisionPending
  <2>1. CASE OpEnter
    BY <2>1 DEF OpEnter
  <2>2. CASE OpStartFailed
    <3>1. \/ op'.at = "idle"
          \/ op'.at = "kill" /\ op'.next = "idle" /\ op'.kind = "start"
      BY <1>0, <2>2, OpFields DEF OpStartFailed, OpKeeps
    <3> QED  BY <3>1 DEF StartLocked
  <2>3. CASE ~OpEnter /\ ~OpStartFailed
    BY <2>3 DEF OpClaim, OpStartSync, OpSpawnFails, OpAbandon, OpHealthy, OpConnect, OpHandle,
                OpReady, OpStatus, OpRefresh, StartLocked
  <2> QED  BY <2>1, <2>2, <2>3
<1> QED  BY <1>0, <1>1, <1>2, <1>3, RequestsKept

LEMMA WakeRequests ==
    ASSUME IInv, Control, Requests,
           OpLook \/ OpSelect \/ OpWakeFailed \/ OpWakeSync \/ OpMark \/ OpMarkSync
    PROVE  Requests'
<1>0. TypeOK /\ rt \in Runtime /\ op \in Operation /\ UNCHANGED <<req, kid, spawned>>
  BY DEF IInv, TypeOK, OpLook, OpSelect, OpWakeFailed, OpWakeSync, OpMark, OpMarkSync, OpRefresh
<1>1. (Holds(rt') \/ Drops(rt')) /\ NoNewStart(rt')
  <2>1. CASE OpLook \/ OpWakeSync \/ OpMarkSync
    BY <1>0, <2>1, HoldFacts DEF OpLook, OpWakeSync, OpMarkSync
  <2>2. CASE OpSelect \/ OpWakeFailed \/ OpMark
    BY <1>0, <2>2 DEF OpSelect, OpWakeFailed, OpMark, Holds, NoNewStart, Runtime
  <2> QED  BY <2>1, <2>2
<1>2. /\ op.at \notin {"mapping", "history"}
      /\ UNCHANGED ws \/ \E ok \in BOOLEAN : EndOp(ok)
  BY DEF OpLook, OpSelect, OpWakeFailed, OpWakeSync, OpMark, OpMarkSync, OpRefresh
<1>3. op'.at \in {"select", "detach", "enter", "failedSync", "mapping", "history", "markSync",
                  "idle"}
  <2>1. CASE OpLook
    BY <1>0, <2>1, OpFields DEF OpLook, Operation
  <2>2. CASE ~OpLook
    BY <1>0, <2>2, OpFields DEF OpSelect, OpWakeFailed, OpWakeSync, OpMark, OpMarkSync
  <2> QED  BY <2>1, <2>2
<1> QED  BY <1>0, <1>1, <1>2, <1>3, LockFacts, RequestsKept

\* The old process was claimed, and nobody awaits an answer from the new one.
LEMMA SpawnRequests ==
    ASSUME IInv, Control, Requests, OpSpawn
    PROVE  Requests'
<1> DEFINE c == spawned + 1
<1>0. /\ TypeOK /\ rt \in Runtime /\ spawned \in Nat /\ c \in Children
      /\ rt.child = NoChild /\ rt.active = 0 /\ rt.gen \in Nat
      /\ kid \in [Children -> Kid] /\ op \in Operation
  BY ConstantsAssumption, RuntimeParts
     DEF IInv, TypeOK, MaybeChild, Children, OpSpawn, Safe, Startup, ClaimHeld, BeforeSpawn,
         Control, Phased
<1>1. /\ rt'.gen = rt.gen + 1 /\ rt'.active = 0 /\ rt'.child = c /\ spawned' = c
      /\ \A d \in Children : d # c => kid'[d] = kid[d]
      /\ op.at = "spawn" /\ op'.at = "sync2" /\ UNCHANGED <<req, ws>>
  BY <1>0 DEF OpSpawn, Runtime, Operation
<1>2. ActiveCountExact'
  BY <1>0, <1>1, CountStep DEF Drops
<1>3. ASSUME NEW s \in Slots, req[s].live
      PROVE  Traced(s)' /\ kid'[req[s].via] = kid[req[s].via]
  <2>1. /\ req[s].via \in Children /\ req[s].via <= spawned /\ req[s].gen <= rt.gen
        /\ kid[req[s].via].gen = req[s].gen
    BY <1>3 DEF Requests, Traced
  <2>2. req[s].via \in Nat /\ req[s].gen \in Nat
    BY <2>1 DEF Children, IInv, TypeOK, Request
  <2>3. req[s].via # c /\ req[s].via <= c /\ req[s].gen <= rt.gen + 1
    BY <1>0, <2>1, <2>2
  <2> QED  BY <1>1, <2>1, <2>3 DEF Traced
<1>4. ASSUME NEW h \in Handlers PROVE Asking(h)' /\ PromptFits(h)'
  <2>1. Asking(h) /\ PromptFits(h) /\ h \in Slots
    BY DEF Requests, Slots
  <2> QED  BY <1>1, <1>3, <2>1 DEF Asking, PromptFits
<1>5. DecisionLocks'
  BY <1>1 DEF Requests, DecisionLocks, DecisionPending, Deciding, StartLocked
<1>6. \A s \in Slots : Traced(s)'
  BY <1>1, <1>3 DEF Traced
<1> QED  BY <1>2, <1>4, <1>5, <1>6 DEF Requests

-----------------------------------------------------------------------------
(* The steps that begin or end a request, and those of the handlers.        *)

LEMMA DecidersCall == \A d \in Deciders : d \in Callers /\ d \in Slots /\ d \notin Handlers
BY ConstantsAssumption DEF Slots

\* A handler with nothing in flight after its step.
LEMMA HandlerMoves ==
    ASSUME IInv, Requests, NEW h \in Handlers, ~req'[h].live,
           ActiveCountExact', \A s \in Slots : Traced(s)',
           \A s \in Slots : s # h => req'[s] = req[s],
           \A g \in Handlers : g # h => ws'[g] = ws[g],
           UNCHANGED <<kid, spawned>>,
           op' = op \/ (op.at = "idle" /\ ~StartLocked')
    PROVE  Requests'
<1>1. ASSUME NEW g \in Handlers PROVE Asking(g)' /\ PromptFits(g)'
  <2>1. CASE g = h
    BY <2>1 DEF Asking, PromptFits
  <2>2. CASE g # h
    <3>1. Asking(g) /\ PromptFits(g) /\ req'[g] = req[g] /\ ws'[g] = ws[g]
      BY <2>2 DEF Requests, Slots
    <3> QED  BY <3>1 DEF Asking, PromptFits
  <2> QED  BY <2>1, <2>2
<1>2. DecisionLocks'
  <2>1. DecisionPending' => DecisionPending
    BY DecidersCall DEF DecisionPending, Deciding
  <2>2. StartLocked' => StartLocked
    BY DEF StartLocked
  <2> QED  BY <2>1, <2>2 DEF Requests, DecisionLocks
<1> QED  BY <1>1, <1>2 DEF Requests

LEMMA AskRequests ==
    ASSUME IInv, Control, Requests, NEW h \in Handlers, OpAsk(h) \/ OpAnswer(h)
    PROVE  Requests'
<1>0. /\ TypeOK /\ h \in Slots /\ ws[h].at = "waking" /\ op.at \in {"mapping", "history"}
      /\ UNCHANGED <<kid, spawned>>
  BY DEF IInv, Slots, OpAsk, OpAnswer
<1>1. ASSUME NEW g \in Handlers, g # h PROVE g \in Slots /\ ~req[g].live
  <2>1. ws[g].at = "free"
    BY <1>0, <1>1 DEF Control, Turns, OneHandler
  <2>2. Asking(g)
    BY DEF Requests
  <2> QED  BY <2>1, <2>2 DEF Asking, Slots
<1>2. op'.at \in {"mapping", "history", "detach", "idle"}
  BY <1>0, OpFields DEF OpAsk, OpAnswer
<1>3. ASSUME NEW r \in Refreshes(rt), RequestBegin(h, r), UNCHANGED <<op, ws>>, ~req[h].live
      PROVE  Requests'
  <2>1. /\ ActiveCountExact' /\ \A s \in Slots : Traced(s)'
        /\ req' = [req EXCEPT ![h] = req'[h]]
    BY <1>0, <1>3, CountBegin
  <2>2. \A s \in Slots : s # h => req'[s] = req[s]
    BY <2>1 DEF IInv, TypeOK
  <2>3. ASSUME NEW g \in Handlers PROVE Asking(g)' /\ PromptFits(g)'
    BY <1>0, <1>1, <1>3, <2>2 DEF Asking, PromptFits
  <2>4. DecisionLocks'
    BY <1>2, LockFacts DEF DecisionLocks
  <2> QED  BY <2>1, <2>3, <2>4 DEF Requests
<1>4. ASSUME NEW r \in Refreshes(rt), RequestRefused(r), UNCHANGED ws, ~req[h].live
      PROVE  Requests'
  <2>1. UNCHANGED req /\ (Holds(rt') \/ Drops(rt')) /\ NoNewStart(rt')
    BY <1>0, <1>4, HoldFacts DEF RequestRefused
  <2>2. ActiveCountExact' /\ \A s \in Slots : Traced(s)'
    BY <1>0, <2>1, CountStep, TracedStep
  <2>3. ASSUME NEW g \in Handlers PROVE Asking(g)' /\ PromptFits(g)'
    BY <1>1, <1>4, <2>1 DEF Asking, PromptFits
  <2>4. DecisionLocks'
    BY <1>2, LockFacts DEF DecisionLocks
  <2> QED  BY <2>2, <2>3, <2>4 DEF Requests
<1>5. ASSUME RequestEnd(h) PROVE Requests'
  <2>1. /\ ActiveCountExact' /\ \A s \in Slots : Traced(s)'
        /\ req' = [req EXCEPT ![h] = req'[h]] /\ ~req'[h].live
    BY <1>0, <1>5, CountEnd
  <2>2. \A s \in Slots : s # h => req'[s] = req[s]
    BY <2>1 DEF IInv, TypeOK
  <2>3. ASSUME NEW g \in Handlers PROVE Asking(g)' /\ PromptFits(g)'
    BY <1>1, <2>1, <2>2 DEF Asking, PromptFits
  <2>4. DecisionLocks'
    BY <1>2, LockFacts DEF DecisionLocks
  <2> QED  BY <2>1, <2>3, <2>4 DEF Requests
<1> QED  BY <1>0, <1>3, <1>4, <1>5 DEF OpAsk, OpAnswer

LEMMA HandlerRequests ==
    ASSUME IInv, Control, Requests, NEW h \in Handlers, HandlerRequest(h) \/ HandlerDone(h)
    PROVE  Requests'
<1>0. /\ TypeOK /\ h \in Slots /\ ws \in [Handlers -> Handler] /\ req \in [Slots -> Request]
      /\ UNCHANGED <<kid, spawned, op>>
  BY DEF IInv, TypeOK, Slots, HandlerRequest, HandlerDone
<1>1. \A g \in Handlers : g # h => ws'[g] = ws[g]
  BY <1>0 DEF HandlerRequest, HandlerDone
<1>2. CASE HandlerDone(h)
  <2>1. /\ ActiveCountExact' /\ \A s \in Slots : Traced(s)'
        /\ req' = [req EXCEPT ![h] = req'[h]] /\ ~req'[h].live
    BY <1>0, <1>2, CountEnd DEF HandlerDone
  <2>2. \A s \in Slots : s # h => req'[s] = req[s]
    BY <1>0, <2>1
  <2> QED  BY <1>0, <1>1, <2>1, <2>2, HandlerMoves
<1>3. ASSUME HandlerRequest(h) PROVE ~req[h].live
  <2>1. ws[h].at \in {"prompt", "reread"} /\ Asking(h)
    BY <1>3 DEF HandlerRequest, Requests
  <2> QED  BY <2>1 DEF Asking
<1>4. CASE \E r \in Refreshes(rt) : RequestRefused(r) /\ HandlerRequest(h)
  <2>1. UNCHANGED req /\ (Holds(rt') \/ Drops(rt')) /\ NoNewStart(rt')
    BY <1>0, <1>4, HoldFacts DEF RequestRefused
  <2>2. ActiveCountExact' /\ \A s \in Slots : Traced(s)'
    BY <1>0, <2>1, CountStep, TracedStep
  <2> QED  BY <1>0, <1>1, <1>3, <1>4, <2>1, <2>2, HandlerMoves
<1>5. ASSUME NEW r \in Refreshes(rt), RequestBegin(h, r), HandlerRequest(h),
             \/ ws[h].at = "prompt" /\ ws' = [ws EXCEPT ![h].at = "prompting"]
             \/ ws[h].at = "reread" /\ ws' = [ws EXCEPT ![h].at = "rereading"]
      PROVE  Requests'
  <2>1. /\ ActiveCountExact' /\ \A s \in Slots : Traced(s)'
        /\ req' = [req EXCEPT ![h] = req'[h]]
        /\ kid[req'[h].via].profile = rt.profile
    BY <1>0, <1>3, <1>5, CountBegin
  <2>2. \A s \in Slots : s # h => req'[s] = req[s]
    BY <1>0, <2>1
  <2>3. /\ ws'[h].at \in {"prompting", "rereading"} /\ ws'[h].profile = ws[h].profile
        /\ ws'[h].at = "prompting" => ws[h].at = "prompt"
    BY <1>0, <1>5 DEF Handler
  <2>4. ws[h].at = "prompt" => rt.profile = ws[h].profile
    BY DEF Control, Turns, HandlerFacts
  <2>5. ASSUME NEW g \in Handlers PROVE Asking(g)' /\ PromptFits(g)'
    <3>1. CASE g = h
      BY <1>0, <2>1, <2>3, <2>4, <3>1 DEF Asking, PromptFits
    <3>2. CASE g # h
      <4>1. Asking(g) /\ PromptFits(g) /\ req'[g] = req[g] /\ ws'[g] = ws[g]
        BY <1>1, <2>2, <3>2 DEF Requests, Slots
      <4> QED  BY <1>0, <4>1 DEF Asking, PromptFits
    <3> QED  BY <3>1, <3>2
  <2>6. DecisionLocks'
    <3>1. DecisionPending' => DecisionPending
      BY <2>2, DecidersCall DEF DecisionPending, Deciding
    <3> QED  BY <1>0, <3>1 DEF Requests, DecisionLocks, StartLocked
  <2> QED  BY <2>1, <2>5, <2>6 DEF Requests
<1> QED  BY <1>2, <1>4, <1>5 DEF HandlerRequest

LEMMA IdleHandlerRequests ==
    ASSUME IInv, Control, Requests, NEW h \in Handlers,
           \/ StartHandlerClear(h)
           \/ HandlerStopBegin(h) \/ HandlerStartBegin(h) \/ HandlerWakeBegin(h)
           \/ \E p \in Profiles : StartHandler(h, p)
           \/ \E s \in Sessions :
                HistoryHandler(h, s) \/ \E chat \in BOOLEAN : WakeHandler(h, s, chat)
    PROVE  Requests'
<1>0. /\ TypeOK /\ rt \in Runtime /\ ws \in [Handlers -> Handler]
      /\ UNCHANGED <<req, kid, spawned>>
  BY DEF IInv, TypeOK, StartHandlerClear, HandlerStopBegin, HandlerStartBegin, HandlerWakeBegin,
         StartHandler, HistoryHandler, WakeHandler
<1>1. ws[h].at \in {"free", "clear", "stopFirst", "start", "wake"}
  BY DEF StartHandlerClear, HandlerStopBegin, HandlerStartBegin, HandlerWakeBegin,
         StartHandler, HistoryHandler, WakeHandler, WorkspaceFree
<1>2. ~req'[h].live
  BY <1>0, <1>1 DEF Requests, Asking
<1>3. \A g \in Handlers : g # h => ws'[g] = ws[g]
  BY <1>0 DEF StartHandlerClear, HandlerStopBegin, HandlerStartBegin, HandlerWakeBegin,
              StartHandler, HistoryHandler, WakeHandler
<1>4. Holds(rt') /\ NoNewStart(rt')
  BY <1>0 DEF Holds, NoNewStart, Runtime, StartHandlerClear, HandlerStopBegin, HandlerStartBegin,
              HandlerWakeBegin, StartHandler, HistoryHandler, WakeHandler
<1>5. op' = op \/ (op.at = "idle" /\ ~StartLocked')
  <2>1. CASE HandlerStopBegin(h) \/ HandlerStartBegin(h) \/ HandlerWakeBegin(h)
    <3>1. op.at = "idle" /\ op'.at \in {"detach", "enter", "look"}
      BY <1>0, <2>1, MoveFacts DEF HandlerStopBegin, HandlerStartBegin, HandlerWakeBegin
    <3> QED  BY <3>1, LockFacts
  <2>2. CASE ~(HandlerStopBegin(h) \/ HandlerStartBegin(h) \/ HandlerWakeBegin(h))
    BY <2>2 DEF StartHandlerClear, StartHandler, HistoryHandler, WakeHandler
  <2> QED  BY <2>1, <2>2
<1>6. ActiveCountExact' /\ \A s \in Slots : Traced(s)'
  BY <1>0, <1>4, CountStep, TracedStep
<1> QED  BY <1>0, <1>2, <1>3, <1>5, <1>6, HandlerMoves

LEMMA CallerRequests ==
    ASSUME IInv, Control, Requests, NEW s \in Callers, CallerRequest(s) \/ CallerDone(s)
    PROVE  Requests'
<1>0. /\ TypeOK /\ s \in Slots /\ s \notin Handlers /\ req \in [Slots -> Request]
      /\ UNCHANGED <<kid, spawned, op, ws>>
  BY ConstantsAssumption DEF IInv, TypeOK, Slots, CallerRequest, CallerDone
<1>1. ASSUME ActiveCountExact', \A d \in Slots : Traced(d)', req' = [req EXCEPT ![s] = req'[s]],
             s \in Deciders /\ req'[s].live => ~StartLocked
      PROVE  Requests'
  <2>1. \A d \in Slots : d # s => req'[d] = req[d]
    BY <1>0, <1>1
  <2>2. ASSUME NEW g \in Handlers PROVE Asking(g)' /\ PromptFits(g)'
    <3>1. Asking(g) /\ PromptFits(g) /\ req'[g] = req[g]
      BY <1>0, <2>1 DEF Requests, Slots
    <3> QED  BY <1>0, <3>1 DEF Asking, PromptFits
  <2>3. DecisionLocks'
    <3>1. DecisionPending' => DecisionPending \/ (s \in Deciders /\ req'[s].live)
      BY <2>1, DecidersCall DEF DecisionPending, Deciding
    <3> QED  BY <1>0, <1>1, <3>1 DEF Requests, DecisionLocks, StartLocked
  <2> QED  BY <1>1, <2>2, <2>3 DEF Requests
<1>2. CASE CallerDone(s)
  BY <1>0, <1>1, <1>2, CountEnd DEF CallerDone
<1>3. ASSUME NEW r \in Refreshes(rt), RequestBegin(s, r), CallerRequest(s) PROVE Requests'
  BY <1>0, <1>1, <1>3, CountBegin DEF CallerRequest
<1>4. ASSUME NEW r \in Refreshes(rt), RequestRefused(r) PROVE Requests'
  <2>1. UNCHANGED req /\ (Holds(rt') \/ Drops(rt')) /\ NoNewStart(rt')
    BY <1>0, <1>4, HoldFacts DEF RequestRefused
  <2> QED  BY <1>0, <2>1, RequestsKept DEF StartLocked
<1> QED  BY <1>2, <1>3, <1>4 DEF CallerRequest

LEMMA DropRequests ==
    ASSUME IInv, Control, Requests, NEW d \in Deciders, DecisionDropped(d)
    PROVE  Requests'
<1>0. /\ req \in [Slots -> Request] /\ d \in Slots /\ d \notin Handlers
      /\ UNCHANGED <<rt, kid, spawned, op, ws>>
  BY DecidersCall DEF IInv, TypeOK, DecisionDropped
<1>1. \A s \in Slots : /\ req'[s].live = req[s].live /\ req'[s].gen = req[s].gen
                       /\ req'[s].via = req[s].via
                       /\ req'[s].dropped = (s = d \/ req[s].dropped)
  BY <1>0 DEF DecisionDropped, Request
<1>2. ActiveCountExact'
  <2>1. \A s \in Slots : Current(s)' <=> Current(s)
    BY <1>0, <1>1 DEF Current
  <2> QED  BY <1>0, <2>1 DEF Requests, ActiveCountExact
<1>3. ASSUME NEW s \in Slots PROVE Traced(s)'
  BY <1>0, <1>1 DEF Requests, Traced
<1>4. ASSUME NEW g \in Handlers PROVE Asking(g)' /\ PromptFits(g)'
  <2>1. Asking(g) /\ PromptFits(g) /\ g \in Slots
    BY DEF Requests, Slots
  <2> QED  BY <1>0, <1>1, <2>1 DEF Asking, PromptFits
<1>5. DecisionLocks'
  <2>1. DecisionPending' => DecisionPending
    BY <1>1, DecidersCall DEF DecisionPending, Deciding
  <2> QED  BY <1>0, <2>1 DEF Requests, DecisionLocks, StartLocked
<1> QED  BY <1>2, <1>3, <1>4, <1>5 DEF Requests

LEMMA TaskRequests ==
    ASSUME IInv, Control, Requests,
           Poll \/ \E c \in Children : TaskStep(c) \/ TaskLoses(c) \/ ChildDies(c)
    PROVE  Requests'
<1>0. TypeOK /\ rt \in Runtime /\ UNCHANGED <<req, kid, spawned, op, ws>>
  BY DEF IInv, TypeOK, Poll, TaskStep, TaskCleanup, TaskKill, TaskSync, TaskLoses, ChildDies
<1>1. (Holds(rt') \/ Drops(rt')) /\ NoNewStart(rt')
  <2>1. CASE Poll
    BY <1>0, <2>1, HoldFacts DEF Poll
  <2>2. CASE \E c \in Children : TaskSync(c)
    BY <1>0, <2>2, RefreshCounts DEF TaskSync
  <2>3. CASE \E c \in Children : TaskCleanup(c)
    <3>1. rt' = rt \/ rt' = [Detach(rt) EXCEPT !.phase = "error"]
      BY <2>3 DEF TaskCleanup
    <3> QED  BY <1>0, <3>1, HoldFacts, DetachCounts DEF Holds
  <2>4. CASE \E c \in Children : TaskKill(c) \/ TaskLoses(c) \/ ChildDies(c)
    BY <1>0, <2>4, HoldFacts DEF TaskKill, TaskLoses, ChildDies
  <2> QED  BY <2>1, <2>2, <2>3, <2>4 DEF TaskStep
<1> QED  BY <1>0, <1>1, RequestsKept DEF StartLocked

LEMMA BeginRequests ==
    ASSUME IInv, Control, Requests, StopBegin \/ ReapBegin \/ \E s \in Sessions : SleepBegin(s)
    PROVE  Requests'
<1>0. TypeOK /\ UNCHANGED <<rt, req, kid, spawned, ws>>
  BY DEF IInv, StopBegin, ReapBegin, SleepBegin
<1>1. op.at = "idle" /\ op'.at \in {"detach", "probe", "sleepDetach"}
  BY <1>0, MoveFacts DEF StopBegin, ReapBegin, SleepBegin
<1> QED  BY <1>0, <1>1, HoldFacts, LockFacts, RequestsKept

-----------------------------------------------------------------------------
LEMMA InitRequests == Init => Requests
<1> SUFFICES ASSUME Init PROVE Requests
  OBVIOUS
<1>1. rt.active = 0 /\ \A s \in Slots : ~req[s].live
  BY DEF Init, NoRequest
<1>2. {s \in Slots : Current(s)} = {}
  BY <1>1 DEF Current
<1>3. ActiveCountExact
  BY <1>1, <1>2, FS_EmptySet DEF ActiveCountExact
<1>4. \A h \in Handlers : Asking(h) /\ PromptFits(h)
  BY <1>1 DEF Asking, PromptFits, Slots
<1>5. DecisionLocks
  BY <1>1, DecidersCall DEF DecisionLocks, DecisionPending, Deciding
<1> QED  BY <1>1, <1>3, <1>4, <1>5 DEF Requests, Traced

LEMMA RequestsInductive == IInv /\ Control /\ Requests /\ [Next]_vars => Requests'
<1> SUFFICES ASSUME IInv, Control, Requests, [Next]_vars PROVE Requests'
  OBVIOUS
<1>1. CASE OpStep
  BY <1>1, StopRequests, StartRequests, SpawnRequests, WakeRequests, AskRequests DEF OpStep
<1>2. CASE StopBegin \/ ReapBegin \/ \E s \in Sessions : SleepBegin(s)
  BY <1>2, BeginRequests
<1>3. ASSUME NEW h \in Handlers,
             \/ HandlerStep(h)
             \/ \E p \in Profiles : StartHandler(h, p)
             \/ \E s \in Sessions :
                  HistoryHandler(h, s) \/ \E chat \in BOOLEAN : WakeHandler(h, s, chat)
      PROVE  Requests'
  BY <1>3, HandlerRequests, IdleHandlerRequests DEF HandlerStep
<1>4. CASE \E s \in Callers : CallerRequest(s) \/ CallerDone(s)
  BY <1>4, CallerRequests
<1>5. CASE \E d \in Deciders : DecisionDropped(d)
  BY <1>5, DropRequests
<1>6. CASE Poll \/ \E c \in Children : TaskStep(c) \/ TaskLoses(c) \/ ChildDies(c)
  BY <1>6, TaskRequests
<1>7. CASE UNCHANGED vars
  BY <1>7, HoldFacts, RequestsKept DEF vars, IInv, StartLocked
<1> QED  BY <1>1, <1>2, <1>3, <1>4, <1>5, <1>6, <1>7 DEF Next

\* Every request in flight went to a child its generation names, only the handler at
\* its turn has one, and no operation holds start_lock while a decision is relayed.
THEOREM RequestsHold == Spec => [](IInv /\ Control /\ Requests)
<1>1. Init => IInv /\ Control /\ Requests
  BY InitType, InitSafe, InitControl, InitRequests DEF IInv
<1>2. IInv /\ Control /\ Requests /\ [Next]_vars => (IInv /\ Control /\ Requests)'
  BY IInvInductive, ControlInductive, RequestsInductive
<1> QED  BY <1>1, <1>2, PTL DEF Spec

\* active_requests is the number of requests the current process has yet to answer,
\* so a count of zero does mean that nobody waits for it.
THEOREM ActiveRequestsCounted == Spec => []ActiveCountExact
<1>1. Requests => ActiveCountExact
  BY DEF Requests
<1> QED  BY <1>1, RequestsHold, PTL

\* A prompt is answered by a process of the project and mode its session was created
\* with, and the runtime still shows that session while the process is current.
THEOREM PromptsFindTheirSession == Spec => []PromptRunsInItsSession
<1>1. Control /\ Requests => PromptRunsInItsSession
  <2> SUFFICES ASSUME Control, Requests, NEW h \in Handlers, ws[h].at = "prompting", Current(h)
               PROVE  /\ rt.session = ws[h].session
                      /\ kid[req[h].via].profile = ProfileOf[ws[h].session]
    BY DEF PromptRunsInItsSession
  <2>1. HandlerFacts(ws[h]) /\ PromptFits(h) /\ req[h].live
    BY DEF Control, Turns, Requests, Current
  <2> QED  BY <2>1 DEF HandlerFacts, PromptFits
<1> QED  BY <1>1, RequestsHold, PTL

-----------------------------------------------------------------------------
(* What no step does to a process somebody awaits an answer from. *)

\* A child with a request in flight is counted as long as it is the managed one.
LEMMA IdleProcess ==
    ASSUME IInv, Requests, rt.active = 0
    PROVE  \A s \in Slots : ~(req[s].live /\ req[s].via = rt.child)
<1> SUFFICES ASSUME NEW s \in Slots, req[s].live, req[s].via = rt.child PROVE FALSE
  OBVIOUS
<1>1. rt.child # NoChild /\ kid[rt.child].gen = req[s].gen
  BY ChildFacts DEF Requests, Traced
<1>2. s \in CurrentSlots
  BY <1>1 DEF IInv, Safe, World, ChildKnown, CurrentSlots, Current
<1>3. IsFiniteSet(CurrentSlots)
  BY SlotsFinite, FS_Subset DEF CurrentSlots
<1>4. Cardinality(CurrentSlots) # 0
  BY <1>2, <1>3, FS_EmptySet
<1> QED  BY <1>4 DEF Requests, ActiveCountExact, CurrentSlots

\* Only the operation itself moves on from where it is.
LEMMA OperationMoves ==
    ASSUME IInv, [Next]_vars, op.at # "idle", op' # op
    PROVE  OpStep
<1>1. ASSUME NEW h \in Handlers,
             \/ HandlerStep(h)
             \/ \E p \in Profiles : StartHandler(h, p)
             \/ \E s \in Sessions :
                  HistoryHandler(h, s) \/ \E chat \in BOOLEAN : WakeHandler(h, s, chat)
      PROVE  FALSE
  BY <1>1 DEF HandlerStep, HandlerStopBegin, HandlerStartBegin, HandlerWakeBegin, Begin,
              StartHandlerClear, HandlerRequest, HandlerDone, StartHandler, HistoryHandler,
              WakeHandler
<1>2. ~(StopBegin \/ ReapBegin \/ \E s \in Sessions : SleepBegin(s))
  BY DEF StopBegin, ReapBegin, SleepBegin, Begin
<1>3. ~(\E s \in Callers : CallerRequest(s) \/ CallerDone(s))
      /\ ~\E d \in Deciders : DecisionDropped(d)
  BY DEF CallerRequest, CallerDone, DecisionDropped
<1>4. ~(Poll \/ \E c \in Children : TaskStep(c) \/ TaskLoses(c) \/ ChildDies(c))
  BY DEF Poll, TaskStep, TaskCleanup, TaskKill, TaskSync, TaskLoses, ChildDies
<1> QED  BY <1>1, <1>2, <1>3, <1>4 DEF Next, vars

LEMMA DecideMoves ==
    ASSUME IInv, [Next]_vars, op.at \in {"decide", "claim"}, op' # op
    PROVE  IF op.at = "decide" THEN OpDecide ELSE OpClaim
<1>1. OpStep
  BY OperationMoves
<1>2. ~(OpKill \/ OpDetach \/ OpStopSync \/ OpSleepDetach \/ OpProbe \/ OpDecideUnhealthy
         \/ OpReapSync)
  BY DEF OpKill, OpDetach, OpStopSync, OpSleepDetach, OpProbe, OpDecideUnhealthy, OpReapSync,
         OpRefresh
<1>3. ~(OpEnter \/ OpStartSync \/ OpSpawn \/ OpSpawnFails \/ OpAbandon \/ OpHealthy
         \/ OpConnect \/ OpHandle \/ OpReady \/ OpStatus \/ OpStartFailed)
  BY DEF OpEnter, OpStartSync, OpSpawn, OpSpawnFails, OpAbandon, OpHealthy, OpConnect, OpHandle,
         OpReady, OpStatus, OpStartFailed, OpRefresh
<1>4. ~(OpLook \/ OpSelect \/ OpWakeFailed \/ OpWakeSync \/ OpMark \/ OpMarkSync
         \/ \E h \in Handlers : OpAsk(h) \/ OpAnswer(h))
  BY DEF OpLook, OpSelect, OpWakeFailed, OpWakeSync, OpMark, OpMarkSync, OpAsk, OpAnswer, OpRefresh
<1>5. op.at = "decide" => ~OpClaim
  BY DEF OpClaim
<1>6. op.at = "claim" => ~OpDecide
  BY DEF OpDecide
<1> QED  BY <1>1, <1>2, <1>3, <1>4, <1>5, <1>6 DEF OpStep

\* Where a reaper can be when it takes a process.
LEMMA ReaperTakes ==
    ASSUME IInv, Control, [Next]_vars, op.kind = "reap", op.at # "kill", op'.at = "kill"
    PROVE  op.at \in {"decide", "decideBad"}
<1>0. TypeOK
  BY DEF IInv, Safe, Startup
<1>1. op \in Operation /\ op.at \in ReapLabels
  BY DEF IInv, Safe, Startup, Returns, TypeOK, Operation, OpLabels, Control, Route, Place,
         WakeLabels, StartLabels, ReapLabels
<1>2. OpStep
  BY <1>1, OperationMoves DEF ReapLabels
<1>3. CASE op.at = "probe"
  <2>1. OpProbe
    BY <1>2, <1>3 DEF OpStep, OpKill, OpDetach, OpStopSync, OpSleepDetach, OpDecideUnhealthy,
       OpDecide, OpReapSync, OpRefresh, OpEnter, OpClaim, OpStartSync, OpSpawn, OpSpawnFails,
       OpAbandon, OpHealthy, OpConnect, OpHandle, OpReady, OpStatus, OpStartFailed, OpLook,
       OpSelect, OpWakeFailed, OpWakeSync, OpMark, OpMarkSync, OpAsk, OpAnswer
  <2>2. op'.at \in {"decide", "decideBad"}
    BY <1>0, <2>1, OpFields DEF OpProbe
  <2> QED  BY <2>2
<1>4. CASE op.at = "reapSync"
  <2>1. OpReapSync
    BY <1>2, <1>4 DEF OpStep, OpKill, OpDetach, OpStopSync, OpSleepDetach, OpProbe,
       OpDecideUnhealthy, OpDecide, OpRefresh, OpEnter, OpClaim, OpStartSync, OpSpawn,
       OpSpawnFails, OpAbandon, OpHealthy, OpConnect, OpHandle, OpReady, OpStatus,
       OpStartFailed, OpLook, OpSelect, OpWakeFailed, OpWakeSync, OpMark, OpMarkSync, OpAsk,
       OpAnswer
  <2> QED  BY <2>1 DEF OpReapSync, EndOp, NoOp
<1> QED  BY <1>1, <1>3, <1>4 DEF ReapLabels

\* Unless the health probe failed, the reaper looks at the counter and takes the process
\* in one critical section, and the counter is exact: nobody awaits an answer from it.
THEOREM ReaperWaitsForRequests == Spec => ReaperSparesRequests
<1>1. ASSUME IInv, Control, Requests, [Next]_vars,
             op.kind = "reap", op.at # "kill", op'.at = "kill", op.at # "decideBad"
      PROVE  \A s \in Slots : ~(req[s].live /\ req[s].via = rt.child)
  <2>0. op.at = "decide"
    BY <1>1, ReaperTakes
  <2>1. OpDecide /\ op'.at # "reapSync"
    BY <1>1, <2>0, DecideMoves
  <2>2. PICK r \in Refreshes(rt) : r.phase = "ready" /\ r.active = 0
    BY <1>1, <2>1, OpFields DEF IInv, OpDecide
  <2>3. rt.active = 0
    BY <1>1, <2>2, RefreshCounts DEF IInv
  <2> QED  BY <1>1, <2>3, IdleProcess
<1>2. IInv /\ Control /\ Requests /\ [Next]_vars =>
        [op.kind = "reap" /\ op.at # "kill" /\ op'.at = "kill" =>
           \/ op.at = "decideBad"
           \/ \A s \in Slots : ~(req[s].live /\ req[s].via = rt.child)]_vars
  BY <1>1
<1> QED  BY <1>2, RequestsHold, PTL DEF Spec, ReaperSparesRequests

\* Between start_inner's look at active_requests and its claim no request can begin,
\* because the process it is about to replace is not ready; the wake that Unmatched
\* describes is the one exception.
THEOREM ReplacementWaitsForRequests == Spec => ReplacementSparesRequests
<1>1. ASSUME IInv, Control, Requests, op.at = "claim", ~Unmatched
      PROVE  \A s \in Slots : ~(req[s].live /\ req[s].via = rt.child)
  BY <1>1, IdleProcess DEF Control, Aimed
<1>2. IInv /\ Control /\ Requests /\ [Next]_vars =>
        [op.at = "claim" /\ op'.at = "kill" /\ ~(op.kind = "wake" /\ rt.profile # op.profile) =>
           \A s \in Slots : ~(req[s].live /\ req[s].via = rt.child)]_vars
  BY <1>1 DEF Unmatched
<1> QED  BY <1>2, RequestsHold, PTL DEF Spec, ReplacementSparesRequests

-----------------------------------------------------------------------------
(* The process of a decision. *)

\* The managed child is let go only if it exited or its event stream was lost.
Spared == rt'.child # rt.child => rt.child \notin alive \/ task[rt.child].at = "lost"

LEMMA CalmSpares == Calm \/ Lost => Spared
BY DEF Calm, Lost, Same, Spared

LEMMA OperationSpares ==
    ASSUME IInv, Control, Requests, DecisionPending, OpStep, rt.phase # "starting"
    PROVE  Spared
<1>0. TypeOK /\ rt \in Runtime /\ ~StartLocked
  BY DEF IInv, TypeOK, Requests, DecisionLocks
<1>1. CASE OpKill
  BY <1>1 DEF OpKill, Spared
<1>2. CASE OpDetach \/ OpStopSync \/ OpSleepDetach \/ OpProbe
           \/ OpDecideUnhealthy \/ OpDecide \/ OpReapSync
  BY <1>0, <1>2 DEF OpDetach, OpStopSync, OpSleepDetach, OpProbe, OpDecideUnhealthy, OpDecide,
     OpReapSync, OpRefresh, StartLocked
<1>3. CASE OpEnter \/ OpClaim \/ OpStartSync \/ OpSpawn \/ OpSpawnFails \/ OpAbandon
           \/ OpHealthy \/ OpConnect \/ OpHandle \/ OpReady \/ OpStatus
  BY <1>0, <1>3 DEF OpEnter, OpClaim, OpStartSync, OpSpawn, OpSpawnFails, OpAbandon, OpHealthy,
     OpConnect, OpHandle, OpReady, OpStatus, OpRefresh, StartLocked
<1>4. CASE OpStartFailed
  BY <1>4 DEF OpStartFailed, Spared
<1>5. CASE OpLook \/ OpSelect \/ OpWakeFailed \/ OpMark
  BY <1>0, <1>5 DEF OpLook, OpSelect, OpWakeFailed, OpMark, Runtime, Spared
<1>6. CASE OpWakeSync \/ OpMarkSync
  BY <1>0, <1>6, RefreshStepFacts, CalmSpares DEF OpWakeSync, OpMarkSync, OpRefresh
<1>7. ASSUME NEW h \in Handlers, OpAsk(h) \/ OpAnswer(h) PROVE Spared
  <2>1. h \in Slots
    BY DEF Slots
  <2> QED  BY <1>0, <1>7, <2>1, RequestFacts, CalmSpares DEF OpAsk, OpAnswer
<1> QED  BY <1>1, <1>2, <1>3, <1>4, <1>5, <1>6, <1>7 DEF OpStep

LEMMA OthersSpare ==
    ASSUME IInv, [Next]_vars, ~OpStep
    PROVE  Spared
<1>0. TypeOK /\ rt \in Runtime
  BY DEF IInv, TypeOK
<1>1. ASSUME NEW h \in Handlers,
             \/ HandlerStep(h)
             \/ \E p \in Profiles : StartHandler(h, p)
             \/ \E s \in Sessions :
                  HistoryHandler(h, s) \/ \E chat \in BOOLEAN : WakeHandler(h, s, chat)
      PROVE  Spared
  <2>1. h \in Slots
    BY DEF Slots
  <2>2. CASE HandlerRequest(h) \/ HandlerDone(h)
    BY <1>0, <2>1, <2>2, RequestFacts, CalmSpares DEF HandlerRequest, HandlerDone
  <2>3. CASE ~(HandlerRequest(h) \/ HandlerDone(h))
    BY <1>0, <1>1, <2>3 DEF HandlerStep, HandlerStopBegin, HandlerStartBegin, HandlerWakeBegin,
       StartHandlerClear, StartHandler, HistoryHandler, WakeHandler, Runtime, Spared
  <2> QED  BY <2>2, <2>3
<1>2. CASE StopBegin \/ ReapBegin \/ (\E s \in Sessions : SleepBegin(s))
           \/ (\E d \in Deciders : DecisionDropped(d)) \/ UNCHANGED vars
  BY <1>2 DEF StopBegin, ReapBegin, SleepBegin, DecisionDropped, vars, Spared
<1>3. ASSUME NEW s \in Callers, CallerRequest(s) \/ CallerDone(s) PROVE Spared
  <2>1. s \in Slots
    BY DEF Slots
  <2> QED  BY <1>0, <1>3, <2>1, RequestFacts, CalmSpares DEF CallerRequest, CallerDone
<1>4. CASE Poll
  BY <1>0, <1>4, RefreshStepFacts, CalmSpares DEF Poll
<1>5. ASSUME NEW c \in Children, TaskStep(c) \/ TaskLoses(c) \/ ChildDies(c) PROVE Spared
  <2>1. CASE TaskCleanup(c)
    <3>1. rt.gen = kid[c].gen => rt.child = c /\ task[c].at = "lost"
      BY <2>1 DEF TaskCleanup, IInv, Safe, World, GenerationsTell, NoTask
    <3> QED  BY <2>1, <3>1 DEF TaskCleanup, Spared
  <2>2. CASE TaskSync(c)
    BY <1>0, <2>2, RefreshFacts DEF TaskSync, Same, Spared
  <2>3. CASE TaskKill(c) \/ TaskLoses(c) \/ ChildDies(c)
    BY <2>3 DEF TaskKill, TaskLoses, ChildDies, Spared
  <2> QED  BY <1>5, <2>1, <2>2, <2>3 DEF TaskStep
<1> QED  BY <1>1, <1>2, <1>3, <1>4, <1>5 DEF Next

\* start_lock keeps every operation away from the process a permission decision is
\* relayed to: only its own end, or that of its event stream, takes it away.
THEOREM DecisionsKeepTheirProcess == Spec => DecisionKeepsProcess
<1>1. ASSUME IInv, Control, Requests, [Next]_vars,
             NEW d \in Deciders, Deciding(d), rt.child = req[d].via
      PROVE  Spared
  <2>1. DecisionPending
    BY <1>1 DEF DecisionPending
  <2>2. rt.phase # "starting"
    BY <1>1, DecidersCall DEF Requests, Traced, Deciding
  <2> QED  BY <1>1, <2>1, <2>2, OperationSpares, OthersSpare
<1>2. IInv /\ Control /\ Requests /\ [Next]_vars =>
        [\A d \in Deciders :
           Deciding(d) /\ Deciding(d)' /\ rt.child = req[d].via /\ rt'.child # rt.child =>
             rt.child \notin alive \/ task[rt.child].at = "lost"]_vars
  BY <1>1 DEF Spared
<1> QED  BY <1>2, RequestsHold, PTL DEF Spec, DecisionKeepsProcess

================================================================================
