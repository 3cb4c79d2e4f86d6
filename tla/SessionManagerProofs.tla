------------------------- MODULE SessionManagerProofs -------------------------
(***************************************************************************)
(* The safety properties of SessionManager, proved for every value of its  *)
(* constants from one inductive invariant.                                 *)
(***************************************************************************)
EXTENDS SessionManager, TLAPS

\* Where each operation may be, and where a pending sync or stop returns to.
Pausing == op.at \in {"sync", "detach"}

StartLabels == {"enter", "claim", "spawn", "health", "ready", "failed"}
WakeLabels ==
    StartLabels \cup {"look", "switch", "select", "prev", "starting", "map", "store",
                      "history", "giveUp", "mark", "end", "gaveUp"}

OpPlace ==
    /\ op.kind = "none" => op = NoOp
    /\ op.kind \in {"stop", "reap"} =>
         IF Pausing THEN op.next = "end" ELSE op.at \in {"decide", "end"}
    /\ op.kind = "start" =>
         IF Pausing THEN op.next \in {"spawn", "health"} ELSE op.at \in StartLabels \cup {"end"}
    /\ op.kind = "wake" =>
         IF Pausing
         THEN op.next \in {"select", "spawn", "health", "map", "giveUp", "mark", "gaveUp"}
         ELSE op.at \in WakeLabels
    /\ op.kind \in Stops => op.at \in {"stopping", "detachOwn", "final", "end"}
    /\ op.kind = "delete" => op.at \in {"check", "delete", "end"}

\* stop_inner is called to stop, by wake before its start, and by wake to give up.
DetachPlace == op.at = "detach" => op.next \in {"end", "select", "mark"}

\* The holder of workspace_lock and the operation it waits for.
HolderPlace ==
    /\ op.kind = "wake" <=> ws.at = "waking"
    /\ op.kind = "start" <=> ws.at = "starting"
    /\ op.kind = "delete" <=> ws.at = "deleting"
    /\ ws.at = "stopping" => op.kind = "stop"
    /\ ws.at \in {"wake", "waking", "reread", "send", "delete", "deleting"} => ws.session \in Sessions
    /\ op.kind \in {"wake", "delete"} => op.session = ws.session
    /\ op.kind \in Stops => op.session \in Sessions

\* Nothing runs before recovery is over, which ends when every row it must reset is.
BootPlace ==
    /\ boot # "up" => op = NoOp /\ sync = "none" /\ ws = Free
    /\ boot # "recovering" => todo = {}

\* sync_sessions holds `inner`, so its session stays selected.
SyncPlace ==
    /\ sync # "none" => rt.session \in Sessions
    /\ sync = "op" => op.at = "sync"

Control == OpPlace /\ DetachPlace /\ HolderPlace /\ BootPlace /\ SyncPlace

SleepingIsEmpty == rt.phase = "sleeping" => rt.child = NoPid

\* start_inner has claimed the runtime and not yet spawned: no one else makes it Sleeping.
Claimed == op.at = "spawn" \/ (op.at = "sync" /\ op.next = "spawn") => rt.phase # "sleeping"

RecoveryKnows == boot = "recovering" => Unsettled \subseteq todo

\* A label wake has reached, or comes back to.
At(L) == IF Pausing THEN op.next \in L ELSE op.at \in L

\* wake, once it has read the row under transition_lock
WakeLooked ==
    op.kind = "wake" /\ At({"switch", "select", "prev", "starting"}) =>
        row[op.session].status \notin Absent \cup {"archived"}

\* wake, once its session is the runtime's
WakeSelected ==
    op.kind = "wake" /\ At({"prev", "starting", "enter", "claim", "spawn", "health",
                            "ready", "map", "store", "history", "end"}) =>
        rt.session = op.session

\* wake, once its row is starting or ready: only reconciliation writes to it
Reconciled == {"starting", "ready", "sleeping", "error"}
WakeEntered ==
    op.kind = "wake" /\ At({"enter", "claim", "spawn", "health", "ready", "map", "store",
                            "history", "end"}) =>
        row[op.session].status \in Reconciled

\* wake, once the start is recorded
WakeRecorded ==
    op.kind = "wake" /\ ~Pausing /\ op.at \in {"map", "store", "history", "end"} /\ rt.phase = "ready" =>
        row[op.session].status = "ready"

\* a chat after its wake
ChatRecorded ==
    /\ ws.at \in {"reread", "send"} /\ rt.phase = "ready" =>
         /\ rt.session = ws.session
         /\ row[ws.session].status \in {"ready", "stopping"}
    /\ ws.at = "send" => row[ws.session].mapped

\* A session's process is gone before its row says so, or is deleted.
StoppedFirst ==
    /\ op.at = "final" => rt.session # op.session \/ rt.phase # "ready"
    /\ op.at = "delete" => rt.session # op.session \/ rt.child = NoPid

Rows == RestingRowHasNoPid /\ SleepingIsEmpty /\ Claimed /\ RecoveryKnows /\ StoppedFirst
Waking == WakeLooked /\ WakeSelected /\ WakeEntered /\ WakeRecorded /\ ChatRecorded

IInv == TypeOK /\ Control /\ Rows /\ Waking

-----------------------------------------------------------------------------
(* Types. *)

LEMMA PidFacts ==
    /\ NoPid \in Pids
    /\ \A n \in Pids : n < MaxPids => n + 1 \in Pids /\ n + 1 # NoPid
BY ConstantsAssumption DEF NoPid, Pids

LEMMA LabelFacts ==
    /\ "idle" \in OpLabels /\ "sync" \in OpLabels /\ "detach" \in OpLabels
    /\ "look" \in OpLabels /\ "switch" \in OpLabels /\ "select" \in OpLabels
    /\ "prev" \in OpLabels /\ "starting" \in OpLabels /\ "enter" \in OpLabels
    /\ "claim" \in OpLabels /\ "spawn" \in OpLabels /\ "health" \in OpLabels
    /\ "ready" \in OpLabels /\ "failed" \in OpLabels /\ "map" \in OpLabels
    /\ "store" \in OpLabels /\ "history" \in OpLabels /\ "giveUp" \in OpLabels
    /\ "mark" \in OpLabels /\ "stopping" \in OpLabels /\ "detachOwn" \in OpLabels
    /\ "final" \in OpLabels /\ "check" \in OpLabels /\ "delete" \in OpLabels
    /\ "decide" \in OpLabels /\ "end" \in OpLabels /\ "gaveUp" \in OpLabels
BY DEF OpLabels

LEMMA UpdateType ==
    ASSUME TypeOK, NEW s, NEW c, NEW st \in Statuses, NEW p, s \in Sessions => p \in Pids,
           Update(s, c, st, p)
    PROVE  row' \in [Sessions -> Row]
BY DEF TypeOK, Update, Row

LEMMA GotoType ==
    ASSUME TypeOK, NEW l \in OpLabels
    PROVE  /\ Goto(l) => op' \in Operation
           /\ SyncThen(l) => op' \in Operation
           /\ StopThen(l) => op' \in Operation
BY LabelFacts DEF TypeOK, Goto, SyncThen, StopThen, Operation

LEMMA AfterOpType ==
    ASSUME TypeOK, NEW ok
    PROVE  AfterOp(ok) \in Holder
BY DEF TypeOK, AfterOp, Holder, Free

LEMMA NoOpType == NoOp \in Operation
BY PidFacts DEF NoOp, Operation, OpLabels, Stops

LEMMA RefreshType ==
    ASSUME TypeOK, NEW r \in Refreshes(rt)
    PROVE  r \in Runtime
BY PidFacts DEF TypeOK, Refreshes, Runtime

LEMMA DetachType ==
    ASSUME NEW r \in Runtime
    PROVE  /\ Detach(r) \in Runtime
           /\ [Detach(r) EXCEPT !.phase = "error"] \in Runtime
BY PidFacts DEF Detach, Runtime

LEMMA InitType == Init => TypeOK
<1> SUFFICES ASSUME Init PROVE TypeOK
  OBVIOUS
<1>1. row \in [Sessions -> Row]
  BY PidFacts DEF Init, Row, Statuses, Absent
<1>2. rt \in Runtime /\ pids \in Pids
  BY PidFacts, ConstantsAssumption DEF Init, NoRuntime, Runtime, Pids
<1>3. op \in Operation /\ ws \in Holder
  BY NoOpType DEF Init, Free, Holder
<1> QED  BY <1>1, <1>2, <1>3 DEF Init, TypeOK

\* The steps of an operation on the rows.
LEMMA OpRowType ==
    ASSUME TypeOK,
           OpSync \/ OpStopping \/ OpDelete \/ OpSwitch \/ OpStarting \/ OpStore
           \/ (OpFinal /\ op.kind \in Stops)
    PROVE  TypeOK'
<1> USE DEF TypeOK
<1>1. CASE OpSync
  <2>1. op' \in Operation
    BY <1>1, GotoType DEF OpSync, Operation
  <2>2. rt' \in Runtime
    BY <1>1, RefreshType DEF OpSync
  <2>3. row' \in [Sessions -> Row]
    <3>1. rt.phase \in Statuses /\ rt.child \in Pids
      BY DEF Runtime, Statuses, Transient
    <3> QED  BY <1>1, <3>1, UpdateType DEF OpSync
  <2> QED  BY <1>1, <2>1, <2>2, <2>3 DEF OpSync
<1>2. CASE OpStopping
  <2>1. op' \in Operation
    BY <1>2, GotoType, LabelFacts DEF OpStopping
  <2>2. op.session \in Sessions => row[op.session].pid \in Pids
    BY DEF Row
  <2>3. row' \in [Sessions -> Row]
    BY <1>2, <2>2, UpdateType DEF OpStopping, Statuses, Transient
  <2> QED  BY <1>2, <2>1, <2>3 DEF OpStopping
<1>3. CASE OpDelete
  <2>1. op' \in Operation
    BY <1>3, GotoType, LabelFacts DEF OpDelete
  <2>2. row' \in [Sessions -> Row]
    BY <1>3, PidFacts DEF OpDelete, Row, Statuses, Absent
  <2> QED  BY <1>3, <2>1, <2>2 DEF OpDelete
<1>4. CASE OpSwitch
  <2>1. op' \in Operation
    BY <1>4, GotoType, LabelFacts DEF OpSwitch
  <2>2. row' \in [Sessions -> Row]
    BY <1>4, PidFacts, UpdateType DEF OpSwitch, Statuses
  <2> QED  BY <1>4, <2>1, <2>2 DEF OpSwitch
<1>5. CASE OpStarting
  <2>1. op' \in Operation
    BY <1>5, GotoType, LabelFacts DEF OpStarting
  <2>2. op.session \in Sessions => row[op.session].pid \in Pids
    BY DEF Row
  <2>3. row' \in [Sessions -> Row]
    BY <1>5, <2>2, UpdateType DEF OpStarting, Statuses, Transient
  <2> QED  BY <1>5, <2>1, <2>3 DEF OpStarting
<1>6. CASE OpStore
  <2>1. op' \in Operation
    BY <1>6, GotoType, LabelFacts DEF OpStore
  <2>2. row' \in [Sessions -> Row]
    BY <1>6 DEF OpStore, Row
  <2> QED  BY <1>6, <2>1, <2>2 DEF OpStore
<1>7. CASE OpFinal /\ op.kind \in Stops
  <2>1. op' \in Operation
    BY <1>7, GotoType, LabelFacts DEF OpFinal
  <2>2. row' \in [Sessions -> Row]
    BY <1>7, PidFacts, UpdateType DEF OpFinal, Statuses, Stops
  <2> QED  BY <1>7, <2>1, <2>2 DEF OpFinal
<1> QED  BY <1>1, <1>2, <1>3, <1>4, <1>5, <1>6, <1>7

\* The steps of an operation on the runtime.
LEMMA OpRuntimeType ==
    ASSUME TypeOK,
           OpDetach \/ OpDecide \/ OpDetachOwn \/ OpEnter \/ OpClaim \/ OpSpawn \/ OpHealth
           \/ OpReady \/ OpFailed \/ OpSelect \/ OpMark
    PROVE  TypeOK'
<1> USE DEF TypeOK
<1>0. /\ Detach(rt) \in Runtime
      /\ \A r \in Runtime : [r EXCEPT !.phase = "error"] \in Runtime
      /\ \A r \in Refreshes(rt) : r \in Runtime /\ Detach(r) \in Runtime
  BY DetachType, RefreshType DEF Runtime
<1>1. CASE OpDetach
  BY <1>0, <1>1, GotoType, LabelFacts DEF OpDetach, Operation
<1>2. CASE OpDecide
  BY <1>0, <1>2, GotoType, LabelFacts DEF OpDecide
<1>3. CASE OpDetachOwn
  BY <1>0, <1>3, GotoType, LabelFacts DEF OpDetachOwn
<1>4. CASE OpEnter
  BY <1>0, <1>4, GotoType, LabelFacts DEF OpEnter, Started
<1>5. CASE OpClaim
  <2>1. op.profile \in Profiles \cup {NoProfile}
    BY DEF Operation
  <2>2. \A p \in Profiles \cup {NoProfile} :
           [Detach(rt) EXCEPT !.phase = "starting", !.profile = p] \in Runtime
    BY <1>0, PidFacts DEF Detach, Runtime
  <2>3. rt' \in Runtime
    BY <1>5, <2>1, <2>2 DEF OpClaim
  <2> QED  BY <1>5, <2>3, GotoType, LabelFacts DEF OpClaim
<1>6. CASE OpSpawn
  <2>1. rt' \in Runtime /\ pids' \in Pids
    BY <1>0, <1>6, PidFacts DEF OpSpawn, Runtime
  <2>2. op' \in Operation
    BY <1>6, PidFacts, GotoType, LabelFacts DEF OpSpawn, Operation
  <2> QED  BY <1>6, <2>1, <2>2 DEF OpSpawn
<1>7. CASE OpHealth
  BY <1>0, <1>7, GotoType, LabelFacts DEF OpHealth
<1>8. CASE OpReady
  <2>1. rt' \in Runtime
    BY <1>8 DEF OpReady, Runtime
  <2> QED  BY <1>8, <2>1, GotoType, LabelFacts DEF OpReady, Started
<1>9. CASE OpFailed
  BY <1>0, <1>9, GotoType, LabelFacts DEF OpFailed
<1>10. CASE OpSelect \/ OpMark
  <2>1. op.session \in Sessions \cup {NoSession}
    BY DEF Operation
  <2>2. rt' \in Runtime
    BY <1>10, <2>1 DEF OpSelect, OpMark, Runtime
  <2> QED  BY <1>10, <2>2, GotoType, LabelFacts DEF OpSelect, OpMark
<1> QED  BY <1>1, <1>2, <1>3, <1>4, <1>5, <1>6, <1>7, <1>8, <1>9, <1>10

\* The steps of an operation that only move it on.
LEMMA OpMoveType ==
    ASSUME TypeOK, OpEnd \/ OpCheck \/ OpLook \/ OpPrev \/ OpMap \/ OpHistory \/ OpGiveUp \/ OpDbFails
    PROVE  TypeOK'
<1> USE DEF TypeOK
<1>1. CASE OpEnd
  BY <1>1, NoOpType, AfterOpType DEF OpEnd
<1>2. CASE OpCheck \/ OpPrev \/ OpMap \/ OpHistory \/ OpGiveUp
  <2>1. op' \in Operation
    BY <1>2, GotoType, LabelFacts DEF OpCheck, OpPrev, OpMap, OpHistory, OpGiveUp
  <2> QED  BY <1>2, <2>1 DEF OpCheck, OpPrev, OpMap, OpHistory, OpGiveUp
<1>3. CASE OpLook
  <2>1. rt.session \in Sessions \cup {NoSession}
    BY DEF Runtime
  <2>2. Look => op' \in Operation
    BY <2>1, GotoType, LabelFacts DEF Look, Operation
  <2>3. op' \in Operation
    BY <1>3, <2>2, GotoType, LabelFacts DEF OpLook
  <2> QED  BY <1>3, <2>3 DEF OpLook
<1>4. CASE OpDbFails
  <2>1. AfterDbError \in OpLabels
    BY LabelFacts DEF AfterDbError, Operation
  <2> QED  BY <1>4, <2>1, GotoType DEF OpDbFails
<1> QED  BY <1>1, <1>2, <1>3, <1>4

\* The handlers, the readers, the reaper's tick, crashes and recovery.
LEMMA OtherType ==
    ASSUME TypeOK, Next, ~OpStep
    PROVE  TypeOK'
<1> USE DEF TypeOK
<1>1. CASE HolderBegin
  <2>1. ws' \in Holder
    BY <1>1 DEF HolderBegin, DeleteBegin, StartStopBegin, StartBegin, WakeBegin, Holder
  <2>2. ws.session \in Sessions \cup {NoSession} /\ ws.profile \in Profiles \cup {NoProfile}
    BY DEF Holder
  <2>3. op' \in Operation
    BY <1>1, <2>2, NoOpType, LabelFacts
    DEF HolderBegin, DeleteBegin, StartStopBegin, StartBegin, WakeBegin, Begin, Operation
  <2> QED  BY <1>1, <2>1, <2>3
           DEF HolderBegin, DeleteBegin, StartStopBegin, StartBegin, WakeBegin, Begin
<1>2. CASE HolderStep
  <2>1. Free \in Holder
    BY DEF Free, Holder
  <2>2. ws' \in Holder
    BY <1>2, <2>1 DEF HolderStep, StartClear, ChatReread, ChatSend, ChatDone, Holder
  <2>3. rt' \in Runtime
    BY <1>2, RefreshType DEF HolderStep, StartClear, ChatReread, ChatSend, ChatDone, Runtime
  <2> QED  BY <1>2, <2>2, <2>3 DEF HolderStep, StartClear, ChatReread, ChatSend, ChatDone
<1>3. CASE RecoverStep
  <2>1. row' \in [Sessions -> Row]
    BY <1>3, PidFacts, UpdateType DEF RecoverStep, RecoverBegin, RecoverDone, RecoverRow, Statuses
  <2> QED  BY <1>3, <2>1 DEF RecoverStep, RecoverBegin, RecoverDone, RecoverRow, Unsettled
<1>4. CASE Poll \/ Refresh
  BY <1>4, RefreshType DEF Poll, Refresh
<1>5. CASE PollWrite
  <2>1. rt.phase \in Statuses /\ rt.child \in Pids
    BY DEF Runtime, Statuses, Transient
  <2>2. row' \in [Sessions -> Row]
    BY <1>5, <2>1, UpdateType DEF PollWrite
  <2> QED  BY <1>5, <2>2 DEF PollWrite
<1>6. CASE Crash
  <2>1. NoRuntime \in Runtime /\ Free \in Holder
    BY PidFacts DEF NoRuntime, Runtime, Free, Holder
  <2> QED  BY <1>6, <2>1, NoOpType DEF Crash
<1>7. CASE StopBegin \/ ReapBegin \/ \E s \in Sessions, action \in Stops : StopSession(s, action)
  <2>1. op' \in Operation
    BY <1>7, NoOpType, LabelFacts DEF StopBegin, ReapBegin, StopSession, Begin, Operation
  <2> QED  BY <1>7, <2>1 DEF StopBegin, ReapBegin, StopSession, Begin
<1>8. CASE \E p \in Profiles : StartHandler(p)
  BY <1>8 DEF StartHandler, Free, Holder
<1>9. CASE \E s \in Sessions : CreateSession(s)
  BY <1>9 DEF CreateSession, Row, Statuses
<1>10. CASE \E s \in Sessions : DeleteHandler(s)
  BY <1>10 DEF DeleteHandler, Free, Holder
<1>11. ASSUME NEW s \in Sessions, NEW chat \in BOOLEAN, WakeHandler(s, chat)
       PROVE  TypeOK'
  <2>1. ProfileOf[s] \in Profiles
    BY ConstantsAssumption
  <2>2. ws' \in Holder
    BY <1>11, <2>1 DEF WakeHandler, Holder
  <2> QED  BY <1>11, <2>2 DEF WakeHandler
<1> QED  BY <1>1, <1>2, <1>3, <1>4, <1>5, <1>6, <1>7, <1>8, <1>9, <1>10, <1>11 DEF Next

-----------------------------------------------------------------------------
(* Control: which operation is where, and who waits for it. *)

\* A step within an operation, which keeps its kind and its session.
Within ==
    /\ op.kind # "none"
    /\ op'.kind = op.kind
    /\ op'.session = op.session
    /\ UNCHANGED <<boot, todo, ws>>

LEMMA MoveFacts ==
    ASSUME TypeOK, NEW l
    PROVE  /\ Goto(l) => /\ op'.at = l /\ op'.next = op.next
                         /\ op'.kind = op.kind /\ op'.session = op.session
           /\ SyncThen(l) => /\ op'.at = "sync" /\ op'.next = l
                             /\ op'.kind = op.kind /\ op'.session = op.session
           /\ StopThen(l) => /\ op'.at = "detach" /\ op'.next = l
                             /\ op'.kind = op.kind /\ op'.session = op.session
BY DEF TypeOK, Operation, Goto, SyncThen, StopThen

LEMMA RefreshFacts ==
    ASSUME TypeOK, NEW r \in Refreshes(rt)
    PROVE  /\ r.session = rt.session
           /\ r.phase \in {rt.phase, "error"}
           /\ r.child \in {rt.child, NoPid}
           /\ r.phase = rt.phase /\ rt.phase # "error" => r = rt
BY DEF TypeOK, Refreshes, Runtime

LEMMA OpWithin ==
    ASSUME TypeOK, Control, OpStep, ~OpEnd
    PROVE  Within
<1>1. op.at # "idle"
  BY DEF OpStep, OpSync, OpDetach, OpDecide, OpStopping, OpDetachOwn, OpFinal, OpCheck, OpDelete,
         OpEnter, OpClaim, OpSpawn, OpHealth, OpReady, OpFailed, OpLook, OpSwitch, OpSelect,
         OpPrev, OpStarting, OpMap, OpStore, OpHistory, OpGiveUp, OpMark, OpDbFails
<1>2. op.kind # "none"
  BY <1>1 DEF Control, OpPlace, NoOp
<1>3. CASE OpSync \/ OpDetach \/ OpDecide \/ OpStopping \/ OpDetachOwn \/ OpFinal \/ OpCheck
           \/ OpDelete \/ OpDbFails
  BY <1>2, <1>3, MoveFacts
  DEF Within, OpSync, OpDetach, OpDecide, OpStopping, OpDetachOwn, OpFinal, OpCheck, OpDelete,
      OpDbFails
<1>4. CASE OpEnter \/ OpClaim \/ OpHealth \/ OpReady \/ OpFailed
  BY <1>2, <1>4, MoveFacts DEF Within, OpEnter, OpClaim, OpHealth, OpReady, OpFailed, Started
<1>5. CASE OpSpawn
  BY <1>2, <1>5, MoveFacts DEF Within, OpSpawn, TypeOK, Operation
<1>6. CASE OpLook
  BY <1>2, <1>6, MoveFacts DEF Within, OpLook, Look, TypeOK, Operation
<1>7. CASE OpSwitch \/ OpSelect \/ OpPrev \/ OpStarting \/ OpMap \/ OpStore \/ OpHistory
           \/ OpGiveUp \/ OpMark
  BY <1>2, <1>7, MoveFacts
  DEF Within, OpSwitch, OpSelect, OpPrev, OpStarting, OpMap, OpStore, OpHistory, OpGiveUp, OpMark
<1> QED  BY <1>3, <1>4, <1>5, <1>6, <1>7 DEF OpStep

LEMMA OpPlaceWithin ==
    ASSUME TypeOK, Control, OpStep, ~OpEnd
    PROVE  OpPlace'
<1>0. Within /\ OpPlace
  BY OpWithin DEF Control
<1> USE DEF OpPlace, Pausing, StartLabels, WakeLabels, Stops
<1>1. CASE OpSync \/ OpDetach
  BY <1>0, <1>1, MoveFacts DEF Within, OpSync, OpDetach
<1>2. CASE OpDecide \/ OpStopping \/ OpDetachOwn \/ OpFinal \/ OpCheck \/ OpDelete
  BY <1>0, <1>2, MoveFacts
  DEF Within, OpDecide, OpStopping, OpDetachOwn, OpFinal, OpCheck, OpDelete
<1>3. CASE OpDbFails
  BY <1>0, <1>3, MoveFacts DEF Within, OpDbFails, AfterDbError
<1>4. CASE OpEnter \/ OpClaim \/ OpHealth \/ OpReady \/ OpFailed
  BY <1>0, <1>4, MoveFacts DEF Within, OpEnter, OpClaim, OpHealth, OpReady, OpFailed, Started
<1>5. CASE OpSpawn
  <2>1. (op'.at = "sync" /\ op'.next = "health") \/ Goto("failed")
    BY <1>5 DEF OpSpawn, TypeOK, Operation
  <2> QED  BY <1>0, <1>5, <2>1, MoveFacts DEF Within, OpSpawn
<1>6. CASE OpLook
  BY <1>0, <1>6, MoveFacts DEF Within, OpLook, Look, TypeOK, Operation
<1>7. CASE OpSwitch \/ OpSelect \/ OpPrev \/ OpStarting
  <2>1. op.at \in {"switch", "select", "prev", "starting"}
    BY <1>7 DEF OpSwitch, OpSelect, OpPrev, OpStarting
  <2>2. Goto("select") \/ Goto("prev") \/ Goto("starting") \/ Goto("enter")
    BY <1>7 DEF OpSwitch, OpSelect, OpPrev, OpStarting
  <2> QED  BY <1>0, <2>1, <2>2, MoveFacts DEF Within
<1>8. CASE OpMap \/ OpStore \/ OpHistory
  <2>1. op.at \in {"map", "store", "history"}
    BY <1>8 DEF OpMap, OpStore, OpHistory
  <2>2. Goto("history") \/ Goto("store") \/ Goto("giveUp") \/ Goto("end")
    BY <1>8 DEF OpMap, OpStore, OpHistory
  <2> QED  BY <1>0, <2>1, <2>2, MoveFacts DEF Within
<1>9. CASE OpGiveUp \/ OpMark
  BY <1>0, <1>9, MoveFacts DEF Within, OpGiveUp, OpMark
<1> QED  BY <1>1, <1>2, <1>3, <1>4, <1>5, <1>6, <1>7, <1>8, <1>9 DEF OpStep

LEMMA DetachWithin ==
    ASSUME TypeOK, Control, OpStep, ~OpEnd
    PROVE  DetachPlace'
<1> USE DEF DetachPlace
<1>0. OpPlace /\ op.kind \in {"none", "start", "wake", "stop", "delete", "reap"} \cup Stops
  BY DEF Control, TypeOK, Operation
<1>1. CASE OpSync
  <2>1. op.next # "detach"
    BY <1>0, <1>1 DEF OpSync, OpPlace, Pausing, NoOp, Stops
  <2>2. op'.at \in {"sync", op.next}
    BY <1>1, MoveFacts DEF OpSync
  <2> QED  BY <2>1, <2>2
<1>2. CASE OpDbFails
  <2>1. op.at = "sync" => op.next # "detach"
    BY <1>0 DEF OpPlace, Pausing, NoOp, Stops
  <2>2. AfterDbError # "detach"
    BY <1>2, <2>1 DEF OpDbFails, AfterDbError
  <2> QED  BY <1>2, <2>2, MoveFacts DEF OpDbFails
<1>3. CASE OpDetach \/ OpDecide \/ OpStopping \/ OpDetachOwn \/ OpFinal \/ OpCheck \/ OpDelete
  <2>1. SyncThen(op.next) \/ SyncThen("end")
        \/ Goto("detachOwn") \/ Goto("final") \/ Goto("end") \/ Goto("delete")
    BY <1>3 DEF OpDetach, OpDecide, OpStopping, OpDetachOwn, OpFinal, OpCheck, OpDelete
  <2> QED  BY <2>1, MoveFacts
<1>4. CASE OpEnter \/ OpClaim \/ OpHealth \/ OpReady \/ OpFailed
  BY <1>4, MoveFacts DEF OpEnter, OpClaim, OpHealth, OpReady, OpFailed, Started
<1>5. CASE OpSpawn
  <2>1. op'.at = "sync" \/ Goto("failed")
    BY <1>5 DEF OpSpawn, TypeOK, Operation
  <2> QED  BY <2>1, MoveFacts
<1>6. CASE OpLook
  <2>1. Goto("giveUp") \/ Goto("select") \/ StopThen("select") \/ op'.at = "switch"
    BY <1>6 DEF OpLook, Look, TypeOK, Operation
  <2> QED  BY <2>1, MoveFacts
<1>7. CASE OpSwitch \/ OpSelect \/ OpPrev \/ OpStarting \/ OpMap \/ OpStore \/ OpHistory
  <2>1. Goto("select") \/ Goto("prev") \/ Goto("starting") \/ Goto("enter")
        \/ Goto("history") \/ Goto("store") \/ Goto("giveUp") \/ Goto("end")
    BY <1>7 DEF OpSwitch, OpSelect, OpPrev, OpStarting, OpMap, OpStore, OpHistory
  <2> QED  BY <2>1, MoveFacts
<1>8. CASE OpGiveUp \/ OpMark
  BY <1>8, MoveFacts DEF OpGiveUp, OpMark
<1> QED  BY <1>1, <1>2, <1>3, <1>4, <1>5, <1>6, <1>7, <1>8 DEF OpStep

\* While sync_sessions holds `inner`, the runtime stays as it is.
LEMMA InnerHeld ==
    ASSUME TypeOK, Control, OpStep
    PROVE  /\ sync # "none" => rt' = rt
           /\ sync' \in {sync, "none"} \/ OpSync
           /\ sync' = "op" /\ ~OpSync => op.at # "sync"
BY DEF OpStep, OpEnd, OpSync, OpDetach, OpDecide, OpStopping, OpDetachOwn, OpFinal, OpCheck, OpDelete,
       OpEnter, OpClaim, OpSpawn, OpHealth, OpReady, OpFailed, OpLook, OpSwitch, OpSelect,
       OpPrev, OpStarting, OpMap, OpStore, OpHistory, OpGiveUp, OpMark, OpDbFails, InnerFree,
       Control, SyncPlace

LEMMA OpControl ==
    ASSUME TypeOK, Control, OpStep
    PROVE  Control'
<1>1. CASE OpEnd
  <2>1. OpPlace' /\ DetachPlace'
    BY <1>1 DEF OpEnd, OpPlace, DetachPlace, NoOp, Stops
  <2>2. HolderPlace'
    BY <1>1 DEF OpEnd, HolderPlace, AfterOp, Free, NoOp, Stops, Control, OpPlace, TypeOK, Holder
  <2>3. BootPlace'
    BY <1>1 DEF OpEnd, BootPlace, NoOp, Control
  <2>4. SyncPlace'
    BY <1>1 DEF OpEnd, SyncPlace, Control
  <2> QED  BY <2>1, <2>2, <2>3, <2>4 DEF Control
<1>2. CASE ~OpEnd
  <2>0. Within
    BY <1>2, OpWithin
  <2>1. OpPlace' /\ DetachPlace'
    BY <1>2, OpPlaceWithin, DetachWithin
  <2>2. HolderPlace'
    BY <2>0 DEF Within, Control, HolderPlace
  <2>3. BootPlace'
    BY <2>0 DEF Within, Control, BootPlace, NoOp
  <2>4. SyncPlace'
    <3>1. CASE OpSync
      BY <3>1, MoveFacts, RefreshFacts
      DEF OpSync, Control, SyncPlace, InnerFree, Kept, TypeOK, Runtime
    <3>2. CASE ~OpSync
      BY <3>2, InnerHeld DEF Control, SyncPlace, TypeOK
    <3> QED  BY <3>1, <3>2
  <2> QED  BY <2>1, <2>2, <2>3, <2>4 DEF Control
<1> QED  BY <1>1, <1>2

LEMMA BeginFacts ==
    ASSUME TypeOK, Control, NEW o, Begin(o)
    PROVE  /\ boot = "up" /\ op.at = "idle" /\ op.kind = "none" /\ sync # "op"
           /\ op' = o
           /\ UNCHANGED <<boot, todo, row, rt, sync>>
<1>1. op.kind = "none"
  BY DEF Begin, Control, OpPlace, Pausing, StartLabels, WakeLabels, Stops, TypeOK, Operation
<1> QED  BY <1>1 DEF Begin, Control, SyncPlace

LEMMA OtherControl ==
    ASSUME TypeOK, Control, Next, ~OpStep
    PROVE  Control'
<1> USE DEF Control
<1>1. CASE HolderBegin
  <2>0. \E o : Begin(o)
    BY <1>1 DEF HolderBegin, DeleteBegin, StartStopBegin, StartBegin, WakeBegin
  <2>1. BootPlace' /\ SyncPlace'
    BY <2>0, BeginFacts DEF BootPlace, SyncPlace
  <2>2. OpPlace' /\ DetachPlace'
    BY <1>1 DEF HolderBegin, DeleteBegin, StartStopBegin, StartBegin, WakeBegin, Begin,
                OpPlace, DetachPlace, Pausing, StartLabels, WakeLabels, NoOp, Stops
  <2>3. HolderPlace'
    BY <1>1, <2>0, BeginFacts
    DEF HolderBegin, DeleteBegin, StartStopBegin, StartBegin, WakeBegin, Begin, HolderPlace,
        NoOp, Stops, TypeOK, Holder
  <2> QED  BY <2>1, <2>2, <2>3
<1>2. CASE StopBegin \/ ReapBegin \/ \E s \in Sessions, action \in Stops : StopSession(s, action)
  <2>0. \E o : Begin(o)
    BY <1>2 DEF StopBegin, ReapBegin, StopSession
  <2>1. BootPlace' /\ SyncPlace'
    BY <2>0, BeginFacts DEF BootPlace, SyncPlace
  <2>2. OpPlace' /\ DetachPlace'
    BY <1>2 DEF StopBegin, ReapBegin, StopSession, Begin,
                OpPlace, DetachPlace, Pausing, StartLabels, WakeLabels, NoOp, Stops
  <2>3. HolderPlace'
    BY <1>2, <2>0, BeginFacts
    DEF StopBegin, ReapBegin, StopSession, Begin, HolderPlace, NoOp, Stops
  <2> QED  BY <2>1, <2>2, <2>3
<1>3. CASE HolderStep
  <2>1. UNCHANGED <<boot, todo, sync, op>> /\ ws # Free
    BY <1>3 DEF HolderStep, StartClear, ChatReread, ChatSend, ChatDone, Free
  <2>2. OpPlace' /\ DetachPlace' /\ BootPlace'
    BY <2>1 DEF OpPlace, DetachPlace, Pausing, BootPlace
  <2>3. HolderPlace'
    BY <1>3, <2>1
    DEF HolderStep, StartClear, ChatReread, ChatSend, ChatDone, HolderPlace, Free, TypeOK, Holder
  <2>4. SyncPlace'
    BY <1>3, <2>1, RefreshFacts
    DEF HolderStep, StartClear, ChatReread, ChatSend, ChatDone, SyncPlace, InnerFree
  <2> QED  BY <2>2, <2>3, <2>4
<1>4. CASE RecoverStep
  <2>1. UNCHANGED <<rt, sync, op, ws>>
    BY <1>4 DEF RecoverStep, RecoverBegin, RecoverDone, RecoverRow
  <2>2. OpPlace' /\ DetachPlace' /\ HolderPlace' /\ SyncPlace'
    BY <2>1 DEF OpPlace, DetachPlace, Pausing, HolderPlace, SyncPlace
  <2>3. BootPlace'
    BY <1>4, <2>1 DEF RecoverStep, RecoverBegin, RecoverDone, RecoverRow, BootPlace, TypeOK
  <2> QED  BY <2>2, <2>3
<1>5. CASE Poll \/ PollWrite \/ Refresh
  <2>1. UNCHANGED <<boot, todo, op, ws>>
    BY <1>5 DEF Poll, PollWrite, Refresh
  <2>2. OpPlace' /\ DetachPlace' /\ HolderPlace'
    BY <2>1 DEF OpPlace, DetachPlace, Pausing, HolderPlace
  <2>3. BootPlace'
    BY <1>5, <2>1 DEF Poll, PollWrite, Refresh, BootPlace
  <2>4. SyncPlace'
    BY <1>5, <2>1, RefreshFacts
    DEF Poll, PollWrite, Refresh, SyncPlace, InnerFree, Kept, TypeOK, Runtime
  <2> QED  BY <2>2, <2>3, <2>4
<1>6. CASE Crash
  BY <1>6 DEF Crash, OpPlace, DetachPlace, HolderPlace, BootPlace, SyncPlace, NoOp, Free, Stops
<1>7. CASE \/ \E p \in Profiles : StartHandler(p)
           \/ \E s \in Sessions : DeleteHandler(s) \/ \E chat \in BOOLEAN : WakeHandler(s, chat)
  <2>1. boot = "up" /\ UNCHANGED <<boot, todo, rt, sync, op>>
    BY <1>7 DEF StartHandler, DeleteHandler, WakeHandler
  <2>2. OpPlace' /\ DetachPlace' /\ BootPlace' /\ SyncPlace'
    BY <2>1 DEF OpPlace, DetachPlace, Pausing, BootPlace, SyncPlace
  <2>3. ws.at = "free"
    BY <1>7 DEF StartHandler, DeleteHandler, WakeHandler
  <2>4. ws'.at \in {"start", "stopFirst"} \/ (ws'.at \in {"delete", "wake"} /\ ws'.session \in Sessions)
    <3>1. CASE \E p \in Profiles : StartHandler(p)
      BY <3>1 DEF StartHandler, Free
    <3>2. CASE \E s \in Sessions : DeleteHandler(s)
      BY <3>2 DEF DeleteHandler, Free
    <3>3. CASE \E s \in Sessions : \E chat \in BOOLEAN : WakeHandler(s, chat)
      BY <3>3 DEF WakeHandler
    <3> QED  BY <1>7, <3>1, <3>2, <3>3
  <2>5. op.kind \notin {"wake", "start", "delete"} /\ (op.kind \in Stops => op.session \in Sessions)
    BY <2>3 DEF HolderPlace
  <2>6. HolderPlace'
    BY <2>1, <2>4, <2>5 DEF HolderPlace, Stops
  <2> QED  BY <2>2, <2>6
<1>8. CASE \E s \in Sessions : CreateSession(s)
  BY <1>8 DEF CreateSession, OpPlace, DetachPlace, Pausing, HolderPlace, BootPlace, SyncPlace
<1> QED  BY <1>1, <1>2, <1>3, <1>4, <1>5, <1>6, <1>7, <1>8 DEF Next

LEMMA NextControl ==
    ASSUME TypeOK, Control, [Next]_vars
    PROVE  TypeOK' /\ Control'
<1>1. CASE OpStep
  <2>1. OpFinal => op.kind \in Stops
    BY DEF OpFinal, Control, OpPlace, Pausing, StartLabels, WakeLabels, NoOp, TypeOK, Operation
  <2>2. TypeOK'
    BY <1>1, <2>1, OpRowType, OpRuntimeType, OpMoveType DEF OpStep
  <2> QED  BY <1>1, <2>2, OpControl
<1>2. CASE Next /\ ~OpStep
  BY <1>2, OtherType, OtherControl
<1>3. CASE UNCHANGED vars
  BY <1>3 DEF vars, TypeOK, Control, OpPlace, DetachPlace, Pausing, HolderPlace, BootPlace, SyncPlace
<1> QED  BY <1>1, <1>2, <1>3

-----------------------------------------------------------------------------
(* What a step does to the rows and to the runtime. *)

\* An unconditional UPDATE.
Writes(s, st, p) == Update(s, TRUE, st, p)

\* sync_sessions writes to the active session's row.
Reconciles == sync # "none" /\ rt' = rt /\ Writes(rt.session, rt.phase, rt.child)

LEMMA RowChanges ==
    ASSUME TypeOK, Control, [Next]_vars
    PROVE  \/ row' = row
           \/ Reconciles /\ (OpSync \/ PollWrite)
           \/ OpStopping \/ OpFinal \/ OpDelete \/ OpSwitch \/ OpStarting \/ OpStore
           \/ \E s \in Sessions : CreateSession(s) \/ RecoverRow(s)
<1>1. CASE OpSync
  BY <1>1 DEF OpSync, InnerFree, Reconciles, Writes
<1>2. CASE PollWrite
  BY <1>2 DEF PollWrite, Reconciles, Writes
<1>3. CASE OpEnd \/ OpDetach \/ OpDecide \/ OpDetachOwn \/ OpCheck \/ OpEnter \/ OpClaim \/ OpSpawn
           \/ OpHealth \/ OpReady \/ OpFailed \/ OpLook \/ OpSelect \/ OpPrev \/ OpMap \/ OpHistory
           \/ OpGiveUp \/ OpMark \/ OpDbFails
  BY <1>3 DEF OpEnd, OpDetach, OpDecide, OpDetachOwn, OpCheck, OpEnter, OpClaim, OpSpawn, OpHealth,
              OpReady, OpFailed, OpLook, OpSelect, OpPrev, OpMap, OpHistory, OpGiveUp, OpMark,
              OpDbFails
<1>4. CASE HolderBegin \/ HolderStep \/ StopBegin \/ ReapBegin
           \/ \E s \in Sessions, action \in Stops : StopSession(s, action)
  BY <1>4 DEF HolderBegin, DeleteBegin, StartStopBegin, StartBegin, WakeBegin, Begin, HolderStep,
              StartClear, ChatReread, ChatSend, ChatDone, StopBegin, ReapBegin, StopSession
<1>5. CASE \/ Poll \/ Refresh \/ Crash \/ RecoverBegin \/ RecoverDone
           \/ \E p \in Profiles : StartHandler(p)
           \/ \E s \in Sessions : DeleteHandler(s) \/ \E chat \in BOOLEAN : WakeHandler(s, chat)
  BY <1>5 DEF Poll, Refresh, Crash, RecoverBegin, RecoverDone, StartHandler, DeleteHandler,
              WakeHandler
<1>6. CASE UNCHANGED vars
  BY <1>6 DEF vars
<1> QED  BY <1>1, <1>2, <1>3, <1>4, <1>5, <1>6 DEF Next, OpStep, RecoverStep

LEMMA UpdateFacts ==
    ASSUME TypeOK, NEW s, NEW c, NEW st, NEW p, Update(s, c, st, p), NEW t \in Sessions
    PROVE  /\ row'[t].mapped = row[t].mapped
           /\ IF t = s /\ row[s].status \notin Absent /\ c
              THEN row'[t].status = st /\ row'[t].pid = p
              ELSE row'[t] = row[t]
BY DEF TypeOK, Update, Row

LEMMA WriteFacts ==
    ASSUME TypeOK, NEW s, NEW st, NEW p, Writes(s, st, p), NEW t \in Sessions
    PROVE  /\ row'[t].mapped = row[t].mapped
           /\ IF t = s /\ row[s].status \notin Absent
              THEN row'[t].status = st /\ row'[t].pid = p
              ELSE row'[t] = row[t]
BY DEF Writes, TypeOK, Update, Row

LEMMA RestingKept ==
    ASSUME TypeOK, Control, Rows, [Next]_vars
    PROVE  RestingRowHasNoPid'
<1> SUFFICES ASSUME NEW t \in Sessions,
                    row'[t].status \in Absent \cup Stops \cup {"created"}
             PROVE  row'[t].pid = NoPid
  BY DEF RestingRowHasNoPid
<1>0. row[t].status \in Absent \cup Stops \cup {"created"} => row[t].pid = NoPid
  BY DEF Rows, RestingRowHasNoPid
<1>1. CASE row' = row
  BY <1>0, <1>1
<1>2. CASE Reconciles
  <2>1. rt.phase \in Absent \cup Stops \cup {"created"} => rt.child = NoPid
    BY DEF TypeOK, Runtime, Rows, SleepingIsEmpty, Absent, Stops
  <2> QED  BY <1>0, <1>2, <2>1, WriteFacts DEF Reconciles
<1>3. CASE OpStopping
  BY <1>0, <1>3, UpdateFacts DEF OpStopping, Absent, Stops
<1>4. CASE OpFinal
  <2>1. Writes(op.session, op.kind, NoPid)
    BY <1>4 DEF OpFinal, Writes
  <2> QED  BY <1>0, <2>1, WriteFacts
<1>5. CASE OpDelete
  BY <1>0, <1>5 DEF OpDelete, TypeOK
<1>6. CASE OpSwitch
  BY <1>0, <1>6, UpdateFacts DEF OpSwitch
<1>7. CASE OpStarting
  <2>1. Writes(op.session, "starting", row[op.session].pid)
    BY <1>7 DEF OpStarting, Writes
  <2> QED  BY <1>0, <2>1, WriteFacts DEF Absent, Stops
<1>8. CASE OpStore
  BY <1>0, <1>8 DEF OpStore, TypeOK, Row
<1>9. CASE \E s \in Sessions : CreateSession(s)
  BY <1>0, <1>9 DEF CreateSession, TypeOK, Row, Absent
<1>10. CASE \E s \in Sessions : RecoverRow(s)
  <2>1. \E s \in Sessions : Writes(s, "sleeping", NoPid)
    BY <1>10 DEF RecoverRow, Writes
  <2> QED  BY <1>0, <2>1, WriteFacts
<1> QED  BY <1>1, <1>2, <1>3, <1>4, <1>5, <1>6, <1>7, <1>8, <1>9, <1>10, RowChanges

\* Steps that leave the runtime alone, but for what a refresh notices.
Cooler ==
    /\ rt'.session = rt.session
    /\ rt'.phase \in {rt.phase, "error"}
    /\ rt'.child \in {rt.child, NoPid}
    /\ rt'.phase = "sleeping" => rt' = rt

LEMMA CoolerFacts ==
    ASSUME TypeOK, Next
    PROVE  \/ Cooler
           \/ OpDetach \/ OpDecide \/ OpDetachOwn \/ OpClaim \/ OpSpawn \/ OpHealth \/ OpReady
           \/ OpFailed \/ OpSelect \/ OpMark \/ StartClear \/ Crash
<1> USE DEF Cooler
<1>0. \A r \in Refreshes(rt) : rt' = r => Cooler
  BY RefreshFacts
<1>1. CASE OpSync \/ OpEnter \/ Poll \/ Refresh \/ ChatSend
  BY <1>0, <1>1 DEF OpSync, OpEnter, Poll, Refresh, ChatSend
<1>2. CASE OpEnd \/ OpCheck \/ OpLook \/ OpPrev \/ OpMap \/ OpHistory \/ OpGiveUp \/ OpDbFails
           \/ OpStopping \/ OpFinal \/ OpDelete \/ OpSwitch \/ OpStarting \/ OpStore
  BY <1>2 DEF OpEnd, OpCheck, OpLook, OpPrev, OpMap, OpHistory, OpGiveUp, OpDbFails, OpStopping,
              OpFinal, OpDelete, OpSwitch, OpStarting, OpStore
<1>3. CASE HolderBegin \/ ChatReread \/ ChatDone \/ RecoverStep \/ PollWrite \/ StopBegin \/ ReapBegin
           \/ \E s \in Sessions, action \in Stops : StopSession(s, action)
  BY <1>3 DEF HolderBegin, DeleteBegin, StartStopBegin, StartBegin, WakeBegin, Begin, ChatReread,
              ChatDone, RecoverStep, RecoverBegin, RecoverDone, RecoverRow, PollWrite, StopBegin,
              ReapBegin, StopSession
<1>4. CASE \/ \E p \in Profiles : StartHandler(p)
           \/ \E s \in Sessions : \/ CreateSession(s) \/ DeleteHandler(s)
                                  \/ \E chat \in BOOLEAN : WakeHandler(s, chat)
  BY <1>4 DEF StartHandler, CreateSession, DeleteHandler, WakeHandler
<1> QED  BY <1>1, <1>2, <1>3, <1>4 DEF Next, OpStep, HolderStep

LEMMA SleepingKept ==
    ASSUME TypeOK, Control, Rows, [Next]_vars
    PROVE  SleepingIsEmpty'
<1> USE DEF Rows, SleepingIsEmpty
<1>0. rt \in Runtime
  BY DEF TypeOK
<1>1. CASE Cooler
  BY <1>1 DEF Cooler
<1>2. CASE OpDetach \/ OpDetachOwn \/ OpClaim \/ OpHealth
  BY <1>0, <1>2 DEF OpDetach, OpDetachOwn, OpClaim, OpHealth, Detach, Runtime
<1>3. CASE OpDecide
  BY <1>0, <1>3, RefreshFacts, RefreshType DEF OpDecide, Detach, Runtime
<1>4. CASE OpReady \/ OpFailed
  BY <1>0, <1>4 DEF OpReady, OpFailed, Detach, Runtime
<1>5. CASE OpSelect \/ OpMark \/ StartClear
  BY <1>0, <1>5 DEF OpSelect, OpMark, StartClear, Runtime
<1>6. CASE OpSpawn
  BY <1>0, <1>6 DEF OpSpawn, Claimed, Runtime
<1>8. CASE Crash
  BY <1>8 DEF Crash, NoRuntime
<1>7. CASE UNCHANGED vars
  BY <1>7 DEF vars
<1> QED  BY <1>1, <1>2, <1>3, <1>4, <1>5, <1>6, <1>7, <1>8, CoolerFacts

-----------------------------------------------------------------------------
(* Where a step of an operation leads. *)

LEMMA Successors ==
    ASSUME TypeOK, Control
    PROVE  /\ OpSync => /\ op.at = "sync" /\ op'.next = op.next
                        /\ (op'.at = "sync" /\ sync' = "op") \/ op'.at = op.next
           /\ OpDetach => op.at = "detach" /\ op'.at = "sync" /\ op'.next = op.next
           /\ OpDecide => op.at = "decide" /\ op'.at = "sync" /\ op'.next = "end"
           /\ OpStopping => op.at = "stopping" /\ op'.at = "detachOwn"
           /\ OpDetachOwn => op.at = "detachOwn" /\ op'.at = "final"
           /\ OpFinal => op.at = "final" /\ op'.at = "end"
           /\ OpCheck => op.at = "check" /\ op'.at \in {"end", "delete"}
           /\ OpDelete => op.at = "delete" /\ op'.at = "end"
           /\ OpEnter => op.at = "enter" /\ \/ op'.at \in {"claim", "failed"}
                                            \/ op.kind # "wake" /\ op'.at = "end"
                                            \/ op'.at = "sync" /\ op'.next = "map"
           /\ OpClaim => op.at = "claim" /\ \/ op'.at = "failed"
                                            \/ op'.at = "sync" /\ op'.next = "spawn"
           /\ OpSpawn => op.at = "spawn" /\ \/ op'.at = "failed"
                                            \/ op'.at = "sync" /\ op'.next = "health"
           /\ OpHealth => op.at = "health" /\ op'.at \in {"ready", "failed"}
           /\ OpReady => op.at = "ready" /\ \/ op'.at = "failed"
                                            \/ op.kind # "wake" /\ op'.at = "end"
                                            \/ op'.at = "sync" /\ op'.next = "map"
           /\ OpFailed => op.at = "failed" /\ \/ op.kind # "wake" /\ op'.at = "end"
                                              \/ op'.at = "sync" /\ op'.next = "giveUp"
           /\ OpLook => op.at = "look" /\ \/ op'.at \in {"giveUp", "select", "switch"}
                                          \/ op'.at = "detach" /\ op'.next = "select"
           /\ OpSwitch => op.at = "switch" /\ op'.at = "select"
           /\ OpSelect => op.at = "select" /\ op'.at = "prev"
           /\ OpPrev => op.at = "prev" /\ op'.at \in {"enter", "starting"}
           /\ OpStarting => op.at = "starting" /\ op'.at = "enter"
           /\ OpMap => op.at = "map" /\ op'.at \in {"history", "store", "giveUp"}
           /\ OpStore => op.at = "store" /\ op'.at = "history"
           /\ OpHistory => op.at = "history" /\ op'.at \in {"end", "giveUp"}
           /\ OpGiveUp => op.at = "giveUp" /\ op'.at = "detach" /\ op'.next = "mark"
           /\ OpMark => op.at = "mark" /\ op'.at = "sync" /\ op'.next = "gaveUp"
<1>1. OpSync => /\ op.at = "sync" /\ op'.next = op.next
                /\ (op'.at = "sync" /\ sync' = "op") \/ op'.at = op.next
  BY MoveFacts DEF OpSync
<1>2. /\ OpDetach => op.at = "detach" /\ op'.at = "sync" /\ op'.next = op.next
      /\ OpDecide => op.at = "decide" /\ op'.at = "sync" /\ op'.next = "end"
  BY MoveFacts DEF OpDetach, OpDecide
<1>3. /\ OpStopping => op.at = "stopping" /\ op'.at = "detachOwn"
      /\ OpDetachOwn => op.at = "detachOwn" /\ op'.at = "final"
      /\ OpFinal => op.at = "final" /\ op'.at = "end"
      /\ OpDelete => op.at = "delete" /\ op'.at = "end"
  BY MoveFacts DEF OpStopping, OpDetachOwn, OpFinal, OpDelete
<1>4. OpCheck => op.at = "check" /\ op'.at \in {"end", "delete"}
  BY DEF OpCheck, Goto, TypeOK, Operation
<1>5. OpEnter => op.at = "enter" /\ \/ op'.at \in {"claim", "failed"}
                                    \/ op.kind # "wake" /\ op'.at = "end"
                                    \/ op'.at = "sync" /\ op'.next = "map"
  BY MoveFacts DEF OpEnter, Started
<1>6. OpClaim => op.at = "claim" /\ \/ op'.at = "failed"
                                    \/ op'.at = "sync" /\ op'.next = "spawn"
  BY MoveFacts DEF OpClaim
<1>7. OpSpawn => op.at = "spawn" /\ \/ op'.at = "failed"
                                    \/ op'.at = "sync" /\ op'.next = "health"
  BY MoveFacts DEF OpSpawn, TypeOK, Operation
<1>8. OpHealth => op.at = "health" /\ op'.at \in {"ready", "failed"}
  BY MoveFacts DEF OpHealth
<1>9. OpReady => op.at = "ready" /\ \/ op'.at = "failed"
                                    \/ op.kind # "wake" /\ op'.at = "end"
                                    \/ op'.at = "sync" /\ op'.next = "map"
  BY MoveFacts DEF OpReady, Started
<1>10. OpFailed => op.at = "failed" /\ \/ op.kind # "wake" /\ op'.at = "end"
                                       \/ op'.at = "sync" /\ op'.next = "giveUp"
  BY MoveFacts DEF OpFailed
<1>11. OpLook => op.at = "look" /\ \/ op'.at \in {"giveUp", "select", "switch"}
                                   \/ op'.at = "detach" /\ op'.next = "select"
  BY MoveFacts DEF OpLook, Look, TypeOK, Operation
<1>12. /\ OpSwitch => op.at = "switch" /\ op'.at = "select"
       /\ OpSelect => op.at = "select" /\ op'.at = "prev"
       /\ OpStarting => op.at = "starting" /\ op'.at = "enter"
       /\ OpStore => op.at = "store" /\ op'.at = "history"
  BY MoveFacts DEF OpSwitch, OpSelect, OpStarting, OpStore
<1>13. OpPrev => op.at = "prev" /\ op'.at \in {"enter", "starting"}
  BY DEF OpPrev, Goto, TypeOK, Operation
<1>14. /\ OpMap => op.at = "map" /\ op'.at \in {"history", "store", "giveUp"}
       /\ OpHistory => op.at = "history" /\ op'.at \in {"end", "giveUp"}
       /\ OpGiveUp => op.at = "giveUp" /\ op'.at = "detach" /\ op'.next = "mark"
       /\ OpMark => op.at = "mark" /\ op'.at = "sync" /\ op'.next = "gaveUp"
  BY MoveFacts DEF OpMap, OpHistory, OpGiveUp, OpMark
<1> QED  BY <1>1, <1>2, <1>3, <1>4, <1>5, <1>6, <1>7, <1>8, <1>9, <1>10, <1>11, <1>12, <1>13, <1>14

\* A failed statement leads to the end, or to where wake gives up.
LEMMA DbFailsFacts ==
    ASSUME TypeOK, Control, OpDbFails
    PROVE  /\ rt' = rt /\ row' = row
           /\ op.kind # "none"
           /\ op'.at \in {"giveUp", "end", "failed", "select", "mark", "gaveUp"}
           /\ op'.at = "select" => op.at = "sync" /\ op.next = "select"
           /\ op'.at = "end" => op.kind # "wake"
<1>1. OpPlace /\ op.kind \in {"none", "start", "wake", "stop", "delete", "reap"} \cup Stops
  BY DEF Control, TypeOK, Operation
<1>2. op.at \in {"look", "switch", "prev", "starting", "map", "store", "stopping", "final",
                 "delete", "sync"}
  BY DEF OpDbFails
<1>3. op.kind # "none"
  BY <1>1, <1>2 DEF OpPlace, NoOp
<1>4. op.at = "sync" => op.next \in {"end", "spawn", "health", "select", "map", "giveUp", "mark", "gaveUp"}
  BY <1>1, <1>3 DEF OpPlace, Pausing, Stops
<1>5. op.kind = "wake" => op.at \notin {"stopping", "final", "delete"} /\ (op.at = "sync" => op.next # "end")
  BY <1>1 DEF OpPlace, Pausing, WakeLabels, StartLabels
<1>6. op'.at = AfterDbError
  BY MoveFacts DEF OpDbFails
<1>7. /\ AfterDbError \in {"giveUp", "end", "failed", "select", "mark", "gaveUp"}
      /\ AfterDbError = "select" => op.at = "sync" /\ op.next = "select"
      /\ AfterDbError = "end" => op.kind # "wake"
  BY <1>2, <1>4, <1>5 DEF AfterDbError
<1> QED  BY <1>3, <1>6, <1>7 DEF OpDbFails

LEMMA SyncNext ==
    ASSUME TypeOK, Control, op.at = "sync"
    PROVE  op.next \in {"end", "spawn", "health", "select", "map", "giveUp", "mark", "gaveUp"}
<1>1. op.kind \in {"none", "start", "wake", "stop", "delete", "reap"} \cup Stops
  BY DEF TypeOK, Operation
<1> QED  BY <1>1 DEF Control, OpPlace, Pausing, Stops, NoOp

\* The steps of everyone but the operation under way.
LEMMA OtherSteps ==
    ASSUME TypeOK, Control, [Next]_vars, ~OpStep
    PROVE  \/ Crash
           \/ op' = op /\ (Cooler \/ StartClear)
           \/ /\ op.kind = "none" /\ rt' = rt /\ row' = row
              /\ op'.at \in {"detach", "decide", "stopping", "check", "end", "enter", "look"}
              /\ op'.kind = "wake" => op'.at = "look"
              /\ ws.at \in {"reread", "send"} \/ ws'.at \in {"reread", "send"} => ws' = ws
<1>1. CASE HolderBegin
  <2>1. op.kind = "none" /\ rt' = rt /\ row' = row
    <3>1. \E o : Begin(o)
      BY <1>1 DEF HolderBegin, DeleteBegin, StartStopBegin, StartBegin, WakeBegin
    <3> QED  BY <3>1, BeginFacts DEF Begin
  <2>2. /\ op'.at \in {"detach", "enter", "look", "check", "end"}
        /\ op'.kind = "wake" => op'.at = "look"
    BY <1>1 DEF HolderBegin, DeleteBegin, StartStopBegin, StartBegin, WakeBegin, Begin, NoOp
  <2>3. ws.at \notin {"reread", "send"} /\ ws'.at \notin {"reread", "send"}
    BY <1>1 DEF HolderBegin, DeleteBegin, StartStopBegin, StartBegin, WakeBegin, TypeOK, Holder
  <2> QED  BY <2>1, <2>2, <2>3
<1>2. CASE StopBegin \/ ReapBegin \/ \E s \in Sessions, action \in Stops : StopSession(s, action)
  <2>1. op.kind = "none" /\ rt' = rt /\ row' = row
    <3>1. \E o : Begin(o)
      BY <1>2 DEF StopBegin, ReapBegin, StopSession
    <3> QED  BY <3>1, BeginFacts DEF Begin
  <2>2. op'.at \in {"detach", "decide", "stopping"} /\ op'.kind # "wake" /\ ws' = ws
    BY <1>2 DEF StopBegin, ReapBegin, StopSession, Begin, NoOp, Stops
  <2> QED  BY <2>1, <2>2
<1>3. CASE op' = op
  <2>1. CASE UNCHANGED vars
    BY <2>1 DEF vars, Cooler
  <2>2. CASE Next
    BY <1>3, <2>2, CoolerFacts DEF OpStep
  <2> QED  BY <1>3, <2>1, <2>2
<1>4. CASE \/ HolderStep \/ RecoverStep \/ Poll \/ PollWrite \/ Refresh
           \/ \E p \in Profiles : StartHandler(p)
           \/ \E s \in Sessions : \/ CreateSession(s) \/ DeleteHandler(s)
                                  \/ \E chat \in BOOLEAN : WakeHandler(s, chat)
  <2>1. op' = op
    BY <1>4 DEF HolderStep, StartClear, ChatReread, ChatSend, ChatDone, RecoverStep, RecoverBegin,
                RecoverDone, RecoverRow, Poll, PollWrite, Refresh, StartHandler, CreateSession,
                DeleteHandler, WakeHandler
  <2> QED  BY <1>3, <2>1
<1>5. CASE UNCHANGED vars
  BY <1>3, <1>5 DEF vars
<1> QED  BY <1>1, <1>2, <1>4, <1>5 DEF Next

LEMMA ClaimedKept ==
    ASSUME TypeOK, Control, Rows, [Next]_vars
    PROVE  Claimed'
<1> SUFFICES ASSUME op'.at = "spawn" \/ (op'.at = "sync" /\ op'.next = "spawn")
             PROVE  rt'.phase # "sleeping"
  BY DEF Claimed
<1>0. Claimed
  BY DEF Rows
<1>1. CASE OpClaim
  <2>1. ~Goto("failed")
    BY MoveFacts
  <2>2. rt' = [Detach(rt) EXCEPT !.phase = "starting", !.profile = op.profile]
    BY <1>1, <2>1 DEF OpClaim
  <2>3. rt'.phase = "starting"
    BY <2>2 DEF Detach, TypeOK, Runtime
  <2> QED  BY <2>3
<1>2. CASE OpSync
  <2>1. rt'.phase \in {rt.phase, "error"}
    BY <1>2, RefreshFacts DEF OpSync
  <2> QED  BY <1>0, <1>2, <2>1, Successors DEF Claimed
<1>3. CASE OpDbFails
  BY <1>3, DbFailsFacts
<1>4. CASE OpEnd \/ Crash
  BY <1>4 DEF OpEnd, Crash, NoOp
<1>5. CASE OpStep /\ ~OpClaim /\ ~OpSync /\ ~OpDbFails /\ ~OpEnd
  BY <1>5, Successors DEF OpStep, Control, DetachPlace
<1>6. CASE ~OpStep /\ ~Crash
  BY <1>0, <1>6, OtherSteps DEF Claimed, Cooler, StartClear, TypeOK, Runtime
<1> QED  BY <1>1, <1>2, <1>3, <1>4, <1>5, <1>6

LEMMA RecoveryKept ==
    ASSUME TypeOK, Control, Rows, [Next]_vars
    PROVE  RecoveryKnows'
<1> SUFFICES ASSUME boot' = "recovering" PROVE Unsettled' \subseteq todo'
  BY DEF RecoveryKnows
<1>1. CASE RecoverBegin
  BY <1>1 DEF RecoverBegin, Unsettled
<1>2. CASE UNCHANGED <<boot, todo, row>>
  BY <1>2 DEF Rows, RecoveryKnows, Unsettled
<1>3. ASSUME NEW s \in Sessions, RecoverRow(s) PROVE Unsettled' \subseteq todo'
  <2>1. boot = "recovering" /\ Unsettled \subseteq todo
    BY <1>3 DEF Control, BootPlace, RecoverRow, Rows, RecoveryKnows
  <2>2. Writes(s, "sleeping", NoPid) /\ todo' = todo \ {s}
    BY <1>3 DEF RecoverRow, Writes
  <2>3. row[s].status \in Absent => row[s].pid = NoPid
    BY DEF Rows, RestingRowHasNoPid
  <2>4. s \notin Unsettled'
    BY <2>2, <2>3, WriteFacts DEF Unsettled, Transient, Absent
  <2>5. \A t \in Sessions : t # s => row'[t] = row[t]
    BY <2>2, WriteFacts
  <2> QED  BY <2>1, <2>2, <2>4, <2>5 DEF Unsettled
<1>4. CASE boot = "up" /\ ~Crash
  <2>1. boot' = boot
    BY <1>4, OpWithin DEF Next, OpEnd, Within, HolderBegin, DeleteBegin, StartStopBegin, StartBegin,
       WakeBegin, Begin, HolderStep, StartClear, ChatReread, ChatSend, ChatDone, RecoverStep,
       RecoverBegin, RecoverDone, RecoverRow, Poll, PollWrite, Refresh, StopBegin, ReapBegin,
       StopSession, StartHandler, CreateSession, DeleteHandler, WakeHandler, vars
  <2> QED  BY <1>4, <2>1
<1>5. CASE Crash \/ RecoverDone
  BY <1>5 DEF Crash, RecoverDone
<1>6. CASE boot # "up"
  <2>1. op.kind = "none" /\ op.at = "idle" /\ sync = "none" /\ ws.at = "free"
    BY <1>6 DEF Control, BootPlace, NoOp, Free
  <2>2. ~OpStep
    <3>1. OpEnd => op.at \in {"end", "gaveUp"}
      BY DEF OpEnd
    <3> QED  BY <2>1, <3>1, OpWithin DEF Within
  <2>3. ~(\E o : Begin(o)) /\ ~HolderStep
    BY <1>6, <2>1 DEF Begin, HolderStep, StartClear, ChatReread, ChatSend, ChatDone
  <2>4. ~(HolderBegin \/ StopBegin \/ ReapBegin
          \/ \E s \in Sessions, action \in Stops : StopSession(s, action))
    BY <2>3 DEF HolderBegin, DeleteBegin, StartStopBegin, StartBegin, WakeBegin, StopBegin, ReapBegin,
                StopSession
  <2>5. ~(\/ Poll \/ PollWrite \/ Refresh
          \/ \E p \in Profiles : StartHandler(p)
          \/ \E s \in Sessions : \/ CreateSession(s) \/ DeleteHandler(s)
                                 \/ \E chat \in BOOLEAN : WakeHandler(s, chat))
    BY <1>6, <2>1 DEF Poll, PollWrite, Refresh, StartHandler, CreateSession, DeleteHandler, WakeHandler
  <2> QED  BY <1>1, <1>2, <1>3, <1>5, <2>2, <2>3, <2>4, <2>5 DEF Next, RecoverStep, vars
<1> QED  BY <1>4, <1>5, <1>6

LEMMA StoppedKept ==
    ASSUME TypeOK, Control, Rows, [Next]_vars
    PROVE  StoppedFirst'
<1>0. StoppedFirst /\ rt \in Runtime
  BY DEF Rows, TypeOK
<1>1. CASE OpDetachOwn
  <2>1. op'.at = "final" /\ op'.session = op.session
    BY <1>1, Successors, MoveFacts DEF OpDetachOwn
  <2>2. rt'.session # op.session \/ rt'.phase # "ready"
    BY <1>0, <1>1 DEF OpDetachOwn, Detach, Runtime
  <2> QED  BY <2>1, <2>2 DEF StoppedFirst
<1>2. CASE OpCheck
  <2>1. /\ op'.at \in {"end", "delete"}
        /\ op'.at = "delete" => rt.session # op.session \/ rt.child = NoPid
        /\ op'.session = op.session /\ rt' = rt
    BY <1>2 DEF OpCheck, Goto, TypeOK, Operation
  <2> QED  BY <2>1 DEF StoppedFirst
<1>3. CASE OpEnd \/ Crash
  BY <1>3 DEF OpEnd, Crash, NoOp, StoppedFirst
<1>4. CASE OpStep /\ ~OpDetachOwn /\ ~OpCheck /\ ~OpEnd
  <2>1. op'.at \notin {"final", "delete"}
    BY <1>4, Successors, DbFailsFacts, SyncNext DEF OpStep
  <2> QED  BY <2>1 DEF StoppedFirst
<1>5. CASE ~OpStep /\ ~Crash
  <2>1. CASE op' = op /\ Cooler
    BY <1>0, <2>1 DEF StoppedFirst, Cooler
  <2>2. CASE op' = op /\ StartClear
    <3>1. op.at \in {"final", "delete"} => op.session \in Sessions
      <4>1. op.kind \in {"none", "start", "wake", "stop", "delete", "reap"} \cup Stops
        BY DEF TypeOK, Operation
      <4>2. op.at \in {"final", "delete"} => op.kind \in Stops \cup {"delete"}
        BY <4>1 DEF Control, OpPlace, Pausing, StartLabels, WakeLabels, NoOp
      <4> QED  BY <4>2 DEF Control, HolderPlace
    <3>2. rt'.session = NoSession
      BY <1>0, <2>2 DEF StartClear, Runtime
    <3> QED  BY <2>2, <3>1, <3>2, ConstantsAssumption DEF StoppedFirst
  <2>3. CASE op'.at \notin {"final", "delete"}
    BY <2>3 DEF StoppedFirst
  <2> QED  BY <1>5, <2>1, <2>2, <2>3, OtherSteps
<1> QED  BY <1>1, <1>2, <1>3, <1>4, <1>5

LEMMA RowsKept ==
    ASSUME TypeOK, Control, Rows, [Next]_vars
    PROVE  Rows'
BY RestingKept, SleepingKept, ClaimedKept, RecoveryKept, StoppedKept DEF Rows

-----------------------------------------------------------------------------
(* wake and chat. *)

\* What everyone else may do to a row that exists.
LEMMA OtherRows ==
    ASSUME TypeOK, Control, [Next]_vars, ~OpStep, op.kind # "none" \/ ws.at # "free", NEW t \in Sessions
    PROVE  /\ row'[t].mapped = row[t].mapped
           /\ row[t].status \notin Absent =>
                row'[t] = row[t] \/ (t = rt.session /\ rt' = rt /\ row'[t].status = rt.phase)
<1>1. CASE Reconciles
  BY <1>1, WriteFacts DEF Reconciles
<1>2. CASE \E s \in Sessions : CreateSession(s)
  BY <1>2 DEF CreateSession, Absent, TypeOK, Row
<1>3. ~(\E s \in Sessions : RecoverRow(s))
  <2>1. boot = "up"
    BY DEF Control, BootPlace, NoOp, Free
  <2>2. todo = {}
    BY <2>1 DEF Control, BootPlace
  <2> QED  BY <2>2 DEF RecoverRow
<1>4. ~(OpStopping \/ OpFinal \/ OpDelete \/ OpSwitch \/ OpStarting \/ OpStore)
  BY DEF OpStep
<1> QED  BY <1>1, <1>2, <1>3, <1>4, RowChanges

\* A wake under way goes on, or others take a step.
LEMMA WakeSteps ==
    ASSUME TypeOK, Control, [Next]_vars, op'.kind = "wake"
    PROVE  \/ ~Pausing' /\ op'.at = "look"
           \/ /\ op.kind = "wake" /\ op'.session = op.session /\ op.session \in Sessions
              /\ \/ OpStep /\ ~OpEnd
                 \/ ~OpStep /\ op' = op /\ Cooler
<1>1. op.kind = "wake" => ws.at = "waking" /\ op.session \in Sessions
  BY DEF Control, HolderPlace
<1>2. CASE OpEnd \/ Crash
  BY <1>2 DEF OpEnd, Crash, NoOp
<1>3. CASE OpStep /\ ~OpEnd
  BY <1>1, <1>3, OpWithin DEF Within
<1>4. CASE ~OpStep /\ ~Crash
  <2>1. ~(StartClear /\ op.kind = "wake")
    BY <1>1 DEF StartClear
  <2> QED  BY <1>1, <1>4, <2>1, OtherSteps DEF Pausing
<1> QED  BY <1>2, <1>3, <1>4

\* The steps wake takes on its way to a label.
LEMMA WakeMoves ==
    ASSUME TypeOK, Control, OpStep, ~OpEnd, op.kind = "wake"
    PROVE  \/ OpSync \/ OpDetach \/ OpDbFails \/ OpEnter \/ OpClaim \/ OpSpawn \/ OpHealth \/ OpReady
           \/ OpFailed \/ OpLook \/ OpSwitch \/ OpSelect \/ OpPrev \/ OpStarting \/ OpMap \/ OpStore
           \/ OpHistory \/ OpGiveUp \/ OpMark
<1>1. op.at \notin {"decide", "stopping", "detachOwn", "final", "check", "delete"}
  BY DEF Control, OpPlace, Pausing, WakeLabels, StartLabels
<1> QED  BY <1>1, Successors DEF OpStep

LEMMA WakeLookedKept ==
    ASSUME IInv, [Next]_vars
    PROVE  WakeLooked'
<1> USE DEF IInv
<1> SUFFICES ASSUME op'.kind = "wake", At({"switch", "select", "prev", "starting"})'
             PROVE  row'[op'.session].status \notin Absent \cup {"archived"}
  BY DEF WakeLooked
<1>0. op.kind = "wake" /\ op'.session = op.session /\ op.session \in Sessions
  BY WakeSteps DEF At
<1> DEFINE t == op.session
<1>1. At({"switch", "select", "prev", "starting"}) => row[t].status \notin Absent \cup {"archived"}
  BY <1>0 DEF Waking, WakeLooked
<1>2. ASSUME row[t].status \notin Absent \cup {"archived"},
             row'[t].status \in {row[t].status, "sleeping", "starting", "ready", "error"}
      PROVE  row'[t].status \notin Absent \cup {"archived"}
  BY <1>2 DEF Absent
<1>3. rt.phase \in {"sleeping", "starting", "ready", "error"}
  BY DEF TypeOK, Runtime
<1>4. CASE ~OpStep
  BY <1>0, <1>1, <1>2, <1>3, <1>4, WakeSteps, OtherRows DEF At, Pausing
<1>5. CASE OpLook
  <2>1. op'.at # "giveUp"
    BY DEF At, Pausing
  <2>2. row[t].status \notin Absent \cup {"archived"}
    BY <1>5, <2>1, MoveFacts DEF OpLook
  <2> QED  BY <1>0, <1>5, <2>2 DEF OpLook
<1>6. CASE OpSync
  <2>1. At({"switch", "select", "prev", "starting"})
    BY <1>6, Successors, SyncNext DEF At, Pausing
  <2>2. row' = row \/ Reconciles
    BY <1>6 DEF OpSync, Reconciles, InnerFree, Writes
  <2>3. row'[t] = row[t] \/ row'[t].status = rt.phase
    BY <1>0, <2>2, WriteFacts DEF Reconciles
  <2> QED  BY <1>0, <1>1, <1>2, <1>3, <2>1, <2>3
<1>7. CASE OpDetach
  <2>1. At({"switch", "select", "prev", "starting"})
    BY <1>7, Successors DEF At, Pausing
  <2> QED  BY <1>0, <1>1, <1>7, <2>1 DEF OpDetach
<1>8. CASE OpDbFails
  <2>1. At({"switch", "select", "prev", "starting"})
    BY <1>8, DbFailsFacts DEF At, Pausing
  <2> QED  BY <1>0, <1>1, <1>8, <2>1, DbFailsFacts
<1>9. CASE OpSwitch
  <2>1. At({"switch", "select", "prev", "starting"})
    BY <1>9, Successors DEF At, Pausing
  <2>2. row'[t] = row[t] \/ row'[t].status = "sleeping"
    BY <1>0, <1>9, UpdateFacts DEF OpSwitch
  <2> QED  BY <1>0, <1>1, <1>2, <2>1, <2>2
<1>10. CASE OpSelect \/ OpPrev
  <2>1. At({"switch", "select", "prev", "starting"}) /\ row' = row
    BY <1>10, Successors DEF At, Pausing, OpSelect, OpPrev
  <2> QED  BY <1>0, <1>1, <2>1
<1>11. CASE OpEnter \/ OpClaim \/ OpSpawn \/ OpHealth \/ OpReady \/ OpFailed \/ OpStarting \/ OpMap
            \/ OpStore \/ OpHistory \/ OpGiveUp \/ OpMark
  BY <1>11, Successors DEF At, Pausing
<1> QED  BY <1>0, <1>4, <1>5, <1>6, <1>7, <1>8, <1>9, <1>10, <1>11, WakeMoves, WakeSteps DEF At, Pausing

\* The labels a wake reaches once it has selected its session, and once its row says so.
SelectedLabels ==
    {"prev", "starting", "enter", "claim", "spawn", "health", "ready", "map", "store", "history", "end"}
EnteredLabels == SelectedLabels \ {"prev", "starting"}

\* The steps to those labels come from them, but for OpSelect and for OpPrev and OpStarting.
LEMMA SelectedFrom ==
    ASSUME TypeOK, Control, OpStep, ~OpEnd, op.kind = "wake", At(SelectedLabels)'
    PROVE  /\ OpSelect \/ At(SelectedLabels)
           /\ At(EnteredLabels)' => OpPrev \/ OpStarting \/ At(EnteredLabels)
           /\ ~OpDetach /\ ~OpDbFails /\ ~OpFailed /\ ~OpMark /\ ~OpGiveUp /\ ~OpLook /\ ~OpSwitch
<1> USE DEF At, Pausing, SelectedLabels, EnteredLabels
<1>1. CASE OpDetach
  BY <1>1, Successors DEF Control, OpPlace, DetachPlace
<1>2. CASE OpDbFails
  BY <1>2, DbFailsFacts
<1>3. CASE OpSync
  <2>1. op.at = "sync" /\ ~OpDbFails
    BY <1>2, <1>3, Successors, DbFailsFacts
  <2> QED  BY <1>3, <2>1, Successors, SyncNext
<1>4. CASE OpFailed \/ OpMark \/ OpGiveUp \/ OpLook \/ OpSwitch
  BY <1>4, Successors
<1>5. CASE OpSelect \/ OpPrev \/ OpStarting \/ OpEnter \/ OpClaim \/ OpSpawn \/ OpHealth \/ OpReady
  <2>1. op.at \in {"select", "prev", "starting", "enter", "claim", "spawn", "health", "ready"}
    BY <1>5, Successors
  <2> QED  BY <1>2, <1>5, <2>1, Successors
<1>6. CASE OpMap \/ OpStore \/ OpHistory
  BY <1>2, <1>6, Successors
<1> QED  BY <1>1, <1>2, <1>3, <1>4, <1>5, <1>6, WakeMoves

LEMMA WakeSelectedKept ==
    ASSUME IInv, [Next]_vars
    PROVE  WakeSelected'
<1> USE DEF IInv
<1> SUFFICES ASSUME op'.kind = "wake", At(SelectedLabels)'
             PROVE  rt'.session = op'.session
  BY DEF WakeSelected, SelectedLabels
<1>0. op.kind = "wake" /\ op'.session = op.session
  BY WakeSteps DEF At, SelectedLabels
<1>1. At(SelectedLabels) => rt.session = op.session
  BY <1>0 DEF Waking, WakeSelected, SelectedLabels
<1>2. CASE ~OpStep
  BY <1>0, <1>1, <1>2, WakeSteps DEF At, Pausing, Cooler, SelectedLabels
<1>3. CASE OpSelect
  BY <1>0, <1>3 DEF OpSelect, TypeOK, Runtime
<1>4. CASE OpStep /\ ~OpEnd /\ ~OpSelect
  <2>1. At(SelectedLabels)
    BY <1>0, <1>4, SelectedFrom
  <2>2. rt'.session = rt.session
    <3>1. OpSync \/ OpEnter => rt'.session = rt.session
      BY RefreshFacts DEF OpSync, OpEnter
    <3>2. OpPrev \/ OpStarting \/ OpMap \/ OpStore \/ OpHistory => rt' = rt
      BY DEF OpPrev, OpStarting, OpMap, OpStore, OpHistory
    <3>3. OpClaim \/ OpSpawn \/ OpHealth \/ OpReady => rt'.session = rt.session
      BY DEF OpClaim, OpSpawn, OpHealth, OpReady, Detach, TypeOK, Runtime
    <3> QED  BY <1>0, <1>4, <3>1, <3>2, <3>3, SelectedFrom, WakeMoves
  <2> QED  BY <1>0, <1>1, <2>1, <2>2
<1> QED  BY <1>0, <1>2, <1>3, <1>4, WakeSteps DEF At, Pausing, SelectedLabels

LEMMA WakeEnteredKept ==
    ASSUME IInv, [Next]_vars
    PROVE  WakeEntered'
<1> USE DEF IInv
<1> SUFFICES ASSUME op'.kind = "wake", At(EnteredLabels)'
             PROVE  row'[op'.session].status \in Reconciled
  BY DEF WakeEntered, EnteredLabels, SelectedLabels, At
<1>0. op.kind = "wake" /\ op'.session = op.session /\ op.session \in Sessions
  BY WakeSteps DEF At, EnteredLabels, SelectedLabels
<1> DEFINE t == op.session
<1>1. At(EnteredLabels) => row[t].status \in Reconciled
  BY <1>0 DEF Waking, WakeEntered, EnteredLabels, SelectedLabels, At
<1>2. row[t].status \in Reconciled => row[t].status \notin Absent
  BY DEF Reconciled, Absent
<1>3. rt.phase \in Reconciled
  BY DEF TypeOK, Runtime, Reconciled
<1>4. CASE ~OpStep
  BY <1>0, <1>1, <1>2, <1>3, <1>4, WakeSteps, OtherRows DEF At, Pausing, EnteredLabels, SelectedLabels
<1>5. CASE OpPrev
  <2>1. op'.at = "enter"
    BY <1>5, Successors DEF At, Pausing, EnteredLabels, SelectedLabels
  <2>2. row[t].status = "ready"
    BY <1>5, <2>1 DEF OpPrev, Goto, TypeOK, Operation
  <2> QED  BY <1>0, <1>5, <2>2 DEF OpPrev, Reconciled
<1>6. CASE OpStarting
  <2>1. row[t].status \notin Absent
    BY <1>0, <1>6, Successors DEF Waking, WakeLooked, At, Pausing
  <2>2. Writes(t, "starting", row[t].pid)
    BY <1>6 DEF OpStarting, Writes
  <2>3. row'[t].status = "starting"
    BY <1>0, <2>1, <2>2, WriteFacts
  <2> QED  BY <1>0, <2>3 DEF Reconciled
<1>7. CASE OpStep /\ ~OpEnd /\ ~OpPrev /\ ~OpStarting
  <2>0. At(SelectedLabels)'
    BY DEF At, Pausing, EnteredLabels
  <2>1. At(EnteredLabels)
    BY <1>0, <1>7, <2>0, SelectedFrom
  <2>2. row' = row \/ Reconciles \/ OpStore
    BY <1>0, <1>7, <2>0, RowChanges, SelectedFrom, WakeMoves, Successors DEF CreateSession, RecoverRow,
       OpSync, OpEnter, OpClaim, OpSpawn, OpHealth, OpReady, OpSelect, OpMap, OpHistory, Reconciles,
       InnerFree, Writes
  <2>3. row'[t].status \in {row[t].status, rt.phase}
    <3>1. OpStore => row'[t].status = row[t].status
      BY <1>0 DEF OpStore, TypeOK, Row
    <3>2. Reconciles => row'[t].status \in {row[t].status, rt.phase}
      BY <1>0, WriteFacts DEF Reconciles
    <3> QED  BY <2>2, <3>1, <3>2
  <2> QED  BY <1>0, <1>1, <1>3, <2>1, <2>3
<1> QED  BY <1>0, <1>4, <1>5, <1>6, <1>7, WakeSteps DEF At, Pausing, EnteredLabels, SelectedLabels

LEMMA WakeRecordedKept ==
    ASSUME IInv, [Next]_vars
    PROVE  WakeRecorded'
<1> USE DEF IInv
<1> SUFFICES ASSUME op'.kind = "wake", op'.at \in {"map", "store", "history", "end"}, rt'.phase = "ready"
             PROVE  row'[op'.session].status = "ready"
  BY DEF WakeRecorded
<1>0. op.kind = "wake" /\ op'.session = op.session /\ op.session \in Sessions
  BY WakeSteps
<1> DEFINE t == op.session
<1>1. op.at \in {"map", "store", "history", "end"} /\ rt.phase = "ready" => row[t].status = "ready"
  BY <1>0 DEF Waking, WakeRecorded, Pausing
<1>2. CASE ~OpStep
  <2>1. rt.phase = "ready"
    BY <1>0, <1>2, WakeSteps DEF Cooler
  <2> QED  BY <1>0, <1>1, <1>2, <2>1, WakeSteps, OtherRows DEF Absent
<1>3. CASE OpSync
  <2>1. op.at = "sync" /\ op.next = "map"
    BY <1>0, <1>3, Successors, SyncNext DEF Control, OpPlace, Pausing
  <2>2. rt.session = t /\ row[t].status \in Reconciled
    BY <1>0, <2>1 DEF Waking, WakeSelected, WakeEntered, At, Pausing
  <2>3. ~Kept(rt.session)
    BY <1>0, <2>2, ConstantsAssumption DEF Kept, Reconciled, Absent
  <2>4. Reconciles
    BY <1>3, <2>3, Successors DEF OpSync, Reconciles, InnerFree, Writes
  <2>5. row[t].status \notin Absent
    BY <2>2 DEF Reconciled, Absent
  <2> QED  BY <1>0, <2>2, <2>4, <2>5, WriteFacts DEF Reconciles
<1>4. CASE OpMap \/ OpHistory
  BY <1>0, <1>1, <1>4, Successors DEF OpMap, OpHistory
<1>5. CASE OpStore
  <2>1. row'[t].status = row[t].status
    BY <1>0, <1>5 DEF OpStore, TypeOK, Row
  <2> QED  BY <1>0, <1>1, <1>5, <2>1, Successors DEF OpStore
<1>6. CASE OpDbFails
  BY <1>0, <1>6, DbFailsFacts
<1>7. CASE OpStep /\ ~OpEnd /\ ~OpSync /\ ~OpMap /\ ~OpHistory /\ ~OpStore /\ ~OpDbFails
  BY <1>0, <1>7, WakeMoves, Successors
<1> QED  BY <1>0, <1>2, <1>3, <1>4, <1>5, <1>6, <1>7, WakeSteps

LEMMA ChatRecordedKept ==
    ASSUME IInv, [Next]_vars
    PROVE  ChatRecorded'
<1> USE DEF IInv
<1>0. ChatRecorded /\ rt \in Runtime
  BY DEF Waking, TypeOK
<1> DEFINE t == ws.session
<1>1. CASE ws'.at \notin {"reread", "send"}
  BY <1>1 DEF ChatRecorded
\* A chat whose wake has just succeeded.
<1>2. CASE OpEnd /\ ws.at = "waking" /\ ws'.at \in {"reread", "send"}
  <2>1. op.kind = "wake" /\ op.session = t
    BY <1>2 DEF Control, HolderPlace
  <2>2. op.at = "end"
    BY <1>2 DEF OpEnd, AfterOp, Free, TypeOK, Holder
  <2>3. ws'.at = "reread" /\ ws'.session = t
    BY <1>2 DEF OpEnd, AfterOp, Free, TypeOK, Holder
  <2>4. rt.phase = "ready" => rt.session = t /\ row[t].status = "ready"
    BY <2>1, <2>2 DEF Waking, WakeSelected, WakeRecorded, At, Pausing
  <2> QED  BY <1>2, <2>3, <2>4 DEF OpEnd, ChatRecorded
<1>3. CASE ChatReread /\ ws'.at \in {"reread", "send"}
  <2>1. ws'.at = "send" /\ ws'.session = t /\ row[t].mapped
    BY <1>3 DEF ChatReread, Free, TypeOK, Holder
  <2> QED  BY <1>0, <1>3, <2>1 DEF ChatReread, ChatRecorded
<1>4. CASE ws' = ws /\ ws.at \in {"reread", "send"}
  <2>0. t \in Sessions /\ op.kind \in {"none", "stop", "reap"} \cup Stops
    BY <1>4 DEF Control, HolderPlace, TypeOK, Operation
  <2>1. rt.phase = "ready" => rt.session = t /\ row[t].status \in {"ready", "stopping"}
    BY <1>0, <1>4 DEF ChatRecorded
  <2>2. ws.at = "send" => row[t].mapped
    BY <1>0, <1>4 DEF ChatRecorded
  <2>3. SUFFICES /\ rt'.phase = "ready" => rt'.session = t /\ row'[t].status \in {"ready", "stopping"}
                 /\ row'[t].mapped = row[t].mapped
    BY <1>4, <2>2 DEF ChatRecorded
  <2>4. CASE ~OpStep
    <3>1. Cooler \/ Crash
      BY <1>4, <2>4, OtherSteps DEF StartClear, Cooler
    <3>2. ~Crash
      BY <1>4 DEF Crash, Free
    <3>3. rt'.phase = "ready" => rt.phase = "ready" /\ rt'.session = t
      BY <2>1, <3>1, <3>2 DEF Cooler
    <3> QED  BY <1>4, <2>0, <2>1, <2>4, <3>3, OtherRows DEF Absent
  <2>5. CASE OpEnd \/ OpDbFails
    BY <2>1, <2>5, DbFailsFacts DEF OpEnd
  <2>6. CASE OpSync
    <3>1. rt'.phase = "ready" => rt.phase = "ready" /\ rt'.session = t
      BY <2>1, <2>6, RefreshFacts DEF OpSync
    <3>2. row' = row \/ Reconciles
      BY <2>6 DEF OpSync, Reconciles, InnerFree, Writes
    <3> QED  BY <2>0, <2>1, <3>1, <3>2, WriteFacts DEF Reconciles, Absent
  <2>7. CASE OpDetach \/ OpDetachOwn
    BY <1>0, <2>1, <2>7 DEF OpDetach, OpDetachOwn, Detach, Runtime
  <2>8. CASE OpDecide
    <3>1. rt'.phase = "ready" => rt' \in Refreshes(rt)
      BY <1>0, <2>8, RefreshType DEF OpDecide, Detach, Runtime
    <3> QED  BY <2>1, <2>8, <3>1, RefreshFacts DEF OpDecide
  <2>9. CASE OpStopping
    BY <2>0, <2>1, <2>9, UpdateFacts DEF OpStopping
  <2>10. CASE OpFinal
    <3>1. rt.phase = "ready" => op.session # t
      BY <2>1, <2>10, Successors DEF Rows, StoppedFirst
    <3>2. Writes(op.session, op.kind, NoPid) /\ rt' = rt
      BY <2>10 DEF OpFinal, Writes
    <3> QED  BY <2>0, <2>1, <3>1, <3>2, WriteFacts
  <2>11. op.at \in {"idle", "decide", "end", "sync", "detach", "stopping", "detachOwn", "final"}
    BY <2>0 DEF Control, OpPlace, Pausing, NoOp, Stops
  <2> QED  BY <2>4, <2>5, <2>6, <2>7, <2>8, <2>9, <2>10, <2>11, Successors DEF OpStep
<1>5. CASE OpStep
  <2>1. CASE OpEnd
    <3>1. ws' = ws \/ ws.at = "waking" \/ ws'.at \notin {"reread", "send"}
      BY <2>1 DEF OpEnd, AfterOp, Free, TypeOK, Holder
    <3> QED  BY <1>1, <1>2, <1>4, <2>1, <3>1
  <2>2. CASE ~OpEnd
    <3>1. ws' = ws
      BY <1>5, <2>2, OpWithin DEF Within
    <3> QED  BY <1>1, <1>4, <3>1
  <2> QED  BY <2>1, <2>2
<1>6. CASE ~OpStep
  <2>1. ws' = ws \/ ChatReread \/ ws'.at \notin {"reread", "send"}
    <3>1. CASE HolderBegin \/ StartClear \/ ChatSend \/ ChatDone \/ Crash
      BY <3>1 DEF HolderBegin, DeleteBegin, StartStopBegin, StartBegin, WakeBegin, StartClear, ChatSend,
                  ChatDone, Crash, Free, TypeOK, Holder
    <3>2. CASE \/ RecoverStep \/ Poll \/ PollWrite \/ Refresh \/ StopBegin \/ ReapBegin
               \/ \E s \in Sessions, action \in Stops : StopSession(s, action)
               \/ \E s \in Sessions : CreateSession(s)
      BY <3>2 DEF RecoverStep, RecoverBegin, RecoverDone, RecoverRow, Poll, PollWrite, Refresh, StopBegin,
                  ReapBegin, StopSession, CreateSession
    <3>3. CASE \E p \in Profiles : StartHandler(p)
      BY <3>3 DEF StartHandler, Free
    <3>4. CASE \E s \in Sessions : DeleteHandler(s)
      BY <3>4 DEF DeleteHandler, Free
    <3>5. CASE \E s \in Sessions : \E chat \in BOOLEAN : WakeHandler(s, chat)
      BY <3>5 DEF WakeHandler
    <3>6. CASE UNCHANGED vars
      BY <3>6 DEF vars
    <3>7. Next => \/ OpStep \/ ChatReread \/ HolderBegin \/ StartClear \/ ChatSend \/ ChatDone \/ Crash
                  \/ RecoverStep \/ Poll \/ PollWrite \/ Refresh \/ StopBegin \/ ReapBegin
                  \/ \E s \in Sessions, action \in Stops : StopSession(s, action)
                  \/ \E s \in Sessions : CreateSession(s)
                  \/ \E p \in Profiles : StartHandler(p)
                  \/ \E s \in Sessions : DeleteHandler(s)
                  \/ \E s \in Sessions : \E chat \in BOOLEAN : WakeHandler(s, chat)
      BY DEF Next, HolderStep
    <3> QED  BY <1>6, <3>1, <3>2, <3>3, <3>4, <3>5, <3>6, <3>7
  <2> QED  BY <1>1, <1>3, <1>4, <2>1
<1> QED  BY <1>5, <1>6

-----------------------------------------------------------------------------
LEMMA InitIInv == Init => IInv
<1> SUFFICES ASSUME Init PROVE IInv
  OBVIOUS
<1>1. TypeOK
  BY InitType
<1>2. Control
  BY DEF Init, Control, OpPlace, DetachPlace, HolderPlace, BootPlace, SyncPlace, NoOp, Free, Stops
<1>3. Rows
  BY DEF Init, Rows, RestingRowHasNoPid, SleepingIsEmpty, Claimed, RecoveryKnows, StoppedFirst, NoOp,
         NoRuntime
<1>4. Waking
  BY DEF Init, Waking, WakeLooked, WakeSelected, WakeEntered, WakeRecorded, ChatRecorded, NoOp, Free
<1> QED  BY <1>1, <1>2, <1>3, <1>4 DEF IInv

LEMMA IInvInductive == IInv /\ [Next]_vars => IInv'
<1> SUFFICES ASSUME IInv, [Next]_vars PROVE IInv'
  OBVIOUS
<1>1. TypeOK' /\ Control'
  BY NextControl DEF IInv
<1>2. Rows'
  BY RowsKept DEF IInv
<1>3. Waking'
  BY WakeLookedKept, WakeSelectedKept, WakeEnteredKept, WakeRecordedKept, ChatRecordedKept DEF Waking
<1> QED  BY <1>1, <1>2, <1>3 DEF IInv

\* The inductive invariant holds in every state of every behaviour.
THEOREM InvariantHolds == Spec => []IInv
<1>1. Init => IInv
  BY InitIInv
<1>2. IInv /\ [Next]_vars => IInv'
  BY IInvInductive
<1> QED  BY <1>1, <1>2, PTL DEF Spec

\* Rows, runtime, operations and lock holders stay within their types: an operation
\* writes no status that the database does not know.
THEOREM TypesHold == Spec => []TypeOK
<1>1. IInv => TypeOK
  BY DEF IInv
<1> QED  BY <1>1, InvariantHolds, PTL

\* A row at rest names no process, whatever crashed or failed.
THEOREM RestingRowsAreEmpty == Spec => []RestingRowHasNoPid
<1>1. IInv => RestingRowHasNoPid
  BY DEF IInv, Rows
<1> QED  BY <1>1, InvariantHolds, PTL


-----------------------------------------------------------------------------
(* What a step may not do. *)

LEMMA BootEnds ==
    ASSUME IInv, [Next]_vars, boot # "up", boot' = "up"
    PROVE  RecoverDone
<1>1. op.kind = "none" /\ op.at = "idle" /\ sync = "none" /\ ws.at = "free"
  BY DEF IInv, Control, BootPlace, NoOp, Free
<1>2. ~OpStep
  <2>1. OpEnd => op.at \in {"end", "gaveUp"}
    BY DEF OpEnd
  <2> QED  BY <1>1, <2>1, OpWithin DEF Within, IInv
<1>3. ~(\E o : Begin(o)) /\ ~HolderStep
  BY <1>1 DEF Begin, HolderStep, StartClear, ChatReread, ChatSend, ChatDone
<1>4. ~(HolderBegin \/ StopBegin \/ ReapBegin
        \/ \E s \in Sessions, action \in Stops : StopSession(s, action))
  BY <1>3 DEF HolderBegin, DeleteBegin, StartStopBegin, StartBegin, WakeBegin, StopBegin, ReapBegin,
              StopSession
<1>5. ~(\/ Poll \/ PollWrite \/ Refresh \/ Crash \/ RecoverBegin
        \/ \E p \in Profiles : StartHandler(p)
        \/ \E s \in Sessions : \/ CreateSession(s) \/ DeleteHandler(s) \/ RecoverRow(s)
                               \/ \E chat \in BOOLEAN : WakeHandler(s, chat))
  BY <1>1 DEF Poll, PollWrite, Refresh, Crash, RecoverBegin, RecoverRow, StartHandler, CreateSession,
              DeleteHandler, WakeHandler
<1> QED  BY <1>2, <1>3, <1>4, <1>5 DEF Next, RecoverStep, vars

\* Once a restarted backend serves, no row claims a running or changing session and
\* none has a pid of an earlier backend.
THEOREM RestartsReconcile == Spec => RestartReconciles
<1>1. IInv /\ [Next]_vars =>
        [boot # "up" /\ boot' = "up" =>
           \A s \in Sessions :
              row[s].status \notin Transient \cup {"ready"} /\ row[s].pid = NoPid]_vars
  <2> SUFFICES ASSUME IInv, [Next]_vars, boot # "up", boot' = "up", NEW s \in Sessions
               PROVE  row[s].status \notin Transient \cup {"ready"} /\ row[s].pid = NoPid
    OBVIOUS
  <2>1. todo = {} /\ boot = "recovering"
    BY BootEnds DEF RecoverDone
  <2> QED  BY <2>1 DEF IInv, Rows, RecoveryKnows, Unsettled
<1> QED  BY <1>1, InvariantHolds, PTL DEF Spec, RestartReconciles

LEMMA PromptStep ==
    ASSUME IInv, [Next]_vars, ws.at = "send", ws'.at = "answer"
    PROVE  ChatSend
<1>1. CASE OpStep
  <2>1. OpEnd => ws'.at # "answer"
    BY DEF OpEnd, AfterOp, Free, IInv, TypeOK, Holder
  <2>2. ~OpEnd => ws' = ws
    BY <1>1, OpWithin DEF Within, IInv
  <2> QED  BY <1>1, <2>1, <2>2
<1>2. CASE HolderBegin \/ StartClear \/ ChatReread \/ ChatDone \/ Crash
  BY <1>2 DEF HolderBegin, DeleteBegin, StartStopBegin, StartBegin, WakeBegin, StartClear, ChatReread,
              ChatDone, Crash, Free
<1>3. CASE \/ RecoverStep \/ Poll \/ PollWrite \/ Refresh \/ StopBegin \/ ReapBegin
           \/ \E s \in Sessions, action \in Stops : StopSession(s, action)
           \/ \E s \in Sessions : CreateSession(s)
  BY <1>3 DEF RecoverStep, RecoverBegin, RecoverDone, RecoverRow, Poll, PollWrite, Refresh, StopBegin,
              ReapBegin, StopSession, CreateSession
<1>4. CASE \/ \E p \in Profiles : StartHandler(p)
           \/ \E s \in Sessions : DeleteHandler(s) \/ \E chat \in BOOLEAN : WakeHandler(s, chat)
  BY <1>4 DEF StartHandler, DeleteHandler, WakeHandler
<1>5. CASE UNCHANGED vars
  BY <1>5 DEF vars
<1> QED  BY <1>1, <1>2, <1>3, <1>4, <1>5 DEF Next, HolderStep

\* No reader, no stop and no failure in between makes a prompt reach a session that is
\* unmapped, not the runtime's, or not recorded as running.
THEOREM PromptsHaveReadyRows == Spec => PromptHasReadyRow
<1>1. IInv /\ [Next]_vars =>
        [ws.at = "send" /\ ws'.at = "answer" =>
           /\ rt.session = ws.session
           /\ row[ws.session].mapped
           /\ row[ws.session].status \in {"ready", "stopping"}]_vars
  <2> SUFFICES ASSUME IInv, [Next]_vars, ws.at = "send", ws'.at = "answer"
               PROVE  /\ rt.session = ws.session
                      /\ row[ws.session].mapped
                      /\ row[ws.session].status \in {"ready", "stopping"}
    OBVIOUS
  <2>1. ChatSend
    BY PromptStep
  <2>2. rt'.phase = "ready"
    BY <2>1 DEF ChatSend, Free
  <2>3. rt.phase = "ready"
    BY <2>1, <2>2, RefreshFacts DEF ChatSend, IInv
  <2> QED  BY <2>3 DEF IInv, Waking, ChatRecorded
<1> QED  BY <1>1, InvariantHolds, PTL DEF Spec, PromptHasReadyRow

LEMMA WakeRows ==
    ASSUME IInv, [Next]_vars, NEW s \in Sessions,
           row[s].status = "archived", op.kind = "wake", sync = "none"
    PROVE  row'[s].status = "archived"
<1> USE DEF IInv
<1>1. boot = "up" /\ todo = {}
  BY DEF Control, BootPlace, NoOp
<1>2. ~Reconciles /\ ~(\E t \in Sessions : RecoverRow(t))
  BY <1>1 DEF Reconciles, RecoverRow
<1>3. op.at \notin {"stopping", "final", "delete"}
  BY DEF Control, OpPlace, Pausing, WakeLabels, StartLabels
<1>4. ~(OpStopping \/ OpFinal \/ OpDelete)
  BY <1>3, Successors
<1>5. CASE OpSwitch
  <2>1. Update(op.old, row[op.old].status = "ready", "sleeping", NoPid)
    BY <1>5 DEF OpSwitch
  <2>2. row[op.old].status = "ready" => op.old # s
    OBVIOUS
  <2> QED  BY <2>1, <2>2 DEF Update, TypeOK
<1>6. CASE OpStarting
  <2>1. op.session # s
    BY <1>6, Successors DEF Waking, WakeLooked, At, Pausing
  <2>2. Writes(op.session, "starting", row[op.session].pid)
    BY <1>6 DEF OpStarting, Writes
  <2> QED  BY <2>1, <2>2, WriteFacts
<1>7. CASE OpStore
  BY <1>7 DEF OpStore, TypeOK, Row
<1>8. CASE \E t \in Sessions : CreateSession(t)
  BY <1>8 DEF CreateSession, TypeOK
<1> QED  BY <1>2, <1>4, <1>5, <1>6, <1>7, <1>8, RowChanges

\* A wake that read its session before the locks does not bring it back from the archive.
THEOREM WakesKeepArchived == Spec => WakeKeepsArchived
<1>1. IInv /\ [Next]_vars =>
        [\A s \in Sessions :
           row[s].status = "archived" /\ op.kind = "wake" /\ sync = "none" =>
               row'[s].status = "archived"]_vars
  BY WakeRows
<1> QED  BY <1>1, InvariantHolds, PTL DEF Spec, WakeKeepsArchived

LEMMA DeletedRows ==
    ASSUME IInv, [Next]_vars, NEW s \in Sessions,
           row[s].status \notin Absent, row'[s].status = "deleted"
    PROVE  rt.session # s \/ rt.child = NoPid
<1> USE DEF IInv
<1>1. CASE OpDelete
  <2>1. s = op.session
    BY <1>1 DEF OpDelete, TypeOK, Absent
  <2> QED  BY <1>1, <2>1, Successors DEF Rows, StoppedFirst
<1>2. row' # row
  BY DEF Absent
<1>3. ~Reconciles
  <2>1. rt.phase # "deleted"
    BY DEF TypeOK, Runtime
  <2> QED  BY <2>1, WriteFacts DEF Reconciles, Absent
<1>4. ~OpStopping /\ ~OpSwitch
  BY UpdateFacts DEF OpStopping, OpSwitch, Absent
<1>5. ~OpFinal
  <2>1. OpFinal => op.kind # "deleted"
    BY DEF TypeOK, Operation, Stops
  <2>2. OpFinal => Writes(op.session, op.kind, NoPid)
    BY DEF OpFinal, Writes
  <2> QED  BY <2>1, <2>2, WriteFacts DEF Absent
<1>6. ~OpStarting
  <2>1. OpStarting => Writes(op.session, "starting", row[op.session].pid)
    BY DEF OpStarting, Writes
  <2> QED  BY <2>1, WriteFacts DEF Absent
<1>7. ~OpStore /\ ~(\E t \in Sessions : CreateSession(t))
  BY DEF OpStore, CreateSession, TypeOK, Row, Absent
<1>8. ~(\E t \in Sessions : RecoverRow(t))
  <2>1. \A t \in Sessions : RecoverRow(t) => Writes(t, "sleeping", NoPid)
    BY DEF RecoverRow, Writes
  <2> QED  BY <2>1, WriteFacts DEF Absent
<1> QED  BY <1>1, <1>2, <1>3, <1>4, <1>5, <1>6, <1>7, <1>8, RowChanges

\* delete_session takes its row from no running process, whoever refreshes, starts or
\* stops between its look at the runtime and the DELETE.
THEOREM DeletionsSpareProcesses == Spec => DeleteSparesProcess
<1>1. IInv /\ [Next]_vars =>
        [\A s \in Sessions :
           row[s].status \notin Absent /\ row'[s].status = "deleted" =>
               rt.session # s \/ rt.child = NoPid]_vars
  BY DeletedRows
<1> QED  BY <1>1, InvariantHolds, PTL DEF Spec, DeleteSparesProcess
===============================================================================
