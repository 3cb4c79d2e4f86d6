-------------------------- MODULE PermissionsProofs --------------------------
(***************************************************************************)
(* The safety of Permissions: type correctness, that nothing is allowed    *)
(* that no operator allowed, that a session put to rest has no grant, and  *)
(* that no request of the agent gets lost on its way to the operators.     *)
(***************************************************************************)
EXTENDS Permissions, TLAPS

Handling == {"asking", "insert", "once", "reject"}

\* What is under way is about requests the agent has made.
Known ==
    /\ \A r \in Requests : ask[r].at # "new" => ask[r].session \in Sessions
    /\ \A r \in pending : ask[r].at # "new"
    /\ \A p \in Procs : task[p].at \in Handling =>
          task[p].req \in Requests /\ ask[task[p].req].at # "new"
    /\ \A p \in Procs : \A i \in DOMAIN task[p].wire : ask[task[p].wire[i][1]].at # "new"
    /\ dec.at # "idle" => dec.req \in Requests /\ ask[dec.req].at # "new"
    /\ \A e \in trail : ask[e[1]].at # "new"

\* A grant, an automatic reply and a decision go back to the log.
Allowed ==
    /\ \A e \in trail : mode[ask[e[1]].session] = "approval"
    /\ dec.at # "idle" /\ dec.reply # "reject" => <<dec.req, dec.reply>> \in trail
    /\ \A g \in approvals : \E q \in Requests : <<q, "always">> \in trail /\ Grant(q) = g
    /\ \A p \in Procs : task[p].at = "once" => Authorised(task[p].req)
    /\ \A r \in Requests : ask[r].at = "once" => Authorised(r)

\* start_lock, which a decision holds from its checks to its grant.
Locked ==
    /\ dec.at # "idle" => start = "dec"
    /\ life.at \in {"clear", "spawn", "act"} => start = "life"

\* A session at rest has no process, and no decision for it can succeed.
Resting ==
    /\ RestedHasNoGrant
    /\ inner.phase # "down" => inner.session \notin rested
    /\ life.at \in {"start", "spawn"} => inner.session \notin rested
    /\ life.at = "act" /\ inner.session = life.session => inner.phase = "down"
    /\ dec.at = "audited" /\ inner.phase = "ready" => ask[dec.req].session \notin rested
    /\ dec.at = "relayed" => ask[dec.req].session \notin rested

\* The agent waits for the prompt under way only, in the session selected.
Asking ==
    /\ \A r \in Requests : ask[r].at = "waiting" => ask[r].session = chat
    /\ \A r \in Requests : Waiting(r) => ask[r].proc \in alive
    /\ chat # NoSession => inner.session = chat
    /\ life.at \in {"start", "spawn", "woken"} => inner.session = life.session
    /\ life.at \in {"switch", "select", "start", "spawn", "woken"} => chat = NoSession
    /\ life.wakes => chat = NoSession /\ life.session \in Sessions
    /\ inner.phase = "down" => inner.proc = NoProc
    /\ life.at \in {"clear", "spawn"} => inner.proc = NoProc
    /\ life.at = "act" /\ inner.session = life.session => inner.proc = NoProc
    /\ life.at # "idle" /\ life.at # "kill" => life.session \in Sessions \/ life.at = "clear"

\* The stream of the process in service has a reader; what it says was answered
\* is not waited for.
Reading ==
    /\ \A p \in Procs : task[p].at \notin Handling => task[p].req = NoRequest
    /\ \A p \in Procs : task[p].at # "none" /\ p = inner.proc => task[p].live
    /\ inner.proc # NoProc => task[inner.proc].at \notin {"none", "sync"}
    /\ dec.at = "relayed" => ~Waiting(dec.req)
    /\ \A p \in Procs : \A i \in DOMAIN task[p].wire :
          task[p].wire[i][2] = "replied" => ask[task[p].wire[i][1]].at # "waiting"

IInv == TypeOK /\ Known /\ Allowed /\ Locked /\ Resting /\ Asking /\ Reading /\ AskedIsTracked

----------------------------------------------------------------------------
(* What most steps do to requests and to tasks: they only let go of them. *)

AskFades ==
    \A r \in Requests :
        /\ ask'[r].session = ask[r].session
        /\ ask'[r].proc = ask[r].proc
        /\ \/ ask'[r].at = ask[r].at
           \/ Waiting(r) /\ ask'[r].at \in {"left", "gone"}

TaskFades ==
    \A p \in Procs :
        /\ task'[p].at \in Handling => task'[p].at = task[p].at /\ task'[p].req = task[p].req
        /\ task'[p].at \notin Handling => task'[p].req = NoRequest
        /\ \A i \in DOMAIN task'[p].wire :
              \E j \in DOMAIN task[p].wire : task'[p].wire[i] = task[p].wire[j]

LEMMA AskStays ==
    ASSUME UNCHANGED ask
    PROVE  AskFades
BY DEF AskFades

LEMMA TaskStays ==
    ASSUME Reading, UNCHANGED task
    PROVE  TaskFades
BY DEF TaskFades, Reading

LEMMA ForgottenFades ==
    ASSUME TypeOK, NEW dead \in SUBSET Procs, ask' = Forgotten(dead)
    PROVE  ask' \in [Requests -> Ask] /\ AskFades
<1>1. \A r \in Requests : [ask[r] EXCEPT !.at = "gone"] \in Ask
  BY DEF TypeOK, Ask
<1>2. ask' \in [Requests -> Ask]
  BY <1>1 DEF TypeOK, Forgotten
<1>3. QED
  BY <1>2 DEF AskFades, Forgotten, TypeOK, Ask

\* A request that is waited for after its process died was not asked of it.
LEMMA ForgottenGone ==
    ASSUME TypeOK, NEW dead \in SUBSET Procs, ask' = Forgotten(dead), NEW r \in Requests,
           Waiting(r)'
    PROVE  Waiting(r) /\ ask[r].proc \notin dead
BY DEF TypeOK, Forgotten, Waiting, Ask

LEMMA AbortedFades ==
    ASSUME TypeOK, Reading, NEW p \in Procs \cup {NoProc}, task' = Aborted(task, p)
    PROVE  task' \in [Procs -> Task] /\ TaskFades
<1>1. CASE p = NoProc
  BY <1>1, TaskStays DEF Aborted, TypeOK
<1>2. CASE p \in Procs /\ task[p].at = "insert"
  <2>1. task' = [task EXCEPT ![p] = [task[p] EXCEPT !.live = FALSE]]
    BY <1>2 DEF Aborted, NoProc, Procs
  <2>2. [task[p] EXCEPT !.live = FALSE] \in Task
    BY <1>2 DEF TypeOK, Task
  <2>3. task' \in [Procs -> Task]
    BY <1>2, <2>1, <2>2 DEF TypeOK
  <2>4. /\ task'[p].at = "insert" /\ task'[p].req = task[p].req /\ task'[p].wire = task[p].wire
        /\ \A q \in Procs : q # p => task'[q] = task[q]
    BY <1>2, <2>1 DEF TypeOK, Task
  <2>5. QED
    BY <1>2, <2>3, <2>4 DEF TaskFades, Reading, Handling
<1>3. CASE p \in Procs /\ task[p].at # "insert"
  <2>1. task' = [task EXCEPT ![p] = IdleTask]
    BY <1>3 DEF Aborted, NoProc, Procs
  <2>2. IdleTask \in Task
    BY DEF IdleTask, Task
  <2>3. task' \in [Procs -> Task]
    BY <1>3, <2>1, <2>2 DEF TypeOK
  <2>4. task'[p] = IdleTask /\ \A q \in Procs : q # p => task'[q] = task[q]
    BY <1>3, <2>1 DEF TypeOK
  <2>5. QED
    BY <1>3, <2>3, <2>4 DEF TaskFades, Reading, Handling, IdleTask
<1>4. QED
  BY <1>1, <1>2, <1>3

LEMMA KnownFades ==
    ASSUME TypeOK, TypeOK', Known, AskFades, TaskFades, pending' \subseteq pending,
           UNCHANGED trail, dec'.at # "idle" => dec.at # "idle" /\ dec'.req = dec.req
    PROVE  Known'
<1>1. \A r \in Requests : ask'[r].session = ask[r].session /\ (ask'[r].at = "new" <=> ask[r].at = "new")
  BY DEF AskFades, Waiting
<1>2. \A r \in pending' : ask'[r].at # "new"
  BY <1>1 DEF Known, TypeOK
<1>3. \A p \in Procs : task'[p].at \in Handling =>
          task'[p].req \in Requests /\ ask'[task'[p].req].at # "new"
  BY <1>1 DEF Known, TaskFades
<1>4. \A p \in Procs : \A i \in DOMAIN task'[p].wire : ask'[task'[p].wire[i][1]].at # "new"
  <2>1. \A p \in Procs : \A j \in DOMAIN task[p].wire : task[p].wire[j][1] \in Requests
    BY DEF TypeOK, Task
  <2>2. QED
    BY <1>1, <2>1 DEF Known, TaskFades
<1>5. \A e \in trail : e[1] \in Requests
  BY DEF TypeOK
<1>6. QED
  BY <1>1, <1>2, <1>3, <1>4, <1>5 DEF Known

LEMMA AuthorisedKept ==
    ASSUME TypeOK, Known, trail \subseteq trail', NEW r \in Requests, ask[r].at # "new", Authorised(r),
           \A q \in Requests : ask[q].at # "new" => ask'[q].session = ask[q].session
    PROVE  Authorised(r)'
<1>1. \A q \in Requests : <<q, "always">> \in trail => ask[q].at # "new"
  BY DEF Known
<1>2. QED
  BY <1>1 DEF Authorised

LEMMA AllowedFades ==
    ASSUME TypeOK, TypeOK', Known, Allowed, AskFades, TaskFades, approvals' \subseteq approvals,
           UNCHANGED <<mode, trail>>,
           dec'.at # "idle" => dec.at # "idle" /\ dec'.req = dec.req /\ dec'.reply = dec.reply
    PROVE  Allowed'
<1>1. \A r \in Requests : ask'[r].session = ask[r].session /\ (ask'[r].at = "once" => ask[r].at = "once")
  BY DEF AskFades
<1>2. \A r \in Requests : ask[r].at # "new" /\ Authorised(r) => Authorised(r)'
  BY <1>1, AuthorisedKept
<1>3. \A e \in trail' : mode'[ask'[e[1]].session] = "approval"
  BY <1>1 DEF Allowed, TypeOK
<1>4. dec'.at # "idle" /\ dec'.reply # "reject" => <<dec'.req, dec'.reply>> \in trail'
  BY DEF Allowed
<1>5. \A g \in approvals' : \E q \in Requests : <<q, "always">> \in trail' /\ Grant(q)' = g
  <2>1. \A q \in Requests : Grant(q)' = Grant(q)
    BY <1>1 DEF Grant
  <2>2. QED
    BY <2>1 DEF Allowed
<1>6. \A p \in Procs : (task[p].at = "once" => Authorised(task[p].req))'
  <2>1. \A p \in Procs : task'[p].at = "once" =>
           task'[p].req = task[p].req /\ task[p].req \in Requests /\ ask[task[p].req].at # "new"
           /\ Authorised(task[p].req)
    BY DEF TaskFades, Handling, Allowed, Known
  <2>2. QED
    BY <1>2, <2>1
<1>7. \A r \in Requests : (ask[r].at = "once" => Authorised(r))'
  BY <1>1, <1>2 DEF Allowed
<1>8. QED
  BY <1>3, <1>4, <1>5, <1>6, <1>7 DEF Allowed

LEMMA ReadingFades ==
    ASSUME TypeOK, TypeOK', Known, Reading, AskFades, TaskFades,
           dec'.at = "relayed" => dec.at = "relayed" /\ dec'.req = dec.req,
           inner'.proc # NoProc => task'[inner'.proc].live /\ task'[inner'.proc].at \notin {"none", "sync"}
    PROVE  Reading'
<1>1. \A p \in Procs : task'[p].at \notin Handling => task'[p].req = NoRequest
  BY DEF TaskFades
<1>2. \A p \in Procs : task'[p].at # "none" /\ p = inner'.proc => task'[p].live
  BY DEF NoProc, Procs
<1>3. dec'.at = "relayed" => ~Waiting(dec.req)'
  BY DEF Reading, Known, AskFades, Waiting
<1>4. \A p \in Procs : \A i \in DOMAIN task'[p].wire :
          task'[p].wire[i][2] = "replied" => ask'[task'[p].wire[i][1]].at # "waiting"
  <2>1. \A p \in Procs : \A j \in DOMAIN task[p].wire : task[p].wire[j][1] \in Requests
    BY DEF TypeOK, Task
  <2>2. \A r \in Requests : ask[r].at # "waiting" => ask'[r].at # "waiting"
    BY DEF AskFades
  <2>3. \A p \in Procs : \A j \in DOMAIN task[p].wire :
          task[p].wire[j][2] = "replied" => ask'[task[p].wire[j][1]].at # "waiting"
    BY <2>1, <2>2 DEF Reading
  <2>4. QED
    BY <2>3 DEF TaskFades
<1>5. QED
  BY <1>1, <1>2, <1>3, <1>4 DEF Reading

LEMMA TrackedFades ==
    ASSUME AskedIsTracked, AskFades, UNCHANGED <<inner, task, pending>>
    PROVE  AskedIsTracked'
<1>1. \A r \in Requests : ask'[r].at = "waiting" /\ ask'[r].proc = inner.proc =>
          ask[r].at = "waiting" /\ ask[r].proc = inner.proc
  BY DEF AskFades
<1>2. QED
  BY <1>1 DEF AskedIsTracked

\* Where no process is in service, no request is waited for.
LEMMA TrackedWithout ==
    ASSUME Asking', TypeOK', inner'.proc = NoProc
    PROVE  AskedIsTracked'
BY DEF Asking, TypeOK, AskedIsTracked, Waiting, NoProc, Procs

LEMMA TrackedStays ==
    ASSUME AskedIsTracked, UNCHANGED <<ask, inner, task, pending>>
    PROVE  AskedIsTracked'
BY DEF AskedIsTracked

LEMMA TrackedSame ==
    ASSUME TypeOK, AskedIsTracked, UNCHANGED <<ask, inner, pending>>, NEW p \in Procs,
           \/ p # inner.proc
           \/ task'[p].at = "lost"
           \/ task'[p].wire = task[p].wire /\ task'[p].req = task[p].req /\ task[p].at # "lost",
           \A q \in Procs : q # p => task'[q] = task[q], Asking
    PROVE  AskedIsTracked'
<1>1. SUFFICES ASSUME NEW r \in Requests, ask[r].at = "waiting", ask[r].proc = inner.proc
               PROVE  LET t == task'[inner.proc] IN
                      \/ r \in pending
                      \/ t.req = r
                      \/ \E i \in DOMAIN t.wire : t.wire[i] = <<r, "asked">>
                      \/ t.at = "lost"
  BY DEF AskedIsTracked
<1>2. inner.proc \in Procs
  BY <1>1 DEF Asking, Waiting, TypeOK
<1>3. CASE inner.proc = p
  BY <1>1, <1>3 DEF AskedIsTracked
<1>4. CASE inner.proc # p
  BY <1>1, <1>2, <1>4 DEF AskedIsTracked
<1>5. QED
  BY <1>3, <1>4

\* Without a prompt under way nothing is waited for.
LEMMA Quiet ==
    ASSUME TypeOK, Known, Asking, chat = NoSession
    PROVE  \A r \in Requests : ask[r].at # "waiting"
BY PermissionsAssumption DEF Known, Asking

LEMMA LifeTypes ==
    ASSUME life \in Life
    PROVE  /\ [life EXCEPT !.at = "kill", !.wakes = FALSE] \in Life
           /\ [IdleLife EXCEPT !.at = "kill"] \in Life
           /\ [IdleLife EXCEPT !.at = "clear"] \in Life
BY Zenon DEF Life, IdleLife

\* One task is put in another state.
LEMMA TaskSet ==
    ASSUME TypeOK, NEW p \in Procs, NEW v \in Task, task' = [task EXCEPT ![p] = v]
    PROVE  /\ task' \in [Procs -> Task]
           /\ task'[p] = v
           /\ \A q \in Procs : q # p => task'[q] = task[q]
BY DEF TypeOK

LEMMA TaskSetFades ==
    ASSUME TypeOK, Reading, NEW p \in Procs, NEW v \in Task, task' = [task EXCEPT ![p] = v],
           v.at \in Handling => v.at = task[p].at /\ v.req = task[p].req,
           v.at \notin Handling => v.req = NoRequest,
           \A i \in DOMAIN v.wire : \E j \in DOMAIN task[p].wire : v.wire[i] = task[p].wire[j]
    PROVE  TaskFades
BY TaskSet DEF TaskFades, Reading

LEMMA IdleFades ==
    ASSUME TypeOK, Reading, NEW p \in Procs, task' = [task EXCEPT ![p] = IdleTask]
    PROVE  task' \in [Procs -> Task] /\ task'[p] = IdleTask /\ TaskFades
           /\ \A q \in Procs : q # p => task'[q] = task[q]
<1>1. IdleTask \in Task
  BY DEF IdleTask, Task
<1>2. IdleTask.at \notin Handling /\ IdleTask.req = NoRequest /\ DOMAIN IdleTask.wire = {}
  BY DEF IdleTask, Handling
<1>3. QED
  BY <1>1, <1>2, TaskSet, TaskSetFades

Event == Requests \X {"asked", "replied"}

LEMMA Taken ==
    ASSUME NEW w \in Seq(Event), w # <<>>
    PROVE  /\ Head(w) \in Event /\ Tail(w) \in Seq(Event)
           /\ \A i \in DOMAIN Tail(w) : i + 1 \in DOMAIN w /\ Tail(w)[i] = w[i + 1]
           /\ \A j \in DOMAIN w : w[j] = Head(w) \/ \E i \in DOMAIN Tail(w) : Tail(w)[i] = w[j]
<1>1. /\ Tail(w) \in Seq(Event) /\ Len(w) \in Nat \ {0} /\ Len(Tail(w)) = Len(w) - 1
      /\ \A i \in 1 .. Len(w) - 1 : Tail(w)[i] = w[i + 1]
  OBVIOUS
<1>2. Head(w) = w[1] /\ DOMAIN w = 1 .. Len(w) /\ DOMAIN Tail(w) = 1 .. Len(w) - 1
  BY <1>1
<1>3. \A j \in DOMAIN w : j = 1 \/ (j - 1 \in DOMAIN Tail(w) /\ Tail(w)[j - 1] = w[j])
  <2>1. SUFFICES ASSUME NEW j \in 1 .. Len(w), j # 1
                 PROVE  j - 1 \in 1 .. Len(w) - 1 /\ Tail(w)[j - 1] = w[j]
    BY <1>2
  <2>2. j - 1 \in 1 .. Len(w) - 1 /\ (j - 1) + 1 = j
    BY <1>1, <2>1
  <2>3. QED
    BY <1>1, <2>2
<1>4. \A i \in DOMAIN Tail(w) : i + 1 \in DOMAIN w /\ Tail(w)[i] = w[i + 1]
  BY <1>1, <1>2
<1>5. \A j \in DOMAIN w : w[j] = Head(w) \/ \E i \in DOMAIN Tail(w) : Tail(w)[i] = w[j]
  BY <1>2, <1>3
<1>6. Head(w) \in Event
  OBVIOUS
<1>7. QED
  BY <1>1, <1>4, <1>5, <1>6

LEMMA Added ==
    ASSUME NEW w \in Seq(Event), NEW x \in Event, NEW y, y = Append(w, x)
    PROVE  /\ y \in Seq(Event)
           /\ \A i \in DOMAIN y :
                 y[i] = x \/ \E j \in DOMAIN w : y[i] = w[j]
           /\ \A i \in DOMAIN w : i \in DOMAIN y /\ y[i] = w[i]
           /\ \E i \in DOMAIN y : y[i] = x
<1>1. Len(w) \in Nat /\ Len(y) = Len(w) + 1 /\ y[Len(w) + 1] = x
      /\ \A i \in 1 .. Len(w) : y[i] = w[i]
  OBVIOUS
<1>2. DOMAIN w = 1 .. Len(w) /\ DOMAIN y = 1 .. Len(w) + 1
  BY <1>1
<1>3. \E i \in DOMAIN y : y[i] = x
  BY <1>1, <1>2
<1>4. \A i \in DOMAIN w : i \in DOMAIN y /\ y[i] = w[i]
  BY <1>1, <1>2
<1>5. \A i \in DOMAIN y :
          y[i] = x \/ \E j \in DOMAIN w : y[i] = w[j]
  <2>1. \A i \in DOMAIN y : i = Len(w) + 1 \/ i \in 1 .. Len(w)
    BY <1>1, <1>2
  <2>2. QED
    BY <1>1, <1>2, <2>1
<1>6. y \in Seq(Event)
  OBVIOUS
<1>7. QED
  BY <1>3, <1>4, <1>5, <1>6

\* f is task with x announced on the stream of process p.
PostedTo(f, p, x) ==
    /\ f = [task EXCEPT ![p].wire = Append(@, x)]
    /\ f[p].wire = Append(task[p].wire, x)
    /\ \A q \in Procs : /\ f[q].at = task[q].at /\ f[q].req = task[q].req
                        /\ f[q].live = task[q].live
                        /\ q # p => f[q].wire = task[q].wire

LEMMA Posted ==
    ASSUME TypeOK, NEW p \in Procs, NEW x \in Event
    PROVE  \E f \in [Procs -> Task] : PostedTo(f, p, x)
<1> DEFINE v == [task[p] EXCEPT !.wire = Append(@, x)]
<1>1. task[p] \in Task /\ task[p].wire \in Seq(Event)
  BY DEF TypeOK, Task, Event
<1>2. v.wire = Append(task[p].wire, x) /\ v.at = task[p].at /\ v.req = task[p].req /\ v.live = task[p].live
  BY <1>1 DEF Task
<1>3. v \in Task
  <2>1. Append(task[p].wire, x) \in Seq(Event)
    BY <1>1, Added
  <2>2. QED
    BY <1>1, <2>1, Zenon DEF Task, Event
<1>4. PICK f : f = [task EXCEPT ![p] = v]
  OBVIOUS
<1>5. f = [task EXCEPT ![p].wire = Append(@, x)]
  BY <1>4
<1> HIDE DEF v
<1>6. f \in [Procs -> Task] /\ f[p] = v /\ \A q \in Procs : q # p => f[q] = task[q]
  BY <1>3, <1>4 DEF TypeOK
<1>7. \A q \in Procs : /\ f[q].at = task[q].at /\ f[q].req = task[q].req
                     /\ q # p => f[q].wire = task[q].wire
  BY <1>2, <1>6
<1>8. \A q \in Procs : f[q].live = task[q].live
  BY <1>2, <1>6, Zenon
<1>9. f[p].wire = Append(task[p].wire, x)
  BY <1>2, <1>6
<1>10. PostedTo(f, p, x)
  BY <1>5, <1>7, <1>8, <1>9 DEF PostedTo
<1>11. QED
  BY <1>6, <1>10

LEMMA Announced ==
    ASSUME TypeOK, NEW p \in Procs, NEW x \in Event,
           task' = [task EXCEPT ![p].wire = Append(@, x)]
    PROVE  /\ task' \in [Procs -> Task]
           /\ task'[p].wire = Append(task[p].wire, x)
           /\ \A q \in Procs : /\ task'[q].at = task[q].at /\ task'[q].req = task[q].req
                               /\ task'[q].live = task[q].live
                               /\ q # p => task'[q].wire = task[q].wire
<1>1. PICK f \in [Procs -> Task] : PostedTo(f, p, x)
  BY Posted
<1>2. task' = f
  BY <1>1 DEF PostedTo
<1>3. QED
  BY <1>1, <1>2 DEF PostedTo

LEMMA InnerDown ==
    ASSUME inner \in Inner, inner' = [inner EXCEPT !.proc = NoProc, !.phase = "down"]
    PROVE  /\ inner' \in Inner
           /\ inner'.proc = NoProc /\ inner'.phase = "down"
           /\ inner'.session = inner.session /\ inner'.mode = inner.mode
<1>1. inner' \in Inner
  BY Zenon DEF Inner
<1>2. inner'.proc = NoProc /\ inner'.phase = "down"
  BY DEF Inner
<1>3. inner'.session = inner.session /\ inner'.mode = inner.mode
  BY DEF Inner
<1>4. QED
  BY <1>1, <1>2, <1>3

\* What an answer to r leaves of the invariant, by whomever it was sent.
Answered(r) ==
    /\ ask'[r].at \in {"once", "reject"}
    /\ \A q \in Requests : ask'[q].session = ask[q].session /\ ask'[q].proc = ask[q].proc
    /\ \A q \in Requests : q # r => ask'[q] = ask[q]
    /\ \A i \in DOMAIN task'[inner.proc].wire :
          \/ task'[inner.proc].wire[i] = <<r, "replied">>
          \/ \E j \in DOMAIN task[inner.proc].wire : task'[inner.proc].wire[i] = task[inner.proc].wire[j]
    /\ \A i \in DOMAIN task[inner.proc].wire :
          i \in DOMAIN task'[inner.proc].wire /\ task'[inner.proc].wire[i] = task[inner.proc].wire[i]
    /\ \A q \in Procs : q # inner.proc => task'[q].wire = task[q].wire
    /\ \A q \in Procs : task'[q].live = task[q].live
    /\ \A q \in Procs :
          \/ task'[q].at = task[q].at /\ task'[q].req = task[q].req
          \/ task[q].at \in {"once", "reject"} /\ task[q].req = r
             /\ task'[q].at = "read" /\ task'[q].req = NoRequest
    /\ dec'.req = dec.req /\ dec'.reply = dec.reply
    /\ dec'.at = dec.at \/ (dec'.at = "relayed" /\ dec.at # "idle" /\ dec.req = r)
    /\ UNCHANGED <<mode, inner, pending, approvals, trail>>

LEMMA AnsweredKept ==
    ASSUME IInv, TypeOK', NEW r \in Requests, Waiting(r), inner.proc \in Procs, Answered(r),
           ask'[r].at = "once" => Authorised(r)
    PROVE  Known' /\ Allowed' /\ Reading' /\ AskedIsTracked'
<1> USE DEF IInv
<1>1. \A q \in Requests : ask'[q].at # "new" <=> ask[q].at # "new"
  BY DEF Answered, Waiting
<1>2. \A p \in Procs : \A j \in DOMAIN task[p].wire : task[p].wire[j][1] \in Requests
  BY DEF TypeOK, Task
<1>3. \A p \in Procs : task'[p].at \in Handling => task'[p].at = task[p].at /\ task'[p].req = task[p].req
  BY DEF Answered, Handling
<1>4. Known'
  <2>1. \A p \in Procs : \A i \in DOMAIN task'[p].wire : ask'[task'[p].wire[i][1]].at # "new"
    <3>1. \A i \in DOMAIN task'[inner.proc].wire : ask'[task'[inner.proc].wire[i][1]].at # "new"
      <4>1. \A j \in DOMAIN task[inner.proc].wire : ask'[task[inner.proc].wire[j][1]].at # "new"
        BY <1>1, <1>2 DEF Known
      <4>2. ask'[r].at # "new"
        BY DEF Answered
      <4>3. QED
        BY <4>1, <4>2 DEF Answered
    <3>2. \A p \in Procs : p # inner.proc =>
             \A i \in DOMAIN task'[p].wire : ask'[task'[p].wire[i][1]].at # "new"
      BY <1>1, <1>2 DEF Answered, Known
    <3>3. QED
      BY <3>1, <3>2
  <2>2. \A p \in Procs : task'[p].at \in Handling =>
           task'[p].req \in Requests /\ ask'[task'[p].req].at # "new"
    BY <1>1, <1>3 DEF Known
  <2>3. \A q \in Requests : ask'[q].at # "new" => ask'[q].session \in Sessions
    BY <1>1 DEF Answered, Known
  <2>4. dec'.at # "idle" => dec'.req \in Requests /\ ask'[dec'.req].at # "new"
    BY <1>1 DEF Answered, Known
  <2>5. \A q \in pending' : ask'[q].at # "new"
    BY <1>1 DEF Answered, Known, TypeOK
  <2>6. \A e \in trail' : ask'[e[1]].at # "new"
    BY <1>1 DEF Answered, Known, TypeOK
  <2>7. QED
    BY <2>1, <2>2, <2>3, <2>4, <2>5, <2>6 DEF Known
<1>5. Allowed'
  <2>1. \A q \in Requests : ask[q].at # "new" /\ Authorised(q) => Authorised(q)'
    BY AuthorisedKept DEF Answered
  <2>2. \A e \in trail' : mode'[ask'[e[1]].session] = "approval"
    BY DEF Answered, Allowed, TypeOK
  <2>3. dec'.at # "idle" /\ dec'.reply # "reject" => <<dec'.req, dec'.reply>> \in trail'
    BY DEF Answered, Allowed
  <2>4. \A g \in approvals' : \E q \in Requests : <<q, "always">> \in trail' /\ Grant(q)' = g
    BY DEF Answered, Allowed, Grant
  <2>5. (\A p \in Procs : task[p].at = "once" => Authorised(task[p].req))'
    <3>1. \A p \in Procs : task'[p].at = "once" =>
             task'[p].req = task[p].req /\ task[p].req \in Requests /\ ask[task[p].req].at # "new"
             /\ Authorised(task[p].req)
      BY <1>3 DEF Known, Handling, Allowed
    <3>2. QED
      BY <2>1, <3>1
  <2>6. (\A q \in Requests : ask[q].at = "once" => Authorised(q))'
    <3>1. \A q \in Requests : ask'[q].at = "once" => ask[q].at # "new" /\ Authorised(q)
      BY DEF Answered, Allowed, Waiting
    <3>2. QED
      BY <2>1, <3>1
  <2>7. QED
    BY <2>2, <2>3, <2>4, <2>5, <2>6 DEF Allowed
<1>6. Reading'
  <2>1. \A q \in Requests : ask'[q].at = "waiting" => ask[q].at = "waiting" /\ q # r
    BY DEF Answered
  <2>2. \A p \in Procs : \A i \in DOMAIN task'[p].wire :
          task'[p].wire[i][2] = "replied" => ask'[task'[p].wire[i][1]].at # "waiting"
    <3>1. \A p \in Procs : \A j \in DOMAIN task[p].wire :
              task[p].wire[j][2] = "replied" => ask'[task[p].wire[j][1]].at # "waiting"
      BY <1>2, <2>1 DEF Reading
    <3>2. \A i \in DOMAIN task'[inner.proc].wire :
             task'[inner.proc].wire[i][2] = "replied" => ask'[task'[inner.proc].wire[i][1]].at # "waiting"
      BY <2>1, <3>1 DEF Answered
    <3>3. \A p \in Procs : p # inner.proc => task'[p].wire = task[p].wire
      BY DEF Answered
    <3>4. QED
      BY <3>1, <3>2, <3>3
  <2>3. dec'.at = "relayed" => ~Waiting(dec.req)'
    BY DEF Answered, Reading, Waiting, Known
  <2>4. \A p \in Procs : task'[p].at \notin Handling => task'[p].req = NoRequest
    BY DEF Answered, Reading
  <2>5. \A p \in Procs : task'[p].at # "none" /\ p = inner'.proc => task'[p].live
    BY DEF Answered, Reading
  <2>6. inner'.proc # NoProc => task'[inner'.proc].at \notin {"none", "sync"}
    BY DEF Answered, Reading
  <2>7. QED
    BY <2>2, <2>3, <2>4, <2>5, <2>6 DEF Reading
<1>7. AskedIsTracked'
  <2>1. SUFFICES ASSUME NEW q \in Requests, ask'[q].at = "waiting", ask'[q].proc = inner.proc
                 PROVE  LET t == task'[inner.proc] IN
                        \/ q \in pending
                        \/ t.req = q
                        \/ \E i \in DOMAIN t.wire : t.wire[i] = <<q, "asked">>
                        \/ t.at = "lost"
    BY DEF Answered, AskedIsTracked
  <2>2. q # r /\ ask[q].at = "waiting" /\ ask[q].proc = inner.proc
    BY <2>1 DEF Answered
  <2>3. \/ q \in pending
        \/ task[inner.proc].req = q
        \/ \E i \in DOMAIN task[inner.proc].wire : task[inner.proc].wire[i] = <<q, "asked">>
        \/ task[inner.proc].at = "lost"
    BY <2>2 DEF AskedIsTracked
  <2>4. \A i \in DOMAIN task[inner.proc].wire :
          i \in DOMAIN task'[inner.proc].wire /\ task'[inner.proc].wire[i] = task[inner.proc].wire[i]
    BY DEF Answered
  <2>5. \/ task'[inner.proc].at = task[inner.proc].at /\ task'[inner.proc].req = task[inner.proc].req
        \/ task[inner.proc].at \in {"once", "reject"} /\ task[inner.proc].req = r
    BY DEF Answered
  <2>6. QED
    BY <2>2, <2>3, <2>4, <2>5
<1>8. QED
  BY <1>4, <1>5, <1>6, <1>7

----------------------------------------------------------------------------
(* One lemma per action: it keeps every part of the invariant. *)

LEMMA WakeKept ==
    ASSUME IInv, NEW s \in Sessions, Wake(s)
    PROVE  IInv'
<1> USE DEF IInv
<1>1. life' \in Life
  BY SMT DEF Wake, TypeOK, Life
<1>2. TypeOK'
  BY <1>1 DEF Wake, TypeOK, rows, log
<1>3. Known'
  BY <1>2, AskStays, TaskStays, KnownFades DEF Wake, rows, log
<1>4. Allowed'
  BY <1>2, AskStays, TaskStays, AllowedFades DEF Wake, rows, log
<1>5. Locked'
  BY SMT DEF Wake, TypeOK, Locked, rows, log, Reusable
<1>6. Resting'
  BY SMT DEF Wake, TypeOK, Resting, RestedHasNoGrant, Asking, Locked, rows, log, Reusable
<1>7. Asking'
  BY SMT DEF Wake, TypeOK, Asking, Waiting, Locked, rows, log, Reusable
<1>8. Reading'
  BY SMT DEF Wake, TypeOK, Reading, Handling, Waiting, Asking, Locked, rows, log, Reusable
<1>9. AskedIsTracked'
  BY TrackedStays DEF Wake, rows, log
<1>10. QED
  BY <1>2, <1>3, <1>4, <1>5, <1>6, <1>7, <1>8, <1>9

LEMMA StopKept ==
    ASSUME IInv, Stop
    PROVE  IInv'
<1> USE DEF IInv
<1>1. life' \in Life
  BY LifeTypes DEF Stop, TypeOK
<1>2. TypeOK'
  BY <1>1 DEF Stop, TypeOK, rows, log, IdleLife
<1>3. Known'
  BY <1>2, AskStays, TaskStays, KnownFades DEF Stop, rows, log, IdleLife
<1>4. Allowed'
  BY <1>2, AskStays, TaskStays, AllowedFades DEF Stop, rows, log, IdleLife
<1>5. Locked'
  BY SMT DEF Stop, TypeOK, Locked, rows, log, IdleLife
<1>6. Resting'
  BY SMT DEF Stop, TypeOK, Resting, RestedHasNoGrant, Asking, Locked, rows, log, IdleLife
<1>7. Asking'
  BY SMT DEF Stop, TypeOK, Asking, Waiting, Locked, rows, log, IdleLife
<1>8. Reading'
  BY SMT DEF Stop, TypeOK, Reading, Handling, Waiting, Asking, Locked, rows, log, IdleLife
<1>9. AskedIsTracked'
  BY TrackedStays DEF Stop, rows, log, IdleLife
<1>10. QED
  BY <1>2, <1>3, <1>4, <1>5, <1>6, <1>7, <1>8, <1>9

LEMMA StopClearsKept ==
    ASSUME IInv, StopClears
    PROVE  IInv'
<1> USE DEF IInv
<1>1. TypeOK'
  BY SMT DEF StopClears, TypeOK, Life, IdleLife, rows, log
<1>2. Known'
  BY <1>1, AskStays, TaskStays, KnownFades DEF StopClears, rows, log, IdleLife
<1>3. Allowed'
  BY <1>1, AskStays, TaskStays, AllowedFades DEF StopClears, rows, log, IdleLife
<1>4. Locked'
  BY SMT DEF StopClears, TypeOK, Locked, rows, log, IdleLife, Life
<1>5. Resting'
  BY SMT DEF StopClears, TypeOK, Resting, RestedHasNoGrant, Asking, Locked, rows, log,
     IdleLife, Life
<1>6. Asking'
  BY SMT DEF StopClears, TypeOK, Asking, Waiting, Locked, rows, log, IdleLife, Life
<1>7. Reading'
  BY SMT DEF StopClears, TypeOK, Reading, Handling, Waiting, Asking, Locked, rows, log,
     IdleLife, Life
<1>8. AskedIsTracked'
  BY <1>1, <1>6, TrackedWithout DEF StopClears, Asking
<1>9. QED
  BY <1>1, <1>2, <1>3, <1>4, <1>5, <1>6, <1>7, <1>8

LEMMA SwitchClearsKept ==
    ASSUME IInv, SwitchClears
    PROVE  IInv'
<1> USE DEF IInv
<1>1. TypeOK'
  BY SMT DEF SwitchClears, TypeOK, Life, rows, log
<1>2. Known'
  BY <1>1, AskStays, TaskStays, KnownFades DEF SwitchClears, rows, log
<1>3. Allowed'
  BY <1>1, AskStays, TaskStays, AllowedFades DEF SwitchClears, rows, log
<1>4. Locked'
  BY SMT DEF SwitchClears, TypeOK, Locked, rows, log, Life
<1>5. Resting'
  BY SMT DEF SwitchClears, TypeOK, Resting, RestedHasNoGrant, Asking, Locked, rows, log, Life
<1>6. Asking'
  BY SMT DEF SwitchClears, TypeOK, Asking, Waiting, Locked, rows, log, Life
<1>7. Reading'
  BY SMT DEF SwitchClears, TypeOK, Reading, Handling, Waiting, Asking, Locked, rows, log, Life
<1>8. AskedIsTracked'
  BY Quiet DEF SwitchClears, AskedIsTracked, Asking, rows
<1>9. QED
  BY <1>1, <1>2, <1>3, <1>4, <1>5, <1>6, <1>7, <1>8

LEMMA SelectKept ==
    ASSUME IInv, Select
    PROVE  IInv'
<1> USE DEF IInv
<1>1. TypeOK'
  BY SMT DEF Select, TypeOK, Life, Inner, rows, log
<1>2. Known'
  BY <1>1, AskStays, TaskStays, KnownFades DEF Select, rows, log
<1>3. Allowed'
  BY <1>1, AskStays, TaskStays, AllowedFades DEF Select, rows, log
<1>4. Locked'
  BY SMT DEF Select, TypeOK, Locked, rows, log, Life, Inner
<1>5. Resting'
  BY SMT DEF Select, TypeOK, Resting, RestedHasNoGrant, Asking, Locked, rows, log, Life, Inner
<1>6. Asking'
  BY SMT DEF Select, TypeOK, Asking, Waiting, Locked, rows, log, Life, Inner
<1>7. Reading'
  BY SMT DEF Select, TypeOK, Reading, Handling, Waiting, Asking, Locked, rows, log, Life, Inner
<1>8. AskedIsTracked'
  BY Quiet DEF Select, AskedIsTracked, Asking, rows
<1>9. QED
  BY <1>1, <1>2, <1>3, <1>4, <1>5, <1>6, <1>7, <1>8

LEMMA StartReuseKept ==
    ASSUME IInv, StartReuse
    PROVE  IInv'
<1> USE DEF IInv
<1>1. TypeOK'
  BY SMT DEF StartReuse, TypeOK, Life, rows, log
<1>2. Known'
  BY <1>1, AskStays, TaskStays, KnownFades DEF StartReuse, rows, log
<1>3. Allowed'
  BY <1>1, AskStays, TaskStays, AllowedFades DEF StartReuse, rows, log
<1>4. Locked'
  BY SMT DEF StartReuse, TypeOK, Locked, rows, log, Life, Reusable, Exited
<1>5. Resting'
  BY SMT DEF StartReuse, TypeOK, Resting, RestedHasNoGrant, Asking, Locked, rows, log, Life,
     Reusable, Exited
<1>6. Asking'
  BY SMT DEF StartReuse, TypeOK, Asking, Waiting, Locked, rows, log, Life, Reusable, Exited
<1>7. Reading'
  BY SMT DEF StartReuse, TypeOK, Reading, Handling, Waiting, Asking, Locked, rows, log, Life,
     Reusable, Exited
<1>8. AskedIsTracked'
  BY TrackedStays DEF StartReuse, rows, log
<1>9. QED
  BY <1>1, <1>2, <1>3, <1>4, <1>5, <1>6, <1>7, <1>8

LEMMA SpawnFailsKept ==
    ASSUME IInv, SpawnFails
    PROVE  IInv'
<1> USE DEF IInv
<1>1. life' \in Life
  BY LifeTypes DEF SpawnFails, TypeOK
<1>2. inner' \in Inner
  BY SMT DEF SpawnFails, TypeOK, Inner
<1>3. TypeOK'
  BY <1>1, <1>2 DEF SpawnFails, TypeOK, rows, log
<1>4. Known'
  BY <1>3, AskStays, TaskStays, KnownFades DEF SpawnFails, rows, log
<1>5. Allowed'
  BY <1>3, AskStays, TaskStays, AllowedFades DEF SpawnFails, rows, log
<1>6. Locked'
  BY SMT DEF SpawnFails, TypeOK, Locked, rows, log, Life, Inner
<1>7. Resting'
  BY SMT DEF SpawnFails, TypeOK, Resting, RestedHasNoGrant, Asking, Locked, rows, log, Life,
     Inner
<1>8. Asking'
  BY SMT DEF SpawnFails, TypeOK, Asking, Waiting, Locked, rows, log, Life, Inner
<1>9. Reading'
  BY SMT DEF SpawnFails, TypeOK, Reading, Handling, Waiting, Asking, Locked, rows, log, Life,
     Inner
<1>10. AskedIsTracked'
  BY <1>3, <1>8, TrackedWithout DEF SpawnFails, Asking, Inner, TypeOK
<1>11. QED
  BY <1>3, <1>4, <1>5, <1>6, <1>7, <1>8, <1>9, <1>10

LEMMA WokenKept ==
    ASSUME IInv, Woken
    PROVE  IInv'
<1> USE DEF IInv
<1>1. TypeOK'
  BY SMT DEF Woken, TypeOK, Life, IdleLife, rows, log
<1>2. Known'
  BY <1>1, AskStays, TaskStays, KnownFades DEF Woken, rows, log
<1>3. Allowed'
  BY <1>1, AskStays, TaskStays, AllowedFades DEF Woken, rows, log
<1>4. Locked'
  BY SMT DEF Woken, TypeOK, Locked, rows, log, Life, IdleLife
<1>5. Resting'
  BY SMT DEF Woken, TypeOK, Resting, RestedHasNoGrant, Asking, Locked, rows, log, Life, IdleLife
<1>6. Asking'
  BY Quiet, SMT DEF Woken, TypeOK, Asking, Waiting, Locked, rows, log, Life, IdleLife
<1>7. Reading'
  BY SMT DEF Woken, TypeOK, Reading, Handling, Waiting, Asking, Locked, rows, log, Life,
     IdleLife
<1>8. AskedIsTracked'
  BY TrackedStays DEF Woken, rows, log
<1>9. QED
  BY <1>1, <1>2, <1>3, <1>4, <1>5, <1>6, <1>7, <1>8

LEMMA WakeFailsKept ==
    ASSUME IInv, WakeFails
    PROVE  IInv'
<1> USE DEF IInv
<1>1. life' \in Life
  BY LifeTypes DEF WakeFails, TypeOK
<1>2. TypeOK'
  BY <1>1 DEF WakeFails, TypeOK, rows, log
<1>3. Known'
  BY <1>2, AskStays, TaskStays, KnownFades DEF WakeFails, rows, log
<1>4. Allowed'
  BY <1>2, AskStays, TaskStays, AllowedFades DEF WakeFails, rows, log
<1>5. Locked'
  BY SMT DEF WakeFails, TypeOK, Locked, rows, log, Life
<1>6. Resting'
  BY SMT DEF WakeFails, TypeOK, Resting, RestedHasNoGrant, Asking, Locked, rows, log, Life
<1>7. Asking'
  BY SMT DEF WakeFails, TypeOK, Asking, Waiting, Locked, rows, log, Life
<1>8. Reading'
  BY SMT DEF WakeFails, TypeOK, Reading, Handling, Waiting, Asking, Locked, rows, log, Life
<1>9. AskedIsTracked'
  BY TrackedStays DEF WakeFails, rows, log
<1>10. QED
  BY <1>2, <1>3, <1>4, <1>5, <1>6, <1>7, <1>8, <1>9

LEMMA DecisionFailsKept ==
    ASSUME IInv, DecisionFails
    PROVE  IInv'
<1> USE DEF IInv
<1>1. TypeOK'
  BY SMT DEF DecisionFails, TypeOK, Dec, IdleDec, Replies, rows, log
<1>2. Known'
  BY <1>1, AskStays, TaskStays, KnownFades DEF DecisionFails, rows, log, IdleDec
<1>3. Allowed'
  BY <1>1, AskStays, TaskStays, AllowedFades DEF DecisionFails, rows, log, IdleDec
<1>4. Locked'
  BY SMT DEF DecisionFails, TypeOK, Locked, rows, log, IdleDec, Dec
<1>5. Resting'
  BY SMT DEF DecisionFails, TypeOK, Resting, RestedHasNoGrant, Asking, Locked, rows, log,
     IdleDec, Dec
<1>6. Asking'
  BY SMT DEF DecisionFails, TypeOK, Asking, Waiting, Locked, rows, log, IdleDec, Dec
<1>7. Reading'
  BY SMT DEF DecisionFails, TypeOK, Reading, Handling, Waiting, Asking, Locked, rows, log,
     IdleDec, Dec
<1>8. AskedIsTracked'
  BY TrackedStays DEF DecisionFails, rows, log, IdleDec
<1>9. QED
  BY <1>1, <1>2, <1>3, <1>4, <1>5, <1>6, <1>7, <1>8

LEMMA CrashKept ==
    ASSUME IInv, Crash
    PROVE  IInv'
<1> USE DEF IInv
<1>1. ask' \in [Requests -> Ask] /\ AskFades
  BY ForgottenFades DEF Crash, TypeOK
<1>2. \A r \in Requests : Waiting(r)' => Waiting(r) /\ ask[r].proc \notin alive
  BY ForgottenGone DEF Crash, TypeOK
<1>3. TypeOK'
  BY <1>1, <1>2 DEF Crash, TypeOK, log
<1>4. Known'
  BY <1>3, <1>1, TaskStays, KnownFades DEF Crash, log, IdleDec
<1>5. Allowed'
  BY <1>3, <1>1, TaskStays, AllowedFades DEF Crash, log, IdleDec
<1>6. Locked'
  BY SMT DEF Crash, TypeOK, Locked, log, IdleDec
<1>7. Resting'
  BY <1>1, SMT DEF Crash, TypeOK, Known, Resting, RestedHasNoGrant, AskFades, log
<1>8. Asking'
  BY <1>1, <1>2, SMT DEF Crash, TypeOK, Asking, AskFades, Waiting, Ask, log
<1>9. Reading'
  BY <1>3, <1>1, TaskStays, ReadingFades DEF Crash, Reading, TypeOK, Inner, log
<1>10. AskedIsTracked'
  BY <1>1, TrackedFades DEF Crash
<1>11. QED
  BY <1>3, <1>4, <1>5, <1>6, <1>7, <1>8, <1>9, <1>10

LEMMA StopKillKept ==
    ASSUME IInv, StopKill
    PROVE  IInv'
<1> USE DEF IInv
<1>1. ask' \in [Requests -> Ask] /\ AskFades
  BY ForgottenFades DEF StopKill, TypeOK, Detach
<1>2. \A r \in Requests : Waiting(r)' => Waiting(r) /\ ask[r].proc \notin alive
  BY ForgottenGone DEF StopKill, TypeOK, Detach
<1>3. task' \in [Procs -> Task] /\ TaskFades
  BY AbortedFades DEF StopKill, TypeOK, Inner
<1>4. inner' \in Inner
  BY Zenon DEF StopKill, Detach, TypeOK, Inner
<1>5. life' \in Life
  BY SMT DEF StopKill, TypeOK, Life
<1>6. TypeOK'
  BY <1>1, <1>3, <1>4, <1>5 DEF StopKill, TypeOK, Detach, log
<1>7. Known'
  BY <1>6, <1>1, <1>3, KnownFades DEF StopKill, Detach, log, IdleDec
<1>8. Allowed'
  BY <1>6, <1>1, <1>3, AllowedFades DEF StopKill, Detach, log, IdleDec
<1>9. Locked'
  BY SMT DEF StopKill, TypeOK, Locked, IdleLife, Life
<1>10. Resting'
  BY <1>1, SMT DEF StopKill, TypeOK, Inner, Life, IdleLife, Known, Locked, Resting,
     RestedHasNoGrant, AskFades, Detach, log
<1>11. Asking'
  BY <1>1, <1>2, SMT DEF StopKill, TypeOK, Inner, Life, IdleLife, NoProc, Asking, AskFades,
     Waiting, Detach, log
<1>12. Reading'
  BY <1>6, <1>1, <1>3, ReadingFades DEF StopKill, TypeOK, Inner, Detach, log
<1>13. AskedIsTracked'
  BY <1>6, <1>11, TrackedWithout DEF StopKill, Detach, TypeOK, Inner
<1>14. QED
  BY <1>6, <1>7, <1>8, <1>9, <1>10, <1>11, <1>12, <1>13

LEMMA ReapKept ==
    ASSUME IInv, Reap
    PROVE  IInv'
<1> USE DEF IInv
<1>1. ask' \in [Requests -> Ask] /\ AskFades
  BY ForgottenFades DEF Reap, TypeOK, Detach
<1>2. \A r \in Requests : Waiting(r)' => Waiting(r) /\ ask[r].proc \notin alive
  BY ForgottenGone DEF Reap, TypeOK, Detach
<1>3. task' \in [Procs -> Task] /\ TaskFades
  BY AbortedFades DEF Reap, TypeOK, Inner
<1>4. inner' \in Inner
  BY Zenon DEF Reap, Detach, TypeOK, Inner
<1>5. life' \in Life
  BY LifeTypes DEF Reap, TypeOK
<1>6. TypeOK'
  BY <1>1, <1>3, <1>4, <1>5 DEF Reap, TypeOK, Detach, log
<1>7. Known'
  BY <1>6, <1>1, <1>3, KnownFades DEF Reap, Detach, log, IdleDec
<1>8. Allowed'
  BY <1>6, <1>1, <1>3, AllowedFades DEF Reap, Detach, log, IdleDec
<1>9. Locked'
  BY SMT DEF Reap, TypeOK, Locked, IdleLife, Life
<1>10. Resting'
  BY <1>1, SMT DEF Reap, TypeOK, Inner, Life, IdleLife, Known, Locked, Resting,
     RestedHasNoGrant, AskFades, Detach, log
<1>11. Asking'
  BY <1>1, <1>2, SMT DEF Reap, TypeOK, Inner, Life, IdleLife, NoProc, Asking, AskFades,
     Waiting, Detach, log
<1>12. Reading'
  BY <1>6, <1>1, <1>3, ReadingFades DEF Reap, TypeOK, Inner, Detach, log
<1>13. AskedIsTracked'
  BY <1>6, <1>11, TrackedWithout DEF Reap, Detach, TypeOK, Inner
<1>14. QED
  BY <1>6, <1>7, <1>8, <1>9, <1>10, <1>11, <1>12, <1>13

LEMMA StartReplaceKept ==
    ASSUME IInv, StartReplace
    PROVE  IInv'
<1> USE DEF IInv
<1>1. ask' \in [Requests -> Ask] /\ AskFades
  BY ForgottenFades DEF StartReplace, TypeOK
<1>2. \A r \in Requests : Waiting(r)' => Waiting(r) /\ ask[r].proc \notin alive
  BY ForgottenGone DEF StartReplace, TypeOK
<1>3. task' \in [Procs -> Task] /\ TaskFades
  BY AbortedFades DEF StartReplace, TypeOK, Inner
<1>4. inner' \in Inner
  <2>1. mode[life.session] \in Modes
    BY DEF StartReplace, Asking, TypeOK
  <2>2. QED
    BY <2>1, Zenon DEF StartReplace, TypeOK, Inner
<1>5. life' \in Life
  BY SMT DEF StartReplace, TypeOK, Life
<1>6. TypeOK'
  BY <1>1, <1>3, <1>4, <1>5 DEF StartReplace, TypeOK, Detach, log, Reusable, Exited
<1>7. Known'
  BY <1>6, <1>1, <1>3, KnownFades DEF StartReplace, Detach, log, IdleDec
<1>8. Allowed'
  BY <1>6, <1>1, <1>3, AllowedFades DEF StartReplace, Detach, log, IdleDec
<1>9. Locked'
  BY SMT DEF StartReplace, TypeOK, Locked, IdleLife, Life
<1>10. Resting'
  BY <1>1, SMT DEF StartReplace, TypeOK, Inner, Life, IdleLife, Known, Locked, Resting,
     RestedHasNoGrant, AskFades, Detach, log, Reusable, Exited
<1>11. Asking'
  BY <1>1, <1>2, SMT DEF StartReplace, TypeOK, Inner, Life, IdleLife, NoProc, Asking,
     AskFades, Waiting, Detach, log, Reusable, Exited
<1>12. Reading'
  BY <1>6, <1>1, <1>3, ReadingFades DEF StartReplace, TypeOK, Inner, Detach, log, Reusable,
     Exited
<1>13. AskedIsTracked'
  BY <1>6, <1>11, TrackedWithout DEF StartReplace, Detach, TypeOK, Inner
<1>14. QED
  BY <1>6, <1>7, <1>8, <1>9, <1>10, <1>11, <1>12, <1>13

LEMMA StreamLostKept ==
    ASSUME IInv, NEW p \in Procs, StreamLost(p)
    PROVE  IInv'
<1> USE DEF IInv
<1>1. [task[p] EXCEPT !.at = "lost", !.req = NoRequest, !.wire = <<>>] \in Task
  <2>1. task[p] \in Task /\ <<>> \in Seq(Requests \X {"asked", "replied"})
    BY DEF TypeOK
  <2>2. QED
    BY <2>1, Zenon DEF Task
<1>2. PICK v \in Task : /\ v = [task[p] EXCEPT !.at = "lost", !.req = NoRequest, !.wire = <<>>]
                        /\ task' = [task EXCEPT ![p] = v]
  BY <1>1, Zenon DEF StreamLost
<1>3. v.at = "lost" /\ v.req = NoRequest /\ DOMAIN v.wire = {} /\ v.live = task[p].live
  BY <1>2, SMT DEF TypeOK, Task
<1>4. task' \in [Procs -> Task] /\ TaskFades /\ task'[p] = v
      /\ \A q \in Procs : q # p => task'[q] = task[q]
  BY <1>2, <1>3, TaskSet, TaskSetFades DEF Handling
<1>5. TypeOK'
  BY <1>4 DEF StreamLost, TypeOK, log
<1>6. Known'
  BY <1>5, <1>4, AskStays, KnownFades DEF StreamLost, log
<1>7. Allowed'
  BY <1>5, <1>4, AskStays, AllowedFades DEF StreamLost, log
<1>8. Locked'
  BY SMT DEF StreamLost, TypeOK, Locked, log
<1>9. Resting'
  BY SMT DEF StreamLost, TypeOK, Resting, RestedHasNoGrant, Asking, Locked, log
<1>10. Asking'
  BY SMT DEF StreamLost, TypeOK, Asking, Waiting, Locked, log
<1>11. Reading'
  <2>1. UNCHANGED <<ask, dec, inner>> /\ AskFades
    BY AskStays DEF StreamLost, log
  <2>2. inner.proc # NoProc =>
           inner.proc \in Procs /\ task[inner.proc].live /\ task[inner.proc].at \notin {"none", "sync"}
    BY DEF TypeOK, Inner, Reading
  <2>3. inner'.proc # NoProc =>
           task'[inner'.proc].live /\ task'[inner'.proc].at \notin {"none", "sync"}
    BY <1>3, <1>4, <2>1, <2>2
  <2>4. QED
    BY <1>5, <2>1, <2>3, <1>4, ReadingFades
<1>12. AskedIsTracked'
  <2>1. UNCHANGED <<ask, inner, pending>>
    BY DEF StreamLost, log
  <2>2. task'[p].at = "lost"
    BY <1>3, <1>4
  <2>3. QED
    BY <1>4, <2>1, <2>2, TrackedSame
<1>13. QED
  BY <1>5, <1>6, <1>7, <1>8, <1>9, <1>10, <1>11, <1>12

LEMMA InsertAbortedKept ==
    ASSUME IInv, NEW p \in Procs, InsertAborted(p)
    PROVE  IInv'
<1> USE DEF IInv
<1>1. task' \in [Procs -> Task] /\ TaskFades /\ task'[p] = IdleTask
      /\ \A q \in Procs : q # p => task'[q] = task[q]
  BY IdleFades DEF InsertAborted
<1>2. p # inner.proc
  BY DEF InsertAborted, Reading
<1>3. TypeOK'
  BY <1>1 DEF InsertAborted, TypeOK, log
<1>4. Known'
  BY <1>3, <1>1, AskStays, KnownFades DEF InsertAborted, log
<1>5. Allowed'
  BY <1>3, <1>1, AskStays, AllowedFades DEF InsertAborted, log
<1>6. Locked'
  BY SMT DEF InsertAborted, TypeOK, Locked, log
<1>7. Resting'
  BY SMT DEF InsertAborted, TypeOK, Resting, RestedHasNoGrant, Asking, Locked, log
<1>8. Asking'
  BY SMT DEF InsertAborted, TypeOK, Asking, Waiting, Locked, log
<1>9. Reading'
  <2>1. UNCHANGED <<ask, dec, inner>> /\ AskFades
    BY AskStays DEF InsertAborted, log
  <2>2. inner.proc # NoProc =>
           inner.proc \in Procs /\ task[inner.proc].live /\ task[inner.proc].at \notin {"none", "sync"}
    BY DEF TypeOK, Inner, Reading
  <2>3. inner'.proc # NoProc =>
           task'[inner'.proc].live /\ task'[inner'.proc].at \notin {"none", "sync"}
    BY <1>1, <1>2, <2>1, <2>2
  <2>4. QED
    BY <1>3, <2>1, <2>3, <1>1, ReadingFades
<1>10. AskedIsTracked'
  BY <1>1, <1>2, TrackedSame DEF InsertAborted
<1>11. QED
  BY <1>3, <1>4, <1>5, <1>6, <1>7, <1>8, <1>9, <1>10

LEMMA TaskSyncKept ==
    ASSUME IInv, NEW p \in Procs, TaskSync(p)
    PROVE  IInv'
<1> USE DEF IInv
<1>1. task' \in [Procs -> Task] /\ TaskFades /\ task'[p] = IdleTask
      /\ \A q \in Procs : q # p => task'[q] = task[q]
  BY IdleFades DEF TaskSync
<1>2. p # inner.proc
  BY DEF TaskSync, Reading, NoProc, Procs
<1>3. pending' \subseteq pending /\ approvals' \subseteq approvals
  BY DEF TaskSync, Cleared, TypeOK
<1>4. TypeOK'
  BY <1>1, <1>3 DEF TaskSync, TypeOK, log
<1>5. Known'
  BY <1>4, <1>1, <1>3, AskStays, KnownFades DEF TaskSync, log
<1>6. Allowed'
  BY <1>4, <1>1, <1>3, AskStays, AllowedFades DEF TaskSync, log
<1>7. Locked'
  BY SMT DEF TaskSync, TypeOK, Locked, log
<1>8. Resting'
  BY <1>3, SMT DEF TaskSync, TypeOK, Resting, RestedHasNoGrant, log
<1>9. Asking'
  BY SMT DEF TaskSync, TypeOK, Asking, Waiting, Locked, log
<1>10. Reading'
  <2>1. UNCHANGED <<ask, dec, inner>> /\ AskFades
    BY AskStays DEF TaskSync, log
  <2>2. inner.proc # NoProc =>
           inner.proc \in Procs /\ task[inner.proc].live /\ task[inner.proc].at \notin {"none", "sync"}
    BY DEF TypeOK, Inner, Reading
  <2>3. inner'.proc # NoProc =>
           task'[inner'.proc].live /\ task'[inner'.proc].at \notin {"none", "sync"}
    BY <1>1, <1>2, <2>1, <2>2
  <2>4. QED
    BY <1>4, <2>1, <2>3, <1>1, ReadingFades
<1>11. AskedIsTracked'
  BY <1>1, <1>2, TrackedWithout, <1>4, <1>9 DEF TaskSync, Cleared, ClearWhen, TypeOK, Inner,
     NoProc, AskedIsTracked, Asking, Waiting
<1>12. QED
  BY <1>4, <1>5, <1>6, <1>7, <1>8, <1>9, <1>10, <1>11

LEMMA SessionActionKept ==
    ASSUME IInv, NEW s \in Sessions, SessionAction(s)
    PROVE  IInv'
<1> USE DEF IInv
<1>1. ask' \in [Requests -> Ask] /\ AskFades
  BY ForgottenFades, AskStays DEF SessionAction, Detach, TypeOK
<1>2. task' \in [Procs -> Task] /\ TaskFades
  BY AbortedFades, TaskStays DEF SessionAction, TypeOK, Inner
<1>3. inner' \in Inner /\ alive' \subseteq Procs
  BY Zenon DEF SessionAction, Detach, TypeOK, Inner
<1>4. life' \in Life
  BY SMT DEF SessionAction, TypeOK, Life
<1>5. \A r \in Requests : Waiting(r)' => Waiting(r) /\ (alive' = alive \/ ask[r].proc \notin alive)
  BY ForgottenGone DEF SessionAction, Detach, TypeOK, Waiting
<1>6. /\ inner'.session = inner.session
      /\ \/ inner'.proc = NoProc /\ inner'.phase = "down"
         \/ inner.session # s /\ UNCHANGED <<inner, ask, alive, task>>
  <2>1. CASE inner.session = s
    BY <2>1, InnerDown DEF SessionAction, Detach, TypeOK
  <2>2. CASE inner.session # s
    BY <2>2 DEF SessionAction
  <2>3. QED
    BY <2>1, <2>2
<1>7. TypeOK'
  BY <1>1, <1>2, <1>3, <1>4 DEF SessionAction, TypeOK, log
<1>8. Known'
  BY <1>7, <1>1, <1>2, KnownFades DEF SessionAction, log
<1>9. Allowed'
  BY <1>7, <1>1, <1>2, AllowedFades DEF SessionAction, log
<1>10. Locked'
  BY DEF SessionAction, Locked
<1>11. Resting'
  BY <1>1, <1>6, SMT DEF SessionAction, TypeOK, Known, Locked, AskFades, Resting,
     RestedHasNoGrant, log
<1>12. Asking'
  BY <1>1, <1>5, <1>6, SMT DEF SessionAction, TypeOK, AskFades, Asking, Waiting, log
<1>13. Reading'
  BY <1>7, <1>1, <1>2, <1>6, ReadingFades DEF SessionAction, TypeOK, Inner, Reading, log
<1>14. AskedIsTracked'
  <2>1. CASE inner'.proc = NoProc
    BY <2>1, <1>7, <1>12, TrackedWithout
  <2>2. CASE inner'.proc # NoProc
    BY <2>2, <1>6, TrackedStays DEF SessionAction
  <2>3. QED
    BY <2>1, <2>2
<1>15. QED
  BY <1>7, <1>8, <1>9, <1>10, <1>11, <1>12, <1>13, <1>14

LEMMA StreamCleanupKept ==
    ASSUME IInv, NEW p \in Procs, StreamCleanup(p)
    PROVE  IInv'
<1> USE DEF IInv
<1>1. [task[p] EXCEPT !.at = "sync"] \in Task
  <2>1. task[p] \in Task
    BY DEF TypeOK
  <2>2. QED
    BY <2>1, Zenon DEF Task
<1>2. PICK v \in Task : /\ v = [task[p] EXCEPT !.at = "sync"]
                        /\ task' = [task EXCEPT ![p] = v]
  BY <1>1, Zenon DEF StreamCleanup
<1>3. v.at = "sync" /\ v.req = NoRequest /\ v.wire = task[p].wire /\ v.live = task[p].live
  <2>1. task[p] \in Task /\ task[p].req = NoRequest
    BY DEF StreamCleanup, TypeOK, Reading, Handling
  <2>2. QED
    BY <1>2, <2>1, SMT DEF Task
<1>4. task' \in [Procs -> Task] /\ TaskFades /\ task'[p] = v
      /\ \A q \in Procs : q # p => task'[q] = task[q]
  BY <1>2, <1>3, TaskSet, TaskSetFades DEF Handling
<1>5. ask' \in [Requests -> Ask] /\ AskFades
  BY ForgottenFades, AskStays DEF StreamCleanup, Detach, TypeOK
<1>6. inner' \in Inner /\ alive' \subseteq Procs
  BY Zenon DEF StreamCleanup, Detach, TypeOK, Inner
<1>7. \A r \in Requests : Waiting(r)' => Waiting(r) /\ (alive' = alive \/ ask[r].proc \notin alive)
  BY ForgottenGone DEF StreamCleanup, Detach, TypeOK, Waiting
<1>8. /\ inner'.session = inner.session
      /\ \/ inner'.proc = NoProc /\ inner'.phase = "down"
         \/ inner'.proc # p /\ UNCHANGED <<inner, ask, alive>>
  <2>1. CASE inner.proc = p
    BY <2>1, InnerDown DEF StreamCleanup, Detach, TypeOK, NoProc, Procs
  <2>2. CASE inner.proc # p
    BY <2>2 DEF StreamCleanup
  <2>3. QED
    BY <2>1, <2>2
<1>9. TypeOK'
  BY <1>4, <1>5, <1>6 DEF StreamCleanup, TypeOK, log
<1>10. Known'
  BY <1>9, <1>4, <1>5, KnownFades DEF StreamCleanup, log
<1>11. Allowed'
  BY <1>9, <1>4, <1>5, AllowedFades DEF StreamCleanup, log
<1>12. Locked'
  BY SMT DEF StreamCleanup, TypeOK, Locked, log
<1>13. Resting'
  BY <1>5, <1>8, SMT DEF StreamCleanup, TypeOK, Known, AskFades, Resting, RestedHasNoGrant, log
<1>14. Asking'
  BY <1>5, <1>7, <1>8, SMT DEF StreamCleanup, TypeOK, AskFades, Asking, Waiting, log
<1>15. Reading'
  BY <1>9, <1>4, <1>5, <1>8, ReadingFades DEF StreamCleanup, TypeOK, Inner, Reading, log
<1>16. AskedIsTracked'
  <2>1. CASE inner'.proc = NoProc
    BY <2>1, <1>9, <1>14, TrackedWithout
  <2>2. CASE inner'.proc # NoProc
    <3>1. p # inner.proc /\ UNCHANGED <<ask, inner, pending>>
      BY <2>2, <1>8 DEF StreamCleanup
    <3>2. QED
      BY <1>4, <3>1, TrackedSame
  <2>3. QED
    BY <2>1, <2>2
<1>17. QED
  BY <1>9, <1>10, <1>11, <1>12, <1>13, <1>14, <1>15, <1>16

LEMMA PollKept ==
    ASSUME IInv, Poll
    PROVE  IInv'
<1> USE DEF IInv
<1>1. task' \in [Procs -> Task] /\ TaskFades
  BY AbortedFades, TaskStays DEF Poll, TypeOK, Inner
<1>2. inner' \in Inner /\ inner'.session = inner.session /\ inner'.proc = NoProc /\ inner'.phase = "down"
  <2>1. CASE Exited
    BY <2>1, InnerDown DEF Poll, TypeOK
  <2>2. CASE ~Exited
    BY <2>2, SMT DEF Poll, Exited, TypeOK, Inner, Asking
  <2>3. QED
    BY <2>1, <2>2
<1>3. TypeOK'
  BY <1>1, <1>2 DEF Poll, TypeOK, log
<1>4. Known'
  BY <1>3, <1>1, AskStays, KnownFades DEF Poll, log
<1>5. Allowed'
  BY <1>3, <1>1, AskStays, AllowedFades DEF Poll, log
<1>6. Locked'
  BY SMT DEF Poll, TypeOK, Locked, log
<1>7. Resting'
  BY <1>2, SMT DEF Poll, TypeOK, Resting, RestedHasNoGrant, log
<1>8. Asking'
  BY <1>2, SMT DEF Poll, TypeOK, Asking, Waiting, log
<1>9. Reading'
  BY <1>3, <1>1, <1>2, AskStays, ReadingFades DEF Poll, log
<1>10. AskedIsTracked'
  BY <1>3, <1>8, <1>2, TrackedWithout
<1>11. QED
  BY <1>3, <1>4, <1>5, <1>6, <1>7, <1>8, <1>9, <1>10

LEMMA ActionClearsKept ==
    ASSUME IInv, ActionClears
    PROVE  IInv'
<1> USE DEF IInv
<1>1. life' \in Life
  BY DEF ActionClears, IdleLife, Life
<1>2. \A r \in pending : ask[r].at = "waiting" /\ ask[r].proc = inner.proc => r \in pending'
  <2>1. SUFFICES ASSUME NEW r \in pending, ask[r].at = "waiting", ask[r].proc = inner.proc,
                        ask[r].session = life.session
                 PROVE  FALSE
    BY DEF ActionClears
  <2>2. r \in Requests /\ ask[r].proc \in Procs /\ ask[r].session \in Sessions
    BY <2>1 DEF TypeOK, Asking, Waiting, Known
  <2>3. inner.session = life.session
    BY <2>1, <2>2, PermissionsAssumption DEF Asking
  <2>4. QED
    BY <2>1, <2>2, <2>3 DEF ActionClears, Asking, NoProc, Procs
<1>3. TypeOK'
  BY <1>1 DEF ActionClears, TypeOK, Asking, rows, log
<1>4. Known'
  BY <1>3, AskStays, TaskStays, KnownFades DEF ActionClears, rows, log, IdleLife
<1>5. Allowed'
  BY <1>3, AskStays, TaskStays, AllowedFades DEF ActionClears, rows, log, IdleLife
<1>6. Locked'
  BY SMT DEF ActionClears, TypeOK, Locked, rows, log, IdleLife, Life
<1>7. Resting'
  BY SMT DEF ActionClears, TypeOK, Locked, Resting, RestedHasNoGrant, rows, log, IdleLife, Life
<1>8. Asking'
  BY SMT DEF ActionClears, TypeOK, Asking, Waiting, Locked, rows, log, IdleLife, Life
<1>9. Reading'
  BY SMT DEF ActionClears, TypeOK, Reading, Handling, Waiting, Asking, Locked, rows, log,
     IdleLife, Life
<1>10. AskedIsTracked'
  BY <1>2 DEF ActionClears, AskedIsTracked, rows
<1>11. QED
  BY <1>3, <1>4, <1>5, <1>6, <1>7, <1>8, <1>9, <1>10

LEMMA DecideKept ==
    ASSUME IInv, NEW r \in Requests, NEW reply \in Replies, Decide(r, reply)
    PROVE  IInv'
<1> USE DEF IInv
<1>1. dec' \in Dec
  BY Zenon DEF Decide, Dec
<1>2. trail' \subseteq Requests \X {"once", "always"}
  BY DEF Decide, TypeOK, Replies
<1>3. TypeOK'
  BY <1>1, <1>2 DEF Decide, TypeOK, rows
<1>4. Known'
  <2>1. ask[r].at # "new"
    BY DEF Decide, Decidable, Known
  <2>2. QED
    BY <2>1 DEF Decide, Known, rows
<1>5. Allowed'
  <2>1. mode[ask[r].session] = "approval" \/ reply = "reject"
    BY DEF Decide, Decidable
  <2>2. trail \subseteq trail' /\ \A e \in trail' : e \in trail \/ (e = <<r, reply>> /\ reply # "reject")
    BY DEF Decide
  <2>3. UNCHANGED <<mode, ask, task, approvals>>
    BY DEF Decide, rows
  <2>4. \A q \in Requests : Authorised(q) => Authorised(q)'
    BY <2>2, <2>3 DEF Authorised
  <2>5. \A e \in trail' : mode'[ask'[e[1]].session] = "approval"
    BY <2>1, <2>2, <2>3 DEF Allowed
  <2>6. dec'.at # "idle" /\ dec'.reply # "reject" => <<dec'.req, dec'.reply>> \in trail'
    BY DEF Decide
  <2>7. \A g \in approvals' : \E q \in Requests : <<q, "always">> \in trail' /\ Grant(q)' = g
    BY <2>2, <2>3 DEF Allowed, Grant
  <2>8. (\A p \in Procs : task[p].at = "once" => Authorised(task[p].req))'
    <3>1. \A p \in Procs : task[p].at = "once" => task[p].req \in Requests
      BY DEF Known, Handling
    <3>2. QED
      BY <2>3, <2>4, <3>1 DEF Allowed
  <2>9. (\A q \in Requests : ask[q].at = "once" => Authorised(q))'
    BY <2>3, <2>4 DEF Allowed
  <2>10. QED
    BY <2>5, <2>6, <2>7, <2>8, <2>9 DEF Allowed
<1>6. Locked'
  BY SMT DEF Decide, TypeOK, Locked, rows, Decidable
<1>7. Resting'
  BY SMT DEF Decide, Decidable, Resting, RestedHasNoGrant, rows
<1>8. Asking'
  BY SMT DEF Decide, TypeOK, Asking, Waiting, Locked, rows, Decidable
<1>9. Reading'
  BY SMT DEF Decide, TypeOK, Reading, Handling, Waiting, Asking, Locked, rows, Decidable
<1>10. AskedIsTracked'
  BY TrackedStays DEF Decide, rows
<1>11. QED
  BY <1>3, <1>4, <1>5, <1>6, <1>7, <1>8, <1>9, <1>10

LEMMA DecisionDoneKept ==
    ASSUME IInv, DecisionDone
    PROVE  IInv'
<1> USE DEF IInv
<1>1. dec.req \in Requests /\ ask[dec.req].at # "new"
  BY DEF DecisionDone, Known
<1>2. TypeOK'
  <2>1. Grant(dec.req) \in Sessions \X {ActionOf[r] : r \in Requests}
    BY <1>1 DEF Known, Grant
  <2>2. IdleDec \in Dec
    BY PermissionsAssumption DEF IdleDec, Dec, Replies
  <2>3. QED
    BY <2>1, <2>2 DEF DecisionDone, TypeOK, rows, log
<1>3. Known'
  BY <1>2, AskStays, TaskStays, KnownFades DEF DecisionDone, rows, log, IdleDec
<1>4. Allowed'
  <2>1. UNCHANGED <<mode, ask, task, trail>> /\ dec'.at = "idle"
    BY DEF DecisionDone, IdleDec, rows, log
  <2>2. \A g \in approvals' : g \in approvals \/ (g = Grant(dec.req) /\ dec.reply = "always")
    BY DEF DecisionDone
  <2>3. dec.reply = "always" => <<dec.req, "always">> \in trail
    BY DEF DecisionDone, Allowed
  <2>4. \A g \in approvals' : \E q \in Requests : <<q, "always">> \in trail' /\ Grant(q)' = g
    BY <1>1, <2>1, <2>2, <2>3 DEF Allowed, Grant
  <2>5. QED
    BY <2>1, <2>4 DEF Allowed, Authorised
<1>5. Locked'
  BY SMT DEF DecisionDone, TypeOK, Locked, rows, log, IdleDec, Dec
<1>6. Resting'
  BY <1>1, SMT DEF DecisionDone, TypeOK, Resting, RestedHasNoGrant, Grant, rows, log, IdleDec
<1>7. Asking'
  BY SMT DEF DecisionDone, TypeOK, Asking, Waiting, Locked, rows, log, IdleDec, Dec
<1>8. Reading'
  BY SMT DEF DecisionDone, TypeOK, Reading, Handling, Waiting, Asking, Locked, rows, log,
     IdleDec, Dec
<1>9. AskedIsTracked'
  <2>1. ask[dec.req].at # "waiting"
    BY DEF DecisionDone, Reading, Waiting
  <2>2. QED
    BY <2>1 DEF DecisionDone, AskedIsTracked, rows
<1>10. QED
  BY <1>2, <1>3, <1>4, <1>5, <1>6, <1>7, <1>8, <1>9

LEMMA SpawnKept ==
    ASSUME IInv, Spawn
    PROVE  IInv'
<1> USE DEF IInv
<1>1. spawned + 1 \in Procs /\ spawned + 1 \in 0 .. MaxProc
  BY PermissionsAssumption DEF Spawn, TypeOK, Procs
<1>2. [IdleTask EXCEPT !.at = "read", !.live = TRUE] \in Task
  <2>1. <<>> \in Seq(Requests \X {"asked", "replied"})
    OBVIOUS
  <2>2. QED
    BY <2>1, Zenon DEF IdleTask, Task
<1>3. PICK v \in Task : /\ v = [IdleTask EXCEPT !.at = "read", !.live = TRUE]
                        /\ task' = [task EXCEPT ![spawned + 1] = v]
  BY <1>2 DEF Spawn
<1>4. v.at = "read" /\ v.req = NoRequest /\ DOMAIN v.wire = {} /\ v.live
  BY <1>3 DEF IdleTask
<1>5. task' \in [Procs -> Task] /\ TaskFades /\ task'[spawned + 1] = v
  BY <1>1, <1>3, <1>4, TaskSet, TaskSetFades DEF Handling
<1>6. inner' \in Inner
  BY <1>1, Zenon DEF Spawn, TypeOK, Inner
<1>7. inner'.proc = spawned + 1 /\ inner'.phase = "ready" /\ inner'.session = inner.session
  BY DEF Spawn, TypeOK, Inner
<1>8. life' \in Life /\ life'.at = "woken" /\ life'.session = life.session /\ life'.wakes = life.wakes
  BY SMT DEF Spawn, TypeOK, Life
<1>9. TypeOK'
  BY <1>1, <1>5, <1>6, <1>8 DEF Spawn, TypeOK, log
<1>10. Known'
  BY <1>9, <1>5, AskStays, KnownFades DEF Spawn, log
<1>11. Allowed'
  BY <1>9, <1>5, AskStays, AllowedFades DEF Spawn, log
<1>12. Locked'
  BY <1>8 DEF Spawn, Locked
<1>13. Resting'
  BY <1>7, <1>8 DEF Spawn, Locked, Resting, RestedHasNoGrant, log
<1>14. Asking'
  BY <1>1, <1>7, <1>8, SMT DEF Spawn, TypeOK, Asking, Waiting, NoProc, Procs, log
<1>15. Reading'
  BY <1>9, <1>4, <1>5, <1>7, AskStays, ReadingFades DEF Spawn, log
<1>16. AskedIsTracked'
  <2>1. \A r \in Requests : ask[r].at # "waiting"
    BY Quiet DEF Spawn, Asking
  <2>2. QED
    BY <2>1 DEF Spawn, AskedIsTracked
<1>17. QED
  BY <1>9, <1>10, <1>11, <1>12, <1>13, <1>14, <1>15, <1>16

LEMMA PromptEndsKept ==
    ASSUME IInv, PromptEnds
    PROVE  IInv'
<1> USE DEF IInv
<1>1. ask' \in [Requests -> Ask]
  <2>1. CASE ask' = Forgotten(alive)
    BY <2>1, ForgottenFades DEF TypeOK
  <2>2. CASE ask' = [r \in Requests |-> IF ask[r].at = "waiting"
                                       THEN [ask[r] EXCEPT !.at = "left"] ELSE ask[r]]
    <3>1. \A r \in Requests : [ask[r] EXCEPT !.at = "left"] \in Ask
      BY DEF TypeOK, Ask
    <3>2. QED
      BY <2>2, <3>1 DEF TypeOK
  <2>3. QED
    BY <2>1, <2>2 DEF PromptEnds
<1>2. AskFades
  <2>1. CASE ask' = Forgotten(alive)
    BY <2>1, ForgottenFades DEF TypeOK
  <2>2. CASE ask' = [r \in Requests |-> IF ask[r].at = "waiting"
                                       THEN [ask[r] EXCEPT !.at = "left"] ELSE ask[r]]
    BY <2>2 DEF AskFades, Waiting, TypeOK, Ask
  <2>3. QED
    BY <2>1, <2>2 DEF PromptEnds
<1>3. \A r \in Requests : ask'[r].at # "waiting"
  <2>1. CASE ask' = Forgotten(alive)
    BY <2>1 DEF Forgotten, TypeOK, Ask, Asking, Waiting
  <2>2. CASE ask' = [r \in Requests |-> IF ask[r].at = "waiting"
                                       THEN [ask[r] EXCEPT !.at = "left"] ELSE ask[r]]
    BY <2>2 DEF TypeOK, Ask
  <2>3. QED
    BY <2>1, <2>2 DEF PromptEnds
<1>4. chat' \in Sessions \cup {NoSession}
  BY DEF PromptEnds
<1>5. TypeOK'
  BY <1>1, <1>4 DEF PromptEnds, TypeOK, log
<1>6. Known'
  BY <1>5, <1>1, <1>2, TaskStays, KnownFades DEF PromptEnds, log
<1>7. Allowed'
  BY <1>5, <1>1, <1>2, TaskStays, AllowedFades DEF PromptEnds, log
<1>8. Locked'
  BY DEF PromptEnds, Locked
<1>9. Resting'
  BY <1>2, SMT DEF PromptEnds, TypeOK, Known, AskFades, Resting, RestedHasNoGrant, log
<1>10. Asking'
  BY <1>2, <1>3, SMT DEF PromptEnds, TypeOK, AskFades, Asking, Waiting, log
<1>11. Reading'
  BY <1>5, <1>2, TaskStays, ReadingFades DEF PromptEnds, Reading, TypeOK, Inner, log
<1>12. AskedIsTracked'
  BY <1>3 DEF AskedIsTracked
<1>13. QED
  BY <1>5, <1>6, <1>7, <1>8, <1>9, <1>10, <1>11, <1>12

LEMMA ObserveRepliedKept ==
    ASSUME IInv, NEW p \in Procs, ObserveReplied(p)
    PROVE  IInv'
<1> USE DEF IInv
<1>1. task[p] \in Task /\ task[p].wire \in Seq(Event) /\ task[p].wire # <<>>
  BY DEF ObserveReplied, TypeOK, Task, Event
<1>2. /\ Tail(task[p].wire) \in Seq(Event) /\ Head(task[p].wire) \in Event
      /\ \A i \in DOMAIN Tail(task[p].wire) :
            i + 1 \in DOMAIN task[p].wire /\ Tail(task[p].wire)[i] = task[p].wire[i + 1]
      /\ \A j \in DOMAIN task[p].wire :
            \/ task[p].wire[j] = Head(task[p].wire)
            \/ \E i \in DOMAIN Tail(task[p].wire) : Tail(task[p].wire)[i] = task[p].wire[j]
  BY <1>1, Taken
<1>3. [task[p] EXCEPT !.wire = Tail(@)] \in Task
  BY <1>1, <1>2, Zenon DEF Task, Event
<1>4. PICK v \in Task : /\ v = [task[p] EXCEPT !.wire = Tail(@)]
                        /\ task' = [task EXCEPT ![p] = v]
  BY <1>3, Zenon DEF ObserveReplied, Took
<1>5. v.at = task[p].at /\ v.req = task[p].req /\ v.live = task[p].live /\ v.wire = Tail(task[p].wire)
      /\ v.at = "read" /\ v.req = NoRequest
  <2>1. task[p].at = "read" /\ task[p].req = NoRequest
    BY DEF ObserveReplied, Reading, Handling
  <2>2. QED
    BY <1>1, <1>4, <2>1, SMT DEF Task
<1>6. task' \in [Procs -> Task] /\ TaskFades /\ task'[p] = v
      /\ \A q \in Procs : q # p => task'[q] = task[q]
  <2>1. \A i \in DOMAIN v.wire : \E j \in DOMAIN task[p].wire : v.wire[i] = task[p].wire[j]
    BY <1>2, <1>5
  <2>2. v.at \notin Handling
    BY <1>5 DEF Handling
  <2>3. TaskFades
    BY <1>4, <1>5, <2>1, <2>2, TaskSetFades
  <2>4. QED
    BY <1>4, <2>3, TaskSet
<1>7. pending' \subseteq pending /\ \A r \in pending : r # Head(task[p].wire)[1] => r \in pending'
  BY DEF ObserveReplied
<1>8. TypeOK'
  BY <1>6, <1>7 DEF ObserveReplied, TypeOK, log
<1>9. Known'
  BY <1>8, <1>6, <1>7, AskStays, KnownFades DEF ObserveReplied, log
<1>10. Allowed'
  BY <1>8, <1>6, AskStays, AllowedFades DEF ObserveReplied, log
<1>11. Locked'
  BY SMT DEF ObserveReplied, TypeOK, Locked, log
<1>12. Resting'
  BY SMT DEF ObserveReplied, TypeOK, Resting, RestedHasNoGrant, Asking, Locked, log
<1>13. Asking'
  BY SMT DEF ObserveReplied, TypeOK, Asking, Waiting, Locked, log
<1>14. Reading'
  <2>1. UNCHANGED <<ask, dec, inner>> /\ AskFades
    BY AskStays DEF ObserveReplied, log
  <2>2. inner.proc # NoProc =>
           inner.proc \in Procs /\ task[inner.proc].live /\ task[inner.proc].at \notin {"none", "sync"}
    BY DEF TypeOK, Inner, Reading
  <2>3. inner'.proc # NoProc =>
           task'[inner'.proc].live /\ task'[inner'.proc].at \notin {"none", "sync"}
    BY <1>5, <1>6, <2>1, <2>2
  <2>4. QED
    BY <1>8, <2>1, <2>3, <1>6, ReadingFades
<1>15. AskedIsTracked'
  <2>1. SUFFICES ASSUME NEW r \in Requests, ask[r].at = "waiting", ask[r].proc = inner.proc
                 PROVE  LET t == task'[inner.proc] IN
                        \/ r \in pending'
                        \/ t.req = r
                        \/ \E i \in DOMAIN t.wire : t.wire[i] = <<r, "asked">>
                        \/ t.at = "lost"
    BY DEF ObserveReplied, AskedIsTracked
  <2>2. Head(task[p].wire)[2] = "replied" /\ Head(task[p].wire) = task[p].wire[1] /\ 1 \in DOMAIN task[p].wire
    BY <1>1 DEF ObserveReplied
  <2>3. Head(task[p].wire)[1] # r
    BY <2>1, <2>2 DEF Reading
  <2>4. inner.proc \in Procs
    BY <2>1 DEF Asking, Waiting, TypeOK
  <2>5. CASE inner.proc # p
    BY <1>6, <1>7, <2>1, <2>3, <2>4, <2>5 DEF AskedIsTracked
  <2>6. CASE inner.proc = p
    <3>1. \A j \in DOMAIN task[p].wire : task[p].wire[j] = <<r, "asked">> =>
              \E i \in DOMAIN v.wire : v.wire[i] = <<r, "asked">>
      <4>1. Head(task[p].wire) # <<r, "asked">>
        BY <2>2
      <4>2. QED
        BY <1>2, <1>5, <4>1, ZenonT(60)
    <3>2. QED
      BY <1>5, <1>6, <1>7, <2>1, <2>3, <2>6, <3>1 DEF AskedIsTracked
  <2>7. QED
    BY <2>5, <2>6
<1>16. QED
  BY <1>8, <1>9, <1>10, <1>11, <1>12, <1>13, <1>14, <1>15

LEMMA InsertKept ==
    ASSUME IInv, NEW p \in Procs, Insert(p)
    PROVE  IInv'
<1> USE DEF IInv
<1>1. task[p] \in Task /\ task[p].at = "insert" /\ task[p].req \in Requests /\ ask[task[p].req].at # "new"
  BY DEF Insert, TypeOK, Known, Handling
<1>2. \A a \in {"read", "lost"} : [task[p] EXCEPT !.at = a, !.req = NoRequest] \in Task
  BY <1>1, Zenon DEF Task
<1>3. IdleTask \in Task
  BY DEF IdleTask, Task
<1>4. PICK v \in Task : /\ task' = [task EXCEPT ![p] = v]
                        /\ \/ task[p].live /\ v = [task[p] EXCEPT !.at = "read", !.req = NoRequest]
                              /\ task[p].req \in pending'
                           \/ task[p].live /\ v = [task[p] EXCEPT !.at = "lost", !.req = NoRequest]
                           \/ ~task[p].live /\ v = IdleTask
  <2>1. CASE ~task[p].live
    <3>1. task' = [task EXCEPT ![p] = IdleTask]
      BY <2>1, Zenon DEF Insert
    <3>2. QED
      BY <1>3, <2>1, <3>1
  <2>2. CASE task[p].live /\ Cardinality(pending) < MaxPending
    <3> DEFINE u == [task[p] EXCEPT !.at = "read", !.req = NoRequest]
    <3>1. task' = [task EXCEPT ![p] = u] /\ task[p].req \in pending'
      BY <2>2, Zenon DEF Insert
    <3>2. u \in Task
      BY <1>2
    <3>3. u = [task[p] EXCEPT !.at = "read", !.req = NoRequest]
      OBVIOUS
    <3>4. \/ task[p].live /\ u = [task[p] EXCEPT !.at = "read", !.req = NoRequest] /\ task[p].req \in pending'
          \/ task[p].live /\ u = [task[p] EXCEPT !.at = "lost", !.req = NoRequest]
          \/ ~task[p].live /\ u = IdleTask
      BY <2>2, <3>1, <3>3, Zenon
    <3> HIDE DEF u
    <3>5. QED
      BY <3>1, <3>2, <3>4, Zenon
  <2>3. CASE task[p].live /\ ~(Cardinality(pending) < MaxPending)
    <3> DEFINE u == [task[p] EXCEPT !.at = "lost", !.req = NoRequest]
    <3>1. task' = [task EXCEPT ![p] = u]
      BY <2>3, Zenon DEF Insert
    <3>2. u \in Task
      BY <1>2
    <3>3. u = [task[p] EXCEPT !.at = "lost", !.req = NoRequest]
      OBVIOUS
    <3>4. \/ task[p].live /\ u = [task[p] EXCEPT !.at = "read", !.req = NoRequest] /\ task[p].req \in pending'
          \/ task[p].live /\ u = [task[p] EXCEPT !.at = "lost", !.req = NoRequest]
          \/ ~task[p].live /\ u = IdleTask
      BY <2>3, <3>1, <3>3, Zenon
    <3> HIDE DEF u
    <3>5. QED
      BY <3>1, <3>2, <3>4, Zenon
  <2>4. QED
    BY <2>1, <2>2, <2>3
<1>5. /\ v.at \in {"read", "lost", "none"} /\ v.req = NoRequest
      /\ task[p].live => v.wire = task[p].wire /\ v.live = task[p].live /\ v.at # "none"
      /\ task[p].live /\ v.at # "lost" => task[p].req \in pending'
      /\ v.wire = task[p].wire \/ DOMAIN v.wire = {}
  <2>1. CASE task[p].live
    <3>1. \/ v = [task[p] EXCEPT !.at = "read", !.req = NoRequest] /\ task[p].req \in pending'
          \/ v = [task[p] EXCEPT !.at = "lost", !.req = NoRequest]
      BY <1>4, <2>1, Zenon
    <3>2. CASE v = [task[p] EXCEPT !.at = "read", !.req = NoRequest] /\ task[p].req \in pending'
      BY <1>1, <2>1, <3>2 DEF Task
    <3>3. CASE v = [task[p] EXCEPT !.at = "lost", !.req = NoRequest]
      BY <1>1, <2>1, <3>3 DEF Task
    <3>4. QED
      BY <3>1, <3>2, <3>3, Zenon
  <2>2. CASE ~task[p].live
    BY <1>4, <2>2 DEF IdleTask
  <2>3. QED
    BY <2>1, <2>2
<1>6. task' \in [Procs -> Task] /\ TaskFades /\ task'[p] = v
      /\ \A q \in Procs : q # p => task'[q] = task[q]
  BY <1>4, <1>5, TaskSet, TaskSetFades DEF Handling
<1>7. pending \subseteq pending' /\ pending' \subseteq pending \cup {task[p].req}
  BY DEF Insert
<1>8. p = inner.proc => task[p].live
  BY <1>1 DEF Reading
<1>9. TypeOK'
  BY <1>1, <1>6, <1>7 DEF Insert, TypeOK, log
<1>10. Known'
  <2>1. \A q \in Procs : task'[q].at \in Handling =>
            task'[q].req \in Requests /\ ask[task'[q].req].at # "new"
    BY <1>6 DEF TaskFades, Known
  <2>2. \A q \in Procs : \A i \in DOMAIN task'[q].wire : ask[task'[q].wire[i][1]].at # "new"
    BY <1>6 DEF TaskFades, Known
  <2>3. UNCHANGED <<ask, dec, trail>>
    BY DEF Insert, log
  <2>4. QED
    BY <1>1, <1>7, <2>1, <2>2, <2>3 DEF Known
<1>11. Allowed'
  BY <1>9, <1>6, AskStays, AllowedFades DEF Insert, log
<1>12. Locked'
  BY SMT DEF Insert, TypeOK, Locked, log
<1>13. Resting'
  BY SMT DEF Insert, TypeOK, Resting, RestedHasNoGrant, Asking, Locked, log
<1>14. Asking'
  BY SMT DEF Insert, TypeOK, Asking, Waiting, Locked, log
<1>15. Reading'
  <2>1. UNCHANGED <<ask, dec, inner>> /\ AskFades
    BY AskStays DEF Insert, log
  <2>2. inner.proc # NoProc =>
           inner.proc \in Procs /\ task[inner.proc].live /\ task[inner.proc].at \notin {"none", "sync"}
    BY DEF TypeOK, Inner, Reading
  <2>3. inner'.proc # NoProc =>
           task'[inner'.proc].live /\ task'[inner'.proc].at \notin {"none", "sync"}
    BY <1>5, <1>6, <1>8, <2>1, <2>2
  <2>4. QED
    BY <1>9, <2>1, <2>3, <1>6, ReadingFades
<1>16. AskedIsTracked'
  <2>1. SUFFICES ASSUME NEW r \in Requests, ask[r].at = "waiting", ask[r].proc = inner.proc
                 PROVE  LET t == task'[inner.proc] IN
                        \/ r \in pending'
                        \/ t.req = r
                        \/ \E i \in DOMAIN t.wire : t.wire[i] = <<r, "asked">>
                        \/ t.at = "lost"
    BY DEF Insert, AskedIsTracked
  <2>2. inner.proc \in Procs
    BY <2>1 DEF Asking, Waiting, TypeOK
  <2>3. CASE inner.proc # p
    BY <1>6, <1>7, <2>1, <2>2, <2>3 DEF AskedIsTracked
  <2>4. CASE inner.proc = p
    <3>1. \/ r \in pending
          \/ task[p].req = r
          \/ \E i \in DOMAIN task[p].wire : task[p].wire[i] = <<r, "asked">>
      BY <1>1, <2>1, <2>4 DEF AskedIsTracked
    <3>2. v.wire = task[p].wire /\ (v.at = "lost" \/ task[p].req \in pending')
      BY <1>5, <1>8, <2>4
    <3>3. QED
      BY <1>6, <1>7, <2>4, <3>1, <3>2
  <2>5. QED
    BY <2>3, <2>4
<1>17. QED
  BY <1>9, <1>10, <1>11, <1>12, <1>13, <1>14, <1>15, <1>16

LEMMA RecordAskedKept ==
    ASSUME IInv, NEW p \in Procs, RecordAsked(p)
    PROVE  IInv'
<1> USE DEF IInv
<1>1. task[p] \in Task /\ task[p].at = "asking" /\ task[p].req \in Requests /\ ask[task[p].req].at # "new"
  BY DEF RecordAsked, TypeOK, Known, Handling
<1>2. Choice(task[p].req) \in {"insert", "once", "reject"}
  BY DEF Choice
<1>3. [task[p] EXCEPT !.at = Choice(task[p].req)] \in Task
  BY <1>1, <1>2, Zenon DEF Task
<1>4. PICK v \in Task : /\ v = [task[p] EXCEPT !.at = Choice(task[p].req)]
                        /\ task' = [task EXCEPT ![p] = v]
  BY <1>3, Zenon DEF RecordAsked
<1>5. v.at = Choice(task[p].req) /\ v.req = task[p].req /\ v.wire = task[p].wire /\ v.live = task[p].live
  BY <1>1, <1>4 DEF Task
<1>6. task' \in [Procs -> Task] /\ task'[p] = v
      /\ \A q \in Procs : q # p => task'[q] = task[q]
  BY <1>4, TaskSet
<1>7. v.at = "once" => Authorised(task[p].req)
  <2>1. v.at = "once" => Grant(task[p].req) \in approvals
    BY <1>5 DEF Choice
  <2>2. QED
    BY <2>1 DEF Allowed, Authorised, Grant
<1>8. TypeOK'
  BY <1>6 DEF RecordAsked, TypeOK, log
<1>9. Known'
  BY <1>1, <1>5, <1>6 DEF RecordAsked, Known, Handling, log
<1>10. Allowed'
  <2>1. UNCHANGED <<mode, ask, approvals, trail, dec>>
    BY DEF RecordAsked, log
  <2>2. (\A q \in Procs : task[q].at = "once" => Authorised(task[q].req))'
    <3>1. \A q \in Procs : task'[q].at = "once" => task'[q].req = task[q].req /\ Authorised(task[q].req)
      BY <1>5, <1>6, <1>7 DEF Allowed
    <3>2. QED
      BY <2>1, <3>1, ZenonT(60) DEF Authorised
  <2>3. QED
    BY <2>1, <2>2 DEF Allowed, Authorised, Grant
<1>11. Locked'
  BY SMT DEF RecordAsked, TypeOK, Locked, log
<1>12. Resting'
  BY SMT DEF RecordAsked, TypeOK, Resting, RestedHasNoGrant, Asking, Locked, log
<1>13. Asking'
  BY SMT DEF RecordAsked, TypeOK, Asking, Waiting, Locked, log
<1>14. Reading'
  BY <1>1, <1>2, <1>5, <1>6 DEF RecordAsked, Reading, Handling, Waiting, log
<1>15. AskedIsTracked'
  BY <1>1, <1>5, <1>6, TrackedSame DEF RecordAsked
<1>16. QED
  BY <1>8, <1>9, <1>10, <1>11, <1>12, <1>13, <1>14, <1>15

LEMMA ObserveAskedKept ==
    ASSUME IInv, NEW p \in Procs, ObserveAsked(p)
    PROVE  IInv'
<1> USE DEF IInv
<1>1. task[p] \in Task /\ task[p].wire \in Seq(Event) /\ task[p].wire # <<>>
  BY DEF ObserveAsked, TypeOK, Task, Event
<1>2. /\ Tail(task[p].wire) \in Seq(Event) /\ Head(task[p].wire) \in Event
      /\ \A i \in DOMAIN Tail(task[p].wire) :
            i + 1 \in DOMAIN task[p].wire /\ Tail(task[p].wire)[i] = task[p].wire[i + 1]
      /\ \A j \in DOMAIN task[p].wire :
            \/ task[p].wire[j] = Head(task[p].wire)
            \/ \E i \in DOMAIN Tail(task[p].wire) : Tail(task[p].wire)[i] = task[p].wire[j]
  BY <1>1, Taken
<1>3. PICK r \in Requests : r = Head(task[p].wire)[1] /\ Head(task[p].wire) = <<r, "asked">>
                              /\ ask[r].at # "new"
  <2>1. Head(task[p].wire)[1] \in Requests /\ Head(task[p].wire) = <<Head(task[p].wire)[1], "asked">>
    BY <1>2 DEF Event, ObserveAsked
  <2>2. Head(task[p].wire) = task[p].wire[1] /\ 1 \in DOMAIN task[p].wire
    BY <1>1
  <2>3. QED
    BY <2>1, <2>2 DEF Known
<1>4. [task[p] EXCEPT !.wire = Tail(@)] \in Task
      /\ [task[p] EXCEPT !.wire = Tail(@), !.at = "asking", !.req = r] \in Task
  BY <1>1, <1>2, Zenon DEF Task, Event
<1>5. PICK v \in Task : /\ v = IF ask[r].session = inner.session
                              THEN [task[p] EXCEPT !.wire = Tail(@), !.at = "asking", !.req = r]
                              ELSE [task[p] EXCEPT !.wire = Tail(@)]
                        /\ task' = [task EXCEPT ![p] = v]
  <2>1. CASE ask[r].session = inner.session
    <3>1. task' = [Took(p) EXCEPT ![p].at = "asking", ![p].req = r]
      BY <1>3, <2>1 DEF ObserveAsked
    <3>2. task' = [task EXCEPT ![p] = [task[p] EXCEPT !.wire = Tail(@), !.at = "asking", !.req = r]]
      BY <3>1, Zenon DEF Took, TypeOK
    <3>3. QED
      BY <1>4, <2>1, <3>2
  <2>2. CASE ask[r].session # inner.session
    <3>1. task' = [task EXCEPT ![p] = [task[p] EXCEPT !.wire = Tail(@)]]
      BY <1>3, <2>2 DEF ObserveAsked, Took
    <3>2. QED
      BY <1>4, <2>2, <3>1
  <2>3. QED
    BY <2>1, <2>2
<1>6. /\ v.wire = Tail(task[p].wire) /\ v.live = task[p].live
      /\ \/ ask[r].session = inner.session /\ v.at = "asking" /\ v.req = r
         \/ ask[r].session # inner.session /\ v.at = "read" /\ v.req = NoRequest
  <2>1. task[p].at = "read" /\ task[p].req = NoRequest
    BY DEF ObserveAsked, Reading, Handling
  <2>2. QED
    BY <1>1, <1>5, <2>1, SMT DEF Task
<1>7. task' \in [Procs -> Task] /\ task'[p] = v
      /\ \A q \in Procs : q # p => task'[q] = task[q]
  BY <1>5, TaskSet
<1>8. \A i \in DOMAIN v.wire : \E j \in DOMAIN task[p].wire : v.wire[i] = task[p].wire[j]
  BY <1>2, <1>6
<1>9. TypeOK'
  BY <1>7 DEF ObserveAsked, TypeOK, log
<1>10. Known'
  <2>1. \A q \in Procs : task'[q].at \in Handling =>
            task'[q].req \in Requests /\ ask[task'[q].req].at # "new"
    BY <1>3, <1>6, <1>7 DEF Known, Handling
  <2>2. \A q \in Procs : \A i \in DOMAIN task'[q].wire : ask[task'[q].wire[i][1]].at # "new"
    BY <1>7, <1>8 DEF Known
  <2>3. UNCHANGED <<ask, dec, pending, trail>>
    BY DEF ObserveAsked, log
  <2>4. QED
    BY <2>1, <2>2, <2>3 DEF Known
<1>11. Allowed'
  <2>1. UNCHANGED <<mode, ask, approvals, trail, dec>>
    BY DEF ObserveAsked, log
  <2>2. (\A q \in Procs : task[q].at = "once" => Authorised(task[q].req))'
    <3>1. \A q \in Procs : task'[q].at = "once" => task'[q].req = task[q].req /\ Authorised(task[q].req)
      BY <1>6, <1>7 DEF Allowed
    <3>2. QED
      BY <2>1, <3>1, ZenonT(60) DEF Authorised
  <2>3. QED
    BY <2>1, <2>2 DEF Allowed, Authorised, Grant
<1>12. Locked'
  BY SMT DEF ObserveAsked, TypeOK, Locked, log
<1>13. Resting'
  BY SMT DEF ObserveAsked, TypeOK, Resting, RestedHasNoGrant, Asking, Locked, log
<1>14. Asking'
  BY SMT DEF ObserveAsked, TypeOK, Asking, Waiting, Locked, log
<1>15. Reading'
  <2>1. UNCHANGED <<ask, dec, inner>>
    BY DEF ObserveAsked, log
  <2>2. \A q \in Procs : \A i \in DOMAIN task'[q].wire :
          task'[q].wire[i][2] = "replied" => ask[task'[q].wire[i][1]].at # "waiting"
    BY <1>7, <1>8 DEF Reading
  <2>3. /\ \A q \in Procs : task'[q].at \notin Handling => task'[q].req = NoRequest
        /\ \A q \in Procs : task'[q].at # "none" /\ q = inner.proc => task'[q].live
        /\ inner.proc # NoProc => task'[inner.proc].at \notin {"none", "sync"}
    <3>1. \A q \in Procs : task'[q].at \notin Handling => task'[q].req = NoRequest
      BY <1>6, <1>7 DEF Reading, Handling
    <3>2. \A q \in Procs : task'[q].at # "none" /\ q = inner.proc => task'[q].live
      BY <1>6, <1>7 DEF ObserveAsked, Reading
    <3>3. inner.proc # NoProc => task'[inner.proc].at \notin {"none", "sync"}
      BY <1>6, <1>7 DEF Reading, TypeOK, Inner
    <3>4. QED
      BY <3>1, <3>2, <3>3
  <2>4. QED
    BY <2>1, <2>2, <2>3 DEF Reading, Waiting
<1>16. AskedIsTracked'
  <2>1. SUFFICES ASSUME NEW q \in Requests, ask[q].at = "waiting", ask[q].proc = inner.proc
                 PROVE  LET t == task'[inner.proc] IN
                        \/ q \in pending
                        \/ t.req = q
                        \/ \E i \in DOMAIN t.wire : t.wire[i] = <<q, "asked">>
                        \/ t.at = "lost"
    BY DEF ObserveAsked, AskedIsTracked
  <2>2. inner.proc \in Procs
    BY <2>1 DEF Asking, Waiting, TypeOK
  <2>3. CASE inner.proc # p
    BY <1>7, <2>1, <2>2, <2>3 DEF AskedIsTracked
  <2>4. CASE inner.proc = p
    <3>1. q \in pending \/ \E j \in DOMAIN task[p].wire : task[p].wire[j] = <<q, "asked">>
      BY <2>1, <2>4, PermissionsAssumption DEF ObserveAsked, AskedIsTracked, Reading, Handling
    <3>2. q = r => ask[r].session = inner.session
      BY <2>1, <1>3, PermissionsAssumption DEF Asking, Known
    <3>3. q # r /\ q \notin pending => \E i \in DOMAIN v.wire : v.wire[i] = <<q, "asked">>
      <4>1. q # r => Head(task[p].wire) # <<q, "asked">>
        BY <1>3
      <4>2. \A j \in DOMAIN task[p].wire :
               \/ task[p].wire[j] = Head(task[p].wire)
               \/ \E i \in DOMAIN v.wire : v.wire[i] = task[p].wire[j]
        BY <1>2, <1>6
      <4>3. QED
        BY <3>1, <4>1, <4>2
    <3>4. QED
      BY <1>6, <1>7, <2>4, <3>2, <3>3
  <2>5. QED
    BY <2>3, <2>4
<1>17. QED
  BY <1>9, <1>10, <1>11, <1>12, <1>13, <1>14, <1>15, <1>16

LEMMA AsksKept ==
    ASSUME IInv, NEW r \in Requests, Asks(r)
    PROVE  IInv'
<1> USE DEF IInv
<1>1. inner.proc \in Procs /\ chat \in Sessions /\ inner.session = chat
  BY DEF Asks, TypeOK, Asking
<1>2. <<r, "asked">> \in Event /\ task[inner.proc].wire \in Seq(Event)
  BY <1>1 DEF Event, TypeOK, Task
<1>3. /\ task' \in [Procs -> Task]
      /\ task'[inner.proc].wire = Append(task[inner.proc].wire, <<r, "asked">>)
      /\ \A q \in Procs : /\ task'[q].at = task[q].at /\ task'[q].req = task[q].req
                          /\ task'[q].live = task[q].live
                          /\ q # inner.proc => task'[q].wire = task[q].wire
  BY <1>1, <1>2, Announced DEF Asks
<1>4. /\ \A i \in DOMAIN task'[inner.proc].wire :
            \/ task'[inner.proc].wire[i] = <<r, "asked">>
            \/ \E j \in DOMAIN task[inner.proc].wire : task'[inner.proc].wire[i] = task[inner.proc].wire[j]
      /\ \A i \in DOMAIN task[inner.proc].wire :
            i \in DOMAIN task'[inner.proc].wire /\ task'[inner.proc].wire[i] = task[inner.proc].wire[i]
      /\ \E i \in DOMAIN task'[inner.proc].wire : task'[inner.proc].wire[i] = <<r, "asked">>
  <2>1. PICK y : y = task'[inner.proc].wire
    OBVIOUS
  <2>2. PICK w : w = task[inner.proc].wire
    OBVIOUS
  <2>3. PICK x : x = <<r, "asked">>
    OBVIOUS
  <2>4. w \in Seq(Event) /\ y = Append(w, x) /\ x \in Event
    BY <1>2, <1>3, <2>1, <2>2, <2>3
  <2>5. /\ \A i \in DOMAIN y : y[i] = x \/ \E j \in DOMAIN w : y[i] = w[j]
        /\ \A i \in DOMAIN w : i \in DOMAIN y /\ y[i] = w[i]
        /\ \E i \in DOMAIN y : y[i] = x
    BY <2>4, Added
  <2>6. QED
    BY <2>1, <2>2, <2>3, <2>5
<1>5. /\ ask' \in [Requests -> Ask]
      /\ ask'[r].at = "waiting" /\ ask'[r].session = chat /\ ask'[r].proc = inner.proc
      /\ \A q \in Requests : q # r => ask'[q] = ask[q]
  <2>1. [at |-> "waiting", session |-> chat, proc |-> inner.proc] \in Ask
    BY <1>1 DEF Ask
  <2>2. QED
    BY <2>1 DEF Asks, TypeOK
<1>6. ask[r].at = "new" /\ UNCHANGED <<mode, inner, alive, pending, approvals, dec, trail>>
  BY DEF Asks, log
<1>7. \A q \in Requests : ask[q].at # "new" => ask'[q] = ask[q]
  BY <1>5, <1>6
<1>8. TypeOK'
  BY <1>3, <1>5, <1>6 DEF Asks, TypeOK, log
<1>9. Known'
  <2>1. \A q \in Requests : ask[q].at # "new" => ask'[q].at # "new"
    BY <1>7
  <2>2. \A q \in Procs : \A i \in DOMAIN task'[q].wire : ask'[task'[q].wire[i][1]].at # "new"
    <3>1. \A q \in Procs : \A j \in DOMAIN task[q].wire :
              task[q].wire[j][1] \in Requests /\ ask'[task[q].wire[j][1]].at # "new"
      BY <2>1 DEF Known, TypeOK, Task
    <3>2. \A i \in DOMAIN task'[inner.proc].wire : ask'[task'[inner.proc].wire[i][1]].at # "new"
      BY <1>1, <1>4, <1>5, <3>1
    <3>3. \A q \in Procs : q # inner.proc => task'[q].wire = task[q].wire
      BY <1>3
    <3>4. QED
      BY <3>1, <3>2, <3>3
  <2>3. \A q \in Procs : task'[q].at \in Handling =>
            task'[q].req \in Requests /\ ask'[task'[q].req].at # "new"
    BY <1>3, <2>1 DEF Known
  <2>4. \A q \in Requests : ask'[q].at # "new" => ask'[q].session \in Sessions
    BY <1>1, <1>5 DEF Known
  <2>5. \A e \in trail : e[1] \in Requests
    BY DEF TypeOK
  <2>6. QED
    BY <1>6, <2>1, <2>2, <2>3, <2>4, <2>5 DEF Known, TypeOK
<1>10. Allowed'
  <2>1. \A q \in Requests : ask[q].at # "new" /\ Authorised(q) => Authorised(q)'
    BY <1>6, <1>7, AuthorisedKept
  <2>2. \A e \in trail' : mode'[ask'[e[1]].session] = "approval"
    BY <1>6, <1>7 DEF Allowed, Known, TypeOK
  <2>3. \A g \in approvals' : \E q \in Requests : <<q, "always">> \in trail' /\ Grant(q)' = g
    <3>1. \A q \in Requests : <<q, "always">> \in trail => Grant(q)' = Grant(q)
      BY <1>7 DEF Known, Grant
    <3>2. QED
      BY <1>6, <3>1 DEF Allowed
  <2>4. (\A p \in Procs : task[p].at = "once" => Authorised(task[p].req))'
    <3>1. \A p \in Procs : task'[p].at = "once" =>
              task'[p].req = task[p].req /\ task[p].req \in Requests /\ ask[task[p].req].at # "new"
              /\ Authorised(task[p].req)
      BY <1>3 DEF Known, Handling, Allowed
    <3>2. QED
      BY <2>1, <3>1
  <2>5. (\A q \in Requests : ask[q].at = "once" => Authorised(q))'
    <3>1. \A q \in Requests : ask'[q].at = "once" => ask[q].at = "once"
      BY <1>5
    <3>2. QED
      BY <2>1, <3>1 DEF Allowed
  <2>6. QED
    BY <1>6, <2>2, <2>3, <2>4, <2>5 DEF Allowed
<1>11. Locked'
  BY DEF Asks, Locked, log
<1>12. Resting'
  BY <1>6, <1>7 DEF Asks, Known, Resting, RestedHasNoGrant, log
<1>13. Asking'
  <2>1. \A q \in Requests : ask'[q].at = "waiting" => ask'[q].session = chat
    BY <1>5 DEF Asking
  <2>2. \A q \in Requests : Waiting(q)' => ask'[q].proc \in alive
    BY <1>5 DEF Asks, Asking, Waiting
  <2>3. QED
    BY <1>6, <2>1, <2>2 DEF Asks, Asking, log
<1>14. Reading'
  <2>1. \A q \in Procs : \A i \in DOMAIN task'[q].wire :
          task'[q].wire[i][2] = "replied" => ask'[task'[q].wire[i][1]].at # "waiting"
    <3>1. \A q \in Procs : \A j \in DOMAIN task[q].wire :
              task[q].wire[j][2] = "replied" => ask'[task[q].wire[j][1]].at # "waiting"
      BY <1>7 DEF Known, Reading, TypeOK, Task
    <3>2. \A i \in DOMAIN task'[inner.proc].wire :
              task'[inner.proc].wire[i][2] = "replied" => ask'[task'[inner.proc].wire[i][1]].at # "waiting"
      BY <1>1, <1>4, <3>1
    <3>3. \A q \in Procs : q # inner.proc => task'[q].wire = task[q].wire
      BY <1>3
    <3>4. QED
      BY <3>1, <3>2, <3>3
  <2>2. dec'.at = "relayed" => ~Waiting(dec.req)'
    BY <1>6, <1>7 DEF Known, Reading, Waiting
  <2>3. QED
    BY <1>3, <1>6, <2>1, <2>2 DEF Reading, TypeOK, Inner
<1>15. AskedIsTracked'
  <2>1. SUFFICES ASSUME NEW q \in Requests, ask'[q].at = "waiting", ask'[q].proc = inner.proc
                 PROVE  LET t == task'[inner.proc] IN
                        \/ q \in pending
                        \/ t.req = q
                        \/ \E i \in DOMAIN t.wire : t.wire[i] = <<q, "asked">>
                        \/ t.at = "lost"
    BY <1>6 DEF AskedIsTracked
  <2>2. CASE q = r
    BY <1>4, <2>2
  <2>3. CASE q # r
    BY <1>1, <1>3, <1>4, <1>5, <2>1, <2>3, ZenonT(60) DEF AskedIsTracked
  <2>4. QED
    BY <2>2, <2>3
<1>16. QED
  BY <1>8, <1>9, <1>10, <1>11, <1>12, <1>13, <1>14, <1>15

LEMMA DecisionRelayedKept ==
    ASSUME IInv, DecisionRelayed
    PROVE  IInv'
<1> USE DEF IInv
<1>1. /\ inner.proc \in Procs /\ inner.phase = "ready" /\ dec.at = "audited" /\ dec.req \in Requests
      /\ ask[dec.req].at # "new" /\ Waiting(dec.req)
  BY DEF DecisionRelayed, CanRelay, TypeOK, Known
<1>2. <<dec.req, "replied">> \in Event /\ task[inner.proc].wire \in Seq(Event)
  BY <1>1 DEF Event, TypeOK, Task
<1>3. /\ task' \in [Procs -> Task]
      /\ task'[inner.proc].wire = Append(task[inner.proc].wire, <<dec.req, "replied">>)
      /\ \A q \in Procs : /\ task'[q].at = task[q].at /\ task'[q].req = task[q].req
                          /\ task'[q].live = task[q].live
                          /\ q # inner.proc => task'[q].wire = task[q].wire
  BY <1>1, <1>2, Announced DEF DecisionRelayed, WireAnswered
<1>4. /\ \A i \in DOMAIN task'[inner.proc].wire :
            \/ task'[inner.proc].wire[i] = <<dec.req, "replied">>
            \/ \E j \in DOMAIN task[inner.proc].wire : task'[inner.proc].wire[i] = task[inner.proc].wire[j]
      /\ \A i \in DOMAIN task[inner.proc].wire :
            i \in DOMAIN task'[inner.proc].wire /\ task'[inner.proc].wire[i] = task[inner.proc].wire[i]
      /\ \E i \in DOMAIN task'[inner.proc].wire : task'[inner.proc].wire[i] = <<dec.req, "replied">>
  <2>1. PICK y : y = task'[inner.proc].wire
    OBVIOUS
  <2>2. PICK w : w = task[inner.proc].wire
    OBVIOUS
  <2>3. PICK x : x = <<dec.req, "replied">>
    OBVIOUS
  <2>4. w \in Seq(Event) /\ y = Append(w, x) /\ x \in Event
    BY <1>2, <1>3, <2>1, <2>2, <2>3
  <2>5. /\ \A i \in DOMAIN y : y[i] = x \/ \E j \in DOMAIN w : y[i] = w[j]
        /\ \A i \in DOMAIN w : i \in DOMAIN y /\ y[i] = w[i]
        /\ \E i \in DOMAIN y : y[i] = x
    BY <2>4, Added
  <2>6. QED
    BY <2>1, <2>2, <2>3, <2>5
<1>5. /\ ask' \in [Requests -> Ask]
      /\ ask'[dec.req].at = Upstream(dec.reply)
      /\ ask'[dec.req].session = ask[dec.req].session /\ ask'[dec.req].proc = ask[dec.req].proc
      /\ \A q \in Requests : q # dec.req => ask'[q] = ask[q]
  <2>1. ask' = [ask EXCEPT ![dec.req].at = Upstream(dec.reply)]
    BY <1>1 DEF DecisionRelayed, AskAnswered
  <2>2. ask' = [ask EXCEPT ![dec.req] = [ask[dec.req] EXCEPT !.at = Upstream(dec.reply)]]
    BY <2>1, Zenon
  <2>3. [ask[dec.req] EXCEPT !.at = Upstream(dec.reply)] \in Ask
    BY <1>1 DEF Upstream, TypeOK, Ask
  <2>4. QED
    BY <1>1, <2>2, <2>3 DEF TypeOK, Ask
<1>6. UNCHANGED <<mode, inner, alive, pending, approvals, start, life, chat, trail, rested>>
  BY DEF DecisionRelayed, log
<1>7. dec' \in Dec /\ dec'.at = "relayed" /\ dec'.req = dec.req /\ dec'.reply = dec.reply
  BY DEF DecisionRelayed, TypeOK, Dec
<1>8. \A q \in Requests : (Waiting(q)' => Waiting(q)) /\ (ask'[q].at = "waiting" => ask[q].at = "waiting")
            /\ ask'[q].session = ask[q].session /\ ask'[q].proc = ask[q].proc
  BY <1>1, <1>5 DEF Upstream, Waiting
<1>9. Known' /\ Allowed' /\ Reading' /\ AskedIsTracked'
  <2>1. TypeOK'
    BY <1>3, <1>5, <1>6, <1>7, SMTT(30) DEF DecisionRelayed, TypeOK
  <2>2. Answered(dec.req)
    BY <1>1, <1>3, <1>4, <1>5, <1>6, <1>7, <1>8, Zenon DEF Answered, Upstream
  <2>3. ask'[dec.req].at = "once" => Authorised(dec.req)
    BY <1>1, <1>5 DEF Upstream, Allowed, Authorised, TypeOK, Dec, Replies
  <2>4. QED
    BY <1>1, <2>1, <2>2, <2>3, AnsweredKept
<1>10. TypeOK'
  BY <1>3, <1>5, <1>6, <1>7 DEF DecisionRelayed, TypeOK
<1>11. Known'
  BY <1>9
<1>12. Allowed'
  BY <1>9
<1>13. Locked'
  BY <1>1, <1>6 DEF Locked
<1>14. Resting'
  BY <1>1, <1>6, <1>7, <1>8 DEF Resting, RestedHasNoGrant
<1>15. Asking'
  BY <1>6, <1>8 DEF Asking
<1>16. Reading'
  BY <1>9
<1>17. AskedIsTracked'
  BY <1>9
<1>18. QED
  BY <1>10, <1>11, <1>12, <1>13, <1>14, <1>15, <1>16, <1>17

LEMMA AutoReplyKept ==
    ASSUME IInv, NEW p \in Procs, AutoReply(p)
    PROVE  IInv'
<1> USE DEF IInv
<1>1. PICK r \in Requests : /\ r = task[p].req /\ inner.proc \in Procs /\ ask[r].at # "new" /\ Waiting(r)
                            /\ task[p].at \in {"once", "reject"}
  BY DEF AutoReply, CanRelay, TypeOK, Known, Handling
<1>2. <<r, "replied">> \in Event /\ task[inner.proc].wire \in Seq(Event)
  BY <1>1 DEF Event, TypeOK, Task
<1>3. PICK f \in [Procs -> Task] :
        /\ f = WireAnswered(r)
        /\ f[inner.proc].wire = Append(task[inner.proc].wire, <<r, "replied">>)
        /\ \A q \in Procs : /\ f[q].at = task[q].at /\ f[q].req = task[q].req /\ f[q].live = task[q].live
                            /\ q # inner.proc => f[q].wire = task[q].wire
  <2>1. PICK x \in Event : x = <<r, "replied">>
    BY <1>2
  <2>2. PICK f \in [Procs -> Task] : PostedTo(f, inner.proc, x)
    BY <1>1, Posted
  <2>3. f = WireAnswered(r)
    BY <2>1, <2>2 DEF WireAnswered, PostedTo
  <2>4. QED
    BY <2>1, <2>2, <2>3, Zenon DEF PostedTo
<1>4. PICK v \in Task : v = [f[p] EXCEPT !.at = "read", !.req = NoRequest]
  <2>1. f[p] \in Task
    BY <1>3
  <2>2. [f[p] EXCEPT !.at = "read", !.req = NoRequest] \in Task
    BY <2>1, Zenon DEF Task
  <2>3. QED
    BY <2>2
<1>5. v.at = "read" /\ v.req = NoRequest /\ v.wire = f[p].wire /\ v.live = f[p].live
  BY <1>3, <1>4 DEF Task
<1>6. task' \in [Procs -> Task] /\ task'[p] = v /\ \A q \in Procs : q # p => task'[q] = f[q]
  <2>1. task' = [f EXCEPT ![p].at = "read", ![p].req = NoRequest]
    BY <1>1, <1>3, Zenon DEF AutoReply
  <2>2. task' = [f EXCEPT ![p] = v]
    BY <1>4, <2>1, Zenon
  <2>3. QED
    BY <1>3, <1>4, <2>2, SMTT(30)
<1>7. /\ task'[inner.proc].wire = Append(task[inner.proc].wire, <<r, "replied">>)
      /\ \A q \in Procs : task'[q].live = task[q].live /\ (q # inner.proc => task'[q].wire = task[q].wire)
      /\ \A q \in Procs : q # p => task'[q].at = task[q].at /\ task'[q].req = task[q].req
  <2>1. \A q \in Procs : task'[q].live = f[q].live /\ task'[q].wire = f[q].wire
    BY <1>5, <1>6
  <2>2. \A q \in Procs : task'[q].live = task[q].live
    BY <1>3, <2>1, Zenon
  <2>3. \A q \in Procs : q # inner.proc => task'[q].wire = task[q].wire
    BY <1>3, <2>1, SMTT(30)
  <2>4. task'[inner.proc].wire = Append(task[inner.proc].wire, <<r, "replied">>)
    BY <1>1, <1>3, <2>1, Zenon
  <2>5. \A q \in Procs : q # p => task'[q].at = task[q].at /\ task'[q].req = task[q].req
    BY <1>3, <1>6
  <2>6. QED
    BY <2>2, <2>3, <2>4, <2>5
<1>8. /\ \A i \in DOMAIN task'[inner.proc].wire :
            \/ task'[inner.proc].wire[i] = <<r, "replied">>
            \/ \E j \in DOMAIN task[inner.proc].wire : task'[inner.proc].wire[i] = task[inner.proc].wire[j]
      /\ \A i \in DOMAIN task[inner.proc].wire :
            i \in DOMAIN task'[inner.proc].wire /\ task'[inner.proc].wire[i] = task[inner.proc].wire[i]
      /\ \E i \in DOMAIN task'[inner.proc].wire : task'[inner.proc].wire[i] = <<r, "replied">>
  <2>1. PICK y : y = task'[inner.proc].wire
    OBVIOUS
  <2>2. PICK w : w = task[inner.proc].wire
    OBVIOUS
  <2>3. PICK x : x = <<r, "replied">>
    OBVIOUS
  <2>4. w \in Seq(Event) /\ y = Append(w, x) /\ x \in Event
    BY <1>2, <1>7, <2>1, <2>2, <2>3
  <2>5. /\ \A i \in DOMAIN y : y[i] = x \/ \E j \in DOMAIN w : y[i] = w[j]
        /\ \A i \in DOMAIN w : i \in DOMAIN y /\ y[i] = w[i]
        /\ \E i \in DOMAIN y : y[i] = x
    BY <2>4, Added
  <2>6. QED
    BY <2>1, <2>2, <2>3, <2>5
<1>9. /\ ask' \in [Requests -> Ask]
      /\ ask'[r].at = Upstream(task[p].at)
      /\ ask'[r].session = ask[r].session /\ ask'[r].proc = ask[r].proc
      /\ \A q \in Requests : q # r => ask'[q] = ask[q]
  <2>1. ask' = [ask EXCEPT ![r].at = Upstream(task[p].at)]
    BY <1>1 DEF AutoReply, AskAnswered
  <2>2. ask' = [ask EXCEPT ![r] = [ask[r] EXCEPT !.at = Upstream(task[p].at)]]
    BY <2>1, Zenon
  <2>3. [ask[r] EXCEPT !.at = Upstream(task[p].at)] \in Ask
    BY <1>1 DEF Upstream, TypeOK, Ask
  <2>4. QED
    BY <1>1, <2>2, <2>3 DEF TypeOK, Ask
<1>10. UNCHANGED <<mode, inner, alive, spawned, pending, approvals, start, life, chat, dec, trail, rested>>
  BY DEF AutoReply, log
<1>11. \A q \in Requests : (Waiting(q)' => Waiting(q)) /\ (ask'[q].at = "waiting" => ask[q].at = "waiting")
            /\ ask'[q].session = ask[q].session /\ ask'[q].proc = ask[q].proc
  BY <1>1, <1>9 DEF Upstream, Waiting
<1>12. Known' /\ Allowed' /\ Reading' /\ AskedIsTracked'
  <2>1. TypeOK'
    BY <1>6, <1>9, <1>10, SMTT(30) DEF TypeOK
  <2>2. Answered(r)
    BY <1>1, <1>5, <1>6, <1>7, <1>8, <1>9, <1>10, <1>11, Zenon DEF Answered, Upstream
  <2>3. ask'[r].at = "once" => Authorised(r)
    BY <1>1, <1>9 DEF Upstream, Allowed
  <2>4. QED
    BY <1>1, <2>1, <2>2, <2>3, AnsweredKept
<1>13. TypeOK'
  BY <1>6, <1>9, <1>10 DEF TypeOK
<1>14. Known'
  BY <1>12
<1>15. Allowed'
  BY <1>12
<1>16. Locked'
  BY <1>10 DEF Locked
<1>17. Resting'
  BY <1>10, <1>11 DEF Resting, RestedHasNoGrant, Known
<1>18. Asking'
  BY <1>10, <1>11 DEF Asking
<1>19. Reading'
  BY <1>12
<1>20. AskedIsTracked'
  BY <1>12
<1>21. QED
  BY <1>13, <1>14, <1>15, <1>16, <1>17, <1>18, <1>19, <1>20

----------------------------------------------------------------------------
(* The invariant of the specification, and what follows of it. *)

LEMMA Initial ==
    Init => IInv
<1> SUFFICES ASSUME Init
             PROVE  IInv
  OBVIOUS
<1>1. \A p \in Procs : /\ task[p] = IdleTask /\ task[p].at = "none" /\ task[p].req = NoRequest
                       /\ DOMAIN task[p].wire = {}
  BY DEF Init, IdleTask
<1>2. \A r \in Requests : ask[r] = [at |-> "new", session |-> NoSession, proc |-> NoProc]
  BY DEF Init
<1>3. inner.proc = NoProc /\ inner.phase = "down" /\ life.at = "idle" /\ ~life.wakes /\ dec.at = "idle"
      /\ chat = NoSession /\ pending = {} /\ approvals = {} /\ trail = {} /\ rested = {}
  BY DEF Init, IdleLife, IdleDec
<1>4. TypeOK
  <2>1. IdleTask \in Task
    BY DEF IdleTask, Task
  <2>2. IdleLife \in Life
    BY Zenon DEF IdleLife, Life
  <2>3. IdleDec \in Dec
    BY DEF IdleDec, Dec, Replies
  <2>4. [at |-> "new", session |-> NoSession, proc |-> NoProc] \in Ask
    BY DEF Ask
  <2>5. [proc |-> NoProc, phase |-> "down", session |-> NoSession, mode |-> "read_only"] \in Inner
    BY DEF Inner, Modes
  <2>6. QED
    BY <2>1, <2>2, <2>3, <2>4, <2>5, PermissionsAssumption DEF Init, TypeOK
<1>5. Known
  BY <1>1, <1>2, <1>3 DEF Known, Handling
<1>6. Allowed
  BY <1>1, <1>2, <1>3 DEF Allowed
<1>7. Locked
  BY <1>3 DEF Locked
<1>8. Resting
  BY <1>3 DEF Resting, RestedHasNoGrant
<1>9. Asking
  BY <1>2, <1>3 DEF Asking, Waiting
<1>10. Reading
  BY <1>1, <1>3 DEF Reading, NoProc, Procs
<1>11. AskedIsTracked
  BY <1>2 DEF AskedIsTracked
<1>12. QED
  BY <1>4, <1>5, <1>6, <1>7, <1>8, <1>9, <1>10, <1>11 DEF IInv

LEMMA StutterKept ==
    ASSUME IInv, UNCHANGED vars
    PROVE  IInv'
<1>1. TypeOK'
  BY DEF IInv, vars, TypeOK
<1>2. AskFades /\ TaskFades
  BY AskStays, TaskStays DEF IInv, vars
<1>3. Known' /\ Allowed'
  BY <1>1, <1>2, KnownFades, AllowedFades DEF IInv, vars
<1>4. Locked' /\ Resting'
  BY DEF IInv, vars, Locked, Resting, RestedHasNoGrant
<1>5. Asking' /\ Reading'
  BY DEF IInv, vars, Asking, Waiting, Reading
<1>6. AskedIsTracked'
  BY TrackedStays DEF IInv, vars
<1>7. QED
  BY <1>1, <1>3, <1>4, <1>5, <1>6 DEF IInv

LEMMA StepKept ==
    ASSUME IInv, [Next]_vars
    PROVE  IInv'
<1>1. ASSUME NEW r \in Requests, Asks(r) PROVE IInv'
  BY <1>1, AsksKept
<1>2. ASSUME NEW p \in Procs, TaskStep(p) \/ InsertAborted(p) \/ StreamLost(p) PROVE IInv'
  BY <1>2, ObserveAskedKept, ObserveRepliedKept, RecordAskedKept, InsertKept, AutoReplyKept,
     StreamCleanupKept, TaskSyncKept, InsertAbortedKept, StreamLostKept DEF TaskStep
<1>3. ASSUME NEW s \in Sessions, Wake(s) \/ SessionAction(s) PROVE IInv'
  BY <1>3, WakeKept, SessionActionKept
<1>4. CASE LifeStep
  BY <1>4, StopKillKept, StopClearsKept, SwitchClearsKept, SelectKept, StartReuseKept,
     StartReplaceKept, SpawnKept, SpawnFailsKept, WokenKept, WakeFailsKept, ActionClearsKept
     DEF LifeStep
<1>5. ASSUME NEW r \in Requests, NEW reply \in Replies, Decide(r, reply) PROVE IInv'
  BY <1>5, DecideKept
<1>6. CASE DecisionStep
  BY <1>6, DecisionRelayedKept, DecisionDoneKept, DecisionFailsKept DEF DecisionStep
<1>7. CASE Crash \/ PromptEnds \/ Poll \/ Stop \/ Reap
  BY <1>7, CrashKept, PromptEndsKept, PollKept, StopKept, ReapKept
<1>8. QED
  BY <1>1, <1>2, <1>3, <1>4, <1>5, <1>6, <1>7, StutterKept DEF Next

\* The parts of the invariant hold together in every reachable state of the
\* requests, the grants and the locks.
THEOREM InvariantHolds == Spec => []IInv
BY Initial, StepKept, PTL DEF Spec

\* Every variable has its type, for any number of requests, sessions and
\* processes.
THEOREM TypesHold == Spec => []TypeOK
<1>1. IInv => TypeOK
  BY DEF IInv
<1>2. QED
  BY <1>1, InvariantHolds, PTL

\* What the agent was allowed, an operator allowed it: the request itself, or
\* "always" for the same action of the same session, which is no read-only one.
THEOREM AllowedByOperators == Spec => []OnceIsAuthorised
<1>1. IInv => OnceIsAuthorised
  <2>1. SUFFICES ASSUME IInv, NEW r \in Requests, ask[r].at = "once"
                 PROVE  mode[ask[r].session] = "approval" /\ Authorised(r)
    BY DEF OnceIsAuthorised
  <2>2. Authorised(r)
    BY <2>1 DEF IInv, Allowed
  <2>3. mode[ask[r].session] = "approval"
    BY <2>1, <2>2 DEF IInv, Allowed, Authorised
  <2>4. QED
    BY <2>2, <2>3
<1>2. QED
  BY <1>1, InvariantHolds, PTL

\* A session that stop, sleep or archive put to rest keeps no grant, also when
\* a decision for it was under way.
THEOREM RestDropsGrants == Spec => []RestedHasNoGrant
<1>1. IInv => RestedHasNoGrant
  BY DEF IInv, Resting
<1>2. QED
  BY <1>1, InvariantHolds, PTL

\* A request the agent waits for is on its way to the operators or with them,
\* whatever the size of the queue.
THEOREM RequestsAreTracked == Spec => []AskedIsTracked
<1>1. IInv => AskedIsTracked
  BY DEF IInv
<1>2. QED
  BY <1>1, InvariantHolds, PTL

----------------------------------------------------------------------------
(* The switch, against decisions that take start_lock while it clears. *)

\* A decision under way is for the session selected, unless a wake has selected
\* another and waits for start_lock; what a wake is about to select has no grant.
Switching ==
    /\ dec.at # "idle" => ask[dec.req].session = inner.session \/ life.at = "start"
    /\ life.at = "select" /\ life.session # inner.session =>
          \A g \in approvals : g[1] # life.session

\* What a request made belongs to never changes.
LEMMA SessionStays ==
    ASSUME IInv, Next, NEW r \in Requests, ask[r].at # "new"
    PROVE  ask'[r].session = ask[r].session
<1>1. \A q \in Requests : ask[q] \in Ask
  BY DEF IInv, TypeOK
<1>2. ASSUME NEW q \in Requests, Asks(q) PROVE ask'[r].session = ask[r].session
  BY <1>1, <1>2 DEF Asks, IInv, TypeOK
<1>3. ASSUME NEW dead \in SUBSET Procs, ask' = Forgotten(dead) PROVE ask'[r].session = ask[r].session
  BY <1>1, <1>3 DEF Forgotten, Ask
<1>4. ASSUME NEW q, NEW reply, ask' = AskAnswered(q, reply) PROVE ask'[r].session = ask[r].session
  BY <1>1, <1>4 DEF AskAnswered, Ask, IInv, TypeOK
<1>5. alive \in SUBSET Procs
  BY DEF IInv, TypeOK
<1>6. CASE Crash \/ Reap \/ StopKill \/ StartReplace
  BY <1>3, <1>5, <1>6 DEF Crash, Reap, StopKill, StartReplace, Detach
<1>7. CASE PromptEnds
  BY <1>1, <1>3, <1>5, <1>7 DEF PromptEnds, Ask
<1>8. ASSUME NEW p \in Procs, TaskStep(p) \/ InsertAborted(p) \/ StreamLost(p)
      PROVE  ask'[r].session = ask[r].session
  BY <1>3, <1>4, <1>5, <1>8 DEF TaskStep, ObserveAsked, ObserveReplied, RecordAsked, Insert,
     AutoReply, StreamCleanup, TaskSync, InsertAborted, StreamLost, Detach
<1>9. ASSUME NEW s \in Sessions, Wake(s) \/ SessionAction(s)
      PROVE  ask'[r].session = ask[r].session
  BY <1>3, <1>5, <1>9 DEF Wake, SessionAction, Detach, rows
<1>10. CASE LifeStep
  BY <1>6, <1>10 DEF LifeStep, StopClears, SwitchClears, Select, StartReuse, Spawn, SpawnFails,
     Woken, WakeFails, ActionClears, rows
<1>11. ASSUME NEW q \in Requests, NEW reply \in Replies, Decide(q, reply)
       PROVE  ask'[r].session = ask[r].session
  BY <1>11 DEF Decide, rows
<1>12. CASE DecisionStep
  BY <1>4, <1>12 DEF DecisionStep, DecisionRelayed, DecisionDone, DecisionFails, rows
<1>13. CASE Poll \/ Stop
  BY <1>13 DEF Poll, Stop, rows
<1>14. QED
  BY <1>2, <1>6, <1>7, <1>8, <1>9, <1>10, <1>11, <1>12, <1>13 DEF Next

\* Only a wake's selection changes the session in service.
LEMMA OnlySelectSelects ==
    ASSUME IInv, Next, ~Select
    PROVE  inner'.session = inner.session
<1>1. inner \in Inner
  BY DEF IInv, TypeOK
<1>2. ASSUME NEW phase, Detach(phase) PROVE inner'.session = inner.session
  BY <1>1, <1>2 DEF Detach, Inner
<1>3. ASSUME NEW r \in Requests, Asks(r) PROVE inner'.session = inner.session
  BY <1>3 DEF Asks
<1>4. CASE Crash \/ PromptEnds \/ Stop
  BY <1>4 DEF Crash, PromptEnds, Stop
<1>5. CASE Poll \/ Reap
  BY <1>1, <1>2, <1>5 DEF Poll, Reap, Inner
<1>6. ASSUME NEW p \in Procs, TaskStep(p) \/ InsertAborted(p) \/ StreamLost(p)
      PROVE  inner'.session = inner.session
  BY <1>2, <1>6 DEF TaskStep, ObserveAsked, ObserveReplied, RecordAsked, Insert, AutoReply,
     StreamCleanup, TaskSync, InsertAborted, StreamLost
<1>7. ASSUME NEW s \in Sessions, Wake(s) \/ SessionAction(s) PROVE inner'.session = inner.session
  BY <1>2, <1>7 DEF Wake, SessionAction
<1>8. CASE LifeStep
  <2>1. CASE StopKill \/ StopClears \/ SwitchClears \/ StartReuse \/ Woken \/ WakeFails \/ ActionClears
    BY <1>2, <2>1 DEF StopKill, StopClears, SwitchClears, StartReuse, Woken, WakeFails, ActionClears
  <2>2. CASE StartReplace \/ Spawn \/ SpawnFails
    BY <1>1, <2>2 DEF StartReplace, Spawn, SpawnFails, Inner
  <2>3. QED
    BY <1>8, <2>1, <2>2 DEF LifeStep
<1>9. ASSUME NEW r \in Requests, NEW reply \in Replies, Decide(r, reply)
      PROVE  inner'.session = inner.session
  BY <1>9 DEF Decide
<1>10. CASE DecisionStep
  BY <1>10 DEF DecisionStep, DecisionRelayed, DecisionDone, DecisionFails
<1>11. QED
  BY <1>3, <1>4, <1>5, <1>6, <1>7, <1>8, <1>9, <1>10 DEF Next

\* A step that selects nothing, decides nothing, grants nothing and starts no
\* switch leaves the relation alone.
LEMMA SwitchingStays ==
    ASSUME IInv, Next, Switching, ~Select,
           approvals' \subseteq approvals,
           dec' = dec \/ dec'.at = "idle" \/ (dec'.at # "idle" /\ dec.at # "idle" /\ dec'.req = dec.req),
           \/ life'.at = life.at /\ life'.session = life.session
           \/ /\ life'.at = "select" => life'.session = inner.session
              /\ life.at = "start" => dec.at = "idle"
    PROVE  Switching'
<1>1. dec.at # "idle" => dec.req \in Requests /\ ask'[dec.req].session = ask[dec.req].session
  BY SessionStays DEF IInv, Known
<1>2. (dec.at # "idle" => ask[dec.req].session = inner.session \/ life.at = "start")'
  BY <1>1, OnlySelectSelects DEF Switching
<1>3. QED
  BY <1>2, OnlySelectSelects DEF Switching

LEMMA SwitchingKept ==
    ASSUME IInv, Next, Switching
    PROVE  Switching'
<1>1. inner \in Inner /\ dec \in Dec /\ life \in Life
  BY DEF IInv, TypeOK
<1>2. dec.at # "idle" => start = "dec"
  BY DEF IInv, Locked
<1>3. ASSUME NEW r \in Requests, Asks(r), ~Select PROVE Switching'
  BY <1>3, SwitchingStays DEF Asks
<1>4. CASE (Crash \/ PromptEnds) /\ ~Select
  BY <1>4, SwitchingStays DEF Crash, PromptEnds
<1>5. ASSUME NEW p \in Procs, TaskStep(p) \/ InsertAborted(p) \/ StreamLost(p), ~Select
      PROVE  Switching'
  <2>2. approvals' \subseteq approvals
    BY <1>5 DEF TaskStep, ObserveAsked, ObserveReplied, RecordAsked, Insert, AutoReply,
       StreamCleanup, TaskSync, Cleared, InsertAborted, StreamLost
  <2>3. UNCHANGED <<dec, life>>
    BY <1>5 DEF TaskStep, ObserveAsked, ObserveReplied, RecordAsked, Insert, AutoReply,
       StreamCleanup, TaskSync, InsertAborted, StreamLost
  <2>4. QED
    BY <1>5, <2>2, <2>3, SwitchingStays
<1>6. CASE (Poll \/ Stop \/ Reap) /\ ~Select
  <2>2. /\ approvals' \subseteq approvals /\ dec' = dec
        /\ life' = life \/ (life'.at # "select" /\ life.at = "idle")
    BY <1>1, <1>6 DEF Poll, Stop, Reap, IdleLife, Life
  <2>3. QED
    BY <1>6, <2>2, SwitchingStays
<1>7. ASSUME NEW s \in Sessions, Wake(s) \/ SessionAction(s), ~Select PROVE Switching'
  <2>2. /\ approvals' = approvals /\ dec' = dec /\ life.at = "idle"
        /\ life'.at = "select" => life'.session = inner.session
    BY <1>1, <1>7 DEF Wake, SessionAction
  <2>3. QED
    BY <1>7, <2>2, SwitchingStays
<1>8. CASE Select
  <2>1. inner'.session = life.session /\ life'.at = "start"
    BY <1>1, <1>8 DEF Select, Inner, Life
  <2>2. QED
    BY <2>1 DEF Switching
<1>9. CASE SwitchClears
  <2>1. approvals' = {} /\ UNCHANGED <<ask, dec, inner>> /\ life.at # "start"
    BY <1>9 DEF SwitchClears, rows
  <2>2. QED
    BY <2>1 DEF Switching
<1>10. CASE /\ \/ StopKill \/ StopClears \/ StartReuse \/ StartReplace \/ Spawn
               \/ SpawnFails \/ Woken \/ WakeFails \/ ActionClears
            /\ ~Select
  <2>2. approvals' \subseteq approvals /\ dec' = dec
    BY <1>10 DEF StopKill, StopClears, StartReuse, StartReplace, Spawn, SpawnFails, Woken,
       WakeFails, ActionClears
  <2>3. life'.at # "select"
    <3>1. CASE StopKill \/ StopClears \/ StartReuse \/ StartReplace \/ Spawn
      BY <1>1, <3>1 DEF StopKill, StopClears, StartReuse, StartReplace, Spawn, Life, IdleLife
    <3>2. CASE SpawnFails \/ WakeFails
      BY <1>1, <3>2 DEF SpawnFails, WakeFails, Life
    <3>3. CASE Woken \/ ActionClears
      BY <3>3 DEF Woken, ActionClears, IdleLife
    <3>4. QED
      BY <1>10, <3>1, <3>2, <3>3
  <2>4. life.at = "start" => start = "free"
    BY <1>10 DEF StopKill, StopClears, StartReuse, StartReplace, Spawn, SpawnFails, Woken,
       WakeFails, ActionClears
  <2>5. QED
    BY <1>2, <1>10, <2>2, <2>3, <2>4, SwitchingStays
<1>11. ASSUME NEW r \in Requests, NEW reply \in Replies, Decide(r, reply) PROVE Switching'
  <2>1. /\ dec'.req = r /\ ask'[r].session = inner'.session
        /\ UNCHANGED <<inner, approvals, life>>
    BY <1>11 DEF Decide, Decidable, rows
  <2>2. QED
    BY <2>1 DEF Switching
<1>12. CASE (DecisionRelayed \/ DecisionFails) /\ ~Select
  <2>1. /\ UNCHANGED <<inner, approvals, life>>
        /\ dec'.at = "idle" \/ (dec'.at # "idle" /\ dec.at # "idle" /\ dec'.req = dec.req)
    BY <1>1, <1>12 DEF DecisionRelayed, DecisionFails, IdleDec, Dec
  <2>2. QED
    BY <1>12, <2>1, SwitchingStays
<1>13. CASE DecisionDone
  <2>1. /\ UNCHANGED <<inner, life>> /\ dec'.at = "idle" /\ dec.at # "idle"
        /\ approvals' \subseteq approvals \cup {Grant(dec.req)}
    BY <1>13 DEF DecisionDone, IdleDec
  <2>2. life.at = "select" => Grant(dec.req)[1] = inner.session
    BY <2>1 DEF Switching, Grant
  <2>3. QED
    BY <2>1, <2>2 DEF Switching
<1>14. QED
  BY <1>3, <1>4, <1>5, <1>6, <1>7, <1>8, <1>9, <1>10, <1>11, <1>12, <1>13
  DEF Next, LifeStep, DecisionStep

\* The session a wake selects in the place of another has no grant from an
\* earlier time, for any number of sessions, requests and processes.
THEOREM SwitchesDropGrants == Spec => SwitchDropsGrants
<1>1. Init => Switching
  BY DEF Init, Switching, IdleDec, IdleLife
<1>2. IInv /\ Switching /\ [Next]_vars => Switching'
  <2>1. CASE Next
    BY <2>1, SwitchingKept
  <2>2. CASE UNCHANGED vars
    BY <2>2 DEF vars, Switching
  <2>3. QED
    BY <2>1, <2>2
<1>3. ASSUME IInv, Switching, Next, inner'.session # inner.session
      PROVE  \A g \in approvals : g[1] # inner'.session
  <2>1. inner \in Inner
    BY <1>3 DEF IInv, TypeOK
  <2>2. Select
    BY <1>3, OnlySelectSelects
  <2>3. QED
    BY <1>3, <2>1, <2>2 DEF Select, Inner, Switching
<1>4. QED
  BY <1>1, <1>2, <1>3, InvariantHolds, PTL DEF Spec, SwitchDropsGrants
=============================================================================
