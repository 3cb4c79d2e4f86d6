---------------------------- MODULE ServicesProofs ----------------------------
(***************************************************************************)
(* Safety of the parts that Services puts beside each other.  A property   *)
(* of one part is about that part's variables alone: it is proved of the   *)
(* part's next-state relation, and Separation carries it to Spec.          *)
(***************************************************************************)
EXTENDS Services, DecoderProofs, FiniteSetTheorems, TLAPS

\* A step of the whole is a step of each part, or leaves it as it is.
LEMMA Separation ==
    ASSUME [Next]_vars
    PROVE  /\ [TerminalNext]_terminalVars /\ [LogNext]_logVars
           /\ [ActionNext]_actionVars /\ [ToolNext]_toolVars
           /\ [LoginNext]_loginVars /\ [ProjectNext]_projectVars
           /\ [TelemetryNext]_telemetryVars /\ [DecoderNext]_decoderVars
BY DEF Next, vars

----------------------------------------------------------------------------
(* RecordedAction. *)

\* What the handler was told, and what it writes, was so.
ActionIInv ==
    /\ RecordMatchesWork
    /\ At("none") => work = "none"
    /\ At("asked") => work = "none"
    /\ At("record") => outcome # "none"
    /\ outcome = "success" => work = "done"

LEMMA ActionStep ==
    ASSUME ActionIInv, [ActionNext]_actionVars
    PROVE  ActionIInv'
<1> USE DEF ActionIInv, RecordMatchesWork, At, GoTo, Told
<1>1. CASE Request
  BY <1>1 DEF Request
<1>2. CASE QuestionFound
  BY <1>2 DEF QuestionFound
<1>3. CASE QuestionRefused
  BY <1>3 DEF QuestionRefused
<1>4. CASE WorkEnds
  BY <1>4 DEF WorkEnds
<1>5. CASE WorkAnswered
  BY <1>5 DEF WorkAnswered
<1>6. CASE WorkUnanswered
  BY <1>6 DEF WorkUnanswered, NoAnswer
<1>7. CASE Record
  BY <1>7 DEF Record
<1>8. CASE RecordLost
  BY <1>8 DEF RecordLost
<1>9. CASE HandlerDropped
  BY <1>9 DEF HandlerDropped
<1>10. CASE UNCHANGED actionVars
  BY <1>10 DEF actionVars
<1>11. QED
  BY <1>1, <1>2, <1>3, <1>4, <1>5, <1>6, <1>7, <1>8, <1>9, <1>10 DEF ActionNext

\* An answered action was recorded, or its record was attempted and failed; and
\* the log claims no success of what was not done, whatever fails, answers late
\* or is dropped.
THEOREM ActionsAreRecorded == Spec => []RecordMatchesWork
<1>1. Init => ActionIInv
  BY DEF Init, ActionInit, ActionIInv, RecordMatchesWork, At
<1>2. ActionIInv /\ [Next]_vars => ActionIInv'
  BY Separation, ActionStep
<1>3. ActionIInv => RecordMatchesWork
  BY DEF ActionIInv
<1>4. QED
  BY <1>1, <1>2, <1>3, PTL DEF Spec

----------------------------------------------------------------------------
(* ToolAudit. *)

\* A call is seen once it is recorded, or the stream ends with it.
ToolIInv ==
    /\ ToolTypeOK
    /\ at # <<>> => stream /\ recorded[at[2]] > 0
    /\ stream => \A c \in seen : recorded[c] > 0
    /\ \A c \in relayed : recorded[c] > 0
    /\ \A c \in Calls : timeline[c] <= 1

LEMMA ToolInitial == Init => ToolIInv
BY ToolAssumption DEF Init, ToolInit, ToolIInv, ToolTypeOK

LEMMA ToolPreserved ==
    ASSUME ToolIInv, [ToolNext]_toolVars
    PROVE  ToolIInv'
<1> USE ToolAssumption DEF ToolIInv, ToolTypeOK, counters
<1>1. ASSUME NEW c \in Calls, Tool(c) PROVE ToolIInv'
  BY <1>1 DEF Tool, Steps
<1>2. ASSUME NEW c \in Calls, ToolUnrecorded(c) PROVE ToolIInv'
  <2>1. /\ stream' = FALSE /\ at' = <<>> /\ c \notin seen /\ seen' = seen \cup {c}
        /\ UNCHANGED <<recorded, timeline, relayed, counters>>
    BY <1>2 DEF ToolUnrecorded, Broken, Closed
  <2>2. ToolTypeOK'
    BY <2>1
  <2>3. QED
    BY <2>1, <2>2
<1>3. ASSUME NEW c \in Calls, Observe(c) PROVE ToolIInv'
  BY <1>3 DEF Observe, Known, Steps
<1>4. ASSUME NEW c \in Calls, Relay(c) PROVE ToolIInv'
  BY <1>4 DEF Relay
<1>5. CASE Unobserved
  BY <1>5 DEF Unobserved, Closed
<1>6. CASE Forget
  BY <1>6 DEF Forget
<1>7. CASE NextStream
  BY <1>7 DEF NextStream
<1>8. CASE StreamEnds
  BY <1>8 DEF StreamEnds, Closed
<1>9. CASE UNCHANGED toolVars
  BY <1>9 DEF toolVars
<1>10. QED
  BY <1>1, <1>2, <1>3, <1>4, <1>5, <1>6, <1>7, <1>8, <1>9 DEF ToolNext

\* No completion reaches an operator before it is in the log, and the timeline
\* repeats none, for any number of calls and streams and any size of `seen`.
THEOREM RelaysAreRecorded == Spec => []RelayedIsRecorded
<1>1. ToolIInv /\ [Next]_vars => ToolIInv'
  BY Separation, ToolPreserved
<1>2. ToolIInv => RelayedIsRecorded
  BY ToolAssumption DEF ToolIInv, ToolTypeOK, RelayedIsRecorded
<1>3. QED
  BY ToolInitial, <1>1, <1>2, PTL DEF Spec

\* Both together: nobody is told of an action or shown a completion that the audit
\* log does not have, unless the record of the action was attempted and failed.
THEOREM ReportsRecorded == Spec => []ReportsAreRecorded
<1>1. RecordMatchesWork /\ RelayedIsRecorded => ReportsAreRecorded
  BY DEF ReportsAreRecorded
<1>2. QED
  BY <1>1, ActionsAreRecorded, RelaysAreRecorded, PTL

----------------------------------------------------------------------------
(* TelemetryConfig. *)

\* How far the configure that is under way has come.
Written(o) ==
    LET c == configure[o].to IN
    /\ configure[o].at = "mode" => settings.interval = c.interval
    /\ configure[o].at = "interval" => settings = c
    /\ configure[o].at = "flag" => settings = c /\ current.interval = Effective(c).interval
    /\ configure[o].at = "publish" => settings = c /\ current = Effective(c)

\* Since the last configure began alone, no other one is under way.
TelemetryIInv ==
    /\ TelemetryTypeOK
    /\ undisturbed =>
          /\ \A o, q \in Operators :
                configure[o].at # "none" /\ configure[q].at # "none" => o = q
          /\ \A o \in Operators : Written(o)
          /\ Quiet => current = Effective(settings)

\* The interval in force is one of a view.
LEMMA EffectiveType ==
    ASSUME NEW c \in Configs
    PROVE  /\ Effective(c) \in Views
           /\ Effective(c).slow = c.slow
           /\ Effective(c) = [interval |-> Effective(c).interval, slow |-> c.slow]
BY DEF Effective, Configs, Views

LEMMA DefaultType ==
    Default \in Configs /\ Default \in Views /\ Effective(Default) = Default
BY TelemetryAssumption DEF Default, Configs, Views, Effective

LEMMA TelemetryInitial == Init => TelemetryIInv
BY DefaultType DEF Init, TelemetryInit, TelemetryIInv, TelemetryTypeOK, Idle, Quiet, Written

\* A configure alone takes its next step.
LEMMA AloneStep ==
    ASSUME TelemetryIInv, TelemetryTypeOK', NEW o \in Operators,
           configure[o].at # "none", undisturbed' => undisturbed,
           \A q \in Operators \ {o} : configure'[q] = configure[q],
           undisturbed /\ Written(o) => Written(o)' /\ configure'[o].at # "none"
    PROVE  TelemetryIInv'
<1> SUFFICES ASSUME undisturbed'
             PROVE  /\ \A p, q \in Operators :
                          configure'[p].at # "none" /\ configure'[q].at # "none" => p = q
                    /\ \A q \in Operators : Written(q)'
                    /\ Quiet' => current' = Effective(settings)'
  BY DEF TelemetryIInv, TelemetryTypeOK
<1>1. \A q \in Operators \ {o} : configure'[q].at = "none"
  BY DEF TelemetryIInv
<1>2. Written(o)' /\ configure'[o].at # "none"
  BY DEF TelemetryIInv
<1>3. \A q \in Operators : Written(q)'
  BY <1>1, <1>2 DEF Written
<1>4. ~Quiet'
  BY <1>2 DEF Quiet
<1>5. QED
  BY <1>1, <1>3, <1>4

LEMMA TelemetryPreserved ==
    ASSUME TelemetryIInv, [TelemetryNext]_telemetryVars
    PROVE  TelemetryIInv'
<1>0. TelemetryTypeOK
  BY DEF TelemetryIInv
<1>1. ASSUME NEW o \in Operators, NEW c \in Wanted, Ask(o, c) PROVE TelemetryIInv'
  <2>1. c \in Configs
    BY TelemetryAssumption DEF Configs
  <2>2. /\ configure' = [configure EXCEPT ![o] = [at |-> "profile", to |-> c]]
        /\ UNCHANGED <<settings, current, latest, collector>>
    BY <1>1 DEF Ask
  <2>3. undisturbed' \in BOOLEAN /\ (undisturbed' => Quiet)
    BY <1>1 DEF Ask, Quiet
  <2>4. TelemetryTypeOK'
    BY <1>0, <2>1, <2>2, <2>3 DEF TelemetryTypeOK
  <2>5. undisturbed' => \A q \in Operators \ {o} : configure'[q].at = "none"
    BY <1>0, <2>2, <2>3 DEF TelemetryTypeOK, Quiet
  <2>6. configure'[o].at = "profile" /\ configure'[o].to = c
    BY <1>0, <2>2 DEF TelemetryTypeOK
  <2>7. Written(o)'
    BY <2>6 DEF Written
  <2>8. undisturbed' => \A q \in Operators : Written(q)'
    BY <2>5, <2>7 DEF Written
  <2>9. ~Quiet'
    BY <2>6 DEF Quiet
  <2>10. QED
    BY <2>4, <2>5, <2>8, <2>9 DEF TelemetryIInv
<1>2. ASSUME NEW o \in Operators, SetProfile(o) PROVE TelemetryIInv'
  <2>1. TelemetryTypeOK'
    BY <1>0, <1>2 DEF SetProfile, Step, TelemetryTypeOK, Configs
  <2>2. configure'[o].at = "mode" /\ settings'.interval = configure'[o].to.interval
    BY <1>0, <1>2 DEF SetProfile, Step, TelemetryTypeOK, Configs
  <2>3. Written(o)'
    BY <2>2 DEF Written
  <2>4. \A q \in Operators \ {o} : configure'[q] = configure[q]
    BY <1>0, <1>2 DEF SetProfile, Step, TelemetryTypeOK
  <2>5. configure[o].at # "none" /\ undisturbed' = undisturbed
    BY <1>2 DEF SetProfile, Step
  <2>6. QED
    BY <2>1, <2>2, <2>3, <2>4, <2>5, AloneStep
<1>3. ASSUME NEW o \in Operators, SetMode(o) PROVE TelemetryIInv'
  <2>1. TelemetryTypeOK'
    BY <1>0, <1>3 DEF SetMode, Step, TelemetryTypeOK, Configs
  <2>2. configure'[o].at = "interval" /\ (Written(o) => settings' = configure'[o].to)
    BY <1>0, <1>3 DEF SetMode, Step, TelemetryTypeOK, Configs, Written
  <2>3. Written(o) => Written(o)'
    BY <2>2 DEF Written
  <2>4. \A q \in Operators \ {o} : configure'[q] = configure[q]
    BY <1>0, <1>3 DEF SetMode, Step, TelemetryTypeOK
  <2>5. configure[o].at # "none" /\ undisturbed' = undisturbed
    BY <1>3 DEF SetMode, Step
  <2>6. QED
    BY <2>1, <2>2, <2>3, <2>4, <2>5, AloneStep
<1>4. ASSUME NEW o \in Operators, StoreInterval(o) PROVE TelemetryIInv'
  <2>0. configure[o].to \in Configs
    BY <1>0 DEF TelemetryTypeOK
  <2>1. TelemetryTypeOK'
    <3>1. Effective(configure[o].to).interval \in Intervals \cup {Slow}
      BY <2>0, EffectiveType DEF Views
    <3>2. QED
      BY <1>0, <1>4, <3>1 DEF StoreInterval, Step, TelemetryTypeOK, Views
  <2>2. /\ configure'[o].at = "flag" /\ configure'[o].to = configure[o].to
        /\ settings' = settings /\ configure[o].at = "interval"
        /\ current'.interval = Effective(configure[o].to).interval
    BY <1>0, <1>4 DEF StoreInterval, Step, TelemetryTypeOK, Views
  <2>3. Written(o) => Written(o)'
    BY <2>2 DEF Written
  <2>4. \A q \in Operators \ {o} : configure'[q] = configure[q]
    BY <1>0, <1>4 DEF StoreInterval, Step, TelemetryTypeOK
  <2>5. configure[o].at # "none" /\ undisturbed' = undisturbed
    BY <1>4 DEF StoreInterval, Step
  <2>6. QED
    BY <2>1, <2>2, <2>3, <2>4, <2>5, AloneStep
<1>5. ASSUME NEW o \in Operators, StoreFlag(o) PROVE TelemetryIInv'
  <2>0. configure[o].to \in Configs
    BY <1>0 DEF TelemetryTypeOK
  <2>1. TelemetryTypeOK'
    BY <1>0, <1>5, <2>0 DEF StoreFlag, Step, TelemetryTypeOK, Views, Configs
  <2>2. /\ configure'[o].at = "publish" /\ configure'[o].to = configure[o].to
        /\ settings' = settings /\ configure[o].at = "flag"
        /\ current' = [interval |-> current.interval, slow |-> configure[o].to.slow]
    BY <1>0, <1>5 DEF StoreFlag, Step, TelemetryTypeOK, Views
  <2>3. Written(o) => current' = Effective(configure[o].to)
    BY <2>0, <2>2, EffectiveType DEF Written
  <2>4. Written(o) => Written(o)'
    BY <2>2, <2>3 DEF Written
  <2>5. \A q \in Operators \ {o} : configure'[q] = configure[q]
    BY <1>0, <1>5 DEF StoreFlag, Step, TelemetryTypeOK
  <2>6. configure[o].at # "none" /\ undisturbed' = undisturbed
    BY <1>5 DEF StoreFlag, Step
  <2>7. QED
    BY <2>1, <2>2, <2>4, <2>5, <2>6, AloneStep
<1>6. ASSUME NEW o \in Operators, Publish(o) PROVE TelemetryIInv'
  <2>0. configure[o].to \in Configs
    BY <1>0 DEF TelemetryTypeOK
  <2>1. TelemetryTypeOK'
    BY <1>0, <1>6, <2>0, EffectiveType, DefaultType DEF Publish, TelemetryTypeOK, Idle
  <2>2. /\ configure[o].at = "publish" /\ configure'[o].at = "none"
        /\ \A q \in Operators \ {o} : configure'[q] = configure[q]
        /\ UNCHANGED <<settings, current, undisturbed>>
    BY <1>0, <1>6 DEF Publish, TelemetryTypeOK, Idle
  <2>3. undisturbed => /\ \A q \in Operators : configure'[q].at = "none"
                       /\ current = Effective(settings)
    BY <2>2 DEF TelemetryIInv, Written
  <2>4. undisturbed => \A q \in Operators : Written(q)'
    BY <2>3 DEF Written
  <2>5. QED
    BY <2>1, <2>2, <2>3, <2>4 DEF TelemetryIInv, Effective
<1>7. ASSUME NEW o \in Operators, CutShort(o) PROVE TelemetryIInv'
  <2>1. TelemetryTypeOK'
    BY <1>0, <1>7, DefaultType DEF CutShort, Idle, TelemetryTypeOK
  <2>2. /\ configure'[o].at = "none" /\ UNCHANGED <<settings, current>>
        /\ \A q \in Operators \ {o} : configure'[q] = configure[q]
        /\ undisturbed' => undisturbed /\ configure[o].at = "publish"
    BY <1>0, <1>7 DEF CutShort, TelemetryTypeOK, Idle
  <2>3. undisturbed' => /\ \A q \in Operators : configure'[q].at = "none"
                        /\ current = Effective(settings)
    BY <2>2 DEF TelemetryIInv, Written
  <2>4. undisturbed' => \A q \in Operators : Written(q)'
    BY <2>3 DEF Written
  <2>5. QED
    BY <2>1, <2>2, <2>3, <2>4 DEF TelemetryIInv, Effective
<1>8. CASE Load \/ Build \/ BuildFails \/ Overwrite
  <2>1. UNCHANGED <<settings, current, configure, undisturbed>>
    BY <1>8 DEF Load, Build, BuildFails, Overwrite
  <2>2. TelemetryTypeOK'
    BY <1>0, <1>8 DEF Load, Loaded, Build, BuildFails, Overwrite, TelemetryTypeOK, Views
  <2>3. QED
    BY <2>1, <2>2 DEF TelemetryIInv, Quiet, Written, Effective
<1>9. CASE Start
  <2>1. settings \in Configs /\ Effective(settings) \in Views
    BY <1>0, EffectiveType DEF TelemetryTypeOK
  <2>2. /\ \A q \in Operators : configure'[q].at = "none"
        /\ settings' = settings /\ current' = Effective(settings)
    BY <1>9 DEF Start, AtStart, Idle
  <2>3. TelemetryTypeOK'
    BY <1>9, <2>1, DefaultType DEF Start, AtStart, Idle, TelemetryTypeOK
  <2>4. \A q \in Operators : Written(q)'
    BY <2>2 DEF Written
  <2>5. QED
    BY <2>2, <2>3, <2>4 DEF TelemetryIInv, Effective
<1>10. CASE UNCHANGED telemetryVars
  BY <1>0, <1>10 DEF telemetryVars, Quiet, Written, Effective, TelemetryIInv, TelemetryTypeOK
<1>11. QED
  BY <1>1, <1>2, <1>3, <1>4, <1>5, <1>6, <1>7, <1>8, <1>9, <1>10 DEF TelemetryNext

\* What is in force after a configure that ran alone and whole, or after a
\* restart, is what a restart restores, whatever came before it and wherever the
\* process is killed.  After a configure that met another one, or was cut short
\* between its writes, nothing is claimed until the next that does neither.
THEOREM ConfigurationsAreDurable == Spec => []ConfigIsDurable
<1>1. TelemetryIInv /\ [Next]_vars => TelemetryIInv'
  BY Separation, TelemetryPreserved
<1>2. TelemetryIInv => ConfigIsDurable
  BY DEF TelemetryIInv, ConfigIsDurable
<1>3. QED
  BY TelemetryInitial, <1>1, <1>2, PTL DEF Spec

----------------------------------------------------------------------------
(* ProjectRegistry. *)

\* A handler whose write for project i was done, and is not settled yet.
Owes(h, action, i) ==
    /\ request[h].at \in {"record", "compensate"} /\ request[h].ok
    /\ request[h].action = action /\ request[h].id = i

Owed(action, i) == \E h \in Handlers : Owes(h, action, i)

\* Ids are new when they are given out.
ProjectBounds ==
    /\ row <= issued
    /\ \A h \in Handlers : request[h].id <= issued
    /\ \A e \in events : e[2] <= issued
    /\ \A h \in Handlers :
          /\ request[h].at = "compensate" => request[h].ok
          /\ request[h].at = "found" => request[h].action = "unregister"
          /\ request[h].at \in {"found", "record", "compensate"} => request[h].id # NoRow

\* One handler at most has written for a project and not settled it, of each
\* kind; a removal leaves no row and no event of its own until it is settled, a
\* registration no event; and a removal on record left no row.
ProjectOwners ==
    \A i \in Ids :
        /\ \A g, h \in Handlers : \A action \in Actions :
              Owes(g, action, i) /\ Owes(h, action, i) => g = h
        /\ Owed("unregister", i) => row # i /\ <<"unregister", i>> \notin events
        /\ Owed("register", i) => <<"register", i>> \notin events
        /\ <<"unregister", i>> \in events => row # i

\* Who answers for a row, or for its absence.
ProjectAnswers ==
    \A i \in Ids :
        /\ row = i \/ Owed("unregister", i) =>
              <<"register", i>> \in events \/ Owed("register", i) \/ i \in lapsed
        /\ <<"register", i>> \in events \/ Owed("register", i) =>
              \/ row = i
              \/ <<"unregister", i>> \in events \/ Owed("unregister", i) \/ i \in lapsed

ProjectIInv == ProjectTypeOK /\ ProjectBounds /\ ProjectOwners /\ ProjectAnswers

LEMMA ProjectInitial == Init => ProjectIInv
BY ProjectAssumption
DEF Init, ProjectInit, ProjectIInv, ProjectTypeOK, ProjectBounds, ProjectOwners, ProjectAnswers,
    Owed, Owes, NoRequest, NoRow, Actions, Ids

\* What a step of handler h does to who owes what.
LEMMA OthersOwe ==
    ASSUME ProjectTypeOK, NEW h \in Handlers, NEW r, Put(h, r)
    PROVE  /\ request'[h] = r
           /\ \A g \in Handlers \ {h} : request'[g] = request[g]
           /\ \A g \in Handlers \ {h} : \A action, i :
                 Owes(g, action, i)' <=> Owes(g, action, i)
           /\ \A action, i :
                 Owes(h, action, i)' <=> /\ r.at \in {"record", "compensate"} /\ r.ok
                                         /\ r.action = action /\ r.id = i
BY DEF ProjectTypeOK, Put, Owes

LEMMA ProjectTyped ==
    ASSUME ProjectTypeOK, ProjectBounds, [ProjectNext]_projectVars
    PROVE  ProjectTypeOK' /\ ProjectBounds'
<1> USE ProjectAssumption DEF ProjectTypeOK, ProjectBounds, Put, Ids, NoRow
<1>1. ASSUME NEW h \in Handlers, Register(h) PROVE ProjectTypeOK' /\ ProjectBounds'
  <2>1. PICK ok \in {FALSE, row = NoRow} :
           /\ row' = IF ok THEN issued' ELSE row
           /\ Put(h, [at |-> "record", action |-> "register", id |-> issued', ok |-> ok])
    BY <1>1 DEF Register
  <2>2. ok \in BOOLEAN /\ issued' = issued + 1 /\ issued' \in 1 .. MaxId
        /\ UNCHANGED <<events, lapsed>>
    <3>1. ok \in BOOLEAN
      BY <2>1
    <3>2. issued < MaxId /\ issued' = issued + 1 /\ UNCHANGED <<events, lapsed>>
      BY <1>1 DEF Register
    <3>3. QED
      BY <3>1, <3>2
  <2>3. row' \in 0 .. MaxId /\ row' <= issued'
    <3>1. CASE ok
      BY <2>1, <2>2, <3>1
    <3>2. CASE ~ok
      BY <2>1, <2>2, <3>2
    <3>3. QED
      BY <2>2, <3>1, <3>2
  <2>4. request' = [request EXCEPT ![h] =
           [at |-> "record", action |-> "register", id |-> issued', ok |-> ok]]
    BY <2>1
  <2>5. ProjectTypeOK'
    BY <2>2, <2>3, <2>4 DEF Actions
  <2>6. QED
    BY <2>2, <2>3, <2>4, <2>5
<1>2. ASSUME NEW h \in Handlers, Find(h) PROVE ProjectTypeOK' /\ ProjectBounds'
  BY <1>2 DEF Find, Actions
<1>3. ASSUME NEW h \in Handlers, Unregister(h) PROVE ProjectTypeOK' /\ ProjectBounds'
  <2>1. PICK ok \in {FALSE, row = request[h].id} :
           /\ row' = IF ok THEN NoRow ELSE row
           /\ Put(h, [request[h] EXCEPT !.at = "record", !.ok = ok])
    BY <1>3 DEF Unregister
  <2>2. ok \in BOOLEAN /\ UNCHANGED <<issued, events, lapsed>> /\ request[h].at = "found"
    BY <1>3, <2>1 DEF Unregister
  <2>3. row' = row \/ row' = NoRow
    BY <2>1
  <2>4. row' \in 0 .. MaxId /\ row' <= issued'
    BY <2>2, <2>3
  <2>5. request' = [request EXCEPT ![h] = [request[h] EXCEPT !.at = "record", !.ok = ok]]
    BY <2>1
  <2>6. QED
    BY <2>2, <2>4, <2>5 DEF Actions
<1>4. ASSUME NEW h \in Handlers, RecordDone(h) PROVE ProjectTypeOK' /\ ProjectBounds'
  <2>1. request[h].id \in Ids /\ request[h].action \in Actions /\ request[h].id <= issued
    BY <1>4 DEF RecordDone
  <2>2. events' \subseteq events \cup {<<request[h].action, request[h].id>>}
    BY <1>4 DEF RecordDone
  <2>3. events' \subseteq (Actions \X Ids) /\ \A e \in events' : e[2] <= issued
    BY <2>1, <2>2
  <2>4. QED
    BY <1>4, <2>3 DEF RecordDone, NoRequest, Actions
<1>5. ASSUME NEW h \in Handlers, RecordFailed(h) PROVE ProjectTypeOK' /\ ProjectBounds'
  BY <1>5 DEF RecordFailed, AfterUnrecorded, NoRequest, Actions
<1>6. ASSUME NEW h \in Handlers, Compensate(h) PROVE ProjectTypeOK' /\ ProjectBounds'
  BY <1>6 DEF Compensate, NoRequest, Actions
<1>7. ASSUME NEW h \in Handlers, Lapse(h) PROVE ProjectTypeOK' /\ ProjectBounds'
  BY <1>7 DEF Lapse, NoRequest, Actions
<1>8. CASE UNCHANGED projectVars
  BY <1>8 DEF projectVars
<1>9. QED
  BY <1>1, <1>2, <1>3, <1>4, <1>5, <1>6, <1>7, <1>8 DEF ProjectNext

\* A handler that owes nothing after a step which touches no row, no event and
\* nothing that lapsed.
LEMMA ProjectIdle ==
    ASSUME ProjectIInv, ProjectTypeOK', ProjectBounds',
           NEW h \in Handlers, NEW r, Put(h, r),
           UNCHANGED <<row, events, lapsed>>,
           \A action, i : Owes(h, action, i)' <=> Owes(h, action, i)
    PROVE  ProjectIInv'
<1>1. \A action, i : \A g \in Handlers : Owes(g, action, i)' <=> Owes(g, action, i)
  BY OthersOwe DEF ProjectIInv
<1>2. \A action, i : Owed(action, i)' <=> Owed(action, i)
  BY <1>1 DEF Owed
<1>3. ProjectOwners'
  BY <1>1, <1>2 DEF ProjectIInv, ProjectOwners
<1>4. ProjectAnswers'
  BY <1>2 DEF ProjectIInv, ProjectAnswers
<1>5. QED
  BY <1>3, <1>4 DEF ProjectIInv

\* A handler is through: it owes nothing, and it alone owed what it did.
LEMMA ProjectThrough ==
    ASSUME ProjectIInv, NEW h \in Handlers, Put(h, NoRequest)
    PROVE  /\ \A action \in Actions, i \in Ids :
                 /\ Owed(action, i)' => Owed(action, i) /\ ~Owes(h, action, i)
                 /\ Owed(action, i) => Owed(action, i)' \/ Owes(h, action, i)
           /\ \A i \in Ids : \A g, k \in Handlers : \A action \in Actions :
                 Owes(g, action, i)' /\ Owes(k, action, i)' => g = k
<1>1. \A action, i : ~Owes(h, action, i)'
  BY OthersOwe DEF ProjectIInv, NoRequest
<1>2. \A g \in Handlers \ {h} : \A action, i : Owes(g, action, i)' <=> Owes(g, action, i)
  BY OthersOwe DEF ProjectIInv
<1>3. ASSUME NEW action \in Actions, NEW i \in Ids, Owed(action, i)'
      PROVE  Owed(action, i) /\ ~Owes(h, action, i)
  <2>1. PICK g \in Handlers : Owes(g, action, i)'
    BY <1>3 DEF Owed
  <2>2. g # h /\ Owes(g, action, i)
    BY <1>1, <1>2, <2>1
  <2>3. QED
    BY <2>2 DEF Owed, ProjectIInv, ProjectOwners
<1>4. ASSUME NEW action \in Actions, NEW i \in Ids, Owed(action, i), ~Owes(h, action, i)
      PROVE  Owed(action, i)'
  BY <1>2, <1>4 DEF Owed
<1>5. ASSUME NEW i \in Ids, NEW g \in Handlers, NEW k \in Handlers, NEW action \in Actions,
             Owes(g, action, i)', Owes(k, action, i)'
      PROVE  g = k
  <2>1. Owes(g, action, i) /\ Owes(k, action, i)
    BY <1>1, <1>2, <1>5
  <2>2. QED
    BY <2>1 DEF ProjectIInv, ProjectOwners
<1>6. QED
  BY <1>3, <1>4, <1>5

\* It leaves the row alone, and what it owed is on record or lapsed.
LEMMA ProjectSettles ==
    ASSUME ProjectIInv, ProjectTypeOK', ProjectBounds',
           NEW h \in Handlers, Put(h, NoRequest), row' = row,
           lapsed \subseteq lapsed', events \subseteq events',
           \A action \in Actions, i \in Ids :
              /\ <<action, i>> \in events' => <<action, i>> \in events \/ Owes(h, action, i)
              /\ Owes(h, action, i) => <<action, i>> \in events' \/ i \in lapsed'
    PROVE  ProjectIInv'
<1>0. "register" \in Actions /\ "unregister" \in Actions
  BY DEF Actions
<1>1. ASSUME NEW i \in Ids
      PROVE  /\ Owed("unregister", i)' => row' # i /\ <<"unregister", i>> \notin events'
             /\ Owed("register", i)' => <<"register", i>> \notin events'
             /\ <<"unregister", i>> \in events' => row' # i
  <2>1. Owes(h, "unregister", i) => Owed("unregister", i)
    BY DEF Owed
  <2>2. QED
    BY <1>0, <1>1, <2>1, ProjectThrough DEF ProjectIInv, ProjectOwners
<1>2. ProjectOwners'
  BY <1>1, ProjectThrough DEF ProjectOwners
<1>3. ASSUME NEW i \in Ids, row' = i \/ Owed("unregister", i)'
      PROVE  <<"register", i>> \in events' \/ Owed("register", i)' \/ i \in lapsed'
  <2>1. <<"register", i>> \in events \/ Owed("register", i) \/ i \in lapsed
    BY <1>0, <1>3, ProjectThrough DEF ProjectIInv, ProjectAnswers
  <2>2. QED
    BY <1>0, <2>1, ProjectThrough
<1>4. ASSUME NEW i \in Ids, <<"register", i>> \in events' \/ Owed("register", i)'
      PROVE  row' = i \/ <<"unregister", i>> \in events' \/ Owed("unregister", i)' \/ i \in lapsed'
  <2>1. <<"register", i>> \in events \/ Owed("register", i)
    <3>1. Owes(h, "register", i) => Owed("register", i)
      BY DEF Owed
    <3>2. QED
      BY <1>0, <1>4, <3>1, ProjectThrough
  <2>2. row = i \/ <<"unregister", i>> \in events \/ Owed("unregister", i) \/ i \in lapsed
    BY <2>1 DEF ProjectIInv, ProjectAnswers
  <2>3. QED
    BY <1>0, <2>2, ProjectThrough
<1>5. ProjectAnswers'
  BY <1>3, <1>4 DEF ProjectAnswers
<1>6. QED
  BY <1>2, <1>5 DEF ProjectIInv

\* Compensation of a registration finds its row, or what it did has lapsed.
LEMMA ProjectPreserved ==
    ASSUME ProjectIInv, [ProjectNext]_projectVars
    PROVE  ProjectIInv'
<1>0. ProjectTypeOK' /\ ProjectBounds' /\ ProjectTypeOK /\ ProjectBounds
  BY ProjectTyped DEF ProjectIInv
<1>1. ASSUME NEW h \in Handlers, Register(h) PROVE ProjectIInv'
  <2>1. PICK ok \in {FALSE, row = NoRow} :
           /\ row' = IF ok THEN issued' ELSE row
           /\ Put(h, [at |-> "record", action |-> "register", id |-> issued', ok |-> ok])
    BY <1>1 DEF Register
  <2>2. ok \in BOOLEAN /\ (ok => row = NoRow /\ row' = issued') /\ (~ok => row' = row)
    BY <2>1
  <2>3. issued' = issued + 1 /\ UNCHANGED <<events, lapsed>> /\ request[h].at = "none"
    BY <1>1 DEF Register
  <2>4. \A action, i : /\ ~Owes(h, action, i)
                       /\ Owes(h, action, i)' <=> ok /\ action = "register" /\ i = issued'
    BY <1>0, <2>1, <2>3, OthersOwe DEF Owes
  <2>5. \A g \in Handlers \ {h} : \A action, i : Owes(g, action, i)' <=> Owes(g, action, i)
    BY <1>0, <2>1, OthersOwe
  <2>6. /\ row # issued' /\ \A action : <<action, issued'>> \notin events
        /\ \A g \in Handlers : \A action : ~Owes(g, action, issued')
    BY <1>0, <2>3 DEF ProjectTypeOK, ProjectBounds, Owes
  <2>7. /\ \A i : Owed("unregister", i)' <=> Owed("unregister", i)
        /\ \A i : Owed("register", i)' <=> Owed("register", i) \/ (ok /\ i = issued')
    BY <2>4, <2>5 DEF Owed
  <2>8. ProjectOwners'
    <3> SUFFICES ASSUME NEW i \in Ids
                 PROVE  /\ \A g, k \in Handlers : \A action \in Actions :
                              Owes(g, action, i)' /\ Owes(k, action, i)' => g = k
                        /\ Owed("unregister", i)' =>
                              row' # i /\ <<"unregister", i>> \notin events'
                        /\ Owed("register", i)' => <<"register", i>> \notin events'
                        /\ <<"unregister", i>> \in events' => row' # i
      BY DEF ProjectOwners
    <3>1. CASE ok /\ i = issued'
      BY <3>1, <2>2, <2>3, <2>4, <2>5, <2>6, <2>7 DEF Owed
    <3>2. CASE ~(ok /\ i = issued')
      BY <3>2, <2>2, <2>3, <2>4, <2>5, <2>7 DEF ProjectIInv, ProjectOwners, NoRow, Ids
    <3>3. QED
      BY <3>1, <3>2
  <2>9. ProjectAnswers'
    <3> SUFFICES ASSUME NEW i \in Ids
                 PROVE  /\ row' = i \/ Owed("unregister", i)' =>
                              \/ <<"register", i>> \in events' \/ Owed("register", i)'
                              \/ i \in lapsed'
                        /\ <<"register", i>> \in events' \/ Owed("register", i)' =>
                              \/ row' = i
                              \/ <<"unregister", i>> \in events' \/ Owed("unregister", i)'
                              \/ i \in lapsed'
      BY DEF ProjectAnswers
    <3>1. CASE ok /\ i = issued'
      BY <3>1, <2>2, <2>6, <2>7
    <3>2. CASE ~(ok /\ i = issued')
      BY <3>2, <2>2, <2>3, <2>7 DEF ProjectIInv, ProjectAnswers, NoRow, Ids
    <3>3. QED
      BY <3>1, <3>2
  <2>10. QED
    BY <1>0, <2>8, <2>9 DEF ProjectIInv
<1>2. ASSUME NEW h \in Handlers, Find(h) PROVE ProjectIInv'
  <2>1. /\ Put(h, [at |-> "found", action |-> "unregister", id |-> row, ok |-> FALSE])
        /\ request[h].at = "none" /\ UNCHANGED <<row, events, lapsed>>
    BY <1>2 DEF Find
  <2>2. \A action, i : Owes(h, action, i)' <=> Owes(h, action, i)
    BY <1>0, <2>1, OthersOwe DEF Owes
  <2>3. QED
    BY <1>0, <2>1, <2>2, ProjectIdle
<1>3. ASSUME NEW h \in Handlers, Unregister(h) PROVE ProjectIInv'
  <2> DEFINE j == request[h].id
  <2>1. PICK ok \in {FALSE, row = j} :
           /\ row' = IF ok THEN NoRow ELSE row
           /\ Put(h, [request[h] EXCEPT !.at = "record", !.ok = ok])
    BY <1>3 DEF Unregister
  <2>2. ok \in BOOLEAN /\ (ok => row = j /\ row' = NoRow) /\ (~ok => row' = row)
    BY <2>1
  <2>3. UNCHANGED <<events, lapsed>> /\ request[h].at = "found"
    BY <1>3 DEF Unregister
  <2>4. request[h].action = "unregister" /\ j \in Ids
    BY <1>0, <2>3 DEF ProjectBounds, ProjectTypeOK, NoRow, Ids
  <2>5. \A action, i : /\ ~Owes(h, action, i)
                       /\ Owes(h, action, i)' <=> ok /\ action = "unregister" /\ i = j
    <3>1. request'[h] = [request[h] EXCEPT !.at = "record", !.ok = ok]
      BY <1>0, <2>1, OthersOwe
    <3>2. /\ request'[h].at = "record" /\ request'[h].ok = ok
          /\ request'[h].action = "unregister" /\ request'[h].id = j
      BY <1>0, <2>4, <3>1 DEF ProjectTypeOK
    <3>3. QED
      BY <2>2, <2>3, <3>2 DEF Owes
  <2>6. \A g \in Handlers \ {h} : \A action, i : Owes(g, action, i)' <=> Owes(g, action, i)
    BY <1>0, <2>1, OthersOwe
  <2>7. /\ \A i : Owed("register", i)' <=> Owed("register", i)
        /\ \A i : Owed("unregister", i)' <=> Owed("unregister", i) \/ (ok /\ i = j)
    BY <2>5, <2>6 DEF Owed
  <2>8. ok => ~Owed("unregister", j)
    BY <2>2, <2>4 DEF ProjectIInv, ProjectOwners
  <2>9. ProjectOwners'
    <3> SUFFICES ASSUME NEW i \in Ids
                 PROVE  /\ \A g, k \in Handlers : \A action \in Actions :
                              Owes(g, action, i)' /\ Owes(k, action, i)' => g = k
                        /\ Owed("unregister", i)' =>
                              row' # i /\ <<"unregister", i>> \notin events'
                        /\ Owed("register", i)' => <<"register", i>> \notin events'
                        /\ <<"unregister", i>> \in events' => row' # i
      BY DEF ProjectOwners
    <3>1. \A g, k \in Handlers : \A action \in Actions :
             Owes(g, action, i)' /\ Owes(k, action, i)' => g = k
      <4> SUFFICES ASSUME NEW g \in Handlers, NEW k \in Handlers, NEW action \in Actions,
                          Owes(g, action, i)', Owes(k, action, i)', g # k
                   PROVE  FALSE
        OBVIOUS
      <4>1. CASE g # h /\ k # h
        <5>1. Owes(g, action, i) /\ Owes(k, action, i)
          BY <4>1, <2>6
        <5>2. QED
          BY <5>1 DEF ProjectIInv, ProjectOwners
      <4>2. CASE g = h
        <5>1. ok /\ action = "unregister" /\ i = j
          BY <4>2, <2>5
        <5>2. Owes(k, action, i)
          BY <4>2, <2>6
        <5>3. QED
          BY <5>1, <5>2, <2>8 DEF Owed
      <4>3. CASE k = h
        <5>1. ok /\ action = "unregister" /\ i = j
          BY <4>3, <2>5
        <5>2. Owes(g, action, i)
          BY <4>3, <2>6
        <5>3. QED
          BY <5>1, <5>2, <2>8 DEF Owed
      <4>4. QED
        BY <4>1, <4>2, <4>3
    <3>2. /\ Owed("unregister", i)' => row' # i /\ <<"unregister", i>> \notin events'
          /\ <<"unregister", i>> \in events' => row' # i
      <4>1. i # NoRow
        BY DEF NoRow, Ids
      <4>2. QED
        BY <4>1, <2>2, <2>3, <2>7 DEF ProjectIInv, ProjectOwners
    <3>3. Owed("register", i)' => <<"register", i>> \notin events'
      BY <2>3, <2>7 DEF ProjectIInv, ProjectOwners
    <3>4. QED
      BY <3>1, <3>2, <3>3
  <2>10. ProjectAnswers'
    <3>1. NoRow \notin Ids
      BY DEF NoRow, Ids
    <3>2. \A i \in Ids : row' = i \/ Owed("unregister", i)' => row = i \/ Owed("unregister", i)
      BY <3>1, <2>2, <2>7
    <3>3. \A i \in Ids : row = i \/ Owed("unregister", i) => row' = i \/ Owed("unregister", i)'
      BY <2>2, <2>7
    <3>4. QED
      BY <3>2, <3>3, <2>3, <2>7 DEF ProjectIInv, ProjectAnswers
  <2>11. QED
    BY <1>0, <2>9, <2>10 DEF ProjectIInv
<1>4. ASSUME NEW h \in Handlers, RecordDone(h) PROVE ProjectIInv'
  <2>1. /\ Put(h, NoRequest) /\ row' = row /\ lapsed' = lapsed /\ request[h].at = "record"
        /\ events' = IF request[h].ok THEN events \cup {<<request[h].action, request[h].id>>}
                     ELSE events
    BY <1>4 DEF RecordDone
  <2>2. \A action \in Actions, i \in Ids :
           /\ <<action, i>> \in events' => <<action, i>> \in events \/ Owes(h, action, i)
           /\ Owes(h, action, i) => <<action, i>> \in events' \/ i \in lapsed'
    BY <2>1 DEF Owes
  <2>3. QED
    BY <1>0, <2>1, <2>2, ProjectSettles
<1>5. ASSUME NEW h \in Handlers, RecordFailed(h) PROVE ProjectIInv'
  <2>1. /\ Put(h, AfterUnrecorded(request[h])) /\ request[h].at = "record"
        /\ UNCHANGED <<row, events, lapsed>>
    BY <1>5 DEF RecordFailed
  <2>2. CASE request[h].ok
    <3>1. AfterUnrecorded(request[h]) = [request[h] EXCEPT !.at = "compensate"]
      BY <2>2 DEF AfterUnrecorded
    <3>2. request'[h] = [request[h] EXCEPT !.at = "compensate"]
      BY <1>0, <2>1, <3>1, OthersOwe
    <3>3. /\ request'[h].at = "compensate" /\ request'[h].ok = request[h].ok
          /\ request'[h].action = request[h].action /\ request'[h].id = request[h].id
      BY <1>0, <3>2 DEF ProjectTypeOK
    <3>4. \A action, i : Owes(h, action, i)' <=> Owes(h, action, i)
      BY <2>1, <2>2, <3>3 DEF Owes
    <3>5. QED
      BY <1>0, <2>1, <3>4, ProjectIdle
  <2>3. CASE ~request[h].ok
    <3>1. Put(h, NoRequest)
      BY <2>1, <2>3 DEF AfterUnrecorded
    <3>2. \A action, i : ~Owes(h, action, i)
      BY <2>3 DEF Owes
    <3>3. QED
      BY <1>0, <2>1, <3>1, <3>2, ProjectSettles
  <2>4. QED
    BY <2>2, <2>3
<1>6. ASSUME NEW h \in Handlers, Compensate(h) PROVE ProjectIInv'
  <2>0. PICK j \in Ids : j = request[h].id
    BY <1>0, <1>6 DEF Compensate, ProjectBounds, ProjectTypeOK, NoRow, Ids
  <2>1. /\ Put(h, NoRequest) /\ events' = events /\ request[h].at = "compensate"
        /\ row' = IF request[h].action = "register" THEN (IF row = j THEN NoRow ELSE row)
                  ELSE IF row = NoRow THEN j ELSE row
        /\ lapsed' = IF row = (IF request[h].action = "register" THEN j ELSE NoRow)
                     THEN lapsed ELSE lapsed \cup {j}
    BY <1>6, <2>0 DEF Compensate
  <2>2. j \in Ids /\ request[h].ok /\ request[h].action \in Actions
    BY <1>0, <2>1 DEF ProjectBounds, ProjectTypeOK, NoRow, Ids
  <2>3. Owes(h, request[h].action, j)
    BY <2>0, <2>1, <2>2 DEF Owes
  <2>4. \A action, i : Owes(h, action, i) => action = request[h].action /\ i = j
    BY <2>0 DEF Owes
  <2>5. NoRow \notin Ids /\ "register" \in Actions /\ "unregister" \in Actions
    BY DEF NoRow, Ids, Actions
  <2>10. Put(h, NoRequest)
    BY <2>1
  <2>11. /\ \A action \in Actions, i \in Ids :
               /\ Owed(action, i)' => Owed(action, i) /\ ~Owes(h, action, i)
               /\ Owed(action, i) => Owed(action, i)' \/ Owes(h, action, i)
         /\ \A i \in Ids : \A g, k \in Handlers : \A action \in Actions :
               Owes(g, action, i)' /\ Owes(k, action, i)' => g = k
    BY <2>10, ProjectThrough
  <2>6. CASE request[h].action = "register" /\ row = j
    <3>1. row' = NoRow /\ lapsed' = lapsed
      BY <2>1, <2>6
    <3>2. Owed("register", j) /\ ~Owed("register", j)' /\ ~Owed("unregister", j)
      <4>1. Owed("register", j)
        BY <2>3, <2>6 DEF Owed
      <4>2. ~Owed("register", j)'
        BY <2>2, <2>3, <2>5, <2>6, <2>11
      <4>3. ~Owed("unregister", j)
        BY <2>2, <2>6 DEF ProjectIInv, ProjectOwners
      <4>4. QED
        BY <4>1, <4>2, <4>3
    <3>3. \A i \in Ids : /\ Owed("unregister", i)' <=> Owed("unregister", i)
                         /\ Owed("register", i)' <=> Owed("register", i) /\ i # j
      <4> TAKE i \in Ids
      <4>1. ~Owes(h, "unregister", i) /\ (i # j => ~Owes(h, "register", i))
        BY <2>4, <2>6
      <4>2. QED
        BY <2>5, <3>2, <4>1, <2>11
    <3>4. <<"register", j>> \notin events
      BY <2>2, <3>2 DEF ProjectIInv, ProjectOwners
    <3>5. ProjectOwners'
      BY <2>1, <2>5, <3>1, <3>3, <2>11 DEF ProjectIInv, ProjectOwners
    <3>6. ProjectAnswers'
      BY <2>1, <2>5, <2>6, <3>1, <3>2, <3>3, <3>4 DEF ProjectIInv, ProjectAnswers
    <3>7. QED
      BY <1>0, <3>5, <3>6 DEF ProjectIInv
  <2>7. CASE request[h].action = "unregister" /\ row = NoRow
    <3>1. row' = j /\ lapsed' = lapsed
      BY <2>1, <2>7
    <3>2. Owed("unregister", j) /\ ~Owed("unregister", j)'
      <4>1. Owed("unregister", j)
        BY <2>3, <2>7 DEF Owed
      <4>2. ~Owed("unregister", j)'
        BY <2>2, <2>3, <2>5, <2>7, <2>11
      <4>3. QED
        BY <4>1, <4>2
    <3>3. \A i \in Ids : /\ Owed("register", i)' <=> Owed("register", i)
                         /\ Owed("unregister", i)' <=> Owed("unregister", i) /\ i # j
      <4> TAKE i \in Ids
      <4>1. ~Owes(h, "register", i) /\ (i # j => ~Owes(h, "unregister", i))
        BY <2>4, <2>7
      <4>2. QED
        BY <2>5, <3>2, <4>1, <2>11
    <3>4. ProjectOwners'
      <4>1. <<"unregister", j>> \notin events
        BY <3>2 DEF ProjectIInv, ProjectOwners
      <4>2. QED
        BY <2>1, <2>5, <2>7, <3>1, <3>3, <2>11, <4>1 DEF ProjectIInv, ProjectOwners
    <3>5. ProjectAnswers'
      BY <2>1, <2>5, <2>7, <3>1, <3>2, <3>3 DEF ProjectIInv, ProjectAnswers
    <3>6. QED
      BY <1>0, <3>4, <3>5 DEF ProjectIInv
  <2>8. CASE row # (IF request[h].action = "register" THEN j ELSE NoRow)
    <3>1. row' = row /\ lapsed' = lapsed \cup {j}
      BY <2>1, <2>8
    <3>2. QED
      BY <1>0, <2>1, <2>4, <3>1, ProjectSettles
  <2>9. QED
    BY <2>2, <2>6, <2>7, <2>8 DEF Actions
<1>7. ASSUME NEW h \in Handlers, Lapse(h) PROVE ProjectIInv'
  <2>1. /\ Put(h, NoRequest) /\ row' = row /\ events' = events
        /\ lapsed' = IF request[h].ok THEN lapsed \cup {request[h].id} ELSE lapsed
    BY <1>7 DEF Lapse
  <2>2. \A action, i : Owes(h, action, i) => i \in lapsed'
    BY <2>1 DEF Owes
  <2>3. QED
    BY <1>0, <2>1, <2>2, ProjectSettles
<1>8. CASE UNCHANGED projectVars
  BY <1>8 DEF projectVars, ProjectIInv, ProjectTypeOK, ProjectBounds, ProjectOwners,
              ProjectAnswers, Owed, Owes
<1>9. QED
  BY <1>1, <1>2, <1>3, <1>4, <1>5, <1>6, <1>7, <1>8 DEF ProjectNext

\* The registry and its log agree, for any number of handlers at once on one
\* directory, up to compensations that failed or were overtaken and handlers
\* dropped after their first write; and a removal on record is final.
THEOREM RegistriesMatchLog == Spec => []RegistryMatchesLog
<1>1. ProjectIInv /\ [Next]_vars => ProjectIInv'
  BY Separation, ProjectPreserved
<1>2. ASSUME ProjectIInv PROVE RegistryMatchesLog
  <2>1. \A action, i : Owed(action, i) => Busy(i)
    BY DEF Owed, Owes, Busy
  <2>2. row # NoRow => row \in Ids
    BY <1>2 DEF ProjectIInv, ProjectTypeOK, NoRow, Ids
  <2>3. QED
    BY <1>2, <2>1, <2>2 DEF ProjectIInv, ProjectOwners, ProjectAnswers, RegistryMatchesLog
<1>3. QED
  BY ProjectInitial, <1>1, <1>2, PTL DEF Spec

----------------------------------------------------------------------------
(* TerminalSession. *)

\* What the place of the handler says of the shell, the permit and the records.
TerminalPlaces ==
    /\ permit <=> session \notin {"none", "done"}
    /\ session = "done" => shell \in {"none", "dying", "reaped"}
    /\ shell = "dying" => session \in {"join", "close", "done"}
    /\ session \in {"none", "spawn"} =>
          shell = "none" /\ writer = "none" /\ opened = "none"
    /\ session \in {"status", "relay", "input", "output", "exit", "join", "close"} =>
          opened = "success"
    /\ writer # "none" => opened = "success"
    /\ tty.in > 0 \/ inputs.n > 0 => opened = "success"
    /\ session \in {"join", "close"} => shell \in {"dying", "reaped"}
    /\ session = "done" /\ opened = "success" => closed # "none"
    /\ closed # "none" =>
          opened = "success" /\ session = "done" /\ shell \in {"dying", "reaped"}

TerminalIInv == TerminalTypeOK /\ TerminalPlaces

LEMMA TerminalInitial == Init => TerminalIInv
<1> SUFFICES ASSUME Init PROVE TerminalIInv
  OBVIOUS
<1>1. outputs = [items |-> <<>>, open |-> FALSE] /\ 0 \in 0 .. TtyLimit /\ 0 \in 0 .. QueueLimit
  BY TerminalAssumption DEF Init, TerminalInit
<1>2. <<>> \in Seq({"data", "error"}) /\ Len(<<>>) = 0 /\ 0 <= QueueLimit
  BY TerminalAssumption
<1>3. outputs \in [items : Seq({"data", "error"}), open : BOOLEAN] /\ Len(outputs.items) <= QueueLimit
  BY <1>1, <1>2
<1>4. TerminalTypeOK
  BY <1>1, <1>3 DEF Init, TerminalInit, TerminalTypeOK, Reasons
<1>5. TerminalPlaces
  BY DEF Init, TerminalInit, TerminalPlaces, Alive
<1>6. QED
  BY <1>4, <1>5 DEF TerminalIInv

\* A queue that has room takes one more message.
LEMMA SentTyped ==
    ASSUME TerminalTypeOK, NEW item \in {"data", "error"}, Sent(item)
    PROVE  outputs' \in [items : Seq({"data", "error"}), open : BOOLEAN]
           /\ Len(outputs'.items) <= QueueLimit
<1>1. outputs.items \in Seq({"data", "error"}) /\ outputs.open \in BOOLEAN
      /\ outputs = [items |-> outputs.items, open |-> outputs.open]
      /\ Len(outputs.items) <= QueueLimit
  BY DEF TerminalTypeOK
<1>2. CASE outputs' = outputs
  BY <1>1, <1>2
<1>3. CASE /\ Len(outputs.items) < QueueLimit
           /\ outputs' = [outputs EXCEPT !.items = Append(@, item)]
  <2>1. outputs' = [items |-> Append(outputs.items, item), open |-> outputs.open]
    BY <1>1, <1>3
  <2>2. Append(outputs.items, item) \in Seq({"data", "error"})
        /\ Len(Append(outputs.items, item)) = Len(outputs.items) + 1
    BY <1>1
  <2>3. Len(outputs.items) \in Nat /\ QueueLimit \in Nat
    BY <1>1, TerminalAssumption
  <2>4. Len(Append(outputs.items, item)) <= QueueLimit
    BY <1>3, <2>2, <2>3
  <2>5. QED
    BY <1>1, <2>1, <2>2, <2>4
<1>4. QED
  BY <1>2, <1>3 DEF Sent

\* The steps of the client, the shell and the kernel.
LEMMA ShellSteps ==
    ASSUME TerminalIInv,
           ClientLeaves \/ ShellReads \/ ShellPrints \/ ShellWrites \/ ShellExits \/ JobEnds
              \/ KillEnds
    PROVE  TerminalIInv'
<1> USE TerminalAssumption DEF TerminalIInv, TerminalTypeOK, TerminalPlaces, Alive,
    queues, threads, records
<1>1. CASE ClientLeaves
  BY <1>1 DEF ClientLeaves
<1>2. CASE ShellReads
  BY <1>2 DEF ShellReads
<1>3. CASE ShellPrints
  BY <1>3 DEF ShellPrints
<1>4. CASE ShellWrites
  BY <1>4 DEF ShellWrites
<1>5. CASE ShellExits
  <2>1. tty' \in [in : 0 .. TtyLimit, out : 0 .. TtyLimit, held : BOOLEAN] /\ tty'.in = tty.in
    BY <1>5 DEF ShellExits
  <2>2. /\ shell \in {"idle", "busy"} /\ shell' = "exited"
        /\ UNCHANGED <<session, reason, client, permit, queues, threads, records>>
    BY <1>5 DEF ShellExits
  <2>3. QED
    BY <2>1, <2>2
<1>6. CASE JobEnds
  <2>1. tty' \in [in : 0 .. TtyLimit, out : 0 .. TtyLimit, held : BOOLEAN] /\ tty'.in = tty.in
    BY <1>6 DEF JobEnds
  <2>2. UNCHANGED <<session, reason, client, permit, shell, queues, threads, records>>
    BY <1>6 DEF JobEnds
  <2>3. QED
    BY <2>1, <2>2
<1>7. CASE KillEnds
  BY <1>7 DEF KillEnds
<1>8. QED
  BY <1>1, <1>2, <1>3, <1>4, <1>5, <1>6, <1>7

LEMMA SpawnFailedTypes ==
    ASSUME TerminalTypeOK, SpawnFailed
    PROVE  TerminalTypeOK'
<1>1. /\ session' = "done" /\ permit' = FALSE
      /\ UNCHANGED <<reason, client, shell, tty, inputs, outputs, reader, writer, closed>>
  BY DEF SpawnFailed, Done, queues, threads
<1>2. opened' \in {"none", "success", "failure"}
  BY DEF SpawnFailed
<1>3. /\ session' \in {"none", "spawn", "record", "status", "relay", "input", "output",
                      "exit", "cleanup", "join", "close", "done"}
      /\ permit' \in BOOLEAN
  BY <1>1
<1>4. UNCHANGED <<reason, client, shell, tty, inputs, outputs, reader, writer, closed>>
  BY <1>1
<1>5. QED
  BY <1>2, <1>3, <1>4 DEF TerminalTypeOK

LEMMA OpeningSteps ==
    ASSUME TerminalIInv,
           Accept \/ SpawnFailed \/ Spawned \/ OpenRecorded \/ OpenUnrecorded
              \/ StatusSent \/ StatusUnsent
    PROVE  TerminalIInv'
<1> USE TerminalAssumption DEF TerminalIInv, TerminalTypeOK, TerminalPlaces, Alive,
    queues, threads, records, Reasons
<1>1. CASE Accept
  BY <1>1 DEF Accept
<1>2. CASE SpawnFailed
  <2>1. /\ session = "spawn" /\ session' = "done" /\ permit' = FALSE
        /\ opened' \in {"failure", "none"}
        /\ UNCHANGED <<reason, client, shell, tty, queues, threads, closed>>
    BY <1>2 DEF SpawnFailed, Done
  <2>2. TerminalTypeOK'
    BY <1>2, SpawnFailedTypes
  <2>3. closed = "none" /\ ~(tty.in > 0 \/ inputs.n > 0) /\ shell = "none" /\ writer = "none"
    BY <2>1
  <2>4. TerminalPlaces'
    BY <2>1, <2>3
  <2>5. QED
    BY <2>2, <2>4
<1>3. CASE Spawned
  BY <1>3 DEF Spawned
<1>4. CASE OpenRecorded
  BY <1>4 DEF OpenRecorded
<1>5. CASE OpenUnrecorded
  BY <1>5 DEF OpenUnrecorded
<1>6. CASE StatusSent
  BY <1>6 DEF StatusSent
<1>7. CASE StatusUnsent
  BY <1>7 DEF StatusUnsent
<1>8. QED
  BY <1>1, <1>2, <1>3, <1>4, <1>5, <1>6, <1>7

LEMMA RelaySteps ==
    ASSUME TerminalIInv,
           Receive \/ InputSent \/ InputTimeout \/ TakeOutput \/ OutputEnded
              \/ OutputSent \/ OutputTimeout \/ TickExited \/ TickTimeout
    PROVE  TerminalIInv'
<1> USE TerminalAssumption DEF TerminalIInv, TerminalTypeOK, TerminalPlaces, Alive,
    queues, threads, records, Reasons, End
<1>1. CASE Receive
  BY <1>1 DEF Receive
<1>2. CASE InputSent
  BY <1>2 DEF InputSent
<1>3. CASE InputTimeout
  BY <1>3 DEF InputTimeout
<1>4. CASE TakeOutput
  <2>1. /\ outputs.items \in Seq({"data", "error"}) /\ outputs.items # <<>>
        /\ outputs' = [items |-> Tail(outputs.items), open |-> outputs.open]
        /\ outputs.open \in BOOLEAN /\ Len(outputs.items) <= QueueLimit
    BY <1>4 DEF TakeOutput
  <2>2. Tail(outputs.items) \in Seq({"data", "error"})
        /\ Len(Tail(outputs.items)) = Len(outputs.items) - 1
        /\ Len(outputs.items) \in Nat /\ QueueLimit \in Nat
    BY <2>1
  <2>3. Len(Tail(outputs.items)) <= QueueLimit
    BY <2>1, <2>2
  <2>4. outputs' \in [items : Seq({"data", "error"}), open : BOOLEAN]
        /\ Len(outputs'.items) <= QueueLimit
    BY <2>1, <2>2, <2>3
  <2>5. /\ session = "relay" /\ session' \in {"output", "exit"} /\ reason' \in Reasons
        /\ UNCHANGED <<client, permit, shell, tty, inputs, threads, records>>
    BY <1>4 DEF TakeOutput
  <2>6. QED
    BY <2>4, <2>5
<1>5. CASE OutputEnded
  BY <1>5 DEF OutputEnded
<1>6. CASE OutputSent
  BY <1>6 DEF OutputSent
<1>7. CASE OutputTimeout
  BY <1>7 DEF OutputTimeout
<1>8. CASE TickExited
  BY <1>8 DEF TickExited
<1>9. CASE TickTimeout
  BY <1>9 DEF TickTimeout
<1>10. QED
  BY <1>1, <1>2, <1>3, <1>4, <1>5, <1>6, <1>7, <1>8, <1>9

LEMMA ClosingSteps ==
    ASSUME TerminalIInv, Exit \/ Cleanup \/ CleanupTimeout \/ Join \/ Close
    PROVE  TerminalIInv'
<1> USE TerminalAssumption DEF TerminalIInv, TerminalTypeOK, TerminalPlaces, Alive,
    queues, threads, records, Reasons
<1>1. CASE Exit
  <2>1. outputs' \in [items : Seq({"data", "error"}), open : BOOLEAN]
        /\ outputs'.items = <<>>
    <3>1. outputs' = [[outputs EXCEPT !.items = <<>>] EXCEPT !.open = FALSE]
      BY <1>1 DEF Exit, Disconnected
    <3>2. outputs' = [items |-> <<>>, open |-> FALSE]
      BY <3>1
    <3>3. QED
      BY <3>2
  <2>2. Len(outputs'.items) <= QueueLimit
    BY <2>1
  <2>3. inputs' \in [n : 0 .. QueueLimit, open : BOOLEAN] /\ inputs'.n = inputs.n
    BY <1>1 DEF Exit
  <2>4. /\ session = "exit" /\ session' = "cleanup"
        /\ UNCHANGED <<reason, client, permit, shell, tty, threads, records>>
    BY <1>1 DEF Exit
  <2>5. QED
    BY <2>1, <2>2, <2>3, <2>4
<1>2. CASE Cleanup \/ CleanupTimeout
  <2>1. /\ session = "cleanup" /\ shell' \in {"reaped", "dying"}
        /\ UNCHANGED <<reason, client, tty, queues, threads, records>>
        /\ AfterCleanup
    BY <1>2 DEF Cleanup, CleanupTimeout
  <2>2. CASE opened # "success"
    <3>1. session' = "done" /\ permit' = FALSE
      BY <2>1, <2>2 DEF AfterCleanup, Done
    <3>2. TerminalTypeOK'
      <4> HIDE DEF TerminalPlaces, Alive
      <4>1. session' \in {"done"} /\ permit' \in BOOLEAN
        BY <3>1
      <4>2. QED
        BY <2>1, <4>1
    <3>3. closed = "none" /\ ~(tty.in > 0 \/ inputs.n > 0) /\ writer = "none"
      BY <2>1, <2>2
    <3>4. TerminalPlaces'
      BY <2>1, <2>2, <3>1, <3>3
    <3>5. QED
      BY <3>2, <3>4
  <2>3. CASE opened = "success"
    <3>1. session' \in {"join", "close"} /\ permit' = permit
      BY <2>1, <2>3 DEF AfterCleanup
    <3>2. QED
      BY <2>1, <2>3, <3>1
  <2>4. QED
    BY <2>2, <2>3
<1>3. CASE Join
  BY <1>3 DEF Join
<1>4. CASE Close
  <2>1. /\ session = "close" /\ session' = "done" /\ permit' = FALSE
        /\ closed' \in {"success", "stopped", "failure", "lost"}
        /\ UNCHANGED <<reason, client, shell, tty, queues, threads, opened>>
    BY <1>4 DEF Close, Results, Done
  <2>2. TerminalTypeOK'
    <3> HIDE DEF TerminalPlaces, Alive
    <3>1. session' \in {"done"} /\ permit' \in BOOLEAN
      BY <2>1
    <3>2. QED
      BY <2>1, <3>1
  <2>3. opened = "success" /\ shell \in {"dying", "reaped"}
    BY <2>1
  <2>4. TerminalPlaces'
    BY <2>1, <2>3
  <2>5. QED
    BY <2>2, <2>4
<1>5. QED
  BY <1>1, <1>2, <1>3, <1>4

LEMMA ThreadSteps ==
    ASSUME TerminalIInv, ReaderStep \/ WriterStep
    PROVE  TerminalIInv'
<1> USE TerminalAssumption DEF TerminalIInv, TerminalTypeOK, TerminalPlaces, Alive,
    queues, threads, records
<1>1. CASE ReadData \/ ReadEnds
  <2>1. tty' \in [in : 0 .. TtyLimit, out : 0 .. TtyLimit, held : BOOLEAN] /\ tty'.in = tty.in
    BY <1>1 DEF ReadData, ReadEnds
  <2>2. /\ reader' \in {"none", "read", "send", "fail", "done"}
        /\ UNCHANGED <<session, reason, client, permit, shell, queues, writer, records>>
    BY <1>1 DEF ReadData, ReadEnds
  <2>3. QED
    BY <2>1, <2>2
<1>2. CASE ReaderSends
  BY <1>2, SentTyped DEF ReaderSends
<1>3. CASE ReaderFails
  BY <1>3, SentTyped DEF ReaderFails
<1>4. CASE WriterTakes
  BY <1>4 DEF WriterTakes
<1>5. CASE WriterWrites
  BY <1>5 DEF WriterWrites
<1>6. CASE WriterBreaks
  BY <1>6 DEF WriterBreaks
<1>7. CASE WriterFails
  BY <1>7, SentTyped DEF WriterFails
<1>8. QED
  BY <1>1, <1>2, <1>3, <1>4, <1>5, <1>6, <1>7 DEF ReaderStep, WriterStep

LEMMA TerminalPreserved ==
    ASSUME TerminalIInv, [TerminalNext]_terminalVars
    PROVE  TerminalIInv'
<1>1. CASE UNCHANGED terminalVars
  BY <1>1 DEF terminalVars, TerminalIInv, TerminalTypeOK, TerminalPlaces, Alive,
              queues, threads, records
<1>2. QED
  BY <1>1, ShellSteps, OpeningSteps, RelaySteps, ClosingSteps, ThreadSteps
  DEF TerminalNext, SessionStep

LEMMA TerminalInvariant == Spec => []TerminalIInv
<1>1. TerminalIInv /\ [Next]_vars => TerminalIInv'
  BY Separation, TerminalPreserved
<1>2. QED
  BY TerminalInitial, <1>1, PTL DEF Spec

\* A session keeps its permit from the spawn of its shell until that is gone, or
\* until it returns while a shell that outlived its 3 seconds is still dying.
THEOREM ShellsHavePermits == Spec => []ShellHasPermit
<1>1. TerminalIInv => ShellHasPermit
  BY DEF TerminalIInv, TerminalTypeOK, TerminalPlaces, ShellHasPermit, Alive
<1>2. QED
  BY TerminalInvariant, <1>1, PTL

\* Nothing is typed before the opening is on record; and a session whose opening
\* is on record does not end before it attempted to record its closing, with the
\* shell gone or killed.
THEOREM TerminalsAreBracketed == Spec => []AuditBrackets
<1>1. TerminalIInv => AuditBrackets
  BY DEF TerminalIInv, TerminalPlaces, AuditBrackets
<1>2. QED
  BY TerminalInvariant, <1>1, PTL

----------------------------------------------------------------------------
(* LoginThrottle. *)

\* The logins that were let through, and may still fail.
Passed == {l \in Logins : login[l] \in {"passed", "wrong"}}

\* What is on record together with what may still come.
LoginIInv ==
    /\ LoginTypeOK
    /\ Recent + Cardinality(Passed) < Failures + Cardinality(Logins)

LEMMA LoginCounts ==
    ASSUME LoginTypeOK
    PROVE  /\ IsFiniteSet(Passed) /\ Cardinality(Passed) \in Nat
           /\ IsFiniteSet(RecentRows) /\ Recent \in Nat
           /\ Cardinality(Logins) \in Nat
<1>1. IsFiniteSet(Passed)
  BY LoginAssumption, FS_Subset DEF Passed
<1>2. IsFiniteSet(RecentRows)
  <2>1. DOMAIN failed = 1 .. Len(failed) /\ Len(failed) \in Nat
    BY DEF LoginTypeOK
  <2>2. IsFiniteSet(DOMAIN failed)
    BY <2>1, FS_Interval
  <2> QED  BY <2>2, FS_Subset DEF RecentRows
<1> QED  BY <1>1, <1>2, LoginAssumption, FS_CardinalityType DEF Recent

LEMMA LoginInitial == Init => LoginIInv
<1> SUFFICES ASSUME Init PROVE LoginIInv
  OBVIOUS
<1>1. LoginTypeOK
  BY LoginAssumption DEF Init, LoginInit, LoginTypeOK, Times
<1>2. Passed = {} /\ RecentRows = {}
  BY DEF Init, LoginInit, Passed, RecentRows
<1>3. Cardinality(Logins) \in Nat
  BY <1>1, LoginCounts
<1> QED  BY <1>1, <1>2, <1>3, LoginAssumption, FS_EmptySet DEF LoginIInv, Recent

\* One login moves: it leaves the pending ones, joins them, or neither.
LEMMA LoginMoves ==
    ASSUME LoginIInv, NEW l \in Logins,
           NEW to \in {"none", "passed", "wrong", "right", "recorded"}, Move(l, to)
    PROVE  /\ login' \in [Logins -> {"none", "passed", "wrong", "right", "recorded"}]
           /\ Passed' = IF to \in {"passed", "wrong"} THEN Passed \cup {l} ELSE Passed \ {l}
BY DEF LoginIInv, LoginTypeOK, Move, Passed

LEMMA LoginStep ==
    ASSUME LoginIInv, [LoginNext]_loginVars
    PROVE  LoginIInv'
<1>0. /\ LoginTypeOK /\ Recent \in Nat /\ Cardinality(Passed) \in Nat
      /\ Cardinality(Logins) \in Nat /\ Failures \in Nat /\ Window \in Nat
      /\ IsFiniteSet(Passed) /\ IsFiniteSet(RecentRows)
      /\ Recent + Cardinality(Passed) < Failures + Cardinality(Logins)
  BY LoginCounts, LoginAssumption DEF LoginIInv
<1>1. CASE Time
  <2>1. LoginTypeOK' /\ clock' = clock + 1 /\ clock \in Nat /\ UNCHANGED <<login, failed>>
    BY <1>0, <1>1, LoginAssumption DEF Time, LoginTypeOK, Times
  <2>2. RecentRows' \subseteq RecentRows
    <3>1. failed \in Seq(Times) /\ Times \subseteq Nat
      BY <1>0 DEF LoginTypeOK, Times
    <3>2. \A i \in DOMAIN failed : failed[i] \in Times
      BY <3>1
    <3>3. ASSUME NEW i \in DOMAIN failed, failed[i] + Window > clock + 1
          PROVE  failed[i] + Window > clock
      <4>1. failed[i] \in Nat
        BY <3>1, <3>2
      <4> QED  BY <1>0, <2>1, <3>3, <4>1
    <3> QED  BY <2>1, <3>3 DEF RecentRows
  <2>3. Recent' <= Recent /\ Recent' \in Nat
    BY <1>0, <2>2, FS_Subset, FS_CardinalityType DEF Recent
  <2>4. Passed' = Passed
    BY <2>1 DEF Passed
  <2> QED  BY <1>0, <2>1, <2>3, <2>4 DEF LoginIInv
<1>2. ASSUME NEW l \in Logins, Enter(l) PROVE LoginIInv'
  <2>1. LoginTypeOK' /\ Recent' = Recent /\ Recent < Failures
    BY <1>0, <1>2, LoginMoves DEF Enter, LoginTypeOK, Recent, RecentRows, Open
  <2>2. Passed' \in SUBSET Logins
    BY DEF Passed
  <2>3. Cardinality(Passed') <= Cardinality(Logins) /\ Cardinality(Passed') \in Nat
    BY <2>2, LoginAssumption, FS_Subset, FS_CardinalityType
  <2> QED  BY <1>0, <2>1, <2>3 DEF LoginIInv
<1>3. ASSUME NEW l \in Logins, NEW to \in {"none", "wrong", "right", "recorded"}, Move(l, to),
             to = "wrong" => l \in Passed, UNCHANGED <<clock, failed>>
      PROVE  LoginIInv'
  <2>1. LoginTypeOK' /\ Recent' = Recent
    BY <1>0, <1>3, LoginMoves DEF LoginTypeOK, Recent, RecentRows
  <2>2. Passed' \in SUBSET Passed
    BY <1>3, LoginMoves
  <2>3. Cardinality(Passed') <= Cardinality(Passed) /\ Cardinality(Passed') \in Nat
    BY <1>0, <2>2, FS_Subset, FS_CardinalityType
  <2> QED  BY <1>0, <2>1, <2>3 DEF LoginIInv
<1>4. ASSUME NEW l \in Logins, Fail(l) PROVE LoginIInv'
  <2>1. /\ Move(l, "none") /\ failed' = Append(failed, clock) /\ clock' = clock
        /\ failed \in Seq(Times) /\ clock \in Times /\ login[l] = "wrong"
    BY <1>0, <1>4 DEF Fail, LoginTypeOK
  <2>2. LoginTypeOK'
    BY <2>1, LoginMoves DEF LoginTypeOK
  <2>3. RecentRows' = RecentRows \cup {Len(failed) + 1} /\ Len(failed) + 1 \notin RecentRows
    <3>1. DOMAIN failed = 1 .. Len(failed) /\ Len(failed) \in Nat
          /\ DOMAIN failed' = 1 .. (Len(failed) + 1)
          /\ \A i \in DOMAIN failed : failed'[i] = failed[i]
          /\ failed'[Len(failed) + 1] = clock
      BY <2>1
    <3>2. clock + Window > clock
      BY <2>1, LoginAssumption DEF Times
    <3> QED  BY <2>1, <3>1, <3>2 DEF RecentRows
  <2>4. Recent' = Recent + 1
    BY <1>0, <2>3, FS_AddElement DEF Recent
  <2>5. Passed' = Passed \ {l} /\ l \in Passed
    BY <2>1, LoginMoves DEF Passed
  <2>6. Cardinality(Passed') = Cardinality(Passed) - 1
    BY <1>0, <2>5, FS_RemoveElement
  <2> QED  BY <1>0, <2>2, <2>4, <2>6 DEF LoginIInv
<1>5. CASE UNCHANGED loginVars
  BY <1>5 DEF loginVars, LoginIInv, LoginTypeOK, Passed, Recent, RecentRows
<1>6. ASSUME NEW l \in Logins, Verify(l) \/ Succeed(l) \/ CreateSession(l) \/ Abandon(l)
      PROVE  LoginIInv'
  BY <1>3, <1>6 DEF Verify, Succeed, CreateSession, Abandon, Passed
<1> QED  BY <1>1, <1>2, <1>4, <1>5, <1>6 DEF LoginNext

\* An address fails fewer than 5 times in 900 seconds, and beyond that at most once
\* for each login that was under way when the throttle was last open.
THEOREM LoginFailuresAreBounded == Spec => []FailuresAreBounded
<1>1. LoginIInv /\ [Next]_vars => LoginIInv'
  BY Separation, LoginStep
<1>2. LoginIInv => FailuresAreBounded
  BY LoginCounts, LoginAssumption DEF LoginIInv, FailuresAreBounded
<1> QED  BY <1>1, <1>2, LoginInitial, PTL DEF Spec

----------------------------------------------------------------------------
(* DockerLogDecoder: its proof is that of DecoderProofs. *)

LEMMA DecoderInvariant == Spec => []DecoderIInv
<1>1. Init => DecoderIInv
  BY DecoderInitial DEF Init
<1>2. DecoderIInv /\ [Next]_vars => DecoderIInv'
  BY Separation, DecoderPreserved
<1>3. QED
  BY <1>1, <1>2, PTL DEF Spec

\* However the body of a container's log is cut into chunks, and wherever a
\* chunk ends in a header, in a frame or in a line: the lines returned are
\* those of the body as a whole, none lost, split or returned twice, up to an
\* error; and at a regular end the unfinished line is among them.
THEOREM LinesStayWhole == Spec => []LinesAreWhole
<1>1. DecoderIInv => LinesAreWhole
  BY DecoderTells
<1>2. QED
  BY <1>1, DecoderInvariant, PTL

----------------------------------------------------------------------------
(* The types of all parts. *)

LEMMA LogTyped ==
    ASSUME LogTypeOK, [LogNext]_logVars
    PROVE  LogTypeOK'
<1> USE LogAssumption DEF LogTypeOK, Messages
<1>1. ASSUME NEW m \in Messages, Room PROVE Append(channel, m) \in Seq(Messages)
                                            /\ Len(Append(channel, m)) <= ChannelLimit
  BY <1>1 DEF Room
<1>2. ASSUME channel # <<>> PROVE Tail(channel) \in Seq(Messages) /\ Len(Tail(channel)) <= ChannelLimit
  BY <1>2
<1>3. CASE OpenStream
  BY <1>3 DEF OpenStream
<1>4. CASE SourceWrites \/ SourceEnds \/ StderrFull
  BY <1>4 DEF SourceWrites, SourceEnds, StderrFull
<1>5. CASE Deliver
  BY <1>2, <1>5 DEF Deliver
<1>6. CASE BodyEnds \/ DurationReached \/ ReaderLeaves
  <2>1. <<>> \in Seq(Messages) /\ Len(<<>>) <= ChannelLimit
    OBVIOUS
  <2> QED  BY <1>6, <2>1 DEF BodyEnds, DurationReached, ReaderLeaves, Released
<1>7. CASE PumpCancelled
  BY <1>7 DEF PumpCancelled, Cancel, Finish
<1>8. CASE PumpReads
  BY <1>8 DEF PumpReads
<1>9. CASE PumpSends
  BY <1>1, <1>9 DEF PumpSends, Offer, Cancel, Finish
<1>10. CASE PumpRejects
  BY <1>1, <1>10 DEF PumpRejects, Offer, Cancel, Finish
<1>11. CASE PumpEnds
  BY <1>11 DEF PumpEnds
<1>12. CASE PumpWaited
  BY <1>12 DEF PumpWaited
<1>13. CASE PumpReadStderr
  BY <1>13 DEF PumpReadStderr, Finish
<1>14. CASE PumpReports
  BY <1>1, <1>14 DEF PumpReports, Offer, Finish
<1>15. CASE UNCHANGED logVars
  BY <1>15 DEF logVars
<1>16. QED
  BY <1>3, <1>4, <1>5, <1>6, <1>7, <1>8, <1>9, <1>10, <1>11, <1>12, <1>13, <1>14, <1>15
     DEF LogNext, BodyStep, PumpStep

LEMMA ActionTyped ==
    ASSUME ActionTypeOK, [ActionNext]_actionVars
    PROVE  ActionTypeOK'
<1> USE DEF ActionTypeOK, Kinds, At, GoTo, Told
<1>1. CASE Request
  BY <1>1 DEF Request
<1>2. CASE QuestionFound \/ QuestionRefused
  BY <1>2 DEF QuestionFound, QuestionRefused
<1>3. CASE WorkEnds
  BY <1>3 DEF WorkEnds
<1>4. CASE WorkAnswered \/ WorkUnanswered
  BY <1>4 DEF WorkAnswered, WorkUnanswered, NoAnswer
<1>5. CASE Record \/ RecordLost
  BY <1>5 DEF Record, RecordLost
<1>6. CASE HandlerDropped
  BY <1>6 DEF HandlerDropped
<1>7. CASE UNCHANGED actionVars
  BY <1>7 DEF actionVars
<1>8. QED
  BY <1>1, <1>2, <1>3, <1>4, <1>5, <1>6, <1>7 DEF ActionNext

\* The invariants of the parts, beside each other.
ServicesIInv ==
    /\ part \in Parts
    /\ TerminalIInv /\ LogTypeOK /\ ActionTypeOK /\ ToolIInv
    /\ LoginIInv /\ ProjectIInv /\ TelemetryIInv /\ DecoderIInv

\* Every part keeps to its types, whatever the others do and whichever of them
\* fail: its variables stay within the states their code can tell apart, and
\* no line is put into a full channel of a log stream.
THEOREM ServicesTypes == Spec => []TypeOK
<1>1. Init => ServicesIInv
  <2> SUFFICES ASSUME Init PROVE ServicesIInv
    OBVIOUS
  <2>1. part \in Parts
    BY FollowedAssumption DEF Init
  <2>2. LogTypeOK
    <3>1. ChannelLimit \in Nat /\ <<>> \in Seq(Messages) /\ Len(<<>>) = 0
      BY LogAssumption
    <3>2. channel \in Seq(Messages) /\ Len(channel) <= ChannelLimit
      BY <3>1 DEF Init, LogInit
    <3> QED  BY <3>2 DEF Init, LogInit, LogTypeOK
  <2>3. ActionTypeOK
    BY DEF Init, ActionInit, ActionTypeOK, Kinds
  <2>4. DecoderIInv
    BY DecoderInitial DEF Init
  <2> QED
    BY <2>1, <2>2, <2>3, <2>4, TerminalInitial, ToolInitial, LoginInitial, ProjectInitial,
       TelemetryInitial DEF ServicesIInv
<1>2. ServicesIInv /\ [Next]_vars => ServicesIInv'
  <2> SUFFICES ASSUME ServicesIInv, [Next]_vars PROVE ServicesIInv'
    OBVIOUS
  <2>1. part' \in Parts
    BY DEF ServicesIInv, Next, vars
  <2>2. [TerminalNext]_terminalVars /\ [LogNext]_logVars
        /\ [ActionNext]_actionVars /\ [ToolNext]_toolVars
        /\ [LoginNext]_loginVars /\ [ProjectNext]_projectVars
        /\ [TelemetryNext]_telemetryVars /\ [DecoderNext]_decoderVars
    BY Separation
  <2>3. TerminalIInv /\ LogTypeOK /\ ActionTypeOK /\ ToolIInv
        /\ LoginIInv /\ ProjectIInv /\ TelemetryIInv /\ DecoderIInv
    BY DEF ServicesIInv
  <2>4. TerminalIInv' /\ LogTypeOK' /\ ActionTypeOK' /\ ToolIInv'
    BY <2>2, <2>3, TerminalPreserved, LogTyped, ActionTyped, ToolPreserved
  <2>5. LoginIInv' /\ ProjectIInv' /\ TelemetryIInv' /\ DecoderIInv'
    BY <2>2, <2>3, LoginStep, ProjectPreserved, TelemetryPreserved, DecoderPreserved
  <2> QED  BY <2>1, <2>4, <2>5 DEF ServicesIInv
<1>3. ServicesIInv => TypeOK
  <2>1. DecoderIInv => DecoderTypeOK
    BY DecoderTells
  <2> QED
    BY <2>1 DEF ServicesIInv, TypeOK, TerminalIInv, ToolIInv, LoginIInv, ProjectIInv, TelemetryIInv
<1>4. QED
  BY <1>1, <1>2, <1>3, PTL DEF Spec

================================================================================
