# CarobaGuard: TLA+ models of the server

CarobaGuard is a single-user Rust backend (axum, tokio, SQLite) with a small web
client. It watches one machine, offers terminals, logs and Docker and systemd
views, and runs an OpenCode agent process on behalf of persisted "AI sessions".
This directory holds TLA+ models of the agent manager, which is its core, and of
the services beside it, the TLC configurations that check them, and proofs for
TLAPS. Paths below are those of the repository under
`src/`; line numbers are in `PROJECT.json`, which maps every definition to the
lines it translates.

Files:

| file | what it is |
| --- | --- |
| `AgentProcess.tla` | the process manager, `src/opencode.rs` |
| `AgentLifecycle.tla` | what the process manager promises: the abstract specification it implements |
| `AgentProcessProofs.tla` | TLAPS: type correctness of `AgentProcess` |
| `AgentProcessSafety.tla` | TLAPS: its inductive invariant, first layer, and the theorems on children |
| `AgentProcessControl.tla` | TLAPS: second layer, the control of operations; the refinement of `AgentLifecycle` |
| `AgentProcessRequests.tla` | TLAPS: third layer, the requests in flight; the action properties |
| `SessionManager.tla` | the rows of `ai_sessions` against the runtime, `src/opencode/session_manager.rs` |
| `SessionManagerProofs.tla` | TLAPS: the inductive invariant of `SessionManager` and its safety theorems |
| `Permissions.tla` | permission requests, decisions and grants, `src/opencode.rs` and `session_manager.rs` |
| `PermissionsProofs.tla` | TLAPS: the inductive invariant of `Permissions` and its safety theorems |
| `TerminalSession.tla` | one terminal, `src/terminal.rs` |
| `LogStream.tla`, `DockerLogDecoder.tla` | one log stream, and the decoder of Docker's, `src/logs.rs` |
| `RecordedAction.tla` | an action on a container, a unit or a question, and its record |
| `ToolAudit.tla` | the audit trail of the agent's tool calls, `src/opencode.rs` |
| `LoginThrottle.tla` | logins from one address, `src/auth.rs` |
| `ProjectRegistry.tla` | the registration of one directory, `src/projects.rs` |
| `TelemetryConfig.tla` | the telemetry configuration, `src/telemetry.rs` |
| `Services.tla` | the eight above, side by side |
| `DecoderProofs.tla` | TLAPS: the inductive invariant of `DockerLogDecoder`, and the functions it is built from |
| `ServicesProofs.tla` | TLAPS: types and safety of all of them, carried to `Services` |
| `MC*.tla`, `*.cfg` | the small instances TLC checks |

## 1. Inventory

### OpenCode process manager (`src/opencode.rs`)

*State.* `ProcessState` behind the `inner` mutex: status, active session, child,
connection, project and mode, `active_requests`, `generation`, the abort handle
of the event-stream task. Three more locks: `workspace_lock` (a `try_lock` by
HTTP handlers), `transition_lock` (one lifecycle operation at a time) and
`start_lock` (inside it; also held by a permission decision while it is relayed).

*Operations.* `start`, `stop`, `status`, `request_json`, `chat`, the start
handler, the idle reaper, the audit event stream, `terminate_child`.

*Interactions.* Any HTTP request may take `inner` between two steps of an
operation. Each process has an event-stream task which, when its stream is lost,
takes the process away from whoever uses it (fail closed). `wake`, in the
session manager, drives `start_inner` and `stop_inner`.

*Hard.* `start_inner` releases `inner` eight times between its first look and
`Ready`; a stop, a lost stream, a death or a new request may fall into each gap.
A response may arrive when its process has been replaced. The abort of a task
takes effect only at its next await.

*Correct when* no process is leaked, `Ready` means "observed", the request
counter counts the current process's requests, an event-stream task never stops
a process other than its own, no idle timeout takes a request away, the reuse check
compares what the process was really started with.

### Session manager (`src/opencode/session_manager.rs`)

*State.* The `ai_sessions` rows (status, pid, remote mapping, last activity), in
SQLite; pending permissions, grants, the timeline and the runtime events.

*Operations.* `recover` at start-up, `sync_sessions` on behalf of every reader,
`create`, `wake`, the actions start/resume/sleep/stop/archive/delete, permission
decisions, event observation, the history cache.

*Interactions.* Each operation writes its rows in several separate statements.
`sync_sessions` holds `inner` across its SELECT and UPDATE; the statements of the
other operations hold `transition_lock` and not `inner`. So the two interleave.

*Hard.* A crash, or a failed statement, between any two of them; the row read
before a lock and used after it; the old session's row when a process changes
session.

*Correct when* a resting row names no process, a restart leaves no row that
claims a running one, a prompt goes only to the process of a session recorded
ready, archived rows stay archived, no running process loses its row.

### Events, permissions and the timeline (`opencode.rs`, `session_manager.rs`)

*State.* `pending` (at most 128 requests, each with its session), `approvals`
(grants "for this session"), the set of tool calls already audited, the timeline.

*Operations.* `observe_event`, the automatic replies of the event proxy,
`permission_decision`, the audit of a completed tool call, the clears of stop,
sleep, a switch and every reconciliation.

*Hard.* A request that arrives after its session was switched away; a permission
answered twice, or answered while the event that withdraws it is on its way; a
grant recorded after the session it belongs to was stopped; the queue's 129th
request.

*Correct when* nothing is allowed that no operator allowed, a session at rest has
no grant, no request is lost silently, and no completion is shown that is not in
the log.

### Terminal service (`src/terminal.rs`)

*State.* A semaphore of four permits; per session a PTY, a shell, a reader and a
writer thread, a bounded channel in each direction, an idle and a hard limit.

*Hard.* Both directions full at once; the permit of a session whose client
vanished; a shell that outlives its kill; an opening that cannot be recorded.

*Correct when* a session keeps its permit as long as its shell, every session ends
and gives its permit back, and its records bracket it.

### Log streams (`src/logs.rs`)

*State.* A semaphore of permits, a channel, a pump task and its source
(`journalctl` or a response of Docker); the decoder of Docker's frames.

*Hard.* Frames split at any byte; a source killed with its client, whatever the
pump waits for.

*Correct when* the lines do not depend on the chunks, and leaving ends the source.

### Telemetry (`src/telemetry.rs`)

*State.* Two settings on disk, two atomics, the latest snapshot; a collector that
samples, stores, prunes and broadcasts. *Hard:* a configuration that is written
in several places while the collector reads it. *Correct when* what is in force
is what a restart would restore, and snapshots catch up with it.

### Authentication (`src/auth.rs`)

Password check, login throttling per address, session creation, expiry and
revocation. *Hard:* attempts that pass the throttle together before any of them
is counted. *Correct when* their number is bounded all the same.

### Projects (`src/projects.rs`)

Registration of directories with an audit record, undone when that record fails.
*Hard:* two of these beside each other on one directory. *Correct when* row and
log agree.

### Docker, systemd and the audit log (`src/docker.rs`, `services.rs`, `audit.rs`)

One call in, one call out. What is state is the effect outside and its record in
the audit log, written after it by a handler that the server drops when its
client leaves.

### Process entry, API and shutdown (`src/main.rs`, `src/api.rs`)

Recovery before serving, background tasks, and a shutdown which stops accepting,
drains streams and stops the agent process.

### Web client (`web/app.js`, `web/chat-recovery.js`)

Recovery of a chat whose POST was cut off: the client polls until it finds the
answer of its own prompt.

### The rest

Context engine, doctor, database and configuration, the migrations, the
installation scripts and the vendored terminal emulator: one call in, one call
out, no state of their own worth a model.

The hazards of all of these, each at the line where it bites, are in
`PROJECT.json`; those no property covers yet say so, and are the work list of the
plan.

## 2. Plan

In order, the most important behaviour first:

1. `AgentProcess` with its abstract `AgentLifecycle`; its invariants, its action
   properties and the refinement proved. *Done.*
2. `SessionManager`: rows, reconciliation, failures, crashes; all of its safety
   properties proved. *Done.*
3. `Permissions`: pending requests, automatic replies, decisions and grants, the
   record before the relay; its safety proved. *Done.*
4. The services, each a module, side by side in `Services`: `TerminalSession`,
   `LogStream`, `DockerLogDecoder`, `RecordedAction`, `ToolAudit`, `LoginThrottle`,
   `ProjectRegistry`, `TelemetryConfig`; their safety proved. *Done.*
5. The timeline's limit per session and `cache_history`, in `ToolAudit` and
   `SessionManager`; the global mode, in `AgentProcess` and `Permissions`.
6. `ChatRecovery`: the web client against a backend that loses the connection; and
   `TerminalClient` with its connection generation.
7. Expiry and revocation of login sessions; telemetry retention; `Shutdown`.

No safety property of a passing run is without a theorem; what steps 5 to 7 add will
want its own.

## 3. The process manager: `AgentProcess`

A step is one critical section of `inner`, one kill, or the outcome of one await.
A project path and a permission mode always travel together and are one *profile*.

| variable | code |
| --- | --- |
| `rt` | `ProcessState`; `gen` is `generation`, `active` is `active_requests`, `eventTask` the stored abort handle |
| `alive`, `kid`, `spawned` | the children: which still run, what each was spawned with, how many there were |
| `task` | the event-stream task of each child: open, lost (its loop has ended), killing, syncing, done |
| `req` | a call of `request_json` in flight: the generation its guard captured and the child it talks to |
| `op` | the operation that holds `transition_lock`, its place (`at`), and where to go after a kill (`next`) or a `stop_inner` (`back`) |
| `ws` | the handlers that hold `workspace_lock` or have just asked for it |

Operators named after functions are those functions: `Detach` is `detach_child`,
`Refreshes` is `refresh_child_status` (a set, because `waitpid` may fail),
`Released` is the release of an `ActiveRequestGuard`. `TasksAfter` is the abort of
the event task, with both of its outcomes. The `Op...` actions follow `start_inner`,
`stop_inner`, the reaper and `wake` from one release of `inner` to the next;
`start_lock` is implied by the operation's place (`StartLocked`) or by a permission
decision in flight (`DecisionPending`).

A definition marked *Variant* is no part of the model: it is the mistake that the
property of the same subject is meant to detect, and `PROJECT.json` pairs them.

*Abstracted.* Ports, headers, bodies and the health polling loop (one outcome,
healthy or not, within its timeout). The future of a history read that is dropped
gives its count back at once, as if the read had ended. `delete_session` holds the
locks without touching `ProcessState`, so it appears in `SessionManager` only. A
kill always succeeds: the signal is SIGKILL to the process group. The wait after
it is bounded and its outcome is used by nobody.

### The abstract specification

`AgentLifecycle` has three variables: `launched`, how many processes there have
been; `stage`, that of the last one (`new`, `serving`, `ended`); `running`, the set
of processes the system runs. A launch happens only from `ended`, so two processes
are never in service; `serving` is entered once, from `new`; `running` grows only
by a launch. `AgentProcess` implements it under the mapping `Stage`, checked as the
property `ImplementsLifecycle`.

### What is checked

| property | says |
| --- | --- |
| `ReadyIsObserved` | `Ready` has a child, its connection, and an event task that can be aborted and has not cleaned up |
| `ActiveCountExact` | `active_requests` = requests in flight to the current generation |
| `NoStrayChild` | a running child is the managed one, or somebody is about to kill it |
| `ChildHasProfile` | the recorded project and mode are those of the spawn |
| `TaskStopsOnlyItsChild` | an event task takes no child but its own |
| `PromptRunsInItsSession` | a chat's prompt runs in the chat's session and profile, as long as its process is current |
| `ReaperSparesRequests` | the reaper kills a process that somebody awaits an answer from only after its health probe failed, never for the idle timeout |
| `ReplacementSparesRequests` | a start kills no process that somebody awaits an answer from (with the exception below) |
| `DecisionKeepsProcess` | a relayed permission decision keeps its process |
| `RestingPhase` | between operations nothing is left `Starting`, and `Sleeping` has no process |
| `StreamLossStopsProcess`, `DeathIsNoticed`, `WorkspaceReleased` | liveness: fail closed, no stale `Ready`, no stuck handler |

*Runs.* `agent_process`: two handlers, a permission decision and one more caller,
two profiles with a session in each, two spawns, up to generation 5 (no operation
starts past it), `waitpid` failing or not; about two million states. Two spawns are
the least for a late answer, a late task or a replaced child to meet the next
process; generation 5 allows a detach by an operation, a task and a refresh around
each of them. (Generation 6 passes as well, with four million states; the run keeps to
5 for the time it takes.) `agent_process_live`: one handler, one decision, two spawns,
generation 3.

*An exception that the proof found.* `ReplacementSparesRequests` first spoke of every
start. TLC agrees up to generation 5; the induction failed on a wake whose session is
already `session_id`: `wake` compares project and mode only when the session changes,
so it may reach `start_inner` with the process `Ready` under another profile. That
takes a long way round, 42 steps and generation 6: a wake fails after it has put its
own session beside the profile of the process before, a plain start of that profile
keeps the session, and the session is woken again. The property now leaves this wake
out, and says so; `agent_change` is about the same sentence of the documents.

*Fairness.* Weak fairness of the operation's steps: every await in one has a
timeout or is a lock. Strong fairness for the steps that wait for a mutex, which is
enabled again and again and which tokio grants in FIFO order. A task's cleanup and
the end of a request (bounded by a timeout) are weakly fair. Nothing obliges a
client to call, the reaper to act at a given moment or a child to live or die; a
*dead* child's stream ends, because its socket is closed. With `waitpid` failing,
`Error` may keep a child until the next operation, so `RestingPhase` and the
liveness properties are stated, as the code supports them, for a `waitpid` that
works.

### What the code does otherwise than its documents say

`agent_change` (violation): `docs/architecture.md` says that a change of project or
mode cannot replace the child while a request is active. The start handler calls
`stop()` on such a change without a look at `active_requests`; what protects chats
is `workspace_lock`. A request that does not take it, a permission decision's aside,
is cut off. So is one that begins between the look of `start_inner` at
`active_requests` and its claim, in the wake described above.

## 4. The rows: `SessionManager`

`rt` is reduced to what a row can tell (phase, session, profile, pid), `pids`
numbers the processes, and starting or stopping one is `AgentProcess` in summary:
each step of `start_inner` that changes the phase or the child is kept, with every
outcome `AgentProcess` allows. A process that dies or loses its stream does so in
`Refreshes`, where the manager notices.

| variable | code |
| --- | --- |
| `row` | `ai_sessions`: status, pid, whether `remote_session_id` is set |
| `sync` | who is between the SELECT and the UPDATE of `sync_sessions`, with `inner` held |
| `op` | the operation that holds `transition_lock` |
| `ws` | the handler that holds `workspace_lock`: a wake, a chat, a start, a deletion |
| `boot`, `todo` | the backend: down, recovering (and the ids `recover` still has to reset), up |

Every statement is a step; `Update(s, c, ...)` is `UPDATE ... WHERE id = s AND c`, a
no-op when the row is gone. `DbMayFail` lets every statement of an operation fail,
and `AfterDbError` follows `?`, or the `let _ =` where the code ignores it. `Crash`
is possible in every state in which the backend runs; the child dies with it
(parent-death signal).

| property | says |
| --- | --- |
| `RestingRowHasNoPid` | created, sleeping, stopped, archived and deleted rows name no process |
| `RestartReconciles` | once recovery is over, no row is ready, starting or stopping, and none has a pid, even if recovery itself crashed |
| `PromptHasReadyRow` | a prompt is sent to the session the runtime is in, mapped, recorded ready or on its way out |
| `WakeKeepsArchived` | a wake never brings an archived row back, though the handler read it before the locks |
| `DeleteSparesProcess` | no running process loses its row |
| `ActiveRowCatchesUp` | liveness: the active row ends up describing the runtime, whatever wrote to it |
| `StoppingEnds` | liveness: no row stays `stopping`, across crashes |

*Runs.* `session_manager`: two sessions of one project (so that a process changes
session without a restart) and a second project for the start handler; two spawns,
failing statements, crashes, a poll at any moment; about 5.3 million states.
`session_manager_live`: one session, one spawn, statements that work.

*Fairness.* As above for the operations; the reaper ticks for ever, which is what
makes the row catch up when nobody polls; recovery is retried for ever, since
nothing is promised by a backend that is never started again.

### What the code does otherwise than its documents say

* `session_archive` (violation): archiving detaches, then writes `archived`. A
  `sync_sessions` whose SELECT came before that write and whose UPDATE comes after
  makes the row `sleeping` again.
* `session_switch` (violation): `wake` on a ready process resets the old session's
  row and only later changes the active session. A `sync_sessions` in between gives
  the old row its pid and `ready` back, and no later reconciliation resets it: two
  rows then name the process.
* `session_transient` (violation): a plain start does not reconcile once the process
  is ready, so the active row goes on saying `starting` until the next reader. A wake
  of another session of the project before that resets only a row that says `ready`:
  the old one stays `starting`, with its pid, until it is woken, stopped or the
  backend restarts.

## 5. Permissions and grants: `Permissions`

A request goes from the agent through the event stream to the operators and back.
The module follows it beside every operation that clears `pending` and `approvals`.
A step is one critical section of a mutex or one await; `inner` is not held across
the clears. Rows and process phases are reduced to what the checks read.

| variable | code |
| --- | --- |
| `mode`, `inner` | the permission mode of a row, fixed at its creation; process, phase, session and mode of `ProcessState` |
| `alive`, `spawned`, `ask` | the agent: processes that run, how many there were, and each request as the agent knows it |
| `task` | the event-stream task of each process with the events on its wire: reading, recording "asked", about to insert or to reply, lost, reconciling |
| `pending`, `approvals` | the two sets of `OpenCodeManager` |
| `start`, `life`, `chat` | `start_lock`; the operation that holds `transition_lock`; the session whose prompt holds `workspace_lock` |
| `dec` | the `permission_decision` that holds `start_lock`: recorded, relayed |
| `trail` | the decisions by which operators allowed something, as the audit log has them |
| `rested` | history: sessions put to rest by a session action and not selected since |

`ActionOf` is what `approval_key` tells apart. A grant is a session with an action.
`Upstream` is what is sent to the agent: "always" goes out as "once", because newer
agents would persist it. The agent itself is external: it asks during a prompt,
answers only what it waits for, and announces every reply on the stream.

*Abstracted.* A kill follows its detach at once: its delay is the subject of
`AgentProcess`. Two clears in a row are one step where no other step tells them
apart. A read-only process is told no by the configuration of its child too, which
is not modelled: the automatic reply is what the module checks.

| property | says |
| --- | --- |
| `OnceIsAuthorised` | whatever the agent was allowed goes back to a recorded decision on that request, or to a recorded "always" for the same action of the same session; in a read-only session nothing is allowed |
| `RestedHasNoGrant` | a session put to rest by stop, sleep or archive has no grant, also when a decision for it was in flight |
| `SwitchDropsGrants` | the session a wake selects in the place of another has no grant from an earlier time, although a decision in flight may add its grant after the wake's clearing: `start_lock` keeps it from outliving the wake |
| `AskedIsTracked` | a request that the agent waits for is in the stream, with the task or pending, or the stream is lost and the process about to be stopped: a full queue swallows none |

*Run.* `permissions`: two sessions, each in either mode; two requests for the same
action, so that a grant can apply to the next one and to another session's; one
process, which two sessions share in turn; a queue of one, so that the second request
is the "129th". Sessions and requests are interchangeable and reduced by symmetry. The
proofs cover more processes; TLC found no violation with two either, in a run too long
to be kept (6,783,915 states).

*Seen while modelling, not shown by a run.* `docs/session-manager-audit.md:57` says
"Sleep/stop/troca/restart descartam grants". Reconciliation clears them only when it
finds the process neither ready nor starting, and `start_inner` replaces a process that
died unnoticed in phase `Starting` (`opencode.rs:391`): the next process serves the same
session under the grants given to its predecessor. An operator gave them to this very
session, so `OnceIsAuthorised` holds all the same.

## 6. The services: `Services`

Eight parts that share the database and nothing else. `Services` puts them beside
each other, and a behaviour follows one of them, chosen by `part` at the start among
`Followed`: with no lock, channel or row in common, interleaving them would add
states and no behaviour of any part.

| part | its state, in the code | its steps |
| --- | --- | --- |
| `TerminalSession` | `run_session`, its threads `read_pty` and `write_pty`, the two channels, the shell, what the kernel buffers, the permit, the two audit events | between two awaits of the handler; one read, send, receive or write of a thread |
| `LogStream` | the SSE body, the permit it owns, the pump task, the channel, the source and its stderr | between two awaits of the pump; a message delivered; the client leaves |
| `DockerLogDecoder` | `DockerLogDecoder`, with everything fed to it and returned by it | one call of `push` or `finish` |
| `RecordedAction` | the handler of a container, unit or question action, the effect, what the handler was told, the audit event | between two awaits; the handler is dropped in any of them |
| `ToolAudit` | the event task, `audited_calls`, the audit log, the timeline | one await per event, in the order record, observe, relay |
| `LoginThrottle` | the clock, each login, the failed attempts on record | one statement, or the verification |
| `ProjectRegistry` | the row, each `register` and `remove`, the events | one statement |
| `TelemetryConfig` | settings, atomics, snapshot, each `configure`, the collector | one statement, store or publish |

| property | says |
| --- | --- |
| `ShellHasPermit` | a session keeps its permit from the spawn of its shell until that is gone; a shell that outlives its 3 seconds may still be dying when the session ends |
| `AuditBrackets` | no input reaches a shell whose opening is not recorded; a session whose opening is recorded never ends without an attempt to record its closing, which comes after the shell is gone or its kill has outlasted the 3 seconds |
| `SessionEnds`, `ThreadsEnd` | liveness: a terminal gives its permit back, even if shell, threads and handler all wait on full queues; its threads end, unless a background job holds the terminal open |
| `LinesAreWhole` | the lines returned do not depend on how the body was cut into chunks, against a definition that sees the body whole |
| `LeavingStopsReadSource` | liveness: a source ends with its client, while the pump reads it |
| `ReportsAreRecorded` | what an operator is told or shown is in the audit log. `RecordMatchesWork`: when a handler has answered, its action was recorded or the record was attempted and failed; the log claims no success of what was not done. `RelayedIsRecorded`: no completion of a tool call is relayed before it is recorded, and the timeline never repeats one |
| `FailuresAreBounded` | logins that pass the throttle together exceed the limit by no more than their number |
| `RegistryMatchesLog` | a project's row and its records agree, unless a compensation failed or was overtaken or a handler was dropped between its writes; a removal on record is final, without exception |
| `ConfigIsDurable` | after a restart and after each configuration that met no other and made all its writes, what is in force is what a restart restores, whatever overlapping or interrupted ones left before |
| `SnapshotsCatchUp` | liveness: the snapshots agree with what is in force once nobody configures |

The failed attempts on record are the sequence of their times: rows are only
inserted, and the count of the throttle is that of the recent ones (`Recent`).

*Run.* `services` follows every part: about 152,000 states. A queue of one and a
terminal buffer of one fill at once, so that each of the waits occurs; a log channel
of two holds a line and the message behind it. Two handlers of each kind are the
least that meet each other. The throttle closes after two failures within two
seconds of a clock that goes to four, so that a failure can leave the window while a
login that passed before it is being verified. Three ids let a directory be
registered, removed, and registered again while an older handler compensates. The set
of calls is emptied above one of two calls, once at most, and there are two event streams. The decoder is given
every body of up to six bytes, among them the stream numbers 0 and 2 (which are also
a length), newline and carriage return, in chunks of one to three: headers are two
bytes instead of eight, a frame may hold two, so that a body has a frame split at
every byte and the next frame behind it, a length over the limit, and a line over
its limit. The parts end, so deadlock checking is off.

*Fairness.* The terminal's handler and threads take steps: each await has a time
limit or another thread behind it. `select!` is random, so that a branch which is
ready again and again is served (strong fairness of the client's end and of the
ticker). A killed child dies. Nothing is assumed of the client or of a shell that
runs. The log pump likewise; its four hours pass. The collector runs in a loop of
its own; not every sample fails.

*What the code does otherwise than its documents say.* Two runs, each of one part:

* `journal`: `docs/threat-model.md` says that disconnecting kills and reaps journalctl.
  After an overlong line the pump stops reading, waits five seconds for the follower
  to exit and then, without limit, for its stderr to end, and kills it only
  afterwards. A client that leaves in between is not noticed, and the follower runs on
  until it ends by itself or stderr reaches its limit.
* `tools`: `docs/opencode-integration.md:39-40` and `docs/architecture.md:95` say that
  completed tools are deduplicated by `callID`. The event task forgets all calls when it
  has seen more than 4096 (`opencode.rs:680`) and does not ask the log, so that a
  completion repeated after that is recorded again, by the same stream
  (`CallsAreDeduplicated`). In the run the limit is one call.

*Seen while modelling, not shown by a run.* `README.en.md:33` promises a "mandatory
Audit Log for mutations, decisions, and agent tools", and `docs/architecture.md:34-35`
that mutations of Docker and systemd are audited. What the code does is less, and
`RecordMatchesWork` and `RegistryMatchesLog`, which say what holds all the same, name
it as their exceptions:

* Actions on containers and units, and answers to questions, act first and record after
  (`docker.rs:477`, `services.rs:372`, `opencode.rs:1726`), in a handler that is dropped
  with its client: an effect may have no record, also when the record fails.
* `register` makes the promise good by a compensation, whose own failure is ignored
  (`projects.rs:139`), and which a dropped handler never reaches: a project may stay
  registered with no record.
* The configuration of telemetry (`api.rs:185-197`) is a mutation, too, and has no event
  in the audit log at all; there is nothing of it to model.

And besides:

* Two overlapping `configure` calls may leave atomics and settings with one value
  each from both (`telemetry.rs:182-192`), until the next configuration that meets no
  other, or a restart. `ConfigIsDurable` says that these mend it.
* The compensation of an unrecorded removal brings the project back, but not to its
  sessions: the removal has set their `project_id` to NULL (`projects.rs:196`).
* Interleaved compensations on one directory may leave row and log in disagreement;
  `lapsed` marks these ids.
* A decoder error loses the lines of its chunk, and an unfinished last line keeps its
  carriage return, which a finished one does not.

## 7. Actions, bounds and symmetry

`MaxSpawns`, `MaxGeneration`, `MaxPids` are the only bounds of the first two modules;
like the others they appear in guards, and the theorems hold for every value of
them. In `AgentProcess` the generation
bound stops new operations only, never one under way, so no run ends inside one.
Both keep a step possible in every state, so deadlock checking is on.
Handlers (`agent_process`), sessions (`session_manager`), sessions and requests
(`permissions`) are interchangeable and reduced by symmetry; the runs with liveness
use none. `Permissions` is bounded by `MaxProc` alone, `Services` by `TtyLimit`,
`MaxEmptied`, `MaxStreams`, `MaxTime`, `MaxId`, `Wanted`, `MaxBytes` and `MaxChunk`. The other
numbers in their configurations (`MaxPending`, `QueueLimit`, `ChannelLimit`,
`SeenLimit`, `Failures`, `Window`, the limits of the decoder) are constants of the code,
made small.

## 8. Proofs

Everything below holds for every value of the constants that satisfies the named
assumptions: `ConstantsAssumption` of each module (the bounds are naturals, the
null values are not members, a session has one profile, handlers and callers are
different) and, where something is counted, that handlers, callers and logins are
finitely many (`SlotsFinite`, `LoginAssumption`). The numbers of handlers, sessions,
profiles, spawns and generations are arbitrary.

**`AgentProcess`** has one inductive invariant in three layers, each a module that
extends the one before; a layer is preserved under the assumption of those below.
`TypeCorrect` is proved by itself.

*First layer* (`AgentProcessSafety`): `IInv == TypeOK /\ Safe` with
`Safe == World /\ Startup /\ NoStrayChild`. The properties are not inductive alone:

* that an event-stream task stops only its own child rests on a comparison of
  generations, so the invariant says what that comparison is worth:
  `GenerationsTell`, no child but the managed one was spawned under the current
  generation;
* that a `Ready` process is observed, and that no child strays, depends on what
  may have happened while `start_inner` was waiting. `ClaimHeld` says what the
  claim of the runtime guarantees until the spawn, `StartupOwnsChild` that from
  the spawn on the child is the operation's own or is gone, `Returns` where an
  interrupted operation continues.

Most steps are of one of three kinds, and the proof treats them so: the runtime
keeps its child (`Calm`), the child is found dead (`Lost`), or it is detached by
somebody who must then kill it (`Gone`). The theorems: `ReadyAlwaysObserved`,
`NoChildLeaks`, `ReuseIsSound`, `TaskNeverStopsAnother`.

*Second layer* (`AgentProcessControl`): `Control == Route /\ Phased /\ Aimed /\ Turns`.

* `Route`: an operation of each kind keeps to its own labels, also across a kill. It
  is what tells, in a step that `start`, `wake`, `stop` and the reaper share, whose
  step it is;
* `Phased`: the runtime is `Starting` from the claim to the end of a start-up and only
  then. `RestingPhase` is its shadow between operations; by itself it says nothing of
  the states in between, from which it has to follow;
* `Aimed`: session and profile of the runtime are the operation's own from where it
  has set them, and a claim meets a process that is not `Ready` and owes no answer;
* `Turns`: `workspace_lock` is held once, an operation has exactly the handler that
  called it, and what that handler learnt of the runtime stays true while it holds
  the lock.

The theorems: `RestingPhaseHolds`, and `LifecycleImplemented`, the refinement of
`AgentLifecycle`. Its initial states map to initial states; every step maps to a step
of the abstract specification or a stutter: the spawn is a launch, which needs that
`Phased` leaves no process in service at that place; `OpReady` enters `serving`, which
needs that the child of a start-up is the last one spawned (`New`); whatever detaches or
loses the child in service ends it; a death, a kill and `waitpid` shrink `running`.

*Third layer* (`AgentProcessRequests`): `Requests`.

* `ActiveCountExact` is inductive with `Traced`: the child that a request went to was
  spawned under the generation its guard holds, so that a guard of an older process
  is told from a current one. A step changes the counted set by one slot or empties
  it, and the cardinality theorems of the library do the rest;
* `Asking`, `PromptFits`: a handler has a request only at its own labels, and a
  prompt's process was spawned with its profile;
* `DecisionLocks`: `start_lock` is with a decision or with the operation, never both.

The theorems: `ActiveRequestsCounted`, `PromptsFindTheirSession`, and the action
properties `ReaperWaitsForRequests`, `ReplacementWaitsForRequests` and
`DecisionsKeepTheirProcess`. TLC checked the second and third layers on the instance of
`agent_process`, and with one handler up to generation 6, `waitpid` failing or not.

**`SessionManager`.** `IInv == TypeOK /\ Control /\ Rows /\ Waking`:

* `Control`: where an operation of each kind may be, and which holder of
  `workspace_lock` waits for it. Nearly every other part needs it, to know that no
  second operation is under way;
* `Rows`: `RestingRowHasNoPid` with what makes it inductive, above all
  `SleepingIsEmpty` (the runtime that a reconciliation copies into a row has no pid
  when it sleeps) and `Claimed` (nobody makes the runtime sleep between claim and
  spawn); `RecoveryKnows`, every row still to be reset is in the fetched list;
  `StoppedFirst`, a row is settled or deleted only after its process is gone;
* `Waking`: what a wake may rely on at each place although readers write to its row
  meanwhile: the row is not archived (`WakeLooked`), the session is selected
  (`WakeSelected`), only reconciliation writes to the row (`WakeEntered`), it says
  ready when the runtime is (`WakeRecorded`), and so it does for the chat that
  follows (`ChatRecorded`).

From it follow the six properties of `session_manager`, action properties included:
`TypesHold`, `RestingRowsAreEmpty`, `RestartsReconcile`, `PromptsHaveReadyRows`,
`WakesKeepArchived`, `DeletionsSpareProcesses`. TLC found no violation of `IInv` on
the instance of `session_manager` before it was proved.

**`Permissions`.** `IInv == TypeOK /\ Known /\ Allowed /\ Locked /\ Resting /\ Asking
/\ Reading /\ AskedIsTracked`, for any number of requests, sessions and processes, any
`ActionOf` and any size of the queue (`PermissionsAssumption`):

* `Known`: whatever is pending, on the wire, being handled or decided was asked, so
  that its session is a session and stays the same;
* `Allowed`: each place on the way to a permission (the decision in flight, the grant,
  the automatic reply under way) goes back to the log. `OnceIsAuthorised` is its last
  link;
* `Locked`: a decision holds `start_lock` from its checks to its grant, which keeps
  every stop out until the grant is in the set that the stop then clears;
* `Resting`: a session at rest is not the one of a process in service, so a decision
  for it can no longer be relayed. `RestedHasNoGrant` needs this where a decision
  and a session action wait for the same lock;
* `Asking`, `Reading`: the agent waits only for requests of the prompt under way, in
  the selected session, and the process in service has a reader. So a request read
  from its stream is never taken for another session's, and dropped.

Most steps only let go of requests and of tasks; `AskFades` and `TaskFades` say so, and
one lemma per part carries it over such a step. There is then one lemma per action.
The theorems: `TypesHold`, `AllowedByOperators`, `RestDropsGrants`,
`RequestsAreTracked`. `SwitchesDropGrants` needs one part more, `Switching`: a decision
under way is for the session selected, unless a wake has just selected another and
waits for `start_lock`; and what a wake is about to select has no grant.

**`Services`.** A step of `Services` is a step of each part or leaves it alone
(`Separation`), so that a part's inductive invariant is proved of the part's own
next-state relation, under its own assumption:

* `ActionIInv`, `ToolIInv`: what the handler was told, or the task is about to relay,
  was so (`ActionsAreRecorded`, `RelaysAreRecorded`, together `ReportsRecorded`);
* `TelemetryIInv`: how far a configure that meets no other has written the settings
  and the atomics, at each of its places, whatever it found there
  (`ConfigurationsAreDurable`);
* `ProjectIInv`: which handler has written for an id and not settled it (`Owed`; one at
  most of each kind, and no such removal is on record yet), and who answers for a row
  or its absence: the log, such a handler, or `lapsed` (`RegistriesMatchLog`);
* `TerminalIInv`: what exists of the shell, the permit, the writer and the two records
  at each place of `run_session` (`ShellsHavePermits`, `TerminalsAreBracketed`);
* `LoginIInv`: recent failures and logins let through together stay below
  `Failures + Cardinality(Logins)`. The bound on failures alone is not inductive: what
  a failure adds to the record it takes from those that may still fail, and only an
  open throttle lets another one in. That the clock takes failures out of the window
  only lowers the sum (`LoginFailuresAreBounded`).

`ServicesIInv` puts them beside each other, with the types of `LogStream` and
`RecordedAction`, which are inductive alone (`ServicesTypes`).

**`DockerLogDecoder`** (`DecoderProofs`) is different: its hazard is not a step that
meets another but a body cut anywhere, so the work is in the functions. Their
recursion is over the body, whose length nothing bounds but `MaxBytes`, and the
library's induction theorems cannot be used with this prover; the module has its own,
over a *set* of numbers or of sequences in place of a predicate (`Induction` and
`SequenceInduction`, from the well-foundedness of `<`). With them:

* `FramesUpTo`, `FramesAgree`: the recursive function `Frames` exists and is unique, so
  it satisfies its own equation (`FramesEquation`); `PushRun` is the same of `PushText`;
* `PushTextConcat`, `FramesConcat`: text pushed, or frames decoded, in two pieces are
  those of the whole, when the second piece starts from what the first has left. A
  cut within a header, a frame or a line is the case that matters;
* `PushedLines`: text pushed byte by byte, with its limit on a line and its `Return` taken off,
  gives the lines that `LinesOf` and `UnfinishedOf` define on the text at once, by
  counting newlines.

`DecoderIInv` then says what the decoder has made of what it was fed: while nothing went
wrong, `lines` are those of the text decoded so far, `decoder.line` is its unfinished
line and `decoder.pending` the bytes that no frame or mode has claimed. `LinesAreWhole` alone
is not inductive, for it says nothing of the last two. An error keeps the lines
before it, a prefix of those of the body (`LinesArePrefix`). The theorem
is `LinesStayWhole`: for every alphabet, every limit and every way to cut a body.

What stays with TLC: liveness, for fairness is beyond the prover (`StreamLossStopsProcess`,
`DeathIsNoticed`, `WorkspaceReleased`, `ActiveRowCatchesUp`, `StoppingEnds`,
`SessionEnds`, `ThreadsEnd`, `LeavingStopsReadSource`, `SnapshotsCatchUp`); and the runs that
expect a violation. Every other property of a passing run is a theorem.

## 9. Not modelled

Inside the modelled components: the global mode (unrestricted sessions) and its check
before `transition_lock`; the permission configuration of the child, the limit on the
size of a response and the export of a session; `cache_history`, the timeline entries
other than `command.finished` and their limit per session; the grants and requests
that a deletion clears; expiry and revocation of login sessions, roles and tokens;
telemetry samples, retention, rollup and history; browsing and Git status of projects.

Whole components: the web client (recovery of a cut-off chat, terminal client), which is
on the plan; the graceful shutdown, where axum and hyper decide more than this code;
the context engine and the doctor, which format text; database set-up,
configuration and errors; vendored code and installation scripts. The listings of the
Docker and systemd adapters, formatting and HTML are left out for good: there is no
behaviour there that a model could tell from the code itself.
