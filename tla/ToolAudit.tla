------------------------------ MODULE ToolAudit ------------------------------
(***************************************************************************)
(* The audit trail of the agent's tools (src/src/opencode.rs, the task of  *)
(* connect_event_proxy): completed_tool_event, record_tool_event, the      *)
(* timeline entry of observe_event, and the relay to the operators.  The   *)
(* agent repeats the events of a call at will, in chunks of any size.      *)
(***************************************************************************)
EXTENDS Naturals, FiniteSets

CONSTANTS
    Calls,       \* callIDs
    SeenLimit,   \* 4096 in the code
    MaxEmptied,  \* bound: times the set of calls seen is emptied
    MaxStreams   \* bound: event streams, each with its process

ASSUME ToolAssumption ==
    SeenLimit \in Nat /\ MaxEmptied \in Nat /\ MaxStreams \in Nat \ {0}

VARIABLES
    stream,     \* the event stream of the process is read
    at,         \* the event being handled
    seen,       \* audited_calls
    recorded,   \* how often each call is in the audit log
    timeline,   \* how often its command.finished is
    relayed,    \* the calls whose completion the operators were sent
    emptied,    \* how often `seen` was, for its size
    streams     \* how many event streams there have been

toolVars == <<stream, at, seen, recorded, timeline, relayed, emptied, streams>>
counters == <<emptied, streams>>

Steps == {"observe", "relay"}

ToolTypeOK ==
    /\ stream \in BOOLEAN
    /\ at \in {<<>>} \cup (Steps \X Calls)
    /\ seen \subseteq Calls
    /\ recorded \in [Calls -> Nat]
    /\ timeline \in [Calls -> Nat]
    /\ relayed \subseteq Calls
    /\ emptied \in 0 .. MaxEmptied
    /\ streams \in 1 .. MaxStreams

ToolInit ==
    /\ stream = TRUE
    /\ at = <<>>
    /\ seen = {}
    /\ recorded = [c \in Calls |-> 0] /\ timeline = [c \in Calls |-> 0]
    /\ relayed = {}
    /\ emptied = 0 /\ streams = 1

\* An event without news, or one recorded at once, goes on to observe_event.
Tool(c) ==
    /\ stream /\ at = <<>>
    /\ seen' = seen \cup {c}
    /\ recorded' = IF c \in seen THEN recorded ELSE [recorded EXCEPT ![c] = @ + 1]
    /\ at' = <<"observe", c>>
    /\ UNCHANGED <<stream, timeline, relayed, counters>>

\* The end of the stream is the end of its process.
Closed == stream' = FALSE /\ at' = <<>>

\* Variant: the failure is logged and the event relayed.
GoesOn(c) == at' = <<"observe", c>> /\ UNCHANGED stream

Broken(c) == Closed

\* A call that cannot be recorded ends the stream before anybody sees it.
ToolUnrecorded(c) ==
    /\ stream /\ at = <<>> /\ c \notin seen
    /\ seen' = seen \cup {c}
    /\ Broken(c)
    /\ UNCHANGED <<recorded, timeline, relayed, counters>>

\* The log is asked whether the call is on the timeline.
Known(c) == timeline[c] > 0

\* An entry for the active session's calls; an event of another session, or
\* one on record, passes.
Observe(c) ==
    /\ at = <<"observe", c>>
    /\ timeline' \in IF Known(c) THEN {timeline}
                     ELSE {timeline, [timeline EXCEPT ![c] = @ + 1]}
    /\ at' = <<"relay", c>>
    /\ UNCHANGED <<stream, seen, recorded, relayed, counters>>

Unobserved ==
    /\ at # <<>> /\ at[1] = "observe"
    /\ Closed
    /\ UNCHANGED <<seen, recorded, timeline, relayed, counters>>

Relay(c) ==
    /\ at = <<"relay", c>>
    /\ relayed' = relayed \cup {c}
    /\ at' = <<>>
    /\ UNCHANGED <<stream, seen, recorded, timeline, counters>>

\* At the end of a chunk.
Forget ==
    /\ stream /\ at = <<>> /\ Cardinality(seen) > SeenLimit
    /\ emptied < MaxEmptied /\ emptied' = emptied + 1 /\ seen' = {}
    /\ UNCHANGED <<stream, at, recorded, timeline, relayed, streams>>

\* The next process has a stream of its own, and an empty `seen`.
NextStream ==
    /\ ~stream /\ stream' = TRUE
    /\ streams < MaxStreams /\ streams' = streams + 1 /\ seen' = {}
    /\ UNCHANGED <<at, recorded, timeline, relayed, emptied>>

StreamEnds ==
    /\ stream /\ at = <<>>
    /\ Closed
    /\ UNCHANGED <<seen, recorded, timeline, relayed, counters>>

ToolNext ==
    \/ \E c \in Calls : Tool(c) \/ ToolUnrecorded(c) \/ Observe(c) \/ Relay(c)
    \/ Unobserved \/ Forget \/ NextStream \/ StreamEnds

----------------------------------------------------------------------------
(* Properties *)

\* No operator is shown the completion of a call that is not in the audit log, and
\* the timeline has each call once at most, although `seen` forgets calls, a stream
\* ends between any two writes, and the next process may repeat its events.
RelayedIsRecorded ==
    \A c \in Calls :
        /\ c \in relayed => recorded[c] > 0
        /\ timeline[c] <= 1

\* "Completed tool parts are audited separately and deduplicated by `callID`"
\* (docs/opencode-integration.md): one event stream records a call once at most.
CallsAreDeduplicated == \A c \in Calls : recorded[c] <= streams
=============================================================================
