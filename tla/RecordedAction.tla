--------------------------- MODULE RecordedAction ----------------------------
(***************************************************************************)
(* An operator's action outside CarobaGuard and its audit event: start,    *)
(* stop, restart or kill of a container (src/src/docker.rs), the same of a *)
(* unit (src/src/services.rs), and the answer to a question of the agent   *)
(* (src/src/opencode.rs).  All three act first and record afterwards, in   *)
(* the handler itself, which the server drops when its client leaves.      *)
(***************************************************************************)

VARIABLES
    handler,   \* the handler, and what it acts on
    work,      \* the action, as Docker, systemd or the agent carries it out
    outcome,   \* what the handler was told of it
    event      \* the audit event

actionVars == <<handler, work, outcome, event>>

Kinds == {"container", "unit", "question"}

ActionTypeOK ==
    /\ handler \in [kind : Kinds, at : {"none", "asked", "work", "record", "answered", "dropped"}]
    /\ work \in {"none", "running", "done", "refused"}
    /\ outcome \in {"none", "success", "failure"}
    /\ event \in {"none", "success", "failure", "lost"}

ActionInit ==
    /\ handler = [kind |-> "container", at |-> "none"]
    /\ work = "none" /\ outcome = "none" /\ event = "none"

At(place) == handler.at = place
GoTo(place) == handler' = [handler EXCEPT !.at = place]

\* Role and CSRF token are checked.  A question is looked up first, among
\* those pending, with its session; the rest goes straight to work.
Request ==
    /\ At("none")
    /\ \/ /\ handler' = [kind |-> "question", at |-> "asked"] /\ UNCHANGED work
       \/ /\ handler' \in [kind : {"container", "unit"}, at : {"work"}] /\ work' = "running"
    /\ UNCHANGED <<outcome, event>>

QuestionFound ==
    /\ At("asked") /\ GoTo("work")
    /\ work' = "running"
    /\ UNCHANGED <<outcome, event>>

\* Not pending, not of a session, or not this operator's to answer.
QuestionRefused ==
    /\ At("asked") /\ GoTo("answered")
    /\ UNCHANGED <<work, outcome, event>>

\* The other side carries on whether or not anybody waits for it.
WorkEnds ==
    /\ work = "running" /\ work' \in {"done", "refused"}
    /\ UNCHANGED <<handler, outcome, event>>

Told(result) == GoTo("record") /\ outcome' = result

WorkAnswered ==
    /\ At("work") /\ work \in {"done", "refused"}
    /\ Told(IF work = "done" THEN "success" ELSE "failure")
    /\ UNCHANGED <<work, event>>

\* The connection breaks, the answer is too long, or its time is up: systemctl
\* has 20 seconds and is not killed, the agent 15, Docker as long as it takes.
NoAnswer == "failure"

WorkUnanswered ==
    /\ At("work") /\ Told(NoAnswer)
    /\ UNCHANGED <<work, event>>

\* Variant: the error of the action is returned before it is recorded.
RecordSuccessOnly ==
    /\ At("record") /\ GoTo("answered")
    /\ event' = IF outcome = "success" THEN outcome ELSE event
    /\ UNCHANGED <<work, outcome>>

Record ==
    /\ At("record") /\ GoTo("answered")
    /\ event' = outcome
    /\ UNCHANGED <<work, outcome>>

\* The client is told of an internal error; what was done stays done.
RecordLost ==
    /\ At("record") /\ GoTo("answered")
    /\ event' = "lost"
    /\ UNCHANGED <<work, outcome>>

\* The handler ends in the await it is in; a record under way may make it.
HandlerDropped ==
    /\ handler.at \in {"asked", "work", "record"} /\ GoTo("dropped")
    /\ event' \in IF At("record") THEN {"none", outcome} ELSE {"none"}
    /\ UNCHANGED <<work, outcome>>

ActionNext ==
    \/ Request \/ QuestionFound \/ QuestionRefused
    \/ WorkEnds \/ WorkAnswered \/ WorkUnanswered
    \/ Record \/ RecordLost \/ HandlerDropped

----------------------------------------------------------------------------
(* Properties *)

\* An action whose handler answered was recorded, successful or not, or the record
\* itself was attempted and failed; and the log claims a success only of what was
\* done.  (A failure on record may be done all the same, later; an action whose
\* handler was dropped may have no record.)
RecordMatchesWork ==
    /\ At("answered") /\ work # "none" => event # "none"
    /\ event = "success" => work = "done"
=============================================================================
