------------------------------ MODULE LogStream ------------------------------
(***************************************************************************)
(* One log stream (src/src/logs.rs): the handler `events` with the SSE     *)
(* body it returns, the pump task that reads journalctl or the Docker API, *)
(* the bounded channel between them, and the source.  A line is one unit.  *)
(***************************************************************************)
EXTENDS Naturals, Sequences

CONSTANT ChannelLimit   \* 256: lines between the pump and the body

ASSUME LogAssumption == ChannelLimit \in Nat \ {0}

VARIABLES
    kind,       \* LogSource of the request
    body,       \* the SSE body; while it is open the client may leave
    slot,       \* the semaphore permit, a value the body owns
    pump,       \* the task that fills the channel
    channel,    \* the messages in it
    source,     \* journalctl, or the response of the Docker API
    line,       \* what the source has written and nobody has read
    stderr      \* the end of journalctl's stderr: the task that reads it ends

logVars == <<kind, body, slot, pump, channel, source, line, stderr>>

Messages == {"line", "status", "error"}

LogTypeOK ==
    /\ kind \in {"systemd", "docker"}
    /\ body \in {"none", "open", "ended", "gone"}
    /\ slot \in BOOLEAN
    /\ pump \in {"none", "read", "line", "bad", "last", "wait", "stderr",
                "unread", "stuck", "done"}
    /\ channel \in Seq(Messages) /\ Len(channel) <= ChannelLimit
    /\ source \in {"none", "open", "exited", "killed", "reaped"}
    /\ line \in {"none", "good", "bad"}
    /\ stderr \in {"open", "ended"}

LogInit ==
    /\ kind = "systemd"
    /\ body = "none" /\ slot = FALSE
    /\ pump = "none" /\ channel = <<>>
    /\ source = "none" /\ line = "none" /\ stderr = "open"

----------------------------------------------------------------------------
(* The source: journalctl --follow, or the body of a Docker response. *)

Running == source = "open"

SourceWrites ==
    /\ Running /\ line = "none"
    /\ line' \in {"good", "bad"}
    /\ UNCHANGED <<kind, body, slot, pump, channel, source, stderr>>

SourceEnds ==
    /\ Running
    /\ source' = "exited" /\ stderr' = "ended"
    /\ UNCHANGED <<kind, body, slot, pump, channel, line>>

\* The reader of stderr stops at its limit.
StderrFull ==
    /\ kind = "systemd" /\ Running
    /\ stderr' = "ended"
    /\ UNCHANGED <<kind, body, slot, pump, channel, source, line>>

----------------------------------------------------------------------------
(* The handler and the body. *)

\* With a permit, the source is opened and the pump started; when that fails
\* the permit goes with the response.
OpenStream ==
    /\ body = "none"
    /\ kind' \in {"systemd", "docker"}
    /\ body' = "open" /\ slot' = TRUE
    /\ pump' = "read" /\ source' = "open"
    /\ UNCHANGED <<channel, line, stderr>>

Released == slot' = FALSE

\* A message is yielded, or the channel has ended.
Deliver ==
    /\ body = "open" /\ channel # <<>>
    /\ channel' = Tail(channel)
    /\ UNCHANGED <<kind, body, slot, pump, source, line, stderr>>

BodyEnds ==
    /\ body = "open" /\ channel = <<>> /\ pump = "done"
    /\ body' = "ended" /\ Released
    /\ UNCHANGED <<kind, pump, channel, source, line, stderr>>

\* Four hours are over.
DurationReached ==
    /\ body = "open"
    /\ body' = "ended" /\ Released
    /\ channel' = <<>>
    /\ UNCHANGED <<kind, pump, source, line, stderr>>

\* The client leaves: the server drops the body, the receiver and the permit.
ReaderLeaves ==
    /\ body = "open"
    /\ body' = "gone" /\ Released
    /\ channel' = <<>>
    /\ UNCHANGED <<kind, pump, source, line, stderr>>

----------------------------------------------------------------------------
(* The pump. *)

Cancelled == body \in {"ended", "gone"}
Room == Len(channel) < ChannelLimit

Offer(message) == channel' = IF Cancelled THEN channel ELSE Append(channel, message)

\* The task drops the response, or the handle of its child (kill_on_drop).
Finish == pump' = "done" /\ source' = "reaped"

\* Variant: journalctl is left to notice a broken pipe.
CancelSparing ==
    IF kind = "docker" THEN Finish ELSE pump' = "wait" /\ UNCHANGED source

\* sender.closed(): journalctl is killed, then waited for.
Cancel ==
    IF kind = "docker" THEN Finish
    ELSE /\ pump' = "wait"
         /\ source' = IF Running THEN "killed" ELSE source

PumpCancelled ==
    /\ pump = "read" /\ Cancelled
    /\ Cancel
    /\ UNCHANGED <<kind, body, slot, channel, line, stderr>>

PumpReads ==
    /\ pump = "read" /\ line # "none"
    /\ line' = "none"
    /\ pump' = IF line = "good" THEN "line" ELSE "bad"
    /\ UNCHANGED <<kind, body, slot, channel, source, stderr>>

PumpSends ==
    /\ pump = "line"
    /\ \/ /\ ~Cancelled /\ Room
          /\ Offer("line")
          /\ pump' = "read" /\ UNCHANGED source
       \/ /\ Cancelled /\ Cancel /\ UNCHANGED channel
    /\ UNCHANGED <<kind, body, slot, line, stderr>>

\* An undecodable or overlong line is reported.  The frames of Docker end
\* with it; so does FramedRead, which yields None after an error.
PumpRejects ==
    /\ pump = "bad"
    /\ \/ /\ ~Cancelled /\ Room
          /\ Offer("error")
          /\ IF kind = "docker" THEN Finish ELSE pump' = "unread" /\ UNCHANGED source
       \/ /\ Cancelled /\ Cancel /\ UNCHANGED channel
    /\ UNCHANGED <<kind, body, slot, line, stderr>>

\* The end of the output.
PumpEnds ==
    /\ pump = "read" /\ line = "none" /\ source = "exited"
    /\ pump' = IF kind = "docker" THEN "last" ELSE "wait"
    /\ UNCHANGED <<kind, body, slot, channel, source, line, stderr>>

\* child.wait(), 5 seconds at most, which a follower that nobody told to stop
\* outlasts.
PumpWaited ==
    /\ pump \in {"wait", "unread"}
    /\ source' = IF source \in {"exited", "killed"} THEN "reaped" ELSE source
    /\ stderr' = IF source \in {"exited", "killed"} THEN "ended" ELSE stderr
    /\ pump' = IF pump = "unread" /\ Running THEN "stuck" ELSE "stderr"
    /\ UNCHANGED <<kind, body, slot, channel, line>>

\* stderr_task.await, without limit; only then is a follower that runs on
\* killed.
PumpReadStderr ==
    /\ pump \in {"stderr", "stuck"} /\ stderr = "ended"
    /\ IF Cancelled THEN Finish
       ELSE pump' = "last" /\ source' = IF Running THEN "killed" ELSE source
    /\ UNCHANGED <<kind, body, slot, channel, line, stderr>>

\* The last message says how it ended (an unfinished last line of Docker goes
\* with it).
PumpReports ==
    /\ pump = "last" /\ Room
    /\ \E message \in {"status", "error"} : Offer(message)
    /\ Finish
    /\ UNCHANGED <<kind, body, slot, line, stderr>>

----------------------------------------------------------------------------
BodyStep == Deliver \/ BodyEnds
PumpStep ==
    \/ PumpReads \/ PumpSends \/ PumpRejects \/ PumpEnds
    \/ PumpWaited \/ PumpReadStderr \/ PumpReports

LogNext ==
    \/ OpenStream \/ SourceWrites \/ SourceEnds \/ StderrFull
    \/ BodyStep \/ DurationReached \/ ReaderLeaves
    \/ PumpCancelled \/ PumpStep

\* select! of the pump is random: the end of the receiver is noticed although
\* lines keep coming.  The body moves as the client reads, which nobody can
\* force; four hours end it.
LogFairness ==
    /\ WF_logVars(PumpStep)
    /\ SF_logVars(PumpCancelled)
    /\ WF_logVars(DurationReached)

----------------------------------------------------------------------------
(* Properties *)

\* docs/threat-model.md:29 says that disconnecting drops the Docker body, or
\* kills and reaps journalctl.
LeavingStopsSource == Cancelled ~> source = "reaped"

\* It does, unless the pump has given up reading a follower that runs on (one
\* overlong line is enough) and waits for its stderr; a full channel whose
\* receiver is gone holds nobody up.
LeavingStopsReadSource ==
    Cancelled ~> source = "reaped" \/ pump = "stuck"
=============================================================================
