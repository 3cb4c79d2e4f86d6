--------------------------- MODULE TerminalSession ---------------------------
(***************************************************************************)
(* One WebSocket terminal (src/src/terminal.rs): the handler run_session,   *)
(* its two blocking threads read_pty and write_pty, the bounded channels   *)
(* between them, the shell behind the PTY and the client.  A chunk of data *)
(* is one unit; a step of the handler lies between two awaits.             *)
(***************************************************************************)
EXTENDS Naturals, Sequences

CONSTANTS
    QueueLimit,   \* 64: the channels to and from the PTY
    TtyLimit      \* bound: chunks the kernel buffers in each direction

ASSUME TerminalAssumption == QueueLimit \in Nat \ {0} /\ TtyLimit \in Nat \ {0}

VARIABLES
    session,   \* where run_session is
    reason,    \* why the relay ended
    client,    \* the peer of the WebSocket
    permit,    \* the semaphore permit of this session is taken
    shell,     \* the child process, as the handler's handle knows it
    tty,       \* what the kernel holds, and whether any process has the slave
    inputs,    \* the channel input_tx -> input_rx
    outputs,   \* the channel output_tx -> output_rx
    reader,    \* the thread read_pty
    writer,    \* the thread write_pty
    opened,    \* the audit event terminal.session.open
    closed     \* the audit event terminal.session.close, "lost" if its record failed

terminalVars == <<session, reason, client, permit, shell, tty, inputs, outputs,
                  reader, writer, opened, closed>>
queues == <<inputs, outputs>>
threads == <<reader, writer>>
records == <<opened, closed>>

Reasons == {"none", "client_disconnect", "protocol_error", "pty_write_timeout", "pty_error",
            "pty_closed", "child_exit", "child_error", "idle_timeout", "max_duration"}

TerminalTypeOK ==
    /\ session \in {"none", "spawn", "record", "status", "relay", "input", "output",
                    "exit", "cleanup", "join", "close", "done"}
    /\ reason \in Reasons
    /\ client \in {"open", "gone"}
    /\ permit \in BOOLEAN
    /\ shell \in {"none", "idle", "busy", "exited", "dying", "reaped"}
    /\ tty \in [in : 0 .. TtyLimit, out : 0 .. TtyLimit, held : BOOLEAN]
    /\ inputs \in [n : 0 .. QueueLimit, open : BOOLEAN]
    /\ outputs \in [items : Seq({"data", "error"}), open : BOOLEAN]
    /\ Len(outputs.items) <= QueueLimit
    /\ reader \in {"none", "read", "send", "fail", "done"}
    /\ writer \in {"none", "recv", "write", "fail", "done"}
    /\ opened \in {"none", "success", "failure"}
    /\ closed \in {"none", "success", "stopped", "failure", "lost"}

TerminalInit ==
    /\ session = "none" /\ reason = "none"
    /\ client = "open"
    /\ permit = FALSE
    /\ shell = "none"
    /\ tty = [in |-> 0, out |-> 0, held |-> FALSE]
    /\ inputs = [n |-> 0, open |-> FALSE]
    /\ outputs = [items |-> <<>>, open |-> FALSE]
    /\ reader = "none" /\ writer = "none"
    /\ opened = "none" /\ closed = "none"

----------------------------------------------------------------------------
(* The client and the shell. *)

ClientLeaves ==
    /\ client = "open" /\ session # "none"
    /\ client' = "gone"
    /\ UNCHANGED <<session, reason, permit, shell, tty, queues, threads, records>>

Alive == shell \in {"idle", "busy"}

\* A program in the terminal takes input and answers it, or prints at will;
\* it reads nothing more while its output does not get out.
ShellReads ==
    /\ shell = "idle"
    /\ tty.in > 0 /\ tty' = [tty EXCEPT !.in = @ - 1]
    /\ shell' = "busy"
    /\ UNCHANGED <<session, reason, client, permit, queues, threads, records>>

ShellPrints ==
    /\ shell = "idle" /\ shell' = "busy"
    /\ UNCHANGED <<session, reason, client, permit, tty, queues, threads, records>>

ShellWrites ==
    /\ shell = "busy" /\ tty.out < TtyLimit
    /\ tty' = [tty EXCEPT !.out = @ + 1]
    /\ shell' = "idle"
    /\ UNCHANGED <<session, reason, client, permit, queues, threads, records>>

\* It exits, and may leave a background job behind that keeps the slave open.
ShellExits ==
    /\ Alive
    /\ shell' = "exited"
    /\ tty' \in {tty, [tty EXCEPT !.held = TRUE]}
    /\ UNCHANGED <<session, reason, client, permit, queues, threads, records>>

\* That job ends some day, or never.
JobEnds ==
    /\ tty.held /\ tty' = [tty EXCEPT !.held = FALSE]
    /\ UNCHANGED <<session, reason, client, permit, shell, queues, threads, records>>

SlaveClosed == shell \in {"exited", "reaped"} /\ ~tty.held

----------------------------------------------------------------------------
(* Opening. *)

\* The upgrade is accepted with a permit (role, origin, CSRF and size are
\* checked by then), which run_session keeps until it returns.
Accept ==
    /\ session = "none"
    /\ permit' = TRUE
    /\ session' = "spawn"
    /\ UNCHANGED <<reason, client, shell, tty, queues, threads, records>>

Done == session' = "done" /\ permit' = FALSE

\* The event is attempted, and the client told if it still listens.
SpawnFailed ==
    /\ session = "spawn"
    /\ opened' \in {"failure", "none"}
    /\ Done
    /\ UNCHANGED <<reason, client, shell, tty, queues, threads, closed>>

Spawned ==
    /\ session = "spawn"
    /\ shell' = "idle"
    /\ session' = "record"
    /\ UNCHANGED <<reason, client, permit, tty, queues, threads, records>>

OpenRecorded ==
    /\ session = "record"
    /\ opened' = "success"
    /\ session' = "status"
    /\ UNCHANGED <<reason, client, permit, shell, tty, queues, threads, closed>>

\* Variant: the failure is only logged.
OpenUnrecordedGoesOn ==
    /\ session = "record"
    /\ session' = "status"
    /\ UNCHANGED <<reason, client, permit, shell, tty, queues, threads, records>>

\* A session that cannot be audited is cleaned up at once.
OpenUnrecorded ==
    /\ session = "record"
    /\ session' = "cleanup"
    /\ UNCHANGED <<reason, client, permit, shell, tty, queues, threads, records>>

StatusSent ==
    /\ session = "status" /\ client = "open"
    /\ session' = "relay"
    /\ inputs' = [inputs EXCEPT !.open = TRUE]
    /\ outputs' = [outputs EXCEPT !.open = TRUE]
    /\ reader' = "read" /\ writer' = "recv"
    /\ UNCHANGED <<reason, client, permit, shell, tty, records>>

StatusUnsent ==
    /\ session = "status"
    /\ session' = "cleanup"
    /\ reason' = "client_disconnect"
    /\ UNCHANGED <<client, permit, shell, tty, queues, threads, records>>

----------------------------------------------------------------------------
(* The relay loop. *)

End(why) == session' = "exit" /\ reason' = why

\* socket.recv(): input, a message that changes nothing here (a resize, a
\* ping that is answered), one that is refused, or the end of the client.
Receive ==
    /\ session = "relay"
    /\ \/ /\ client = "open"
          /\ session' = "input" /\ UNCHANGED reason
       \/ /\ client = "gone" /\ End("client_disconnect")
       \/ /\ client = "open" /\ \E why \in {"protocol_error", "pty_error"} : End(why)
    /\ UNCHANGED <<client, permit, shell, tty, queues, threads, records>>

\* input_tx.send, for 10 seconds at most: meanwhile nothing else is served.
InputSent ==
    /\ session = "input" /\ writer # "done" /\ inputs.n < QueueLimit
    /\ inputs' = [inputs EXCEPT !.n = @ + 1]
    /\ session' = "relay"
    /\ UNCHANGED <<reason, client, permit, shell, tty, outputs, threads, records>>

\* Variant: the send has no time limit.
InputWaits == writer = "done"

InputStuck == writer = "done" \/ inputs.n = QueueLimit

InputTimeout ==
    /\ session = "input" /\ InputStuck
    /\ End("pty_write_timeout")
    /\ UNCHANGED <<client, permit, shell, tty, queues, threads, records>>

\* output_rx.recv()
TakeOutput ==
    /\ session = "relay" /\ outputs.items # <<>>
    /\ outputs' = [outputs EXCEPT !.items = Tail(@)]
    /\ IF Head(outputs.items) = "data" THEN session' = "output" /\ UNCHANGED reason
                                       ELSE End("pty_error")
    /\ UNCHANGED <<client, permit, shell, tty, inputs, threads, records>>

OutputEnded ==
    /\ session = "relay" /\ outputs.items = <<>>
    /\ reader = "done" /\ writer = "done"
    /\ End("pty_closed")
    /\ UNCHANGED <<client, permit, shell, tty, queues, threads, records>>

\* socket.send, for 10 seconds at most.
OutputSent ==
    /\ session = "output" /\ client = "open"
    /\ session' = "relay"
    /\ UNCHANGED <<reason, client, permit, shell, tty, queues, threads, records>>

OutputTimeout ==
    /\ session = "output"
    /\ End("client_disconnect")
    /\ UNCHANGED <<client, permit, shell, tty, queues, threads, records>>

\* Every second: the child, the idle time and the whole duration.
TickExited ==
    /\ session = "relay" /\ shell = "exited"
    /\ shell' = "reaped"
    /\ End("child_exit")
    /\ UNCHANGED <<client, permit, tty, queues, threads, records>>

TickTimeout ==
    /\ session = "relay"
    /\ \E why \in {"idle_timeout", "max_duration", "child_error"} : End(why)
    /\ UNCHANGED <<client, permit, shell, tty, queues, threads, records>>

----------------------------------------------------------------------------
(* Closing. *)

\* Variant: output_rx outlives the relay.
DisconnectedLate(channel) == channel

Disconnected(channel) == [channel EXCEPT !.open = FALSE]

\* The exit message has been sent or has timed out; both channels are dropped.
Exit ==
    /\ session = "exit"
    /\ session' = "cleanup"
    /\ inputs' = [inputs EXCEPT !.open = FALSE]
    /\ outputs' = Disconnected([outputs EXCEPT !.items = <<>>])
    /\ UNCHANGED <<reason, client, permit, shell, tty, threads, records>>

\* Variant: a session that got no further than its status message is closed
\* without a record.
AfterCleanupOfRelay == IF opened # "success" \/ reader = "none" THEN Done
                       ELSE session' = "join" /\ UNCHANGED permit

AfterCleanup == IF opened # "success" THEN Done
                ELSE /\ session' = IF reader = "none" THEN "close" ELSE "join"
                     /\ UNCHANGED permit

\* Variant: only a child that has exited by itself is waited for.
CleanupOfExited ==
    /\ session = "cleanup"
    /\ shell' = IF shell = "exited" THEN "reaped" ELSE shell
    /\ AfterCleanup
    /\ UNCHANGED <<reason, client, tty, queues, threads, records>>

\* cleanup_child hangs up the foreground group, kills the child and waits.
Cleanup ==
    /\ session = "cleanup"
    /\ shell' = "reaped"
    /\ AfterCleanup
    /\ UNCHANGED <<reason, client, tty, queues, threads, records>>

\* After 3 seconds the blocking task goes on by itself.
CleanupTimeout ==
    /\ session = "cleanup" /\ Alive
    /\ shell' = "dying"
    /\ AfterCleanup
    /\ UNCHANGED <<reason, client, tty, queues, threads, records>>

KillEnds ==
    /\ shell = "dying" /\ shell' = "reaped"
    /\ UNCHANGED <<session, reason, client, permit, tty, queues, threads, records>>

\* Each thread is waited for, 2 seconds at most.
Join ==
    /\ session = "join"
    /\ session' = "close"
    /\ UNCHANGED <<reason, client, permit, shell, tty, queues, threads, records>>

\* record_close; a zero exit code is the shell's choice.
Results == IF reason = "child_exit" THEN {"success", "failure"}
           ELSE IF reason \in {"client_disconnect", "idle_timeout", "max_duration"}
                THEN {"stopped"} ELSE {"failure"}

Close ==
    /\ session = "close"
    /\ closed' \in Results \cup {"lost"}
    /\ Done
    /\ UNCHANGED <<reason, client, shell, tty, queues, threads, opened>>

----------------------------------------------------------------------------
(* The blocking threads. *)

ReadData ==
    /\ reader = "read" /\ tty.out > 0
    /\ tty' = [tty EXCEPT !.out = @ - 1]
    /\ reader' = "send"
    /\ UNCHANGED <<session, reason, client, permit, shell, queues, writer, records>>

\* EOF, or EIO once no process has the slave; another error is passed on.
ReadEnds ==
    /\ reader = "read" /\ tty.out = 0 /\ SlaveClosed
    /\ reader' \in {"done", "fail"}
    /\ UNCHANGED <<session, reason, client, permit, shell, tty, queues, writer, records>>

\* Variant: the channel is unbounded.
SentUnbounded(item) ==
    /\ outputs' = IF outputs.open THEN [outputs EXCEPT !.items = Append(@, item)] ELSE outputs

\* blocking_send: blocks on a full queue, fails without a receiver.
Sent(item) ==
    \/ /\ outputs.open /\ Len(outputs.items) < QueueLimit
       /\ outputs' = [outputs EXCEPT !.items = Append(@, item)]
    \/ ~outputs.open /\ UNCHANGED outputs

ReaderSends ==
    /\ reader = "send"
    /\ Sent("data")
    /\ reader' = IF outputs.open THEN "read" ELSE "done"
    /\ UNCHANGED <<session, reason, client, permit, shell, tty, inputs, writer, records>>

ReaderFails ==
    /\ reader = "fail"
    /\ Sent("error")
    /\ reader' = "done"
    /\ UNCHANGED <<session, reason, client, permit, shell, tty, inputs, writer, records>>

WriterTakes ==
    /\ writer = "recv"
    /\ \/ /\ inputs.n > 0
          /\ inputs' = [inputs EXCEPT !.n = @ - 1]
          /\ writer' = "write"
       \/ /\ inputs.n = 0 /\ ~inputs.open
          /\ writer' = "done" /\ UNCHANGED inputs
    /\ UNCHANGED <<session, reason, client, permit, shell, tty, outputs, reader, records>>

WriterWrites ==
    /\ writer = "write" /\ tty.in < TtyLimit
    /\ tty' = [tty EXCEPT !.in = @ + 1]
    /\ writer' = "recv"
    /\ UNCHANGED <<session, reason, client, permit, shell, queues, reader, records>>

\* A terminal without slave takes no more: the write fails.
WriterBreaks ==
    /\ writer = "write" /\ SlaveClosed
    /\ writer' = "fail"
    /\ UNCHANGED <<session, reason, client, permit, shell, tty, queues, reader, records>>

WriterFails ==
    /\ writer = "fail"
    /\ Sent("error")
    /\ writer' = "done"
    /\ UNCHANGED <<session, reason, client, permit, shell, tty, inputs, reader, records>>

----------------------------------------------------------------------------
ReaderStep == ReadData \/ ReadEnds \/ ReaderSends \/ ReaderFails
WriterStep == WriterTakes \/ WriterWrites \/ WriterBreaks \/ WriterFails

SessionStep ==
    \/ SpawnFailed \/ Spawned \/ OpenRecorded \/ OpenUnrecorded \/ StatusSent \/ StatusUnsent
    \/ Receive \/ InputSent \/ InputTimeout \/ TakeOutput \/ OutputEnded
    \/ OutputSent \/ OutputTimeout \/ TickExited \/ TickTimeout
    \/ Exit \/ Cleanup \/ CleanupTimeout \/ Join \/ Close

TerminalNext ==
    \/ Accept \/ ClientLeaves
    \/ ShellReads \/ ShellPrints \/ ShellWrites \/ ShellExits \/ JobEnds
    \/ SessionStep \/ KillEnds \/ ReaderStep \/ WriterStep

\* select! polls its branches in random order, so that the ticker and a
\* client that left are served in the end; every await of the handler has a
\* time limit.  Nothing is assumed of the client, nor of the shell while it
\* runs; a killed child dies.
TerminalFairness ==
    /\ WF_terminalVars(SessionStep)
    /\ SF_terminalVars(client = "gone" /\ Receive)
    /\ SF_terminalVars(TickTimeout)
    /\ WF_terminalVars(KillEnds)
    /\ WF_terminalVars(ReaderStep)
    /\ WF_terminalVars(WriterStep)

----------------------------------------------------------------------------
(* Properties *)

\* From the spawn of its shell to the shell's end a session keeps its permit of the
\* semaphore, on every way out; excepted is a shell that outlives the 3 seconds of
\* cleanup_child, which may still be dying when run_session returns.
ShellHasPermit ==
    shell \notin {"none", "reaped"} => permit \/ (shell = "dying" /\ session = "done")

\* No input reaches a shell whose opening is not recorded.  A session with a recorded
\* opening never ends without an attempt to record its closing, whichever way it ends
\* (the write of that record may fail, which is only logged), and a closing follows
\* a recorded opening and the end of the shell, or the kill that has not yet ended it.
AuditBrackets ==
    /\ tty.in > 0 \/ inputs.n > 0 => opened = "success"
    /\ session = "done" /\ opened = "success" => closed # "none"
    /\ closed # "none" => opened = "success" /\ shell \in {"dying", "reaped"}

\* A session whose client is gone gives its permit back, also when the shell,
\* both threads and the handler all wait on a full queue of the other side;
\* and it ends at the latest when its time is up.
SessionEnds == permit ~> ~permit

\* The threads do not outlive the session, unless a background job keeps the
\* terminal open.
ThreadsEnd ==
    session = "done" ~> \/ reader \in {"none", "done"} /\ writer \in {"none", "done"}
                        \/ tty.held
=============================================================================
