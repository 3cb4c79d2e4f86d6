--------------------------- MODULE ProjectRegistry ---------------------------
(***************************************************************************)
(* The registration of one project directory (src/src/projects.rs,         *)
(* register and remove): the row, unique by its path, the audit event      *)
(* written after it, and the compensation when that fails.  The server     *)
(* drops a handler whose client leaves, at the await it is in.             *)
(***************************************************************************)
EXTENDS Naturals

CONSTANTS
    Handlers,    \* requests that register or remove
    MaxId        \* bound: registrations, each with an id of its own

ASSUME ProjectAssumption == MaxId \in Nat

Ids == 1 .. MaxId
NoRow == 0

VARIABLES
    row,         \* the id of the row with this path
    issued,      \* ids given out
    request,     \* where each handler is, with its id and its success
    events,      \* project.register and project.unregister on record
    lapsed       \* ids whose compensation failed or came too late, or
                 \* whose handler was dropped between the two writes

projectVars == <<row, issued, request, events, lapsed>>

Actions == {"register", "unregister"}

ProjectTypeOK ==
    /\ row \in 0 .. MaxId
    /\ issued \in 0 .. MaxId
    /\ request \in [Handlers ->
          [at : {"none", "found", "record", "compensate"},
           action : Actions, id : 0 .. MaxId, ok : BOOLEAN]]
    /\ events \subseteq (Actions \X Ids)
    /\ lapsed \subseteq Ids

NoRequest == [at |-> "none", action |-> "register", id |-> NoRow, ok |-> FALSE]

ProjectInit ==
    /\ row = NoRow
    /\ issued = 0
    /\ request = [h \in Handlers |-> NoRequest]
    /\ events = {}
    /\ lapsed = {}

Put(h, r) == request' = [request EXCEPT ![h] = r]

\* register: INSERT, which fails when the path is registered, or otherwise.
Register(h) ==
    /\ request[h].at = "none" /\ issued < MaxId
    /\ issued' = issued + 1
    /\ \E ok \in {FALSE, row = NoRow} :
          /\ row' = IF ok THEN issued' ELSE row
          /\ Put(h, [at |-> "record", action |-> "register", id |-> issued', ok |-> ok])
    /\ UNCHANGED <<events, lapsed>>

\* remove: the row is read first, for the event and the compensation ...
Find(h) ==
    /\ request[h].at = "none" /\ row # NoRow
    /\ Put(h, [at |-> "found", action |-> "unregister", id |-> row, ok |-> FALSE])
    /\ UNCHANGED <<row, issued, events, lapsed>>

\* ... and deleted; another remove may have been faster, or the DELETE fails.
Unregister(h) ==
    /\ request[h].at = "found"
    /\ \E ok \in {FALSE, row = request[h].id} :
          /\ row' = IF ok THEN NoRow ELSE row
          /\ Put(h, [request[h] EXCEPT !.at = "record", !.ok = ok])
    /\ UNCHANGED <<issued, events, lapsed>>

RecordDone(h) ==
    /\ request[h].at = "record"
    /\ events' = IF request[h].ok THEN events \cup {<<request[h].action, request[h].id>>}
                                  ELSE events
    /\ Put(h, NoRequest)
    /\ UNCHANGED <<row, issued, lapsed>>

\* Variant: an unrecorded removal is left as it is.
AfterFailedRemoval(r) ==
    IF r.ok /\ r.action = "register" THEN [r EXCEPT !.at = "compensate"] ELSE NoRequest

AfterUnrecorded(r) == IF r.ok THEN [r EXCEPT !.at = "compensate"] ELSE NoRequest

RecordFailed(h) ==
    /\ request[h].at = "record"
    /\ Put(h, AfterUnrecorded(request[h]))
    /\ UNCHANGED <<row, issued, events, lapsed>>

\* DELETE of the row just inserted, which another remove may have deleted (and
\* may yet put back); INSERT OR IGNORE of the row just deleted, ignored when
\* the path has been registered again.
Compensate(h) ==
    /\ request[h].at = "compensate"
    /\ LET r == request[h] IN
       /\ row' = IF r.action = "register" THEN (IF row = r.id THEN NoRow ELSE row)
                 ELSE IF row = NoRow THEN r.id ELSE row
       /\ lapsed' = IF row = (IF r.action = "register" THEN r.id ELSE NoRow)
                     THEN lapsed ELSE lapsed \cup {r.id}
    /\ Put(h, NoRequest)
    /\ UNCHANGED <<issued, events>>

\* Its error is ignored; a dropped handler does not get that far.
Lapse(h) ==
    /\ request[h].at \in {"found", "record", "compensate"}
    /\ lapsed' = IF request[h].ok THEN lapsed \cup {request[h].id} ELSE lapsed
    /\ Put(h, NoRequest)
    /\ UNCHANGED <<row, issued, events>>

ProjectNext ==
    \E h \in Handlers :
        \/ Register(h) \/ Find(h) \/ Unregister(h)
        \/ RecordDone(h) \/ RecordFailed(h) \/ Compensate(h) \/ Lapse(h)

----------------------------------------------------------------------------
(* Properties *)

\* A handler is still at work on project i.
Busy(i) == \E h \in Handlers : request[h].at # "none" /\ request[h].id = i

\* A registered project has its registration on record, and one that was
\* registered and is gone has its removal on record, whatever handlers run
\* beside each other and whichever records fail; excepted are the ids in
\* `lapsed`, whose compensation failed or was overtaken by another handler on
\* the same directory, or whose handler was dropped after its first write.
\* Without exception, a removal on record is final: no compensation brings
\* back a project whose removal the log claims.
RegistryMatchesLog ==
    /\ row # NoRow => <<"register", row>> \in events \/ Busy(row) \/ row \in lapsed
    /\ \A i \in Ids : <<"register", i>> \in events /\ row # i =>
          <<"unregister", i>> \in events \/ Busy(i) \/ i \in lapsed
    /\ \A i \in Ids : <<"unregister", i>> \in events => row # i
=============================================================================
