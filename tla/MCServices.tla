----------------------------- MODULE MCServices ------------------------------
(* Small queues, two handlers of each kind. *)
EXTENDS Services

CONSTANTS h1, h2, c1, c2

\* One part alone, for a run that shows a violation.
MCLogs == {"logs"}
MCTools == {"tools"}

MCWanted == {[interval |-> 5, slow |-> FALSE], [interval |-> 15, slow |-> TRUE]}
=============================================================================
