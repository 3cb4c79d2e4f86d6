---------------------------- MODULE LoginThrottle ----------------------------
(***************************************************************************)
(* Logins from one address (src/src/auth.rs, login): the throttle reads    *)
(* how many failed lately, the password is verified, which takes long, and *)
(* only then the attempt is recorded.                                      *)
(***************************************************************************)
EXTENDS Naturals, Sequences, FiniteSets

CONSTANTS
    Logins,      \* handlers of POST /auth/login
    Failures,    \* 5: failures after which the throttle closes
    Window,      \* 900 seconds
    MaxTime      \* bound: the clock stops there

ASSUME LoginAssumption ==
    /\ Failures \in Nat \ {0} /\ Window \in Nat \ {0} /\ MaxTime \in Nat
    /\ IsFiniteSet(Logins)

Times == 0 .. MaxTime

VARIABLES
    clock,      \* seconds
    login,      \* where each handler is
    failed      \* login_attempts: the times of the failed ones

loginVars == <<clock, login, failed>>

LoginTypeOK ==
    /\ clock \in Times
    /\ login \in [Logins -> {"none", "passed", "wrong", "right", "recorded"}]
    /\ failed \in Seq(Times)

LoginInit ==
    /\ clock = 0
    /\ login = [l \in Logins |-> "none"]
    /\ failed = <<>>

Move(l, to) == login' = [login EXCEPT ![l] = to]

\* created_at > now - 900
RecentRows == {i \in DOMAIN failed : failed[i] + Window > clock}
Recent == Cardinality(RecentRows)

Time ==
    /\ clock < MaxTime /\ clock' = clock + 1
    /\ UNCHANGED <<login, failed>>

\* Variant: one failure more is let through.
OpenLonger == Recent <= Failures

\* enforce_login_rate_limit
Open == Recent < Failures

Enter(l) ==
    /\ login[l] = "none"
    /\ Open /\ Move(l, "passed")
    /\ UNCHANGED <<clock, failed>>

\* The row, if any and enabled, is read and the password verified; without a
\* row as much time is spent on another hash.
Verify(l) ==
    /\ login[l] = "passed"
    /\ \E answer \in {"right", "wrong"} : Move(l, answer)
    /\ UNCHANGED <<clock, failed>>

\* record_login_attempt
Fail(l) ==
    /\ login[l] = "wrong" /\ Move(l, "none")
    /\ failed' = Append(failed, clock)
    /\ UNCHANGED clock

Succeed(l) ==
    /\ login[l] = "right" /\ Move(l, "recorded")
    /\ UNCHANGED <<clock, failed>>

\* A session is created and the cookie answered; the throttle has done its
\* part, and another login may come.
CreateSession(l) ==
    /\ login[l] = "recorded" /\ Move(l, "none")
    /\ UNCHANGED <<clock, failed>>

\* A statement fails, or the client leaves and the handler is dropped.
Abandon(l) ==
    /\ login[l] \in {"passed", "wrong", "right", "recorded"} /\ Move(l, "none")
    /\ UNCHANGED <<clock, failed>>

LoginNext ==
    \/ Time
    \/ \E l \in Logins :
          \/ Enter(l) \/ Verify(l) \/ Fail(l) \/ Succeed(l) \/ CreateSession(l) \/ Abandon(l)

----------------------------------------------------------------------------
(* Properties *)

\* The throttle is read before the attempt that it lets through is counted:
\* as many logins as are under way at once may fail beyond the limit, and no
\* more, in any 900 seconds.
FailuresAreBounded == Recent < Failures + Cardinality(Logins)
=============================================================================
