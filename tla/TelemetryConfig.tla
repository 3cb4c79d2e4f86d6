--------------------------- MODULE TelemetryConfig ---------------------------
(***************************************************************************)
(* The configuration of the telemetry service (src/src/telemetry.rs): two  *)
(* rows of the settings table, two atomics, the latest snapshot, which     *)
(* carries the interval and mode it was taken under, and the collector     *)
(* that reads the atomics and overwrites the snapshot.                     *)
(***************************************************************************)
EXTENDS Naturals

CONSTANTS
    Operators,   \* handlers of POST /metrics/config
    Intervals,   \* of the profiles: 5, 15 and 30 seconds
    Balanced,    \* the default profile's
    Wanted       \* bound: the configurations operators ask for

Slow == 60

ASSUME TelemetryAssumption ==
    /\ Intervals \subseteq Nat /\ Slow \notin Intervals /\ Balanced \in Intervals
    /\ Wanted \subseteq [interval : Intervals, slow : BOOLEAN]

Configs == [interval : Intervals, slow : BOOLEAN]
Views == [interval : Intervals \cup {Slow}, slow : BOOLEAN]

VARIABLES
    settings,    \* telemetry_profile (by its interval) and performance_mode
    current,     \* interval_seconds and performance_mode, the atomics
    latest,      \* the snapshot readers and subscribers are given
    configure,   \* where each configure is, with what it was asked
    collector,   \* where the collector is, with what it has read
    undisturbed  \* the last configure to begin, if any since the start, met no
                 \* other one and has not been cut short between its writes

telemetryVars == <<settings, current, latest, configure, collector, undisturbed>>

TelemetryTypeOK ==
    /\ settings \in Configs
    /\ current \in Views
    /\ latest \in Views
    /\ configure \in [Operators ->
          [at : {"none", "profile", "mode", "interval", "flag", "publish"}, to : Configs]]
    /\ collector \in [at : {"off", "load", "sleep", "built"}, view : Views]
    /\ undisturbed \in BOOLEAN

\* The interval in force: performance mode slows the collection down.
Effective(c) == [c EXCEPT !.interval = IF c.slow THEN Slow ELSE @]

\* Variant: the profile alone sets the interval.
EffectiveAtStart(c) == c

\* start(): from the settings on disk.
AtStart(c) == Effective(c)

Default == [interval |-> Balanced, slow |-> FALSE]
Idle == [at |-> "none", to |-> Default]

TelemetryInit ==
    /\ settings = Default
    /\ current = settings /\ latest = settings
    /\ configure = [o \in Operators |-> Idle]
    /\ collector = [at |-> "off", view |-> settings]
    /\ undisturbed = TRUE

----------------------------------------------------------------------------
(* configure(), a write at a time. *)

Quiet == \A o \in Operators : configure[o].at = "none"

Step(o, from, to) ==
    configure[o].at = from /\ configure' = [configure EXCEPT ![o].at = to]

Ask(o, c) ==
    /\ collector.at # "off" /\ configure[o].at = "none"
    /\ configure' = [configure EXCEPT ![o] = [at |-> "profile", to |-> c]]
    /\ undisturbed' = Quiet
    /\ UNCHANGED <<settings, current, latest, collector>>

SetProfile(o) ==
    /\ Step(o, "profile", "mode")
    /\ settings' = [settings EXCEPT !.interval = configure[o].to.interval]
    /\ UNCHANGED <<current, latest, collector, undisturbed>>

SetMode(o) ==
    /\ Step(o, "mode", "interval")
    /\ settings' = [settings EXCEPT !.slow = configure[o].to.slow]
    /\ UNCHANGED <<current, latest, collector, undisturbed>>

StoreInterval(o) ==
    /\ Step(o, "interval", "flag")
    /\ current' = [current EXCEPT !.interval = Effective(configure[o].to).interval]
    /\ UNCHANGED <<settings, latest, collector, undisturbed>>

StoreFlag(o) ==
    /\ Step(o, "flag", "publish")
    /\ current' = [current EXCEPT !.slow = configure[o].to.slow]
    /\ UNCHANGED <<settings, latest, collector, undisturbed>>

Publish(o) ==
    /\ configure[o].at = "publish"
    /\ configure' = [configure EXCEPT ![o] = Idle]
    /\ latest' = Effective(configure[o].to)
    /\ UNCHANGED <<settings, current, collector, undisturbed>>

\* A statement fails, or the client leaves and the handler is dropped.
CutShort(o) ==
    /\ configure[o].at \in {"profile", "mode", "publish"}
    /\ configure' = [configure EXCEPT ![o] = Idle]
    /\ undisturbed' = (undisturbed /\ configure[o].at = "publish")
    /\ UNCHANGED <<settings, current, latest, collector>>

----------------------------------------------------------------------------
(* The collector, and the start of the server. *)

\* Variant: the interval is loaded once.
LoadedAtStart == collector.view

Loaded == [collector.view EXCEPT !.interval = current.interval]

Load ==
    /\ collector.at = "load"
    /\ collector' = [at |-> "sleep", view |-> Loaded]
    /\ UNCHANGED <<settings, current, latest, configure, undisturbed>>

\* The interval is slept, and the sample built with the mode of the moment; one
\* that cannot be taken or built is given up.
Build ==
    /\ collector.at = "sleep"
    /\ collector' = [at |-> "built", view |-> [collector.view EXCEPT !.slow = current.slow]]
    /\ UNCHANGED <<settings, current, latest, configure, undisturbed>>

BuildFails ==
    /\ collector.at = "sleep"
    /\ collector' = [collector EXCEPT !.at = "load"]
    /\ UNCHANGED <<settings, current, latest, configure, undisturbed>>

Overwrite ==
    /\ collector.at = "built"
    /\ latest' = collector.view
    /\ collector' = [collector EXCEPT !.at = "load"]
    /\ UNCHANGED <<settings, current, configure, undisturbed>>

\* The first start, or one after the process ended whatever was under way.
Start ==
    /\ current' = AtStart(settings) /\ latest' = AtStart(settings)
    /\ collector' = [at |-> "load", view |-> AtStart(settings)]
    /\ configure' = [o \in Operators |-> Idle]
    /\ undisturbed' = TRUE
    /\ UNCHANGED settings

TelemetryNext ==
    \/ \E o \in Operators :
          \/ \E c \in Wanted : Ask(o, c)
          \/ SetProfile(o) \/ SetMode(o) \/ StoreInterval(o) \/ StoreFlag(o) \/ Publish(o)
          \/ CutShort(o)
    \/ Load \/ Build \/ BuildFails \/ Overwrite
    \/ Start

\* The collector is a loop of its own; not every sample fails.
TelemetryFairness ==
    /\ WF_telemetryVars(Load)
    /\ SF_telemetryVars(Build)
    /\ WF_telemetryVars(Overwrite)

----------------------------------------------------------------------------
(* Properties *)

\* What is in force is what a restart would restore, after a restart and after every
\* configure that ran alone and made its four writes: also when overlapping or
\* interrupted ones before it had left the settings and the atomics apart.  Excepted
\* is the time until then: while a configure is under way, and after one that met
\* another or was cut short by a failed statement or by its client's leaving.
ConfigIsDurable == Quiet /\ undisturbed => current = Effective(settings)

\* A snapshot that the collector began under the old configuration overwrites
\* the new one; once nobody configures, the snapshots agree with what is in
\* force again, for good.
SnapshotsCatchUp == <>[][Quiet /\ Quiet']_telemetryVars => <>[](latest = current)
=============================================================================
