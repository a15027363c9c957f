----------------------------- MODULE SpanOverlap -----------------------------
(***************************************************************************)
(* The overlap telemetry of ObservabilityCoordinator (observability.py):   *)
(* how often, and for how long, a sweep was running while a report was     *)
(* being built, or while Telegram was being served.                        *)
(*                                                                         *)
(* Three threads open and close spans, each call in one critical section   *)
(* of the coordinator's lock, which reads the clock inside.  Several calls *)
(* may read the same time.  The code keeps two counters and the last       *)
(* moment for each domain; the history keeps what was covered when.        *)
(***************************************************************************)
EXTENDS Naturals, FiniteSets

CONSTANT MaxTime    \* bound: the last reading of the clock

ASSUME OverlapAssumption == MaxTime \in Nat

VARIABLES
    now,     \* the clock
    open,    \* the spans each thread has open
    domain,  \* _overlap_domains
    cover    \* history: the time each kind was running, for each domain

vars == <<now, open, domain, cover>>

Threads == {"acquisition", "scheduler", "telegram"}
Keys    == {"sweeps", "reports", "telegram_handlers", "telegram_deliveries"}
Domains == {"sweep_report", "sweep_telegram"}
Kinds   == {"sweep", "component"}

DomainsOf(key) ==
    CASE key = "sweeps"  -> Domains
      [] key = "reports" -> {"sweep_report"}
      [] OTHER           -> {"sweep_telegram"}

KindOf(key) == IF key = "sweeps" THEN "sweep" ELSE "component"

None == MaxTime + 1    \* no boundary yet

Init ==
    /\ now = 0
    /\ open = [t \in Threads |-> {}]
    /\ domain = [d \in Domains |->
          [active |-> [k \in Kinds |-> 0], at |-> None, present |-> [k \in Kinds |-> FALSE],
           counted |-> FALSE, duration |-> 0, count |-> 0]]
    /\ cover = [d \in Domains |-> [k \in Kinds |-> {}]]

-----------------------------------------------------------------------------
(* One domain.                                                             *)

\* A boundary at which both are present begins an episode, unless it goes on.
PointEpisode(s) ==
    IF s.present["sweep"] /\ s.present["component"] /\ ~s.counted
    THEN [s EXCEPT !.count = @ + 1, !.counted = TRUE] ELSE s

Running(s) == [k \in Kinds |-> s.active[k] > 0]

BothRun(s) == \A k \in Kinds : s.active[k] > 0

\* Slip: the new boundary does not go on with the episode to its left.
AdvanceAfresh(s) ==
    CASE s.at = None -> PointEpisode([s EXCEPT !.at = now, !.present = Running(s), !.counted = FALSE])
      [] s.at = now  -> s
      [] OTHER -> PointEpisode([s EXCEPT !.at = now, !.present = Running(s), !.counted = FALSE,
                                !.duration = @ + (IF BothRun(s) THEN now - s.at ELSE 0)])

\* What lies behind the boundary is added up, and now becomes the boundary.
Advance(s) ==
    CASE s.at = None -> PointEpisode([s EXCEPT !.at = now, !.present = Running(s), !.counted = FALSE])
      [] s.at = now  -> s
      [] OTHER -> PointEpisode([s EXCEPT !.at = now, !.present = Running(s), !.counted = BothRun(s),
                                !.duration = @ + (IF BothRun(s) THEN now - s.at ELSE 0)])

\* A span starts or ends: either way it is there at this boundary.
Touch(s, kind, delta) ==
    LET advanced == Advance(s)
        n        == IF delta = "start" THEN advanced.active[kind] + 1 ELSE advanced.active[kind] - 1
    IN  PointEpisode([advanced EXCEPT !.active[kind] = n, !.present[kind] = TRUE])

-----------------------------------------------------------------------------
(* The spans.  Time is cut into cells: 2t is the moment t, and 2t + 1 what *)
(* lies between t and t + 1.                                               *)

\* A sweep, a scheduled report and then its delivery, a request with both in it.
MayStart(t, key) ==
    \/ t = "acquisition" /\ open[t] = {} /\ key = "sweeps"
    \/ t = "scheduler" /\ open[t] = {} /\ key \in {"reports", "telegram_deliveries"}
    \/ t = "telegram" /\ open[t] = {} /\ key = "telegram_handlers"
    \/ t = "telegram" /\ open[t] = {"telegram_handlers"}
                      /\ key \in {"reports", "telegram_deliveries"}

StartSpan(t, key) ==
    /\ MayStart(t, key)
    /\ open' = [open EXCEPT ![t] = @ \union {key}]
    /\ domain' = [d \in Domains |->
          IF d \in DomainsOf(key) THEN Touch(domain[d], KindOf(key), "start") ELSE domain[d]]
    /\ cover' = [d \in Domains |->
          IF d \in DomainsOf(key) THEN [cover[d] EXCEPT ![KindOf(key)] = @ \union {2 * now}]
                                  ELSE cover[d]]
    /\ UNCHANGED now

\* The inner span ends first.
EndSpan(t, key) ==
    /\ key \in open[t]
    /\ key = "telegram_handlers" => open[t] = {key}
    /\ open' = [open EXCEPT ![t] = @ \ {key}]
    /\ domain' = [d \in Domains |->
          IF d \in DomainsOf(key) THEN Touch(domain[d], KindOf(key), "end") ELSE domain[d]]
    /\ UNCHANGED <<now, cover>>

\* snapshot() moves the boundaries too.
Snapshot ==
    /\ domain' = [d \in Domains |-> Advance(domain[d])]
    /\ UNCHANGED <<now, open, cover>>

IsOpen(d, kind) ==
    \E t \in Threads : \E key \in open[t] : d \in DomainsOf(key) /\ KindOf(key) = kind

Tick ==
    /\ now < MaxTime
    /\ now' = now + 1
    /\ cover' = [d \in Domains |-> [k \in Kinds |->
          IF IsOpen(d, k) THEN cover[d][k] \union {2 * now + 1, 2 * now + 2} ELSE cover[d][k]]]
    /\ UNCHANGED <<open, domain>>

Next ==
    \/ \E t \in Threads, key \in Keys : StartSpan(t, key) \/ EndSpan(t, key)
    \/ Snapshot
    \/ Tick

Spec == Init /\ [][Next]_vars

-----------------------------------------------------------------------------
(* Properties.                                                             *)

\* The cells in which a sweep and a component of the domain were there together.
Together(d) == cover[d]["sweep"] \intersect cover[d]["component"]

\* The maximal stretches of time in which both were there, those of a single
\* moment included, when one began as the other ended.
Episodes(d) == {c \in Together(d) : c = 0 \/ c - 1 \notin Together(d)}

\* A snapshot, whenever it is taken and whatever was taken before, tells how many
\* episodes there were, and for how long both were running (_advance_domain,
\* _record_point_episode).
SnapshotExact ==
    \A d \in Domains :
        LET snapshot == Advance(domain[d])
        IN  /\ snapshot.count = Cardinality(Episodes(d))
            /\ snapshot.duration = Cardinality({c \in Together(d) : c % 2 = 1})
=============================================================================
