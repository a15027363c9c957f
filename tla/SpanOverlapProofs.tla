-------------------------- MODULE SpanOverlapProofs --------------------------
(***************************************************************************)
(* For every last reading of the clock: a snapshot of the overlap          *)
(* counters, whenever it is taken, tells how many episodes of overlap      *)
(* there were and how long they lasted.                                    *)
(*                                                                         *)
(* The argument.  Of a domain the code keeps one boundary and what was     *)
(* there at it.  Behind the boundary nothing has changed, so a kind that   *)
(* runs was there ever since (Since); so what is still to be added to the  *)
(* duration is known (Pending), and no episode begins behind the boundary  *)
(* before the next call.  An episode that begins at the boundary is        *)
(* counted when both kinds are there, once (counted).                      *)
(***************************************************************************)
EXTENDS SpanOverlap, FiniteSetTheorems, TLAPS

-----------------------------------------------------------------------------
(* What the code keeps of a domain, and what it stands for.                *)

States ==
    [active : [Kinds -> Nat], at : Nat, present : [Kinds -> BOOLEAN],
     counted : BOOLEAN, duration : Nat, count : Nat]

Covers(upto) == [Kinds -> SUBSET (0 .. upto)]

Both(c)   == c["sweep"] \intersect c["component"]
Firsts(c) == {x \in Both(c) : x = 0 \/ x - 1 \notin Both(c)}
Odd(c)    == {x \in Both(c) : x % 2 = 1}

BothThere(s) == s.present["sweep"] /\ s.present["component"]

\* Before the first call of a domain there is no boundary, and nothing was there.
Untouched(s, c) ==
    \A k \in Kinds : s.active[k] = 0 /\ ~s.present[k] /\ c[k] = {}

\* What the boundary says of the moment itself, and of what came after it.
Since(s, c, time) ==
    /\ s.at <= time
    /\ \A k \in Kinds :
          /\ s.present[k] <=> 2 * s.at \in c[k]
          /\ s.active[k] = 0 => \A x \in c[k] : x <= 2 * s.at
          /\ s.active[k] > 0 => (2 * s.at) .. (2 * time) \subseteq c[k]

\* What was there between two moments was there at the later one.
Lasting(c) == \A k \in Kinds : \A t \in Nat : 2 * t + 1 \in c[k] => 2 * t + 2 \in c[k]

\* What the next call will add to the duration.
Pending(s, time) == IF s.at # None /\ BothRun(s) THEN time - s.at ELSE 0

DomainInv(s, c, time) ==
    /\ s \in States /\ c \in Covers(2 * time)
    /\ s.at = None => Untouched(s, c)
    /\ s.at # None => Since(s, c, time)
    /\ s.counted = BothThere(s)
    /\ Lasting(c)
    /\ s.count = Cardinality(Firsts(c))
    /\ s.duration + Pending(s, time) = Cardinality(Odd(c))

\* What is counted in a domain are the spans that are open.
One(t, key) == IF key \in open[t] THEN 1 ELSE 0

Counts ==
    /\ domain["sweep_report"].active["sweep"] = One("acquisition", "sweeps")
    /\ domain["sweep_telegram"].active["sweep"] = One("acquisition", "sweeps")
    /\ domain["sweep_report"].active["component"] = One("scheduler", "reports") + One("telegram", "reports")
    /\ domain["sweep_telegram"].active["component"]
          = One("telegram", "telegram_handlers") + One("scheduler", "telegram_deliveries")
            + One("telegram", "telegram_deliveries")

\* What a thread can have open at once.
OpenOK ==
    /\ open \in [Threads -> SUBSET Keys]
    /\ open["acquisition"] \in {{}, {"sweeps"}}
    /\ open["scheduler"] \in {{}, {"reports"}, {"telegram_deliveries"}}
    /\ open["telegram"] \in {{}, {"telegram_handlers"}, {"telegram_handlers", "reports"},
                             {"telegram_handlers", "telegram_deliveries"}}

SpanInv ==
    /\ now \in 0 .. MaxTime
    /\ OpenOK /\ Counts
    /\ domain \in [Domains -> States] /\ cover \in [Domains -> Covers(2 * now)]
    /\ \A d \in Domains : DomainInv(domain[d], cover[d], now)

-----------------------------------------------------------------------------
(* The sets that are counted.                                              *)

\* They are finite.
LEMMA Finite ==
    ASSUME NEW n \in Nat, NEW c \in Covers(n)
    PROVE  IsFiniteSet(Firsts(c)) /\ IsFiniteSet(Odd(c))
<1>1. IsFiniteSet(0 .. n)
  BY FS_Interval
<1>2. Firsts(c) \subseteq 0 .. n /\ Odd(c) \subseteq 0 .. n
  BY DEF Firsts, Odd, Both, Covers, Kinds
<1> QED BY <1>1, <1>2, FS_Subset

\* A moment with a gap to its left begins an episode, and lasts no time.
LEMMA PointAdds ==
    ASSUME NEW n \in Nat, NEW c \in Covers(2 * n), NEW b \in Covers(2 * n),
           Lasting(c), 2 * n \notin Both(c), Both(b) = Both(c) \union {2 * n}
    PROVE  /\ Cardinality(Firsts(b)) = Cardinality(Firsts(c)) + 1
           /\ Cardinality(Odd(b)) = Cardinality(Odd(c))
<1>1. Both(c) \subseteq 0 .. 2 * n
  BY DEF Both, Covers, Kinds
<1>2. n = 0 \/ 2 * n - 1 \notin Both(c)
  <2> SUFFICES ASSUME n # 0, 2 * n - 1 \in Both(c) PROVE FALSE
    OBVIOUS
  <2>1. n - 1 \in Nat /\ 2 * (n - 1) + 1 = 2 * n - 1 /\ 2 * (n - 1) + 2 = 2 * n
    OBVIOUS
  <2> QED BY <2>1 DEF Both, Lasting, Kinds
<1>3. Firsts(b) = Firsts(c) \union {2 * n}
  <2>1. 2 * n \in Firsts(b)
    <3>1. 2 * n = 0 \/ 2 * n - 1 \notin Both(b)
      BY <1>2
    <3> QED BY <3>1 DEF Firsts
  <2>2. ASSUME NEW x \in Both(c) PROVE x - 1 \in Both(b) <=> x - 1 \in Both(c)
    BY <1>1
  <2> QED BY <2>1, <2>2 DEF Firsts
<1>4. 2 * n \notin Firsts(c)
  BY DEF Firsts
<1>5. Odd(b) = Odd(c)
  <2>1. (2 * n) % 2 = 0
    OBVIOUS
  <2> QED BY <2>1 DEF Odd
<1>6. IsFiniteSet(Firsts(c))
  BY Finite, 2 * n \in Nat
<1> QED BY <1>3, <1>4, <1>5, <1>6, FS_AddElement

\* Time that goes on from a moment in an episode adds to it, and begins none.
LEMMA CellAdds ==
    ASSUME NEW n \in Nat, NEW c \in Covers(2 * n), NEW b \in Covers(2 * n + 2),
           2 * n \in Both(c), Both(b) = Both(c) \union {2 * n + 1, 2 * n + 2}
    PROVE  /\ Cardinality(Firsts(b)) = Cardinality(Firsts(c))
           /\ Cardinality(Odd(b)) = Cardinality(Odd(c)) + 1
<1>1. Both(c) \subseteq 0 .. 2 * n
  BY DEF Both, Covers, Kinds
<1>2. Firsts(b) = Firsts(c)
  <2>1. 2 * n + 1 \notin Firsts(b) /\ 2 * n + 2 \notin Firsts(b)
    <3>1. (2 * n + 1) - 1 \in Both(b) /\ (2 * n + 2) - 1 \in Both(b)
      OBVIOUS
    <3> QED BY <3>1 DEF Firsts
  <2>2. ASSUME NEW x \in Both(c) PROVE x - 1 \in Both(b) <=> x - 1 \in Both(c)
    BY <1>1
  <2> QED BY <2>1, <2>2 DEF Firsts
<1>3. Odd(b) = Odd(c) \union {2 * n + 1}
  <2>1. (2 * n + 1) % 2 = 1 /\ (2 * n + 2) % 2 = 0
    OBVIOUS
  <2> QED BY <2>1 DEF Odd
<1>4. 2 * n + 1 \notin Odd(c)
  BY <1>1 DEF Odd
<1>5. IsFiniteSet(Odd(c))
  BY Finite, 2 * n \in Nat
<1> QED BY <1>2, <1>3, <1>4, <1>5, FS_AddElement

-----------------------------------------------------------------------------
(* One call.                                                               *)

\* What a state that was advanced from s to now is.
Advanced(a, s, c) ==
    /\ a \in States /\ a.at = now
    /\ a.active = s.active
    /\ \A k \in Kinds : a.present[k] <=> 2 * now \in c[k]
    /\ a.counted = BothThere(a)
    /\ a.count = s.count
    /\ a.duration = s.duration + Pending(s, now)

\* A boundary that moves to now, when what is pending is added to the duration.
LEMMA BoundaryMoves ==
    ASSUME NEW s, NEW c, now \in 0 .. MaxTime, DomainInv(s, c, now), s.at # now,
           NEW flag \in BOOLEAN, flag <=> BothRun(s), NEW total \in Nat, total = s.duration + Pending(s, now)
    PROVE  Advanced(PointEpisode([s EXCEPT !.at = now, !.present = Running(s), !.counted = flag,
                                           !.duration = total]), s, c)
<1> DEFINE a == [s EXCEPT !.at = now, !.present = Running(s), !.counted = flag, !.duration = total]
<1>1. s \in States /\ c \in Covers(2 * now) /\ now \in Nat /\ now # None
  BY OverlapAssumption DEF DomainInv, None
<1>2. Running(s) \in [Kinds -> BOOLEAN] /\ \A k \in Kinds : Running(s)[k] <=> s.active[k] > 0
  <2>1. \A k \in Kinds : (s.active[k] > 0) \in BOOLEAN
    BY <1>1 DEF States
  <2>2. \A k \in Kinds : Running(s)[k] = (s.active[k] > 0)
    BY Zenon DEF Running
  <2>3. Running(s) \in [Kinds -> BOOLEAN]
    BY <2>1, Zenon DEF Running
  <2> QED BY <2>2, <2>3, Zenon
<1>3. a \in States /\ a.at = now /\ a.active = s.active /\ a.count = s.count
      /\ a.duration = total /\ a.counted = flag /\ a.present = Running(s)
  BY <1>1, <1>2 DEF States
<1> HIDE DEF a
<1>4. flag <=> BothThere(a)
  BY <1>2, <1>3 DEF BothThere, BothRun, Kinds
<1>5. flag = BothThere(a)
  BY <1>4 DEF BothThere
<1>6. PointEpisode(a) = a
  BY <1>3, <1>4 DEF PointEpisode, BothThere
<1>7. ASSUME NEW k \in Kinds PROVE Running(s)[k] <=> 2 * now \in c[k]
  <2>1. CASE s.at = None
    <3>1. s.active[k] = 0 /\ c[k] = {}
      BY <2>1 DEF DomainInv, Untouched
    <3> QED BY <1>2, <3>1
  <2>2. CASE s.at # None
    <3>1. Since(s, c, now) /\ s.at \in Nat /\ s.active[k] \in Nat
      BY <1>1, <2>2 DEF DomainInv, States
    <3>2. s.at < now
      BY <1>1, <3>1 DEF Since
    <3>3. CASE s.active[k] = 0
      <4>1. \A x \in c[k] : x <= 2 * s.at
        BY <3>1, <3>3 DEF Since
      <4>2. ~(2 * now <= 2 * s.at)
        BY <3>1, <3>2, <1>1
      <4> QED BY <1>2, <3>3, <4>1, <4>2
    <3>4. CASE s.active[k] > 0
      <4>1. 2 * now \in (2 * s.at) .. (2 * now)
        BY <3>1, <3>2, <1>1
      <4>2. 2 * now \in c[k]
        BY <3>1, <3>4, <4>1 DEF Since
      <4> QED BY <1>2, <3>4, <4>2
    <3> QED BY <3>1, <3>3, <3>4
  <2> QED BY <2>1, <2>2
<1>8. \A k \in Kinds : a.present[k] <=> 2 * now \in c[k]
  BY <1>3, <1>7
<1> QED BY <1>3, <1>5, <1>6, <1>8 DEF Advanced, a

\* Advancing moves the boundary and adds what was pending; it counts no episode.
LEMMA AdvanceMeans ==
    ASSUME NEW s, NEW c, now \in 0 .. MaxTime, DomainInv(s, c, now)
    PROVE  Advanced(Advance(s), s, c)
<1>1. s \in States /\ s.counted = BothThere(s) /\ now \in Nat /\ now # None
  BY OverlapAssumption DEF DomainInv, None
<1>2. CASE s.at = now
  <2>1. Advance(s) = s
    BY <1>1, <1>2 DEF Advance
  <2>2. Since(s, c, now) /\ Pending(s, now) = 0
    BY <1>1, <1>2 DEF DomainInv, Pending
  <2>3. \A k \in Kinds : s.present[k] <=> 2 * now \in c[k]
    BY <1>2, <2>2 DEF Since
  <2>4. s.duration = s.duration + 0
    BY <1>1 DEF States
  <2> QED BY <1>1, <1>2, <2>1, <2>2, <2>3, <2>4 DEF Advanced
<1>3. CASE s.at = None
  <2>1. ~BothRun(s)
    BY <1>3 DEF DomainInv, Untouched, BothRun, Kinds
  <2>2. s.duration \in Nat /\ s.duration = s.duration + Pending(s, now)
    BY <1>1, <1>3 DEF States, Pending
  <2>3. Advance(s) = PointEpisode([s EXCEPT !.at = now, !.present = Running(s), !.counted = FALSE])
    BY <1>1, <1>3 DEF Advance
  <2>4. [s EXCEPT !.at = now, !.present = Running(s), !.counted = FALSE]
          = [s EXCEPT !.at = now, !.present = Running(s), !.counted = FALSE, !.duration = s.duration]
    BY <1>1 DEF States
  <2>5. s.at # now /\ FALSE \in BOOLEAN /\ (FALSE <=> BothRun(s))
    BY <1>1, <1>3, <2>1
  <2>6. Advanced(PointEpisode([s EXCEPT !.at = now, !.present = Running(s), !.counted = FALSE,
                                        !.duration = s.duration]), s, c)
    BY <2>2, <2>5, BoundaryMoves
  <2> QED BY <2>3, <2>4, <2>6
<1>4. CASE s.at # now /\ s.at # None
  <2> DEFINE total == s.duration + (IF BothRun(s) THEN now - s.at ELSE 0)
  <2>1. Since(s, c, now)
    BY <1>4 DEF DomainInv
  <2>2. total \in Nat /\ total = s.duration + Pending(s, now)
    BY <1>1, <1>4, <2>1 DEF States, Since, Pending
  <2>3. BothRun(s) \in BOOLEAN
    BY DEF BothRun
  <2>4. Advance(s) = PointEpisode([s EXCEPT !.at = now, !.present = Running(s),
                                            !.counted = BothRun(s), !.duration = total])
    BY <1>4 DEF Advance
  <2> HIDE DEF total
  <2> QED BY <1>4, <2>2, <2>3, <2>4, BoundaryMoves
<1> QED BY <1>2, <1>3, <1>4

\* What runs is there now.
LEMMA RunningIsHere ==
    ASSUME NEW s, NEW c, now \in 0 .. MaxTime, DomainInv(s, c, now), NEW k \in Kinds, s.active[k] > 0
    PROVE  2 * now \in c[k]
<1>1. s \in States /\ now \in Nat
  BY OverlapAssumption DEF DomainInv
<1>2. s.at # None
  BY DEF DomainInv, Untouched
<1>3. s.at \in Nat /\ s.at <= now /\ (2 * s.at) .. (2 * now) \subseteq c[k]
  BY <1>1, <1>2 DEF DomainInv, Since, States
<1> QED BY <1>1, <1>3

\* With the boundary at now, the invariant speaks of this moment only.
LEMMA AtNow ==
    ASSUME NEW t \in States, NEW c \in Covers(2 * now), now \in 0 .. MaxTime, t.at = now,
           \A k \in Kinds : t.present[k] <=> 2 * now \in c[k],
           \A k \in Kinds : t.active[k] > 0 => 2 * now \in c[k],
           t.counted = BothThere(t), Lasting(c),
           t.count = Cardinality(Firsts(c)), t.duration = Cardinality(Odd(c))
    PROVE  DomainInv(t, c, now)
<1>1. now \in Nat /\ now # None
  BY OverlapAssumption DEF None
<1>2. Pending(t, now) = 0
  BY <1>1 DEF Pending
<1>3. ASSUME NEW k \in Kinds PROVE \A x \in c[k] : x <= 2 * now
  BY <1>1 DEF Covers
<1>4. (2 * now) .. (2 * now) = {2 * now}
  BY <1>1
<1>5. Since(t, c, now)
  BY <1>1, <1>3, <1>4 DEF Since
<1>6. t.duration + Pending(t, now) = t.duration
  BY <1>2 DEF States
<1> QED BY <1>1, <1>5, <1>6 DEF DomainInv

\* A snapshot keeps the invariant of a domain.
LEMMA AdvanceKeeps ==
    ASSUME NEW s, NEW c, now \in 0 .. MaxTime, DomainInv(s, c, now)
    PROVE  DomainInv(Advance(s), c, now) /\ Advance(s).active = s.active
<1>1. Advanced(Advance(s), s, c)
  BY AdvanceMeans
<1>2. \A k \in Kinds : s.active[k] > 0 => 2 * now \in c[k]
  BY RunningIsHere
<1> QED BY <1>1, <1>2, AtNow DEF Advanced, DomainInv

\* Both kinds are there at this moment in the cover as at the boundary.
LEMMA ThereNow ==
    ASSUME NEW t, NEW c, \A k \in Kinds : t.present[k] <=> 2 * now \in c[k]
    PROVE  BothThere(t) <=> 2 * now \in Both(c)
BY DEF BothThere, Both, Kinds

\* A kind is there at this moment; one span more of it runs, or one less.
Marked(c, kind) == [c EXCEPT ![kind] = @ \union {2 * now}]

Shifted(active, kind, delta) == [active EXCEPT ![kind] = IF delta = "start" THEN @ + 1 ELSE @ - 1]

\* So does a span that starts or ends, and the time it is there is counted.
LEMMA TouchKeeps ==
    ASSUME NEW s, NEW c, now \in 0 .. MaxTime, DomainInv(s, c, now), NEW kind \in Kinds,
           NEW delta \in {"start", "end"}, delta = "end" => s.active[kind] > 0
    PROVE  /\ DomainInv(Touch(s, kind, delta), Marked(c, kind), now)
           /\ Touch(s, kind, delta).active = Shifted(s.active, kind, delta)
<1> DEFINE a == Advance(s)
           n == IF delta = "start" THEN a.active[kind] + 1 ELSE a.active[kind] - 1
           m == [a EXCEPT !.active[kind] = n, !.present[kind] = TRUE]
           t == PointEpisode(m)
           b == [c EXCEPT ![kind] = @ \union {2 * now}]
<1>1. Advanced(a, s, c)
  BY AdvanceMeans
<1>2. Touch(s, kind, delta) = t
  BY DEF Touch
<1>3. s \in States /\ c \in Covers(2 * now) /\ Lasting(c) /\ now \in Nat
  BY OverlapAssumption DEF DomainInv
<1>4. n \in Nat
  <2>1. a.active[kind] \in Nat
    BY <1>1 DEF Advanced, States
  <2>2. delta = "end" => a.active[kind] > 0
    BY <1>1 DEF Advanced
  <2> QED BY <2>1, <2>2
<1> HIDE DEF a, n
<1>5. /\ m \in States /\ m.at = now
      /\ m.active = [s.active EXCEPT ![kind] = n]
      /\ m.present = [a.present EXCEPT ![kind] = TRUE]
      /\ m.counted = BothThere(a) /\ m.count = s.count /\ m.duration = s.duration + Pending(s, now)
  BY <1>1, <1>4 DEF Advanced, States
<1> HIDE DEF m
<1>6. b \in Covers(2 * now) /\ b[kind] = c[kind] \union {2 * now}
      /\ \A k \in Kinds : k # kind => b[k] = c[k]
  BY <1>3 DEF Covers
<1> HIDE DEF b
<1>7. \A k \in Kinds : m.present[k] <=> 2 * now \in b[k]
  <2> SUFFICES ASSUME NEW k \in Kinds PROVE m.present[k] <=> 2 * now \in b[k]
    OBVIOUS
  <2>1. a.present \in [Kinds -> BOOLEAN] /\ (a.present[k] <=> 2 * now \in c[k])
    BY <1>1 DEF Advanced, States
  <2> QED BY <1>5, <1>6, <2>1
<1>8. \A k \in Kinds : m.active[k] > 0 => 2 * now \in b[k]
  <2> SUFFICES ASSUME NEW k \in Kinds, k # kind, m.active[k] > 0 PROVE 2 * now \in c[k]
    BY <1>6
  <2>1. s.active[k] > 0
    BY <1>3, <1>5 DEF States
  <2> QED BY <2>1, RunningIsHere
<1>9. Lasting(b)
  <2> SUFFICES ASSUME NEW k \in Kinds, NEW i \in Nat, 2 * i + 1 \in b[k] PROVE 2 * i + 2 \in b[k]
    BY DEF Lasting
  <2>1. 2 * i + 1 # 2 * now
    BY <1>3
  <2>2. 2 * i + 1 \in c[k]
    BY <1>6, <2>1
  <2>3. 2 * i + 2 \in c[k]
    BY <1>3, <2>2 DEF Lasting
  <2> QED BY <1>6, <2>3
<1>10. BothThere(a) <=> 2 * now \in Both(c)
  BY <1>1, ThereNow DEF Advanced
<1>11. BothThere(m) <=> 2 * now \in Both(b)
  BY <1>7, ThereNow
<1>12. Both(b) = Both(c) \/ (2 * now \notin Both(c) /\ 2 * now \in Both(b) /\ Both(b) = Both(c) \union {2 * now})
  BY <1>6 DEF Both, Kinds
<1>13. BothThere(a) => BothThere(m)
  BY <1>10, <1>11, <1>12
<1>14. /\ t \in States /\ t.at = now /\ t.active = m.active /\ t.present = m.present
       /\ t.duration = m.duration
       /\ t.counted = BothThere(t)
       /\ t.count = IF BothThere(m) /\ ~BothThere(a) THEN m.count + 1 ELSE m.count
  <2>1. CASE BothThere(m) /\ ~BothThere(a)
    <3>1. t = [m EXCEPT !.count = @ + 1, !.counted = TRUE]
      BY <1>5, <2>1 DEF PointEpisode, BothThere
    <3> HIDE DEF t
    <3>2. /\ t \in States /\ t.at = m.at /\ t.active = m.active /\ t.present = m.present
          /\ t.duration = m.duration /\ t.counted = TRUE /\ t.count = m.count + 1
      <4>1. m \in States
        BY <1>5
      <4>2. t \in States
        <5>1. t = [active |-> m.active, at |-> m.at, present |-> m.present, counted |-> TRUE,
                   duration |-> m.duration, count |-> m.count + 1]
          BY <3>1, <4>1 DEF States
        <5>2. m.active \in [Kinds -> Nat] /\ m.at \in Nat /\ m.present \in [Kinds -> BOOLEAN]
              /\ m.duration \in Nat /\ m.count + 1 \in Nat
          BY <4>1 DEF States
        <5> QED BY <5>1, <5>2 DEF States
      <4>3. t.at = m.at /\ t.active = m.active /\ t.present = m.present /\ t.duration = m.duration
            /\ t.count = m.count + 1
        BY <3>1, <4>1 DEF States
      <4>4. t.counted = TRUE
        BY <3>1, <4>1 DEF States
      <4> QED BY <4>2, <4>3, <4>4
    <3>3. BothThere(t) = TRUE
      BY <2>1, <3>2 DEF BothThere
    <3> QED BY <1>5, <2>1, <3>2, <3>3
  <2>2. CASE ~(BothThere(m) /\ ~BothThere(a))
    <3>1. t = m
      BY <1>5, <2>2 DEF PointEpisode, BothThere
    <3>2. BothThere(a) = BothThere(m)
      BY <1>13, <2>2 DEF BothThere
    <3> QED BY <1>5, <2>2, <3>1, <3>2
  <2> QED BY <2>1, <2>2
<1>15. t.count = Cardinality(Firsts(b)) /\ t.duration = Cardinality(Odd(b))
  <2>1. s.count = Cardinality(Firsts(c)) /\ s.duration + Pending(s, now) = Cardinality(Odd(c))
    BY DEF DomainInv
  <2>2. CASE Both(b) = Both(c)
    <3>1. Firsts(b) = Firsts(c) /\ Odd(b) = Odd(c)
      BY <2>2 DEF Firsts, Odd
    <3>2. ~(BothThere(m) /\ ~BothThere(a))
      BY <1>10, <1>11, <2>2
    <3> QED BY <1>5, <1>14, <2>1, <3>1, <3>2
  <2>3. CASE 2 * now \notin Both(c) /\ 2 * now \in Both(b) /\ Both(b) = Both(c) \union {2 * now}
    <3>1. Cardinality(Firsts(b)) = Cardinality(Firsts(c)) + 1 /\ Cardinality(Odd(b)) = Cardinality(Odd(c))
      BY <1>3, <1>6, <2>3, PointAdds
    <3>2. BothThere(m) /\ ~BothThere(a)
      BY <1>10, <1>11, <2>3
    <3> QED BY <1>5, <1>14, <2>1, <3>1, <3>2
  <2> QED BY <1>12, <2>2, <2>3
<1>16. DomainInv(t, b, now)
  BY <1>6, <1>7, <1>8, <1>9, <1>14, <1>15, AtNow
<1>17. t.active = Shifted(s.active, kind, delta)
  BY <1>1, <1>5, <1>14 DEF Advanced, Shifted, n
<1>18. Marked(c, kind) = b
  BY DEF Marked, b
<1> HIDE DEF t
<1> QED BY <1>2, <1>16, <1>17, <1>18

-----------------------------------------------------------------------------
(* Time goes on.                                                           *)

\* What runs is there until the next moment, and the boundary stays.
LEMMA TickKeeps ==
    ASSUME NEW s, NEW c, now \in 0 .. MaxTime, DomainInv(s, c, now), NEW b,
           b = [k \in Kinds |-> IF s.active[k] > 0 THEN c[k] \union {2 * now + 1, 2 * now + 2} ELSE c[k]]
    PROVE  DomainInv(s, b, now + 1)
<1>1. s \in States /\ c \in Covers(2 * now) /\ Lasting(c) /\ now \in Nat
  BY OverlapAssumption DEF DomainInv
<1>2. \A k \in Kinds : b[k] = IF s.active[k] > 0 THEN c[k] \union {2 * now + 1, 2 * now + 2} ELSE c[k]
  OBVIOUS
<1>3. b \in Covers(2 * (now + 1)) /\ b \in Covers(2 * now + 2)
  <2>1. \A k \in Kinds : b[k] \subseteq 0 .. 2 * now + 2
    BY <1>1, <1>2 DEF Covers
  <2>2. b \in Covers(2 * now + 2)
    BY <2>1 DEF Covers
  <2>3. 2 * (now + 1) = 2 * now + 2
    BY <1>1
  <2> QED BY <2>2, <2>3
<1>4. s.at = None => Untouched(s, b)
  BY <1>2 DEF DomainInv, Untouched
<1>5. s.at # None => Since(s, b, now + 1)
  <2> SUFFICES ASSUME s.at # None PROVE Since(s, b, now + 1)
    OBVIOUS
  <2>1. Since(s, c, now) /\ s.at \in Nat /\ s.at <= now
    BY <1>1 DEF DomainInv, Since, States
  <2> SUFFICES ASSUME NEW k \in Kinds
               PROVE  /\ s.present[k] <=> 2 * s.at \in b[k]
                      /\ s.active[k] = 0 => \A x \in b[k] : x <= 2 * s.at
                      /\ s.active[k] > 0 => (2 * s.at) .. (2 * (now + 1)) \subseteq b[k]
    BY <1>1, <2>1 DEF Since
  <2>2. 2 * s.at \in b[k] <=> 2 * s.at \in c[k]
    BY <1>1, <1>2, <2>1
  <2>3. s.present[k] <=> 2 * s.at \in b[k]
    BY <2>1, <2>2 DEF Since
  <2>4. s.active[k] = 0 => \A x \in b[k] : x <= 2 * s.at
    BY <1>2, <2>1 DEF Since
  <2>5. ASSUME s.active[k] > 0, NEW x \in (2 * s.at) .. (2 * (now + 1)) PROVE x \in b[k]
    <3>1. x \in (2 * s.at) .. (2 * now) \/ x = 2 * now + 1 \/ x = 2 * now + 2
      BY <1>1, <2>1
    <3>2. (2 * s.at) .. (2 * now) \subseteq c[k]
      BY <2>1, <2>5 DEF Since
    <3> QED BY <1>2, <2>5, <3>1, <3>2
  <2> QED BY <2>3, <2>4, <2>5
<1>6. Lasting(b)
  <2> SUFFICES ASSUME NEW k \in Kinds, NEW i \in Nat, 2 * i + 1 \in b[k] PROVE 2 * i + 2 \in b[k]
    BY DEF Lasting
  <2>1. CASE 2 * i + 1 \in c[k]
    BY <1>1, <1>2, <2>1 DEF Lasting
  <2>2. CASE 2 * i + 1 \notin c[k]
    <3>1. s.active[k] > 0 /\ (2 * i + 1 = 2 * now + 1 \/ 2 * i + 1 = 2 * now + 2)
      BY <1>2, <2>2
    <3>2. i = now
      BY <1>1, <3>1
    <3> QED BY <1>2, <3>1, <3>2
  <2> QED BY <2>1, <2>2
<1>7. CASE BothRun(s)
  <2>1. s.active["sweep"] > 0 /\ s.active["component"] > 0
    BY <1>7 DEF BothRun, Kinds
  <2>2. 2 * now \in Both(c)
    BY <2>1, RunningIsHere DEF Both, Kinds
  <2>3. Both(b) = Both(c) \union {2 * now + 1, 2 * now + 2}
    <3>1. b["sweep"] = c["sweep"] \union {2 * now + 1, 2 * now + 2}
          /\ b["component"] = c["component"] \union {2 * now + 1, 2 * now + 2}
      BY <1>2, <2>1 DEF Kinds
    <3> QED BY <3>1 DEF Both
  <2>4. Cardinality(Firsts(b)) = Cardinality(Firsts(c)) /\ Cardinality(Odd(b)) = Cardinality(Odd(c)) + 1
    BY <1>1, <1>3, <2>2, <2>3, CellAdds
  <2>5. s.at # None
    BY <2>1 DEF DomainInv, Untouched, Kinds
  <2>6. s.duration + Pending(s, now + 1) = s.duration + Pending(s, now) + 1
    BY <1>1, <1>7, <2>5 DEF Pending, States
  <2> QED BY <1>1, <1>3, <1>4, <1>5, <1>6, <2>4, <2>6 DEF DomainInv
<1>8. CASE ~BothRun(s)
  <2>1. PICK k \in Kinds : ~(s.active[k] > 0)
    BY <1>8 DEF BothRun
  <2>2. Both(b) = Both(c)
    <3>1. b[k] = c[k]
      BY <1>2, <2>1
    <3>2. \A j \in Kinds : c[j] \subseteq b[j] /\ b[j] \subseteq c[j] \union {2 * now + 1, 2 * now + 2}
      BY <1>2
    <3>3. 2 * now + 1 \notin c[k] /\ 2 * now + 2 \notin c[k]
      BY <1>1 DEF Covers
    <3> QED BY <3>1, <3>2, <3>3 DEF Both, Kinds
  <2>3. Firsts(b) = Firsts(c) /\ Odd(b) = Odd(c)
    BY <2>2 DEF Firsts, Odd
  <2>4. Pending(s, now + 1) = Pending(s, now)
    BY <1>8 DEF Pending
  <2> QED BY <1>1, <1>3, <1>4, <1>5, <1>6, <2>3, <2>4 DEF DomainInv
<1> QED BY <1>7, <1>8

-----------------------------------------------------------------------------
(* The whole.                                                              *)

\* A kind is counted as running when a span of it is open.
LEMMA CountedIsOpen ==
    ASSUME OpenOK, Counts, NEW d \in Domains, NEW k \in Kinds
    PROVE  domain[d].active[k] > 0 <=> IsOpen(d, k)
<1> USE DEF Threads, Keys, Domains, Kinds, IsOpen, DomainsOf, KindOf, One
<1>1. CASE k = "sweep"
  <2>1. IsOpen(d, k) <=> "sweeps" \in open["acquisition"]
    BY <1>1 DEF OpenOK
  <2>2. domain[d].active[k] = One("acquisition", "sweeps")
    BY <1>1 DEF Counts
  <2> QED BY <2>1, <2>2
<1>2. CASE k = "component" /\ d = "sweep_report"
  <2>1. IsOpen(d, k) <=> "reports" \in open["scheduler"] \/ "reports" \in open["telegram"]
    BY <1>2 DEF OpenOK
  <2>2. domain[d].active[k] = One("scheduler", "reports") + One("telegram", "reports")
    BY <1>2 DEF Counts
  <2> QED BY <2>1, <2>2
<1>3. CASE k = "component" /\ d = "sweep_telegram"
  <2>1. IsOpen(d, k) <=> \/ "telegram_handlers" \in open["telegram"]
                         \/ "telegram_deliveries" \in open["scheduler"]
                         \/ "telegram_deliveries" \in open["telegram"]
    BY <1>3 DEF OpenOK
  <2>2. domain[d].active[k] = One("telegram", "telegram_handlers") + One("scheduler", "telegram_deliveries")
                              + One("telegram", "telegram_deliveries")
    BY <1>3 DEF Counts
  <2> QED BY <2>1, <2>2
<1> QED BY <1>1, <1>2, <1>3

\* What a span that starts or ends does to a domain it counts in.
Touching(key, delta) ==
    /\ now' = now
    /\ domain' = [d \in Domains |->
          IF d \in DomainsOf(key) THEN Touch(domain[d], KindOf(key), delta) ELSE domain[d]]
    /\ cover' = [d \in Domains |->
          IF d \in DomainsOf(key) THEN Marked(cover[d], KindOf(key))
                                  ELSE cover[d]]

\* The invariant of every domain outlives it, and only what was touched moves.
LEMMA TouchingKeeps ==
    ASSUME SpanInv, NEW key \in Keys, NEW delta \in {"start", "end"}, Touching(key, delta),
           delta = "end" => \A d \in DomainsOf(key) : domain[d].active[KindOf(key)] > 0
    PROVE  /\ domain' \in [Domains -> States] /\ cover' \in [Domains -> Covers(2 * now)]
           /\ \A d \in Domains : DomainInv(domain'[d], cover'[d], now)
           /\ \A d \in Domains : domain'[d].active
                = IF d \in DomainsOf(key)
                  THEN Shifted(domain[d].active, KindOf(key), delta)
                  ELSE domain[d].active
<1>1. KindOf(key) \in Kinds /\ now \in 0 .. MaxTime
  BY DEF KindOf, Kinds, SpanInv
<1>2. ASSUME NEW d \in Domains
      PROVE  /\ DomainInv(domain'[d], cover'[d], now)
             /\ domain'[d].active
                  = IF d \in DomainsOf(key)
                    THEN Shifted(domain[d].active, KindOf(key), delta)
                    ELSE domain[d].active
  <2>1. DomainInv(domain[d], cover[d], now)
    BY DEF SpanInv
  <2>2. CASE d \in DomainsOf(key)
    <3>1. domain'[d] = Touch(domain[d], KindOf(key), delta)
          /\ cover'[d] = Marked(cover[d], KindOf(key))
      BY <2>2 DEF Touching
    <3>2. delta = "end" => domain[d].active[KindOf(key)] > 0
      BY <2>2
    <3>3. /\ DomainInv(Touch(domain[d], KindOf(key), delta),
                       Marked(cover[d], KindOf(key)), now)
          /\ Touch(domain[d], KindOf(key), delta).active
               = Shifted(domain[d].active, KindOf(key), delta)
      BY <1>1, <2>1, <3>2, TouchKeeps
    <3> QED BY <2>2, <3>1, <3>3
  <2>3. CASE d \notin DomainsOf(key)
    BY <2>1, <2>3 DEF Touching
  <2> QED BY <2>2, <2>3
<1>3. domain' = [d \in Domains |-> domain'[d]] /\ cover' = [d \in Domains |-> cover'[d]]
  BY DEF Touching
<1>4. \A d \in Domains : domain'[d] \in States /\ cover'[d] \in Covers(2 * now)
  BY <1>2 DEF DomainInv
<1> QED BY <1>2, <1>3, <1>4

\* A start.
LEMMA StartKeeps ==
    ASSUME SpanInv, NEW t \in Threads, NEW key \in Keys, StartSpan(t, key)
    PROVE  SpanInv'
<1>1. Touching(key, "start")
  BY DEF StartSpan, Touching, Marked
<1>2. /\ domain' \in [Domains -> States] /\ cover' \in [Domains -> Covers(2 * now)]
      /\ \A d \in Domains : DomainInv(domain'[d], cover'[d], now)
      /\ \A d \in Domains : domain'[d].active
           = IF d \in DomainsOf(key) THEN Shifted(domain[d].active, KindOf(key), "start")
                                     ELSE domain[d].active
  BY <1>1, TouchingKeeps
<1>3. open' = [open EXCEPT ![t] = @ \union {key}] /\ MayStart(t, key) /\ now' = now
  BY DEF StartSpan
<1>4. OpenOK'
  BY <1>3 DEF SpanInv, OpenOK, MayStart, Threads, Keys
<1>5. Counts'
  <2> USE DEF Threads, Keys, Domains, Kinds, DomainsOf, KindOf
  <2>1. \A d \in Domains : domain[d].active \in [Kinds -> Nat]
    BY DEF SpanInv, States
  <2>2. Counts /\ open \in [Threads -> SUBSET Keys] /\ key \notin open[t]
    BY <1>3 DEF SpanInv, OpenOK, MayStart
  <2>3. CASE key = "sweeps"
    BY <1>2, <1>3, <2>1, <2>2, <2>3 DEF Counts, One, MayStart, Shifted
  <2>4. CASE key = "reports"
    BY <1>2, <1>3, <2>1, <2>2, <2>4 DEF Counts, One, MayStart, Shifted
  <2>5. CASE key = "telegram_handlers"
    BY <1>2, <1>3, <2>1, <2>2, <2>5 DEF Counts, One, MayStart, Shifted
  <2>6. CASE key = "telegram_deliveries"
    BY <1>2, <1>3, <2>1, <2>2, <2>6 DEF Counts, One, MayStart, Shifted
  <2> QED BY <2>3, <2>4, <2>5, <2>6
<1> QED BY <1>2, <1>3, <1>4, <1>5 DEF SpanInv

\* An end: the span was counted, so its kind was running, and was there already.
LEMMA EndKeeps ==
    ASSUME SpanInv, NEW t \in Threads, NEW key \in Keys, EndSpan(t, key)
    PROVE  SpanInv'
<1>1. key \in open[t] /\ open' = [open EXCEPT ![t] = @ \ {key}] /\ now' = now /\ cover' = cover
      /\ (key = "telegram_handlers" => open[t] = {key})
  BY DEF EndSpan
<1>2. \A d \in DomainsOf(key) : d \in Domains /\ KindOf(key) \in Kinds /\ IsOpen(d, KindOf(key))
  BY <1>1 DEF IsOpen, DomainsOf, KindOf, Domains, Kinds
<1>3. \A d \in DomainsOf(key) : domain[d].active[KindOf(key)] > 0
  BY <1>2, CountedIsOpen DEF SpanInv
<1>4. ASSUME NEW d \in DomainsOf(key)
      PROVE  cover[d] = Marked(cover[d], KindOf(key))
  <2>1. 2 * now \in cover[d][KindOf(key)]
    BY <1>2, <1>3, RunningIsHere DEF SpanInv
  <2>2. cover[d] \in Covers(2 * now)
    BY <1>2 DEF SpanInv
  <2> QED BY <2>1, <2>2 DEF Covers, Marked
<1>5. Touching(key, "end")
  <2>1. cover = [d \in Domains |-> cover[d]]
    BY DEF SpanInv
  <2>2. \A d \in Domains : cover[d] = IF d \in DomainsOf(key)
                                      THEN Marked(cover[d], KindOf(key))
                                      ELSE cover[d]
    BY <1>4
  <2>3. cover' = [d \in Domains |-> IF d \in DomainsOf(key)
                                    THEN Marked(cover[d], KindOf(key))
                                    ELSE cover[d]]
    BY <1>1, <2>1, <2>2
  <2> QED BY <1>1, <2>3 DEF EndSpan, Touching
<1>6. /\ domain' \in [Domains -> States] /\ cover' \in [Domains -> Covers(2 * now)]
      /\ \A d \in Domains : DomainInv(domain'[d], cover'[d], now)
      /\ \A d \in Domains : domain'[d].active
           = IF d \in DomainsOf(key) THEN Shifted(domain[d].active, KindOf(key), "end")
                                     ELSE domain[d].active
  BY <1>3, <1>5, TouchingKeeps
<1>7. OpenOK'
  BY <1>1 DEF SpanInv, OpenOK, Threads, Keys
<1>8. Counts'
  <2> USE DEF Threads, Keys, Domains, Kinds, DomainsOf, KindOf
  <2>1. \A d \in Domains : domain[d].active \in [Kinds -> Nat]
    BY DEF SpanInv, States
  <2>2. Counts /\ OpenOK
    BY DEF SpanInv
  <2>3. CASE key = "sweeps"
    <3>1. t = "acquisition"
      BY <1>1, <2>2, <2>3 DEF OpenOK
    <3> QED BY <1>1, <1>6, <2>1, <2>2, <2>3, <3>1 DEF Counts, One, OpenOK, Shifted
  <2>4. CASE key = "reports"
    <3>1. t \in {"scheduler", "telegram"}
      BY <1>1, <2>2, <2>4 DEF OpenOK
    <3> QED BY <1>1, <1>6, <2>1, <2>2, <2>4, <3>1 DEF Counts, One, OpenOK, Shifted
  <2>5. CASE key = "telegram_handlers"
    <3>1. t = "telegram"
      BY <1>1, <2>2, <2>5 DEF OpenOK
    <3> QED BY <1>1, <1>6, <2>1, <2>2, <2>5, <3>1 DEF Counts, One, OpenOK, Shifted
  <2>6. CASE key = "telegram_deliveries"
    <3>1. t \in {"scheduler", "telegram"}
      BY <1>1, <2>2, <2>6 DEF OpenOK
    <3> QED BY <1>1, <1>6, <2>1, <2>2, <2>6, <3>1 DEF Counts, One, OpenOK, Shifted
  <2> QED BY <2>3, <2>4, <2>5, <2>6
<1> QED BY <1>1, <1>6, <1>7, <1>8 DEF SpanInv

\* A snapshot.
LEMMA SnapshotKeeps ==
    ASSUME SpanInv, Snapshot
    PROVE  SpanInv'
<1>1. domain' = [d \in Domains |-> Advance(domain[d])] /\ now' = now /\ open' = open /\ cover' = cover
  BY DEF Snapshot
<1>2. \A d \in Domains : DomainInv(domain'[d], cover[d], now) /\ domain'[d].active = domain[d].active
  BY <1>1, AdvanceKeeps DEF SpanInv
<1>3. domain' \in [Domains -> States]
  <2>1. \A d \in Domains : domain'[d] \in States
    BY <1>2 DEF DomainInv
  <2> QED BY <1>1, <2>1
<1>4. Counts'
  BY <1>1, <1>2 DEF SpanInv, Counts, One, Domains
<1>5. OpenOK'
  BY <1>1 DEF SpanInv, OpenOK
<1> QED BY <1>1, <1>2, <1>3, <1>4, <1>5 DEF SpanInv

\* The clock.
LEMMA ClockKeeps ==
    ASSUME SpanInv, Tick
    PROVE  SpanInv'
<1>1. now < MaxTime /\ now' = now + 1 /\ open' = open /\ domain' = domain
  BY DEF Tick
<1>2. now' \in 0 .. MaxTime
  BY <1>1, OverlapAssumption DEF SpanInv
<1>3. ASSUME NEW d \in Domains PROVE DomainInv(domain[d], cover'[d], now + 1)
  <2>1. DomainInv(domain[d], cover[d], now)
    BY DEF SpanInv
  <2>2. \A k \in Kinds : IsOpen(d, k) <=> domain[d].active[k] > 0
    BY CountedIsOpen DEF SpanInv
  <2>3. cover'[d] = [k \in Kinds |-> IF domain[d].active[k] > 0
                                     THEN cover[d][k] \union {2 * now + 1, 2 * now + 2} ELSE cover[d][k]]
    BY <2>2 DEF Tick
  <2> QED BY <2>1, <2>3, TickKeeps DEF SpanInv
<1>4. cover' \in [Domains -> Covers(2 * now')]
  <2>1. \A d \in Domains : cover'[d] \in Covers(2 * now')
    BY <1>1, <1>3 DEF DomainInv
  <2> QED BY <2>1 DEF Tick
<1>5. Counts' /\ OpenOK'
  BY <1>1 DEF SpanInv, Counts, One, OpenOK
<1> QED BY <1>1, <1>2, <1>3, <1>4, <1>5 DEF SpanInv

LEMMA InitSpanInv == Init => SpanInv
<1> SUFFICES ASSUME Init PROVE SpanInv
  OBVIOUS
<1> DEFINE s == [active |-> [k \in Kinds |-> 0], at |-> None, present |-> [k \in Kinds |-> FALSE],
                 counted |-> FALSE, duration |-> 0, count |-> 0]
           c == [k \in Kinds |-> {}]
<1>1. now = 0 /\ open = [t \in Threads |-> {}] /\ domain = [d \in Domains |-> s]
      /\ cover = [d \in Domains |-> c]
  BY DEF Init
<1>2. s \in States /\ c \in Covers(2 * now)
  BY OverlapAssumption DEF States, Covers, None
<1>3. Untouched(s, c) /\ Lasting(c) /\ s.at = None
  BY DEF Untouched, Lasting
<1>4. Firsts(c) = {} /\ Odd(c) = {}
  BY DEF Firsts, Odd, Both, Kinds
<1>5. s.counted = BothThere(s)
  BY DEF BothThere, Kinds
<1>6. s.count = 0 /\ s.duration + Pending(s, now) = 0
  BY <1>3 DEF Pending
<1>7. DomainInv(s, c, now)
  <2> HIDE DEF s, c
  <2> QED BY <1>2, <1>3, <1>4, <1>5, <1>6, FS_EmptySet DEF DomainInv
<1>8. Counts /\ OpenOK
  BY <1>1 DEF Counts, One, OpenOK, Threads, Keys, Domains, Kinds
<1> HIDE DEF s, c
<1> QED BY <1>1, <1>2, <1>7, <1>8, OverlapAssumption DEF SpanInv

\* Every reachable state: the boundary of each domain says what was there at it,
\* and the two counters are right up to now but for what is pending.
THEOREM SpanInductive == Spec => []SpanInv
<1>1. SpanInv /\ [Next]_vars => SpanInv'
  <2> SUFFICES ASSUME SpanInv, [Next]_vars PROVE SpanInv'
    OBVIOUS
  <2>1. ASSUME NEW t \in Threads, NEW key \in Keys, StartSpan(t, key) PROVE SpanInv'
    BY <2>1, StartKeeps
  <2>2. ASSUME NEW t \in Threads, NEW key \in Keys, EndSpan(t, key) PROVE SpanInv'
    BY <2>2, EndKeeps
  <2>3. CASE Snapshot
    BY <2>3, SnapshotKeeps
  <2>4. CASE Tick
    BY <2>4, ClockKeeps
  <2>5. CASE UNCHANGED vars
    BY <2>5 DEF vars, SpanInv, OpenOK, Counts, One
  <2> QED BY <2>1, <2>2, <2>3, <2>4, <2>5 DEF Next
<1> QED BY <1>1, InitSpanInv, PTL DEF Spec

\* A snapshot tells how many episodes of overlap there were and how long both
\* kinds were running, whatever calls and snapshots came before it, in whatever
\* order, several at one reading of the clock (snapshot, _advance_domain).
THEOREM SnapshotIsExact == Spec => []SnapshotExact
<1>1. SpanInv => SnapshotExact
  <2> SUFFICES ASSUME SpanInv, NEW d \in Domains
               PROVE  /\ Advance(domain[d]).count = Cardinality(Episodes(d))
                      /\ Advance(domain[d]).duration = Cardinality({x \in Together(d) : x % 2 = 1})
    BY DEF SnapshotExact
  <2>1. DomainInv(domain[d], cover[d], now)
    BY DEF SpanInv
  <2>2. Advanced(Advance(domain[d]), domain[d], cover[d])
    BY <2>1, AdvanceMeans DEF SpanInv
  <2>3. Episodes(d) = Firsts(cover[d]) /\ {x \in Together(d) : x % 2 = 1} = Odd(cover[d])
    BY DEF Episodes, Together, Firsts, Odd, Both
  <2> QED BY <2>1, <2>2, <2>3 DEF DomainInv, Advanced
<1> QED BY <1>1, SpanInductive, PTL
=============================================================================
