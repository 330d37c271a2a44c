---------------------------- MODULE TrustProofs ------------------------------
(***************************************************************************)
(* Proofs about Trust, for any events of any kinds and hours, any number of *)
(* workers, attempts and crashes, and any number of complaints per level.   *)
(* The stored score is the replay of the processed events because whoever   *)
(* writes it read them under the subject's advisory lock.  Successes help   *)
(* because each pays one of those owed until a penalty is gone.             *)
(***************************************************************************)
EXTENDS Trust, FoldLemmas

-----------------------------------------------------------------------------
(* A replay.                                                                *)

\* What each prefix of a replay comes to: the projection of its last row.
ReplaySteps(who, p, rows, g) ==
  /\ g[{}] = p /\ g[DOMAIN rows] = ReplayFrom(who, p, rows)
  /\ \A s \in SUBSET (DOMAIN rows) : s # {} =>
       g[s] = Project(g[s \ {Max(s)}], who, rows[Max(s)].kind, rows[Max(s)].hour)

\* Where every event keeps to a set of projections, the replay does.
LEMMA ReplayIn ==
  ASSUME NEW who, NEW rows, IsFiniteSet(DOMAIN rows), DOMAIN rows \subseteq Nat, NEW V, NEW p \in V,
         \A n \in DOMAIN rows : \A q \in V : Project(q, who, rows[n].kind, rows[n].hour) \in V
  PROVE  \E g : ReplaySteps(who, p, rows, g) /\ \A s \in SUBSET (DOMAIN rows) : g[s] \in V
  <1> DEFINE D == DOMAIN rows
             Rec(g) == g = [s \in SUBSET D |->
                              IF s = {} THEN p
                              ELSE Project(g[s \ {Max(s)}], who, rows[Max(s)].kind, rows[Max(s)].hour)]
             c == [s \in SUBSET D |-> Max(s)]
             H == [x \in (SUBSET D) \X V |-> Project(x[2], who, rows[c[x[1]]].kind, rows[c[x[1]]].hour)]
  <1>1. \A s \in SUBSET D : s # {} => c[s] \in s
    BY MaxIn
  <1>2. \A s \in SUBSET D : \A v \in V : s # {} =>
          H[<<s, v>>] = Project(v, who, rows[Max(s)].kind, rows[Max(s)].hour)
    OBVIOUS
  <1>3. \A s \in SUBSET D : \A v \in V : s # {} => H[<<s, v>>] \in V
    <2> SUFFICES ASSUME NEW s \in SUBSET D, NEW v \in V, s # {} PROVE H[<<s, v>>] \in V
      OBVIOUS
    <2>1. Max(s) \in D
      BY <1>1
    <2>2. Project(v, who, rows[Max(s)].kind, rows[Max(s)].hour) \in V
      BY <2>1
    <2> HIDE DEF H
    <2> QED
      BY <1>2, <2>2
  <1>4. PICK g \in [SUBSET D -> V] : Recursion(D, p, c, H, g)
    <2> HIDE DEF c, H, D
    <2>1. IsFiniteSet(D)
      BY DEF D
    <2> QED
      BY <1>1, <1>3, <2>1, RecursionExists
  <1>5. Rec(g)
    <2>1. ASSUME NEW s \in SUBSET D
          PROVE  g[s] = IF s = {} THEN p
                        ELSE Project(g[s \ {Max(s)}], who, rows[Max(s)].kind, rows[Max(s)].hour)
      <3>1. CASE s = {}
        BY <1>4, <3>1 DEF Recursion
      <3>2. CASE s # {}
        <4>1. s \ {Max(s)} \in SUBSET D /\ g[s \ {Max(s)}] \in V /\ c[s] = Max(s)
          OBVIOUS
        <4> HIDE DEF c, H
        <4>2. g[s] = H[<<s, g[s \ {Max(s)}]>>]
          BY <1>4, <3>2, <4>1 DEF Recursion
        <4> QED
          BY <1>2, <3>2, <4>1, <4>2
      <3> QED
        BY <3>1, <3>2
    <2>2. g = [s \in SUBSET D |-> g[s]]
      OBVIOUS
    <2> QED
      BY <2>1, <2>2
  <1> DEFINE iter == CHOOSE h : Rec(h)
  <1>6. ReplayFrom(who, p, rows) = iter[D]
    BY DEF ReplayFrom, MapThenFoldSet
  <1>7. Rec(iter)
    BY <1>5
  <1>8. \A s \in SUBSET D : s # {} =>
          iter[s] = Project(iter[s \ {Max(s)}], who, rows[Max(s)].kind, rows[Max(s)].hour)
    <2> HIDE DEF iter
    <2> QED
      BY <1>7
  <1>9. iter[{}] = p
    <2> HIDE DEF iter
    <2> QED
      BY <1>7
  <1> HIDE DEF iter
  <1>10. \A s \in SUBSET D : iter[s] \in V
    <2>1. \A s \in SUBSET D : s # {} => \E x \in s : iter[s \ {x}] \in V => iter[s] \in V
      <3> SUFFICES ASSUME NEW s \in SUBSET D, s # {}
                   PROVE  \E x \in s : iter[s \ {x}] \in V => iter[s] \in V
        OBVIOUS
      <3>1. Max(s) \in s /\ Max(s) \in D
        BY <1>1
      <3>2. iter[s] = Project(iter[s \ {Max(s)}], who, rows[Max(s)].kind, rows[Max(s)].hour)
        BY <1>8
      <3>3. iter[s \ {Max(s)}] \in V => iter[s] \in V
        BY <3>1, <3>2
      <3> QED
        BY <3>1, <3>3
    <2>2. IsFiniteSet(D) /\ iter[{}] \in V
      BY <1>9
    <2> HIDE DEF D
    <2> QED
      BY <2>1, <2>2, StaysIn
  <1> QED
    BY <1>6, <1>8, <1>9, <1>10 DEF ReplaySteps

-----------------------------------------------------------------------------
(* One step of the projection.                                              *)

Marks == {"domain", "credits", "repeats", "complaint"}

RuleRecords == [gain : Int, penalty : Nat, marks : SUBSET Marks]

Projections == [score : 0..200, penalty : Nat, wins : Nat, losses : Nat, complaints : Nat,
                level : 0..5, cooldown : Nat, last : Nat \cup {-1}, day : Int, gained : Int,
                repeats : Nat]

LevelOf(who, p) ==
  Max({RestrictionLevel(p), IF who = "provider" THEN ComplaintLevel(p.complaints) ELSE 0})

LEMMA RulesTyped == \A k \in DOMAIN Rules : Rules[k] \in RuleRecords
  <1>1. \A g \in Int : \A n \in Nat : \A m \in SUBSET Marks : Effect(g, n, m) \in RuleRecords
    BY DEF Effect, RuleRecords
  <1>2. \A k \in DOMAIN Rules : \E g \in Int : \E n \in Nat : \E m \in SUBSET Marks :
          Rules[k] = Effect(g, n, m)
    BY DEF Rules, Marks
  <1> QED
    BY <1>1, <1>2

LEMMA GainTyped ==
  ASSUME NEW p \in Projections, NEW r \in RuleRecords, NEW hour \in Nat
  PROVE  LET g == GainQuality(p, r, hour)
         IN  /\ g.gain \in Int /\ g.day \in Int /\ g.gained \in Int /\ g.repeats \in Nat
             /\ r.gain >= 0 => g.gain >= 0
  <1> DEFINE today == p.day = hour \div 24
             repeats == IF today THEN p.repeats ELSE 0
             gained == IF today THEN p.gained ELSE 0
             decayed == IF "repeats" \notin r.marks \/ repeats = 0 THEN r.gain
                        ELSE IF repeats = 1 THEN r.gain \div 2 ELSE 0
             room == Max({0, MaxGainPerDay - gained})
             allowed == Min({decayed, room})
             g == GainQuality(p, r, hour)
  <1>1. /\ p.day \in Int /\ p.gained \in Int /\ p.repeats \in Nat
        /\ r.gain \in Int /\ hour \div 24 \in Int
    BY DEF Projections, RuleRecords
  <1>2. repeats \in Nat /\ gained \in Int
    BY <1>1
  <1>3. decayed \in Int /\ (r.gain >= 0 => decayed >= 0)
    <2> HIDE DEF repeats
    <2>1. r.gain \div 2 \in Int /\ (r.gain >= 0 => r.gain \div 2 >= 0)
      BY <1>1
    <2> QED
      BY <1>1, <1>2, <2>1
  <1>4. room \in Nat
    <2> HIDE DEF gained
    <2>1. MaxGainPerDay - gained \in Int
      BY <1>2 DEF MaxGainPerDay
    <2> QED
      BY <2>1, MaxOf
  <1>5. allowed \in Int /\ (r.gain >= 0 => allowed >= 0)
    <2> HIDE DEF decayed, room
    <2> QED
      BY <1>1, <1>3, <1>4, MinOf
  <1>6. g = IF r.gain <= 0
            THEN [gain |-> r.gain, day |-> p.day, gained |-> p.gained, repeats |-> p.repeats]
            ELSE [gain |-> allowed, day |-> hour \div 24, gained |-> gained + allowed,
                  repeats |-> repeats + IF "repeats" \in r.marks THEN 1 ELSE 0]
    BY DEF GainQuality
  <1> HIDE DEF g, allowed, gained, repeats
  <1>7. g.gain \in Int /\ g.day \in Int /\ g.gained \in Int /\ g.repeats \in Nat
        /\ (r.gain >= 0 => g.gain >= 0)
    <2>1. CASE r.gain <= 0
      BY <1>1, <1>6, <2>1
    <2>2. CASE ~(r.gain <= 0)
      <3>1. repeats + (IF "repeats" \in r.marks THEN 1 ELSE 0) \in Nat
        BY <1>1, <1>2
      <3> QED
        BY <1>1, <1>2, <1>5, <1>6, <2>2, <3>1
    <2> QED
      BY <2>1, <2>2
  <1> QED
    BY <1>7 DEF g

LEMMA ThresholdsTyped ==
  \A l \in 1..5 : /\ Thresholds[l].penalty \in Nat \ {0}
                  /\ Thresholds[l].score \in Nat /\ Thresholds[l].losses \in Nat
  BY DEF Thresholds

\* The restriction level is the highest one with a threshold reached.
ReachesLevel(p, l) == \/ p.penalty >= Thresholds[l].penalty
                      \/ p.score <= Thresholds[l].score
                      \/ p.losses >= Thresholds[l].losses

LEMMA RestrictionRange ==
  ASSUME NEW p
  PROVE  /\ RestrictionLevel(p) \in 0..5
         /\ RestrictionLevel(p) > 0 => ReachesLevel(p, RestrictionLevel(p))
         /\ \A l \in 1..5 : ReachesLevel(p, l) => l <= RestrictionLevel(p)
  <1> DEFINE S == {0} \cup {l \in 1..5 : ReachesLevel(p, l)}
  <1>1. IsFiniteSet(0..5)
    <2>1. 0 \in Int /\ 5 \in Int
      OBVIOUS
    <2> QED
      BY <2>1, FS_Interval
  <1>2. S \in SUBSET (0..5) /\ S # {} /\ 0..5 \subseteq Nat
    OBVIOUS
  <1>3. Max(S) \in S /\ \A n \in S : n =< Max(S)
    <2> HIDE DEF S
    <2> QED
      BY <1>1, <1>2, MaxIn
  <1>4. RestrictionLevel(p) = Max(S)
    BY DEF RestrictionLevel, ReachesLevel
  <1> QED
    BY <1>2, <1>3, <1>4

LEMMA RestrictionLower ==
  ASSUME NEW p \in Projections, NEW q \in Projections,
         q.penalty <= p.penalty, q.score >= p.score, q.losses <= p.losses
  PROVE  RestrictionLevel(q) <= RestrictionLevel(p)
  <1> DEFINE l == RestrictionLevel(q)
  <1>1. RestrictionLevel(p) \in 0..5 /\ l \in 0..5
    BY RestrictionRange
  <1> SUFFICES ASSUME l > 0 PROVE l <= RestrictionLevel(p)
    BY <1>1
  <1>2. ReachesLevel(q, l) /\ l \in 1..5
    BY <1>1, RestrictionRange
  <1> HIDE DEF l
  <1>3. /\ p.penalty \in Nat /\ p.score \in Nat /\ p.losses \in Nat
        /\ q.penalty \in Nat /\ q.score \in Nat /\ q.losses \in Nat
    BY DEF Projections
  <1>4. /\ Thresholds[l].penalty \in Nat /\ Thresholds[l].score \in Nat
        /\ Thresholds[l].losses \in Nat
    BY <1>2, ThresholdsTyped
  <1>5. ReachesLevel(p, l)
    BY <1>2, <1>3, <1>4 DEF ReachesLevel
  <1> QED
    BY <1>2, <1>5, RestrictionRange

LEMMA ComplaintRange ==
  \A n \in Nat : ComplaintLevel(n) \in 0..5 /\ (n = 0 => ComplaintLevel(n) = 0)
  <1> SUFFICES ASSUME NEW n \in Nat PROVE ComplaintLevel(n) \in 0..5 /\ (n = 0 => ComplaintLevel(n) = 0)
    OBVIOUS
  <1>1. ComplaintStep \in Nat /\ ComplaintStep > 0
    BY TrustAssumption DEF TrustAssumption
  <1>2. CASE n < ComplaintStep
    BY <1>1, <1>2 DEF ComplaintLevel
  <1>3. CASE ~(n < ComplaintStep)
    <2>1. n \div ComplaintStep \in Nat
      BY <1>1
    <2>2. ComplaintLevel(n) = Min({5, n \div ComplaintStep})
      BY <1>3 DEF ComplaintLevel
    <2> QED
      BY <1>1, <1>3, <2>1, <2>2, MinOf
  <1> QED
    BY <1>2, <1>3

LEMMA LevelRange ==
  ASSUME NEW who, NEW p, p.complaints \in Nat
  PROVE  /\ LevelOf(who, p) \in 0..5 /\ RestrictionLevel(p) <= LevelOf(who, p)
         /\ LevelOf(who, p) \in {RestrictionLevel(p), IF who = "provider"
                                                      THEN ComplaintLevel(p.complaints) ELSE 0}
         /\ who = "provider" => ComplaintLevel(p.complaints) <= LevelOf(who, p)
  <1>1. RestrictionLevel(p) \in 0..5 /\ ComplaintLevel(p.complaints) \in 0..5
    BY RestrictionRange, ComplaintRange
  <1> DEFINE c == IF who = "provider" THEN ComplaintLevel(p.complaints) ELSE 0
  <1>2. c \in 0..5 /\ LevelOf(who, p) = Max({RestrictionLevel(p), c})
    BY <1>1 DEF LevelOf
  <1>3. LevelOf(who, p) = IF RestrictionLevel(p) >= c THEN RestrictionLevel(p) ELSE c
    <2> HIDE DEF c
    <2> QED
      BY <1>1, <1>2, MaxOf
  <1> QED
    BY <1>1, <1>2, <1>3

LEMMA CooldownTyped ==
  ASSUME NEW p \in Projections, NEW q \in Projections, NEW r \in RuleRecords, NEW hour \in Nat
  PROVE  /\ Cooldown(p, q, r, hour) \in Nat
         /\ (/\ ~Negative(r) /\ q.level <= p.level /\ q.penalty <= p.penalty
             /\ q.losses <= p.losses /\ "complaint" \notin r.marks) =>
               Cooldown(p, q, r, hour) <= p.cooldown
  <1> DEFINE length == CooldownHours(q.level, q.losses, "complaint" \in r.marks)
             active == IF p.cooldown > hour THEN p.cooldown ELSE 0
             cause == \/ Negative(r) \/ q.level > p.level
                      \/ q.penalty > p.penalty \/ q.losses > p.losses
                      \/ ("complaint" \in r.marks /\ q.level > ComplaintLevel(p.complaints))
  <1>1. /\ p.cooldown \in Nat /\ q.level \in 0..5 /\ q.losses \in Nat /\ q.penalty \in Nat
        /\ p.level \in 0..5 /\ p.losses \in Nat /\ p.penalty \in Nat
    BY DEF Projections
  <1>2. length \in Nat
    BY <1>1 DEF CooldownHours
  <1>3. active \in Nat /\ active <= p.cooldown
    BY <1>1
  <1>4. Cooldown(p, q, r, hour) = IF length = 0 THEN 0
                                  ELSE IF cause THEN Max({active, hour + length}) ELSE active
    BY DEF Cooldown
  <1>5. Max({active, hour + length}) \in Nat
    <2> HIDE DEF active, length
    <2> QED
      BY <1>2, <1>3, MaxOf
  <1>6. (/\ ~Negative(r) /\ q.level <= p.level /\ q.penalty <= p.penalty
         /\ q.losses <= p.losses /\ "complaint" \notin r.marks) => ~cause
    BY <1>1
  <1> HIDE DEF active, length, cause
  <1> QED
    BY <1>1, <1>2, <1>3, <1>4, <1>5, <1>6

\* What an event makes of a projection: it stays typed, and has the level its own
\* penalty, score, losses and complaints give; a penalty is left only with a
\* streak that is not full.  A qualifying success takes nothing, and pays off two
\* points when it fills the streak.
Helped(p, q) ==
  /\ q.losses = 0 /\ q.score >= p.score /\ q.complaints \in {0, p.complaints}
  /\ \E owed \in 0..p.penalty :
       /\ q.penalty <= owed
       /\ owed > 0 /\ p.wins = 0 => q.wins = 1
       /\ owed > 0 /\ p.wins = 1 => q.wins = 0 /\ q.penalty = IF owed > 2 THEN owed - 2 ELSE 0

LEMMA ProjectShape ==
  ASSUME NEW who, NEW p \in Projections, NEW k \in DOMAIN Rules, NEW hour \in Nat
  PROVE  LET r == Rules[k]
             q == Project(p, who, k, hour)
         IN  /\ q \in Projections /\ q.last = hour /\ q.level = LevelOf(who, q)
             /\ q.penalty > 0 => q.wins <= 1
             /\ \E t \in Projections : /\ t.level = q.level /\ t.penalty = q.penalty
                                       /\ t.losses = q.losses /\ q.cooldown = Cooldown(p, t, r, hour)
             /\ (/\ "domain" \in r.marks /\ "complaint" \notin r.marks /\ ~Negative(r)
                 /\ hour >= p.last) => Helped(p, q)
  <1> DEFINE r == Rules[k]
             g == GainQuality(p, r, hour)
             success == \/ "domain" \in r.marks
                        \/ "credits" \in r.marks /\ ~(r.gain > 0 /\ g.gain <= 0)
             good == success /\ ~Negative(r)
             decay == IF good /\ p.last >= 0 THEN Min({(hour - p.last) \div DecayHours, p.penalty}) ELSE 0
             owed == p.penalty + r.penalty - decay
             wins == IF good THEN p.wins + 1 ELSE 0
             cycles == IF good /\ owed > 0 THEN wins \div RecoveryTarget ELSE 0
             credit == Min({owed, cycles * RecoveryCredit})
             score == Min({200, Max({0, p.score + g.gain + 4 * credit + 4 * decay})})
             streak == IF cycles > 0 THEN wins % RecoveryTarget ELSE wins
             losses == IF Negative(r) THEN p.losses + 1 ELSE 0
             complaints == IF "complaint" \in r.marks THEN p.complaints + 1
                           ELSE IF who = "provider" /\ "domain" \in r.marks /\ wins >= RecoveryTarget
                                THEN 0 ELSE p.complaints
             q == [p EXCEPT
                     !.score = score, !.penalty = owed - credit, !.wins = streak,
                     !.losses = losses, !.complaints = complaints,
                     !.last = hour, !.day = g.day, !.gained = g.gained, !.repeats = g.repeats]
             leveled == [q EXCEPT !.level = LevelOf(who, q)]
             cooldown == Cooldown(p, leveled, r, hour)
             final == [leveled EXCEPT !.cooldown = cooldown]
  <1>1. Project(p, who, k, hour) = final
    BY DEF Project, LevelOf
  <1>2. /\ p.score \in 0..200 /\ p.penalty \in Nat /\ p.wins \in Nat /\ p.losses \in Nat
        /\ p.complaints \in Nat /\ p.level \in 0..5 /\ p.cooldown \in Nat
        /\ p.last \in Nat \cup {-1}
    BY DEF Projections
  <1>3. r \in RuleRecords /\ r.gain \in Int /\ r.penalty \in Nat
    <2>1. r \in RuleRecords
      BY RulesTyped
    <2> HIDE DEF r
    <2> QED
      BY <2>1 DEF RuleRecords
  <1> HIDE DEF r
  <1>4. /\ g.gain \in Int /\ g.day \in Int /\ g.gained \in Int /\ g.repeats \in Nat
        /\ (r.gain >= 0 => g.gain >= 0)
    BY <1>3, GainTyped
  <1> HIDE DEF g
  <1>5. /\ decay \in Int /\ decay <= p.penalty
        /\ hour >= p.last => decay >= 0
    <2>1. CASE ~(good /\ p.last >= 0)
      <3>1. decay = 0
        BY <2>1
      <3> HIDE DEF decay
      <3> QED
        BY <1>2, <3>1
    <2>2. CASE good /\ p.last >= 0
      <3> DEFINE d == (hour - p.last) \div DecayHours
      <3>1. d \in Int /\ (hour >= p.last => d >= 0)
        BY <1>2, <2>2 DEF DecayHours
      <3>2. decay = Min({d, p.penalty})
        BY <2>2
      <3> HIDE DEF d, decay
      <3> QED
        BY <1>2, <3>1, <3>2, MinOf
    <2> QED
      BY <2>1, <2>2
  <1> HIDE DEF decay
  <1>6. owed \in Nat
    BY <1>2, <1>3, <1>5
  <1>7. wins \in Nat /\ (good => wins = p.wins + 1) /\ (~good => wins = 0)
    BY <1>2
  <1>8. /\ cycles \in Nat /\ (~(good /\ owed > 0) => cycles = 0)
        /\ (good /\ owed > 0) => cycles = (p.wins + 1) \div 2
    <2> HIDE DEF owed, wins, good
    <2>1. wins \div RecoveryTarget \in Nat
      BY <1>7 DEF RecoveryTarget
    <2> QED
      BY <1>7, <2>1 DEF RecoveryTarget
  <1> HIDE DEF owed, cycles, good
  <1>9. credit \in Nat /\ credit <= owed /\ credit = IF owed <= 2 * cycles THEN owed ELSE 2 * cycles
    <2>1. cycles * RecoveryCredit \in Nat /\ cycles * RecoveryCredit = 2 * cycles
      BY <1>8 DEF RecoveryCredit
    <2> QED
      BY <1>6, <2>1, MinOf
  <1> HIDE DEF credit
  <1>10. /\ streak \in Nat
         /\ cycles = 0 => streak = wins
         /\ cycles > 0 => streak = wins % 2 /\ streak <= 1
    <2> HIDE DEF wins
    <2> QED
      BY <1>7 DEF RecoveryTarget
  <1>11. /\ score \in 0..200
         /\ g.gain >= 0 /\ decay >= 0 => score >= p.score
    <2> DEFINE sum == p.score + g.gain + 4 * credit + 4 * decay
               floored == Max({0, sum})
    <2>4. p.score \in Nat /\ p.score =< 200 /\ g.gain \in Int /\ credit \in Nat /\ decay \in Int
      BY <1>2, <1>4, <1>5, <1>9
    <2>1. sum \in Int /\ (g.gain >= 0 /\ decay >= 0 => sum >= p.score)
      BY <2>4
    <2> HIDE DEF sum
    <2>2. floored \in Nat /\ floored >= sum
      BY <2>1, MaxOf
    <2> HIDE DEF floored
    <2>3. score = Min({200, floored})
      BY DEF floored, sum
    <2> HIDE DEF score
    <2> QED
      <3>1. score = IF 200 =< floored THEN 200 ELSE floored
        BY <2>2, <2>3, MinOf
      <3> QED
        BY <2>1, <2>2, <2>4, <3>1
  <1>12. losses \in Nat /\ (~Negative(r) => losses = 0)
    BY <1>2
  <1>13. complaints \in Nat /\ ("complaint" \notin r.marks => complaints \in {0, p.complaints})
    BY <1>2
  <1> HIDE DEF score, streak, losses, complaints, wins
  <1>14. /\ q.score = score /\ q.penalty = owed - credit /\ q.wins = streak /\ q.losses = losses
         /\ q.complaints = complaints /\ q.last = hour /\ q \in Projections
    <2>1. owed - credit \in Nat
      BY <1>6, <1>9
    <2> QED
      BY <1>4, <1>10, <1>11, <1>12, <1>13, <2>1 DEF Projections
  <1> HIDE DEF q
  <1>15. LevelOf(who, q) \in 0..5
    BY <1>13, <1>14, LevelRange
  <1>16. /\ leveled \in Projections /\ leveled.level = LevelOf(who, q) /\ leveled.score = q.score
         /\ leveled.penalty = q.penalty /\ leveled.wins = q.wins /\ leveled.losses = q.losses
         /\ leveled.complaints = q.complaints /\ leveled.last = q.last
    BY <1>14, <1>15 DEF Projections
  <1> HIDE DEF leveled
  <1>17. cooldown \in Nat
    BY <1>3, <1>16, CooldownTyped
  <1>18. /\ final \in Projections /\ final.level = leveled.level /\ final.score = q.score
         /\ final.penalty = q.penalty /\ final.wins = q.wins /\ final.losses = q.losses
         /\ final.complaints = q.complaints /\ final.last = q.last /\ final.cooldown = cooldown
    <2> HIDE DEF cooldown
    <2> QED
      BY <1>16, <1>17 DEF Projections
  <1> HIDE DEF final
  <1>19. LevelOf(who, final) = LevelOf(who, q)
    BY <1>18 DEF LevelOf, RestrictionLevel
  <1>20. final.penalty > 0 => final.wins <= 1
    <2>1. owed - credit > 0 => streak <= 1
      <3>1. CASE cycles > 0
        BY <1>10, <3>1
      <3>2. CASE ~(cycles > 0) /\ good /\ owed > 0
        <4>1. (p.wins + 1) \div 2 = 0
          BY <1>8, <3>2
        <4>2. p.wins = 0
          BY <1>2, <4>1
        <4> QED
          BY <1>7, <1>8, <1>10, <3>2, <4>2
      <3>3. CASE ~(cycles > 0) /\ ~(good /\ owed > 0)
        BY <1>6, <1>7, <1>8, <1>9, <1>10, <3>3
      <3> QED
        BY <3>1, <3>2, <3>3
    <2> QED
      BY <1>14, <1>18, <2>1
  <1>21. ASSUME "domain" \in r.marks, "complaint" \notin r.marks, ~Negative(r), hour >= p.last
         PROVE  Helped(p, final)
    <2>1. good /\ r.penalty = 0 /\ r.gain >= 0
      BY <1>3, <1>21 DEF good, Negative
    <2>2. owed \in 0..p.penalty
      BY <1>2, <1>5, <1>6, <1>21, <2>1 DEF owed
    <2>3. owed > 0 /\ p.wins = 0 => streak = 1
      BY <1>7, <1>8, <1>10, <2>1
    <2>4. owed > 0 /\ p.wins = 1 => streak = 0 /\ owed - credit = IF owed > 2 THEN owed - 2 ELSE 0
      <3> SUFFICES ASSUME owed > 0, p.wins = 1
                   PROVE  streak = 0 /\ owed - credit = IF owed > 2 THEN owed - 2 ELSE 0
        OBVIOUS
      <3>1. cycles = 1 /\ wins = 2
        BY <1>7, <1>8, <2>1
      <3> QED
        BY <1>6, <1>9, <1>10, <3>1
    <2>5. final.score >= p.score
      BY <1>4, <1>5, <1>11, <1>14, <1>18, <1>21, <2>1
    <2>6. final.penalty <= owed
      BY <1>6, <1>9, <1>14, <1>18
    <2> QED
      BY <1>12, <1>13, <1>14, <1>18, <1>21, <2>2, <2>3, <2>4, <2>5, <2>6 DEF Helped
  <1>22. final.last = hour /\ final.level = LevelOf(who, final)
    BY <1>14, <1>16, <1>18, <1>19
  <1>23. final.cooldown = Cooldown(p, leveled, r, hour)
    BY <1>18
  <1> HIDE DEF cooldown
  <1> QED
    BY <1>1, <1>16, <1>18, <1>20, <1>21, <1>22, <1>23 DEF r

-----------------------------------------------------------------------------
(* Projections of a subject.                                                *)

ProjectionsOf(who) == {p \in Projections : /\ p.level = LevelOf(who, p)
                                           /\ p.penalty > 0 => p.wins <= 1}

LEMMA ProjectStays ==
  ASSUME NEW who, NEW p \in ProjectionsOf(who), NEW k \in DOMAIN Rules, NEW hour \in Nat
  PROVE  Project(p, who, k, hour) \in ProjectionsOf(who) /\ Project(p, who, k, hour).last = hour
  BY ProjectShape DEF ProjectionsOf

LEMMA InitialTyped == \A who : InitialProjection \in ProjectionsOf(who)
  <1> SUFFICES ASSUME NEW who PROVE InitialProjection \in ProjectionsOf(who)
    OBVIOUS
  <1> DEFINE p == InitialProjection
  <1>1. /\ p \in Projections /\ p.level = 0 /\ p.penalty = 0 /\ p.complaints = 0
        /\ p.score = 200 /\ p.losses = 0
    BY DEF InitialProjection, Projections
  <1> HIDE DEF p
  <1>2. \A l \in 1..5 : ~ReachesLevel(p, l)
    BY <1>1 DEF ReachesLevel, Thresholds
  <1>3. RestrictionLevel(p) = 0
    <2>1. RestrictionLevel(p) \in 0..5
      BY RestrictionRange
    <2> QED
      BY <1>2, <2>1, RestrictionRange
  <1>4. ComplaintLevel(p.complaints) = 0
    BY <1>1, ComplaintRange
  <1>5. LevelOf(who, p) = 0
    BY <1>1, <1>3, <1>4, LevelRange
  <1> QED
    BY <1>1, <1>5 DEF ProjectionsOf, p

\* What is replayed from events with a known type is a projection of the subject.
LEMMA ReplayTyped ==
  ASSUME NEW S \in SUBSET Events, S # {}, \A e \in S : kind[e] \in DOMAIN Rules
  PROVE  Replay(S) \in ProjectionsOf(subject) /\ Replay(S).last \in Nat
  <1> DEFINE rows == [e \in S |-> [kind |-> kind[e], hour |-> Hour[e]]]
  <1>1. /\ IsFiniteSet(S) /\ S \subseteq Nat /\ DOMAIN rows = S
        /\ \A e \in S : Hour[e] \in Nat /\ rows[e].kind = kind[e] /\ rows[e].hour = Hour[e]
    BY TrustAssumption, FS_Subset DEF TrustAssumption
  <1>2. \A e \in S : \A q \in ProjectionsOf(subject) :
          Project(q, subject, rows[e].kind, rows[e].hour) \in ProjectionsOf(subject)
    BY <1>1, ProjectStays
  <1>3. Replay(S) = ReplayFrom(subject, InitialProjection, rows)
    BY DEF Replay
  <1> HIDE DEF rows
  <1>4. PICK g : /\ ReplaySteps(subject, InitialProjection, rows, g)
                 /\ \A s \in SUBSET S : g[s] \in ProjectionsOf(subject)
    BY <1>1, <1>2, InitialTyped, ReplayIn
  <1>5. Max(S) \in S
    BY <1>1, MaxIn
  <1>6. g[S] = Project(g[S \ {Max(S)}], subject, rows[Max(S)].kind, rows[Max(S)].hour)
    BY <1>1, <1>4 DEF ReplaySteps
  <1>7. g[S \ {Max(S)}] \in ProjectionsOf(subject)
    BY <1>4
  <1>8. g[S].last = Hour[Max(S)]
    <2>1. /\ rows[Max(S)].kind = kind[Max(S)] /\ rows[Max(S)].hour = Hour[Max(S)]
          /\ kind[Max(S)] \in DOMAIN Rules /\ Hour[Max(S)] \in Nat
      BY <1>1, <1>5
    <2> QED
      BY <1>6, <1>7, <2>1, ProjectStays
  <1>9. Replay(S) = g[S] /\ g[S] \in ProjectionsOf(subject)
    BY <1>1, <1>3, <1>4 DEF ReplaySteps
  <1> QED
    BY <1>1, <1>5, <1>8, <1>9

-----------------------------------------------------------------------------
(* Successes.                                                               *)

LEMMA GoodRule ==
  /\ Good \in DOMAIN Rules /\ "domain" \in Rules[Good].marks
  /\ "complaint" \notin Rules[Good].marks /\ ~Negative(Rules[Good])
  BY DEF Good, Rules, Effect, Negative

\* How many successes are owed until the penalty is down to b: two for every two
\* points, begun ones included, less the streak.
Owed(b, p) == IF p.penalty <= b THEN 0
              ELSE 2 * ((p.penalty - b + 1) \div 2) - p.wins

LEMMA OwedTyped ==
  ASSUME NEW b \in Nat, NEW who, NEW p \in ProjectionsOf(who)
  PROVE  Owed(b, p) \in Nat /\ (Owed(b, p) = 0 <=> p.penalty <= b)
  <1>1. p.penalty \in Nat /\ p.wins \in Nat /\ (p.penalty > 0 => p.wins <= 1)
    BY DEF ProjectionsOf, Projections
  <1> QED
    BY <1>1 DEF Owed

\* Each success pays one of them.
LEMMA SuccessPays ==
  ASSUME NEW b \in Nat, NEW p \in ProjectionsOf(subject), NEW hour \in Nat, hour >= p.last
  PROVE  Owed(b, Project(p, subject, Good, hour)) <= IF Owed(b, p) = 0 THEN 0 ELSE Owed(b, p) - 1
  <1> DEFINE q == Project(p, subject, Good, hour)
  <1>1. p \in Projections /\ q \in ProjectionsOf(subject)
    BY GoodRule, ProjectStays DEF ProjectionsOf
  <1>2. Helped(p, q)
    BY <1>1, GoodRule, ProjectShape
  <1> HIDE DEF q
  <1>3. /\ p.penalty \in Nat /\ p.wins \in Nat /\ (p.penalty > 0 => p.wins <= 1)
        /\ q.penalty \in Nat /\ q.wins \in Nat /\ (q.penalty > 0 => q.wins <= 1)
    BY <1>1 DEF ProjectionsOf, Projections
  <1>4. PICK left \in 0..p.penalty :
          /\ q.penalty <= left
          /\ left > 0 /\ p.wins = 0 => q.wins = 1
          /\ left > 0 /\ p.wins = 1 => q.wins = 0 /\ q.penalty = IF left > 2 THEN left - 2 ELSE 0
    BY <1>2 DEF Helped
  <1>5. CASE q.penalty <= b
    <2>1. Owed(b, q) = 0
      BY <1>5 DEF Owed
    <2> QED
      BY <1>1, <2>1, OwedTyped DEF q
  <1>6. CASE q.penalty > b
    <2>1. left > 0 /\ p.penalty > b /\ p.wins \in {0, 1}
      BY <1>3, <1>4, <1>6
    <2>2. /\ Owed(b, q) = 2 * ((q.penalty - b + 1) \div 2) - q.wins
          /\ Owed(b, p) = 2 * ((p.penalty - b + 1) \div 2) - p.wins
      BY <1>3, <1>6, <2>1 DEF Owed
    <2>3. Owed(b, q) <= Owed(b, p) - 1
      <3>1. CASE p.wins = 0
        BY <1>3, <1>4, <2>1, <2>2, <3>1
      <3>2. CASE p.wins = 1
        BY <1>3, <1>4, <1>6, <2>1, <2>2, <3>2
      <3> QED
        BY <2>1, <3>1, <3>2
    <2>4. Owed(b, p) # 0
      BY <1>3, <2>1, OwedTyped
    <2> QED
      BY <2>3, <2>4 DEF q
  <1> QED
    BY <1>3, <1>5, <1>6

LEMMA AfterPays ==
  ASSUME NEW b \in Nat, NEW p \in ProjectionsOf(subject)
  PROVE  After(p, Owed(b, p)).penalty \in 0..b
  <1> DEFINE n == Owed(b, p)
             rows == [i \in 1..n |-> [kind |-> Good, hour |-> p.last + i]]
  <1>1. n \in Nat /\ p.last \in Nat \cup {-1}
    BY OwedTyped DEF ProjectionsOf, Projections
  <1> HIDE DEF n
  <1>2. /\ IsFiniteSet(1..n) /\ 1..n \subseteq Nat /\ DOMAIN rows = 1..n
        /\ \A i \in 1..n : rows[i].kind = Good /\ rows[i].hour = p.last + i /\ p.last + i \in Nat
    <2>1. 1 \in Int /\ n \in Int
      BY <1>1
    <2>2. IsFiniteSet(1..n)
      BY <2>1, FS_Interval
    <2>3. \A i \in 1..n : p.last + i \in Nat
      BY <1>1
    <2> QED
      BY <1>1, <2>2, <2>3
  <1>3. After(p, n) = ReplayFrom(subject, p, rows)
    BY DEF After
  <1> HIDE DEF rows
  <1>4. \A i \in 1..n : \A q \in ProjectionsOf(subject) :
          Project(q, subject, rows[i].kind, rows[i].hour) \in ProjectionsOf(subject)
    BY <1>2, GoodRule, ProjectStays
  <1>5. PICK g : /\ ReplaySteps(subject, p, rows, g)
                 /\ \A s \in SUBSET (1..n) : g[s] \in ProjectionsOf(subject)
    BY <1>2, <1>4, ReplayIn
  <1> DEFINE T == {i \in Nat : i <= n => /\ g[1..i].last = p.last + i
                                         /\ Owed(b, g[1..i]) <= n - i}
  <1>6. 0 \in T
    <2>1. 1..0 = {} /\ g[{}] = p
      BY <1>5 DEF ReplaySteps
    <2>2. p.last = p.last + 0 /\ Owed(b, p) = n /\ n <= n - 0
      BY <1>1 DEF n
    <2> QED
      BY <2>1, <2>2
  <1>7. ASSUME NEW i \in T PROVE i + 1 \in T
    <2> SUFFICES ASSUME i + 1 <= n
                 PROVE  /\ g[1..(i + 1)].last = p.last + (i + 1)
                        /\ Owed(b, g[1..(i + 1)]) <= n - (i + 1)
      OBVIOUS
    <2> DEFINE s == 1..(i + 1)
    <2>1. i \in Nat /\ i + 1 \in 1..n /\ i + 1 \in s /\ s \in SUBSET (1..n)
      BY <1>1
    <2>2. Max(s) = i + 1
      <3>1. Max(s) \in s /\ \A m \in s : m =< Max(s)
        <4>1. IsFiniteSet(1..n) /\ s # {}
          BY <1>2, <2>1
        <4> HIDE DEF s
        <4> QED
          BY <1>2, <2>1, <4>1, MaxIn
      <3> QED
        BY <2>1, <3>1
    <2>3. s \ {i + 1} = 1..i
      BY <2>1
    <2>4. g[s] = Project(g[1..i], subject, Good, p.last + (i + 1))
      <3>1. rows[i + 1].kind = Good /\ rows[i + 1].hour = p.last + (i + 1)
        BY <1>2, <2>1
      <3>2. s # {} /\ s \in SUBSET (DOMAIN rows)
        BY <1>2, <2>1
      <3> HIDE DEF s
      <3>3. g[s] = Project(g[s \ {i + 1}], subject, rows[i + 1].kind, rows[i + 1].hour)
        BY <1>5, <2>2, <3>2 DEF ReplaySteps
      <3> QED
        BY <2>3, <3>1, <3>3
    <2>5. g[1..i] \in ProjectionsOf(subject) /\ g[s] \in ProjectionsOf(subject)
      BY <1>5, <2>1, <2>3
    <2>6. g[1..i].last = p.last + i /\ Owed(b, g[1..i]) <= n - i
      BY <1>1, <2>1
    <2>7. p.last + (i + 1) \in Nat /\ p.last + (i + 1) >= g[1..i].last
      BY <1>1, <2>1, <2>6
    <2>8. g[s].last = p.last + (i + 1)
      BY <2>4, <2>5, <2>7, GoodRule, ProjectStays
    <2>9. Owed(b, g[s]) <= IF Owed(b, g[1..i]) = 0 THEN 0 ELSE Owed(b, g[1..i]) - 1
      BY <2>4, <2>5, <2>7, SuccessPays
    <2>10. Owed(b, g[1..i]) \in Nat /\ Owed(b, g[s]) \in Nat
      BY <2>5, OwedTyped
    <2> QED
      BY <1>1, <2>1, <2>6, <2>8, <2>9, <2>10
  <1>8. T = Nat
    <2>1. T \subseteq Nat
      OBVIOUS
    <2> HIDE DEF T
    <2> QED
      BY <1>6, <1>7, <2>1, AllNat
  <1>9. Owed(b, g[1..n]) <= 0 /\ g[1..n] \in ProjectionsOf(subject)
    BY <1>1, <1>5, <1>8
  <1>10. g[1..n].penalty <= b /\ g[1..n].penalty \in Nat
    <2>1. Owed(b, g[1..n]) = 0
      BY <1>9, OwedTyped
    <2> QED
      BY <1>9, <2>1, OwedTyped DEF ProjectionsOf, Projections
  <1>11. After(p, n) = g[1..n]
    BY <1>2, <1>3, <1>5 DEF ReplaySteps
  <1> QED
    BY <1>10, <1>11 DEF n

\* The app's number of successes is the number owed.
LEMMA SuccessesOwed ==
  ASSUME NEW b \in Nat, NEW p \in ProjectionsOf(subject)
  PROVE  SuccessesFor(IF p.penalty <= b THEN 0 ELSE p.penalty - b, p.wins) = Owed(b, p)
  <1>1. p.penalty \in Nat /\ p.wins \in Nat /\ (p.penalty > 0 => p.wins <= 1)
    BY DEF ProjectionsOf, Projections
  <1>2. Max({0, 2 - p.wins}) = IF 0 >= 2 - p.wins THEN 0 ELSE 2 - p.wins
    BY <1>1, MaxOf
  <1> QED
    BY <1>1, <1>2 DEF SuccessesFor, Owed, RecoveryCredit, RecoveryTarget

LEMMA PromiseKept ==
  ASSUME stored \in ProjectionsOf(subject)
  PROVE  RecoveryAsPromised
  <1>1. stored.penalty \in Nat /\ stored.level \in 0..5
    BY DEF ProjectionsOf, Projections
  <1>2. After(stored, SuccessesToClearPenalty(stored)).penalty = 0
    <2>1. SuccessesToClearPenalty(stored) = Owed(0, stored)
      <3>1. SuccessesFor(IF stored.penalty <= 0 THEN 0 ELSE stored.penalty - 0, stored.wins) = Owed(0, stored)
        BY SuccessesOwed
      <3>2. (IF stored.penalty <= 0 THEN 0 ELSE stored.penalty - 0) = stored.penalty
        BY <1>1
      <3> QED
        BY <3>1, <3>2 DEF SuccessesToClearPenalty
    <2>2. After(stored, Owed(0, stored)).penalty \in 0..0
      BY AfterPays
    <2> QED
      BY <2>1, <2>2
  <1>3. ASSUME stored.level > 0
        PROVE  After(stored, SuccessesToDrop(stored)).penalty < Thresholds[stored.level].penalty
    <2> DEFINE b == Thresholds[stored.level].penalty - 1
    <2>1. b \in Nat /\ Thresholds[stored.level].penalty \in Nat
      BY <1>1, <1>3, ThresholdsTyped
    <2> HIDE DEF b
    <2>2. Max({0, stored.penalty - b}) = IF stored.penalty <= b THEN 0 ELSE stored.penalty - b
      <3>1. stored.penalty - b \in Int /\ 0 \in Int
        BY <1>1, <2>1
      <3> QED
        BY <1>1, <2>1, <3>1, MaxOf
    <2>3. SuccessesToDrop(stored) = Owed(b, stored)
      BY <1>1, <1>3, <2>1, <2>2, SuccessesOwed DEF SuccessesToDrop, b
    <2>4. After(stored, Owed(b, stored)).penalty \in 0..b
      BY <2>1, AfterPays
    <2> QED
      BY <2>1, <2>3, <2>4 DEF b
  <1> QED
    BY <1>2, <1>3 DEF RecoveryAsPromised

\* Whenever the next success comes.
LEMMA NeverWorse ==
  ASSUME NEW p \in ProjectionsOf(subject), NEW hour \in Nat, hour >= p.last
  PROVE  LET q == Project(p, subject, Good, hour)
         IN  q.level <= p.level /\ q.cooldown <= p.cooldown /\ q.score >= p.score
  <1> DEFINE q == Project(p, subject, Good, hour)
             r == Rules[Good]
  <1>1. /\ p \in Projections /\ p.level = LevelOf(subject, p)
        /\ q \in Projections /\ q.level = LevelOf(subject, q) /\ Helped(p, q)
    BY GoodRule, ProjectShape DEF ProjectionsOf
  <1>2. PICK t \in Projections : /\ t.level = q.level /\ t.penalty = q.penalty
                                 /\ t.losses = q.losses /\ q.cooldown = Cooldown(p, t, r, hour)
    BY <1>1, GoodRule, ProjectShape
  <1>3. r \in RuleRecords /\ ~Negative(r) /\ "complaint" \notin r.marks
    BY GoodRule, RulesTyped
  <1> HIDE DEF q, r
  <1>4. /\ q.losses <= p.losses /\ q.score >= p.score /\ q.penalty <= p.penalty
        /\ q.complaints \in {0, p.complaints} /\ p.complaints \in Nat /\ q.complaints \in Nat
    BY <1>1 DEF Helped, Projections
  <1>5. RestrictionLevel(q) <= RestrictionLevel(p)
    BY <1>1, <1>4, RestrictionLower
  <1>6. ComplaintLevel(q.complaints) <= ComplaintLevel(p.complaints)
    BY <1>4, ComplaintRange
  <1>7. q.level <= p.level
    <2>1. /\ RestrictionLevel(p) \in 0..5 /\ RestrictionLevel(q) \in 0..5
          /\ ComplaintLevel(q.complaints) \in 0..5 /\ ComplaintLevel(p.complaints) \in 0..5
          /\ p.level \in 0..5 /\ q.level \in 0..5
      BY <1>1, <1>4, RestrictionRange, ComplaintRange DEF Projections
    <2>2. /\ RestrictionLevel(p) <= p.level
          /\ subject = "provider" => ComplaintLevel(p.complaints) <= p.level
          /\ q.level \in {RestrictionLevel(q), IF subject = "provider"
                                               THEN ComplaintLevel(q.complaints) ELSE 0}
      BY <1>1, <1>4, LevelRange
    <2> QED
      BY <1>5, <1>6, <2>1, <2>2
  <1>8. q.cooldown <= p.cooldown
    BY <1>1, <1>2, <1>3, <1>4, <1>7, CooldownTyped
  <1> QED
    BY <1>4, <1>7, <1>8 DEF q

-----------------------------------------------------------------------------
(* The log, its workers and the stored score.                               *)

Done == {e \in Events : eventStatus[e] = "processed"}

TxRecords == [at : {"idle", "claimed", "loaded"}, event : Events \cup {0}, view : SUBSET Events]

TrustTypes ==
  /\ subject \in DOMAIN Kinds
  /\ kind \in [Events -> Kinds[subject] \cup {NoKind}]
  /\ eventStatus \in [Events -> {"absent", "pending", "retry", "processed", "failed"}]
  /\ attempts \in [Events -> 0..MaxAttempts]
  /\ applied \subseteq Events
  /\ holder \in Runners \cup {Nobody}
  /\ tx \in [Runners -> TxRecords]
  /\ crashes \in 0..MaxCrashes

\* What is in the log has a type, and another attempt is left until it is final.
LogKept ==
  \A e \in Events :
    /\ eventStatus[e] # "absent" => kind[e] \in Kinds[subject]
    /\ eventStatus[e] \in {"absent", "pending", "retry"} => attempts[e] < MaxAttempts

\* A worker's event is claimed by it alone, and stays to be done until it ends.
ClaimsStand ==
  /\ \A w \in Runners : tx[w].at = "idle" => tx[w] = NoTx
  /\ \A w \in Workers : tx[w].at # "idle" =>
       /\ tx[w].event \in Events
       /\ eventStatus[tx[w].event] \in {"pending", "retry"}
  /\ \A v, w \in Workers : v # w /\ tx[v].at # "idle" /\ tx[w].at # "idle" =>
       tx[v].event # tx[w].event
  /\ tx[Script].at # "idle" => Done # {}

\* Whoever has loaded holds the subject's lock, and what it loaded is still so.
ViewStands ==
  \A w \in Runners : /\ tx[w].at = "loaded" <=> holder = w
                     /\ tx[w].at = "loaded" => tx[w].view = Loaded(w)

TrustInv == TrustTypes /\ LogKept /\ ClaimsStand /\ ViewStands /\ ScoreIsReplay

LEMMA RunnersApart ==
  /\ Script \notin Workers /\ Nobody \notin Runners /\ Workers \subseteq Runners /\ Script \in Runners
  BY TrustAssumption DEF TrustAssumption, Script, Nobody, Runners

LEMMA NoTxTyped == NoTx \in TxRecords /\ NoTx.at = "idle" /\ NoTx.event = 0
  BY DEF NoTx, TxRecords

\* A replay depends on the kinds of its own events only.
LEMMA ReplayFramed ==
  ASSUME NEW S \in SUBSET Events, subject' = subject, \A e \in S : kind'[e] = kind[e]
  PROVE  Replay(S)' = Replay(S)
  <1>1. [e \in S |-> [kind |-> kind'[e], hour |-> Hour[e]]] = [e \in S |-> [kind |-> kind[e], hour |-> Hour[e]]]
    OBVIOUS
  <1> QED
    BY <1>1 DEF Replay

LEMMA TrustStart == TrustInit => TrustInv
  <1> SUFFICES ASSUME TrustInit PROVE TrustInv
    OBVIOUS
  <1> USE TrustAssumption, RunnersApart, NoTxTyped DEF TrustAssumption, TrustInit
  <1>1. Done = {}
    BY DEF Done
  <1>2. \A w \in Runners : tx[w] = NoTx
    OBVIOUS
  <1>3. TrustTypes
    BY DEF TrustTypes
  <1>4. LogKept /\ ClaimsStand
    BY <1>2 DEF LogKept, ClaimsStand
  <1>5. ViewStands
    BY <1>2 DEF ViewStands
  <1>6. ScoreIsReplay
    BY <1>1 DEF ScoreIsReplay, Done
  <1> QED
    BY <1>3, <1>4, <1>5, <1>6 DEF TrustInv

LEMMA AppendInv ==
  ASSUME TrustInv, NEW e \in Events, AppendEvent(e)
  PROVE  TrustInv'
  <1>1. /\ eventStatus[e] = "absent"
        /\ eventStatus' = [eventStatus EXCEPT ![e] = "pending"]
        /\ UNCHANGED <<subject, attempts, applied, stored, holder, tx, crashes>>
    BY DEF AppendEvent
  <1>2. PICK k \in Kinds[subject] : kind' = [kind EXCEPT ![e] = k]
    BY DEF AppendEvent
  <1>3. Done' = Done /\ Done \subseteq Events /\ e \notin Done
    BY <1>1 DEF Done, TrustInv, TrustTypes
  <1>4. TrustTypes'
    BY <1>1, <1>2 DEF TrustInv, TrustTypes
  <1>5. LogKept'
    BY <1>1, <1>2 DEF TrustInv, TrustTypes, LogKept
  <1>6. ClaimsStand'
    BY <1>1, <1>3 DEF TrustInv, TrustTypes, ClaimsStand
  <1>7. ViewStands'
    BY <1>1, <1>3 DEF TrustInv, TrustTypes, ViewStands, Loaded, Done
  <1>8. \A f \in Done : kind'[f] = kind[f]
    BY <1>2, <1>3 DEF TrustInv, TrustTypes
  <1>9. Replay(Done)' = Replay(Done)
    <2>1. \A S \in SUBSET Events : (\A f \in S : kind'[f] = kind[f]) => Replay(S)' = Replay(S)
      BY <1>1, ReplayFramed
    <2> QED
      BY <1>3, <1>8, <2>1
  <1>10. ScoreIsReplay'
    BY <1>1, <1>3, <1>9 DEF TrustInv, ScoreIsReplay, Done
  <1> QED
    BY <1>4, <1>5, <1>6, <1>7, <1>10 DEF TrustInv

\* Steps of a transaction that write nothing of the log or the score.
LEMMA ClaimInv ==
  ASSUME TrustInv, (\E w \in Workers : Claim(w)) \/ StartRebuild
  PROVE  TrustInv'
  <1>1. UNCHANGED <<subject, kind, eventStatus, attempts, applied, stored, holder, crashes>>
    BY DEF Claim, StartRebuild
  <1>2. Done' = Done
    BY <1>1 DEF Done
  <1>3. PICK w \in Runners, t \in TxRecords :
          /\ tx[w] = NoTx /\ tx' = [tx EXCEPT ![w] = t] /\ t.at = "claimed"
          /\ w \in Workers => t.event \in Events /\ EventClaimable(t.event)
          /\ w = Script => Done # {}
    <2>1. CASE StartRebuild
      <3> DEFINE t == [NoTx EXCEPT !.at = "claimed"]
      <3>1. tx[Script] = NoTx /\ Done # {} /\ tx' = [tx EXCEPT ![Script] = t]
        BY <2>1 DEF StartRebuild, Done
      <3>2. t \in TxRecords /\ t.at = "claimed"
        BY DEF NoTx, TxRecords
      <3> HIDE DEF t
      <3> QED
        BY <3>1, <3>2, RunnersApart
    <2>2. ASSUME NEW w \in Workers, Claim(w)
          PROVE  \E t \in TxRecords : /\ tx[w] = NoTx /\ tx' = [tx EXCEPT ![w] = t]
                                      /\ t.at = "claimed" /\ t.event \in Events
                                      /\ EventClaimable(t.event)
      <3>1. PICK e \in Events : /\ EventClaimable(e) /\ tx[w] = NoTx
                                /\ tx' = [tx EXCEPT ![w] = [NoTx EXCEPT !.at = "claimed", !.event = e]]
        BY <2>2 DEF Claim
      <3> DEFINE t == [NoTx EXCEPT !.at = "claimed", !.event = e]
      <3>2. t \in TxRecords /\ t.at = "claimed" /\ t.event = e
        BY DEF NoTx, TxRecords
      <3>3. tx' = [tx EXCEPT ![w] = t]
        BY <3>1
      <3> HIDE DEF t
      <3> QED
        BY <3>1, <3>2, <3>3
    <2> QED
      BY <2>1, <2>2, RunnersApart
  <1>5. /\ tx' \in [Runners -> TxRecords] /\ tx'[w] = t
        /\ \A v \in Runners \ {w} : tx'[v] = tx[v]
    BY <1>3 DEF TrustInv, TrustTypes
  <1>6. TrustTypes' /\ LogKept' /\ ScoreIsReplay'
    <2>1. \A S \in SUBSET Events : Replay(S)' = Replay(S)
      BY <1>1, ReplayFramed
    <2>2. Replay(Done)' = Replay(Done)
      BY <1>1, <1>2, <2>1 DEF Replay
    <2> QED
      BY <1>1, <1>2, <1>5, <2>2 DEF TrustInv, TrustTypes, LogKept, ScoreIsReplay, Done
  <1>7. ClaimsStand'
    BY <1>1, <1>2, <1>3, <1>5, RunnersApart
    DEF TrustInv, TrustTypes, ClaimsStand, EventClaimable
  <1>8. ViewStands'
    BY <1>1, <1>3, <1>5, NoTxTyped DEF TrustInv, ViewStands, Loaded
  <1> QED
    BY <1>6, <1>7, <1>8 DEF TrustInv

LEMMA LoadInv ==
  ASSUME TrustInv, NEW w \in Runners, LockAndLoad(w)
  PROVE  TrustInv'
  <1>1. /\ UNCHANGED <<subject, kind, eventStatus, attempts, applied, stored, crashes>>
        /\ tx[w].at = "claimed" /\ holder = Nobody /\ holder' = w
        /\ tx' = [tx EXCEPT ![w].at = "loaded", ![w].view = Loaded(w)]
    BY DEF LockAndLoad, LockFree
  <1>2. Done' = Done /\ Loaded(w) \in SUBSET Events
    <2>1. w # Script => w \in Workers
      BY DEF Runners
    <2> QED
      BY <1>1, <2>1 DEF Done, Loaded, TrustInv, TrustTypes, ClaimsStand
  <1>3. tx'[w] = [tx[w] EXCEPT !.at = "loaded", !.view = Loaded(w)] /\ tx[w] \in TxRecords
    BY <1>1 DEF TrustInv, TrustTypes
  <1>4. /\ tx'[w] \in TxRecords /\ tx'[w].at = "loaded" /\ tx'[w].event = tx[w].event
        /\ tx'[w].view = Loaded(w)
    BY <1>2, <1>3 DEF TxRecords
  <1>5. \A v \in Runners \ {w} : tx'[v] = tx[v] /\ tx[v].at # "loaded"
    BY <1>1, RunnersApart DEF TrustInv, TrustTypes, ViewStands
  <1>6. TrustTypes' /\ LogKept' /\ ScoreIsReplay'
    <2>1. \A S \in SUBSET Events : Replay(S)' = Replay(S)
      BY <1>1, ReplayFramed
    <2>2. Replay(Done)' = Replay(Done)
      BY <1>1, <1>2, <2>1 DEF Replay
    <2>3. tx' \in [Runners -> TxRecords]
      BY <1>1, <1>4, <1>5 DEF TrustInv, TrustTypes
    <2> QED
      BY <1>1, <1>2, <2>2, <2>3 DEF TrustInv, TrustTypes, LogKept, ScoreIsReplay, Done
  <1>7. ClaimsStand'
    <2>1. \A v \in Runners : /\ tx'[v].event = tx[v].event
                             /\ tx'[v].at = "idle" <=> tx[v].at = "idle"
                             /\ tx'[v].at = "idle" => tx'[v] = tx[v]
      BY <1>1, <1>4, <1>5
    <2>2. \A v \in Runners : tx'[v].at = "idle" => tx'[v] = NoTx
      BY <2>1 DEF TrustInv, ClaimsStand
    <2>3. /\ \A v \in Workers : tx'[v].event = tx[v].event /\ (tx'[v].at = "idle" <=> tx[v].at = "idle")
          /\ tx'[Script].at = "idle" <=> tx[Script].at = "idle"
      BY <2>1, RunnersApart
    <2>4. \A v \in Workers : tx'[v].at # "idle" =>
            tx'[v].event \in Events /\ eventStatus'[tx'[v].event] \in {"pending", "retry"}
      <3> SUFFICES ASSUME NEW v \in Workers, tx'[v].at # "idle"
                   PROVE  tx'[v].event \in Events /\ eventStatus'[tx'[v].event] \in {"pending", "retry"}
        OBVIOUS
      <3>1. tx[v].at # "idle" /\ tx'[v].event = tx[v].event
        BY <2>3
      <3>2. tx[v].event \in Events /\ eventStatus[tx[v].event] \in {"pending", "retry"}
        BY <3>1 DEF TrustInv, ClaimsStand
      <3> QED
        BY <1>1, <3>1, <3>2
    <2>5. \A u, v \in Workers : u # v /\ tx'[u].at # "idle" /\ tx'[v].at # "idle" =>
            tx'[u].event # tx'[v].event
      BY <2>3 DEF TrustInv, ClaimsStand
    <2>6. tx'[Script].at # "idle" => Done' # {}
      BY <1>2, <2>3 DEF TrustInv, ClaimsStand
    <2> QED
      BY <2>2, <2>4, <2>5, <2>6 DEF ClaimsStand
  <1>8. Loaded(w)' = Loaded(w)
    BY <1>1, <1>4 DEF Loaded
  <1>9. ViewStands'
    <2>1. \A v \in Runners : tx'[v].at = "loaded" <=> v = w
      BY <1>4, <1>5
    <2> QED
      BY <1>1, <1>4, <1>8, <2>1 DEF ViewStands
  <1> QED
    BY <1>6, <1>7, <1>9 DEF TrustInv

\* A transaction ends: what it wrote of its event and of the score is all there is.
LEMMA EndInv ==
  ASSUME TrustInv, NEW w \in Runners, tx[w].at # "idle",
         tx' = [tx EXCEPT ![w] = NoTx], Unlock(w), subject' = subject, kind' = kind,
         crashes' \in 0..MaxCrashes, applied' \in SUBSET Events,
         eventStatus' \in [Events -> {"absent", "pending", "retry", "processed", "failed"}],
         attempts' \in [Events -> 0..MaxAttempts],
         \A e \in Events : \/ eventStatus'[e] = eventStatus[e] /\ attempts'[e] = attempts[e]
                           \/ /\ w \in Workers /\ e = tx[w].event
                              /\ eventStatus'[e] = "retry" => attempts'[e] < MaxAttempts
                              /\ eventStatus'[e] \in {"processed", "failed", "retry"},
         Done' # Done => holder = w,
         applied' # applied => holder = w,
         Done \subseteq Done', ScoreIsReplay'
  PROVE  TrustInv'
  <1>1. /\ tx' \in [Runners -> TxRecords] /\ tx'[w] = NoTx
        /\ \A v \in Runners \ {w} : tx'[v] = tx[v]
    BY NoTxTyped DEF TrustInv, TrustTypes
  <1>2. /\ holder' \in Runners \cup {Nobody} /\ holder' # w
        /\ \A v \in Runners \ {w} : holder' = v <=> holder = v
    BY RunnersApart DEF Unlock, TrustInv, TrustTypes
  <1>3. TrustTypes'
    BY <1>1, <1>2 DEF TrustInv, TrustTypes
  <1>4. LogKept'
    <2> SUFFICES ASSUME NEW e \in Events
                 PROVE  /\ eventStatus'[e] # "absent" => kind'[e] \in Kinds[subject']
                        /\ eventStatus'[e] \in {"absent", "pending", "retry"} => attempts'[e] < MaxAttempts
      BY DEF LogKept
    <2>1. CASE eventStatus'[e] = eventStatus[e] /\ attempts'[e] = attempts[e]
      BY <2>1 DEF TrustInv, LogKept
    <2>2. CASE ~(eventStatus'[e] = eventStatus[e] /\ attempts'[e] = attempts[e])
      <3>1. /\ w \in Workers /\ e = tx[w].event
            /\ eventStatus'[e] = "retry" => attempts'[e] < MaxAttempts
            /\ eventStatus'[e] \in {"processed", "failed", "retry"}
        BY <2>2
      <3>2. eventStatus[e] # "absent"
        BY <3>1 DEF TrustInv, ClaimsStand
      <3> QED
        BY <3>1, <3>2 DEF TrustInv, LogKept
    <2> QED
      BY <2>1, <2>2
  <1>5. ClaimsStand'
    <2>1. \A v \in Runners : tx'[v].at = "idle" => tx'[v] = NoTx
      BY <1>1 DEF TrustInv, ClaimsStand
    <2>2. \A v \in Workers : tx'[v].at # "idle" => v # w /\ tx'[v] = tx[v]
      BY <1>1, NoTxTyped, RunnersApart
    <2>3. \A v \in Workers : tx'[v].at # "idle" =>
            tx'[v].event \in Events /\ eventStatus'[tx'[v].event] \in {"pending", "retry"}
      <3> SUFFICES ASSUME NEW v \in Workers, tx'[v].at # "idle"
                   PROVE  tx'[v].event \in Events /\ eventStatus'[tx'[v].event] \in {"pending", "retry"}
        OBVIOUS
      <3>1. v # w /\ tx'[v] = tx[v] /\ tx[v].at # "idle"
        BY <2>2
      <3>2. tx[v].event \in Events /\ eventStatus[tx[v].event] \in {"pending", "retry"}
        BY <3>1 DEF TrustInv, ClaimsStand
      <3>3. ~(w \in Workers /\ tx[v].event = tx[w].event)
        BY <3>1 DEF TrustInv, ClaimsStand
      <3>4. eventStatus'[tx[v].event] = eventStatus[tx[v].event]
        BY <3>2, <3>3
      <3> QED
        BY <3>1, <3>2, <3>4
    <2>4. \A u, v \in Workers : u # v /\ tx'[u].at # "idle" /\ tx'[v].at # "idle" =>
            tx'[u].event # tx'[v].event
      BY <2>2 DEF TrustInv, ClaimsStand
    <2>5. tx'[Script].at # "idle" => Done' # {}
      BY <1>1, NoTxTyped, RunnersApart DEF TrustInv, ClaimsStand
    <2> QED
      BY <2>1, <2>3, <2>4, <2>5 DEF ClaimsStand
  <1>6. ViewStands'
    <2> SUFFICES ASSUME NEW v \in Runners
                 PROVE  /\ tx'[v].at = "loaded" <=> holder' = v
                        /\ tx'[v].at = "loaded" => tx'[v].view = Loaded(v)'
      BY DEF ViewStands
    <2>1. CASE v = w
      BY <1>1, <1>2, <2>1, NoTxTyped
    <2>2. CASE v # w
      <3>1. tx'[v] = tx[v] /\ (holder' = v <=> holder = v)
        BY <1>1, <1>2, <2>2
      <3>2. tx[v].at = "loaded" <=> holder = v
        BY DEF TrustInv, ViewStands
      <3>3. ASSUME holder = v PROVE Loaded(v)' = Loaded(v)
        <4>1. Done' = Done /\ applied' = applied
          BY <2>2, <3>3
        <4> QED
          BY <3>1, <4>1 DEF Loaded, Done
      <3>4. tx[v].at = "loaded" => tx[v].view = Loaded(v)
        BY DEF TrustInv, ViewStands
      <3> QED
        BY <3>1, <3>2, <3>3, <3>4
    <2> QED
      BY <2>1, <2>2
  <1> QED
    BY <1>3, <1>4, <1>5, <1>6 DEF TrustInv

LEMMA CommitInv ==
  ASSUME TrustInv, NEW w \in Workers, Commit(w)
  PROVE  TrustInv'
  <1> DEFINE e == tx[w].event
  <1>1. /\ tx[w].at = "loaded"
        /\ eventStatus' = [eventStatus EXCEPT ![e] = "processed"]
        /\ attempts' = [attempts EXCEPT ![e] = @ + 1]
        /\ applied' = applied \cup {e}
        /\ stored' = IF e \in applied THEN stored ELSE Replay(tx[w].view)
        /\ tx' = [tx EXCEPT ![w] = NoTx] /\ Unlock(w) /\ UNCHANGED <<subject, kind, crashes>>
    BY DEF Commit
  <1>2. /\ w \in Runners /\ w # Script /\ holder = w /\ tx[w].view = Loaded(w)
        /\ e \in Events /\ eventStatus[e] \in {"pending", "retry"}
    BY <1>1, RunnersApart DEF TrustInv, ViewStands, ClaimsStand
  <1>3. /\ eventStatus \in [Events -> {"absent", "pending", "retry", "processed", "failed"}]
        /\ attempts \in [Events -> 0..MaxAttempts] /\ applied \subseteq Events
        /\ crashes \in 0..MaxCrashes /\ MaxAttempts \in Nat
    BY TrustAssumption DEF TrustAssumption, TrustInv, TrustTypes
  <1>4. attempts[e] + 1 \in 0..MaxAttempts
    <2>1. attempts[e] < MaxAttempts /\ attempts[e] \in 0..MaxAttempts
      BY <1>2, <1>3 DEF TrustInv, LogKept
    <2> QED
      BY <1>3, <2>1
  <1> HIDE DEF e
  <1>5. /\ eventStatus' \in [Events -> {"absent", "pending", "retry", "processed", "failed"}]
        /\ attempts' \in [Events -> 0..MaxAttempts] /\ applied' \in SUBSET Events
        /\ crashes' \in 0..MaxCrashes
        /\ \A f \in Events \ {e} : eventStatus'[f] = eventStatus[f] /\ attempts'[f] = attempts[f]
        /\ eventStatus'[e] = "processed"
    BY <1>1, <1>2, <1>3, <1>4
  <1>6. /\ Done' = Done \cup {e} /\ e \notin Done
    BY <1>2, <1>5 DEF Done
  <1>7. applied = Done
    BY DEF TrustInv, ScoreIsReplay, Done
  <1>8. Loaded(w) = Done' /\ applied' = Done' /\ Done' # {} /\ Done' \in SUBSET Events
    BY <1>1, <1>2, <1>6, <1>7 DEF Loaded, e, Done
  <1>9. stored' = Replay(Done')
    BY <1>1, <1>2, <1>6, <1>7, <1>8
  <1>10. Replay(Done)' = Replay(Done')
    BY <1>1 DEF Replay
  <1>11. ScoreIsReplay'
    BY <1>8, <1>9, <1>10 DEF ScoreIsReplay, Done
  <1> QED
    BY <1>1, <1>2, <1>5, <1>6, <1>11, EndInv DEF e

LEMMA RebuildInv ==
  ASSUME TrustInv, CommitRebuild
  PROVE  TrustInv'
  <1>1. /\ tx[Script].at = "loaded" /\ stored' = Replay(tx[Script].view)
        /\ tx' = [tx EXCEPT ![Script] = NoTx] /\ Unlock(Script)
        /\ UNCHANGED <<subject, kind, eventStatus, attempts, applied, crashes>>
    BY DEF CommitRebuild
  <1>2. Script \in Runners /\ tx[Script].view = Done /\ Done # {} /\ applied = Done
    BY <1>1, RunnersApart DEF TrustInv, ViewStands, ClaimsStand, Loaded, Done, ScoreIsReplay
  <1>3. Done' = Done
    BY <1>1 DEF Done
  <1>4. Replay(Done)' = Replay(Done)
    BY <1>1, <1>3 DEF Replay
  <1>5. ScoreIsReplay'
    BY <1>1, <1>2, <1>3, <1>4 DEF ScoreIsReplay, Done
  <1>6. /\ eventStatus' = eventStatus /\ attempts' = attempts
        /\ eventStatus' \in [Events -> {"absent", "pending", "retry", "processed", "failed"}]
        /\ attempts' \in [Events -> 0..MaxAttempts] /\ applied' \in SUBSET Events
        /\ crashes' \in 0..MaxCrashes
    BY <1>1 DEF TrustInv, TrustTypes
  <1> QED
    BY <1>1, <1>2, <1>3, <1>5, <1>6, EndInv

LEMMA RetryInv ==
  ASSUME TrustInv, NEW w \in Workers, MarkRetry(w)
  PROVE  TrustInv'
  <1> DEFINE e == tx[w].event
  <1>1. /\ tx[w].at \in {"claimed", "loaded"}
        /\ eventStatus' = [eventStatus EXCEPT ![e] = FailedStatus(e)]
        /\ attempts' = [attempts EXCEPT ![e] = @ + 1]
        /\ tx' = [tx EXCEPT ![w] = NoTx] /\ Unlock(w)
        /\ UNCHANGED <<subject, kind, applied, stored, crashes>>
    BY DEF MarkRetry
  <1>2. /\ w \in Runners /\ e \in Events /\ eventStatus[e] \in {"pending", "retry"}
    BY <1>1, RunnersApart DEF TrustInv, ClaimsStand
  <1>3. /\ eventStatus \in [Events -> {"absent", "pending", "retry", "processed", "failed"}]
        /\ attempts \in [Events -> 0..MaxAttempts] /\ applied \subseteq Events
        /\ crashes \in 0..MaxCrashes /\ MaxAttempts \in Nat
    BY TrustAssumption DEF TrustAssumption, TrustInv, TrustTypes
  <1>4. attempts[e] + 1 \in 0..MaxAttempts
    <2>1. attempts[e] < MaxAttempts /\ attempts[e] \in 0..MaxAttempts
      BY <1>2, <1>3 DEF TrustInv, LogKept
    <2> QED
      BY <1>3, <2>1
  <1>5. /\ FailedStatus(e) \in {"failed", "retry"}
        /\ FailedStatus(e) = "retry" => attempts[e] + 1 < MaxAttempts
    BY <1>3, <1>4 DEF FailedStatus
  <1> HIDE DEF e
  <1>6. /\ eventStatus' \in [Events -> {"absent", "pending", "retry", "processed", "failed"}]
        /\ attempts' \in [Events -> 0..MaxAttempts] /\ applied' \in SUBSET Events
        /\ crashes' \in 0..MaxCrashes
        /\ \A f \in Events \ {e} : eventStatus'[f] = eventStatus[f] /\ attempts'[f] = attempts[f]
        /\ eventStatus'[e] = FailedStatus(e) /\ attempts'[e] = attempts[e] + 1
    BY <1>1, <1>2, <1>3, <1>4, <1>5
  <1>7. Done' = Done
    BY <1>2, <1>5, <1>6 DEF Done
  <1>8. Replay(Done)' = Replay(Done)
    BY <1>1, <1>7 DEF Replay
  <1>9. ScoreIsReplay'
    BY <1>1, <1>7, <1>8 DEF TrustInv, ScoreIsReplay, Done
  <1> QED
    BY <1>1, <1>2, <1>5, <1>6, <1>7, <1>9, EndInv DEF e

LEMMA CrashInv ==
  ASSUME TrustInv, NEW w \in Runners, Crash(w)
  PROVE  TrustInv'
  <1>1. /\ tx[w] # NoTx /\ crashes < MaxCrashes /\ crashes' = crashes + 1
        /\ tx' = [tx EXCEPT ![w] = NoTx] /\ Unlock(w)
        /\ UNCHANGED <<subject, kind, eventStatus, attempts, applied, stored>>
    BY DEF Crash
  <1>2. tx[w].at # "idle"
    BY <1>1 DEF TrustInv, ClaimsStand
  <1>3. Done' = Done
    BY <1>1 DEF Done
  <1>4. Replay(Done)' = Replay(Done)
    BY <1>1, <1>3 DEF Replay
  <1>5. ScoreIsReplay'
    BY <1>1, <1>3, <1>4 DEF TrustInv, ScoreIsReplay, Done
  <1>6. /\ eventStatus' = eventStatus /\ attempts' = attempts
        /\ eventStatus' \in [Events -> {"absent", "pending", "retry", "processed", "failed"}]
        /\ attempts' \in [Events -> 0..MaxAttempts] /\ applied' \in SUBSET Events
        /\ crashes' \in 0..MaxCrashes
    BY <1>1, TrustAssumption DEF TrustAssumption, TrustInv, TrustTypes
  <1> QED
    BY <1>1, <1>2, <1>3, <1>5, <1>6, EndInv

LEMMA TrustStep == TrustInv /\ [TrustNext]_trustVars => TrustInv'
  <1> SUFFICES ASSUME TrustInv, [TrustNext]_trustVars PROVE TrustInv'
    OBVIOUS
  <1>1. CASE TrustNext
    BY <1>1, AppendInv, ClaimInv, LoadInv, CommitInv, RebuildInv, RetryInv, CrashInv DEF TrustNext
  <1>2. CASE UNCHANGED trustVars
    <2>1. Done' = Done
      BY <1>2 DEF trustVars, Done
    <2>2. Replay(Done)' = Replay(Done)
      BY <1>2, <2>1 DEF trustVars, Replay
    <2>3. ScoreIsReplay'
      BY <1>2, <2>1, <2>2 DEF trustVars, TrustInv, ScoreIsReplay, Done
    <2> QED
      BY <1>2, <2>1, <2>3 DEF trustVars, TrustInv, TrustTypes, LogKept, ClaimsStand, ViewStands, Loaded
  <1> QED
    BY <1>1, <1>2

LEMMA TrustInvariant == TrustSpec => []TrustInv
  BY TrustStart, TrustStep, PTL DEF TrustSpec

\* What is stored is a projection of the subject, from events with a known type.
LEMMA StoredTyped ==
  ASSUME TrustInv
  PROVE  stored = NoRow \/ (stored \in ProjectionsOf(subject) /\ stored.last \in Nat)
  <1>1. stored = IF Done = {} THEN NoRow ELSE Replay(Done)
    BY DEF TrustInv, ScoreIsReplay, Done
  <1>2. Done \in SUBSET Events /\ \A e \in Done : kind[e] \in DOMAIN Rules
    BY KindsAssumption DEF KindsAssumption, TrustInv, TrustTypes, LogKept, Done
  <1> QED
    BY <1>1, <1>2, ReplayTyped

\* The trust engine's state is well typed (trust_events, the effect rows, the
\* stored score and the transactions of the workers and of the rebuild script).
THEOREM TrustTyped == TrustSpec => []TrustTypeOK
  <1>1. TrustInv => TrustTypeOK
    <2> SUFFICES ASSUME TrustInv PROVE TrustTypeOK
      OBVIOUS
    <2>1. stored = NoRow \/ (stored.score \in 0..200 /\ stored.level \in 0..5)
      BY StoredTyped DEF ProjectionsOf, Projections
    <2>2. \A w \in Runners : tx[w].event \in Events \cup {0} /\ tx[w].view \subseteq Events
      BY DEF TrustInv, TrustTypes, TxRecords
    <2> QED
      BY <2>1, <2>2 DEF TrustInv, TrustTypes, TrustTypeOK
  <1> QED
    BY <1>1, TrustInvariant, PTL

\* However many workers, retries, crashes and rebuilds there were, and in any
\* order of events, the stored score is the replay of the processed events.
THEOREM AlwaysReplay == TrustSpec => []ScoreIsReplay
  <1>1. TrustInv => ScoreIsReplay
    BY DEF TrustInv
  <1> QED
    BY <1>1, TrustInvariant, PTL

\* From every score the engine can store, for any events and any number of
\* complaints per level, the successes promised clear the penalty and lift what
\* it restricts, and one more success never raises the level, adds a cooldown
\* or takes from the score.
THEOREM SuccessesAlwaysHelp == TrustSpec => []SuccessesHelp
  <1>1. TrustInv => SuccessesHelp
    <2> SUFFICES ASSUME TrustInv, stored # NoRow PROVE RecoveryAsPromised /\ SuccessNeverPunishes
      BY DEF SuccessesHelp, RecoveryAsPromised, SuccessNeverPunishes
    <2>1. stored \in ProjectionsOf(subject) /\ stored.last \in Nat
      BY StoredTyped
    <2>2. ASSUME NEW after \in {0, 3, 30, 400}
          PROVE  LET p == Project(stored, subject, Good, stored.last + after)
                 IN  p.level <= stored.level /\ p.cooldown <= stored.cooldown /\ p.score >= stored.score
      <3>1. stored.last + after \in Nat /\ stored.last + after >= stored.last
        BY <2>1
      <3> QED
        BY <2>1, <3>1, NeverWorse
    <2> QED
      BY <2>1, <2>2, PromiseKept DEF SuccessNeverPunishes
  <1> QED
    BY <1>1, TrustInvariant, PTL
=============================================================================
