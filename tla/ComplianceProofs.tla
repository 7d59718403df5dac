-------------------------- MODULE ComplianceProofs --------------------------
(***************************************************************************)
(* What the gate of module Compliance guarantees, and what the advisory    *)
(* screens promise, for every schedule, FDP table, limit and clause.  The  *)
(* first two theorems and the cap of the month are about what the gate     *)
(* lets through; the last two hold in every state of the types TypesInv,   *)
(* since screens and gate read the same records.                           *)
(***************************************************************************)
EXTENDS Compliance, Sums

\* An issue that no clause is bound to keeps its severity.
LEMMA NoClauseKeeps ==
  ASSUME om = NoClause, NEW issues, NEW i \in issues
  PROVE  i \in ApplyOm(issues)
<1>1. om.key = "none"
  BY DEF NoClause
<1>2. "none" \notin DOMAIN Families
  BY DEF Families
<1>3. \A j : ~Bound(j)
  BY <1>1, <1>2 DEF Bound
<1> QED
  BY <1>3 DEF ApplyOm

\* A conflict is not among the rules an override may pass.
LEMMA ConflictIsHard == "assignment_conflict" \notin FtlRules
  BY DEF FtlRules, Families

\* _check_conflict: a flight that overlaps one on the member's roster, cancelled or
\* not, is refused by the gate whatever else the checks say.
LEMMA OverlapIsRefused ==
  ASSUME om = NoClause, NEW f \in Flights, NEW g \in Roster \ {f}, Overlap(f, g)
  PROVE  HardBlocks(CheckCrew(f, {})) # {}
<1> DEFINE i == Issue("assignment_conflict", "BLOCKING")
<1>1. i \in ConflictIssues(f, {})
  BY DEF ConflictIssues
<1>2. i \in CheckCrew(f, {})
  BY <1>1, NoClauseKeeps DEF CheckCrew
<1>3. i.sev = "BLOCKING" /\ i.rule = "assignment_conflict"
  BY DEF Issue
<1> QED
  BY <1>2, <1>3, ConflictIsHard DEF HardBlocks

\* The strengthening is the type of via alone: the property is inductive with it.
IInv ==
  /\ via \in [Flights -> Paths]
  /\ SinglesDontOverlap

LEMMA InitIInv == Init => IInv
  BY DEF Init, IInv, SinglesDontOverlap, Paths

LEMMA AssignKeepsIInv ==
  ASSUME IInv, NEW f \in Flights, NEW down, AssignCrew(f, down)
  PROVE  IInv'
<1> DEFINE path == Path(CheckCrew(f, down), down)
<1>1. via' = [via EXCEPT ![f] = path] /\ HardBlocks(CheckCrew(f, down)) = {}
  BY DEF AssignCrew
<1>2. path \in {"other", "overridden", "checked"}
  BY DEF Path
<1>3. via' \in [Flights -> Paths]
  BY <1>1, <1>2 DEF IInv, Paths
<1>4. ASSUME NEW g \in Flights \ {f}, via'[g] \in {"checked", "overridden"},
             path \in {"checked", "overridden"}
      PROVE  ~Overlap(f, g)
  <2>1. om = NoClause /\ down = {}
    BY <1>4 DEF Path
  <2>2. g \in Roster \ {f}
    BY <1>1, <1>4 DEF IInv, Roster
  <2> QED
    BY <1>1, <2>1, <2>2, OverlapIsRefused
<1>5. \A g, h : Overlap(g, h) <=> Overlap(h, g)
  BY DEF Overlap
<1>6. SinglesDontOverlap'
  <2> SUFFICES ASSUME NEW g \in Flights, NEW h \in Flights, g # h,
                      via'[g] \in {"checked", "overridden"},
                      via'[h] \in {"checked", "overridden"}
               PROVE  ~Overlap(g, h)
    BY DEF SinglesDontOverlap, Overlap
  <2>1. CASE g = f
    BY <1>1, <1>4, <2>1 DEF IInv
  <2>2. CASE h = f
    BY <1>1, <1>4, <1>5, <2>2 DEF IInv
  <2>3. CASE g # f /\ h # f
    BY <1>1, <2>3 DEF IInv, SinglesDontOverlap
  <2> QED
    BY <2>1, <2>2, <2>3
<1> QED
  BY <1>3, <1>6 DEF IInv

\* What gives no flight a path of the single-flight gate keeps the invariant.
LEMMA NoNewSingle ==
  ASSUME IInv, via' \in [Flights -> Paths],
         \A f \in Flights : via'[f] = via[f] \/ via'[f] \in {"off", "duty", "other"}
  PROVE  IInv'
<1> SUFFICES ASSUME NEW g \in Flights, NEW h \in Flights, g # h,
                    via'[g] \in {"checked", "overridden"},
                    via'[h] \in {"checked", "overridden"}
             PROVE  ~Overlap(g, h)
  BY DEF IInv, SinglesDontOverlap, Overlap
<1>1. via[g] = via'[g] /\ via[h] = via'[h]
  OBVIOUS
<1> QED
  BY <1>1 DEF IInv, SinglesDontOverlap

LEMMA DutyKeepsIInv ==
  ASSUME IInv, NEW D, NEW down, AssignConnectedDuty(D, down)
  PROVE  IInv'
<1> DEFINE issues == CheckConnectedDuty(D, down)
           path   == IF Path(issues, down) = "other" THEN "other" ELSE "duty"
<1>1. via' = [f \in Flights |-> IF f \in D \ Roster THEN path ELSE via[f]]
  BY DEF AssignConnectedDuty
<1> QED
  BY <1>1, NoNewSingle DEF IInv, Paths

LEMMA NextIInv == IInv /\ [Next]_vars => IInv'
<1> SUFFICES ASSUME IInv, [Next]_vars
             PROVE  IInv'
  OBVIOUS
<1>1. CASE \E f \in Flights, down \in FaultsNow : AssignCrew(f, down)
  BY <1>1, AssignKeepsIInv
<1>2. CASE \E D \in Duties, down \in FaultsNow \cap {{}, {"fdp_rules"}} :
             AssignConnectedDuty(D, down)
  BY <1>2, DutyKeepsIInv
<1>3. CASE \E f \in Flights : AssignRiding(f) \/ RemoveAssignment(f)
  <2>1. PICK f \in Flights : via' = [via EXCEPT ![f] = "other"] \/ via' = [via EXCEPT ![f] = "off"]
    BY <1>3 DEF AssignRiding, RemoveAssignment
  <2> QED
    BY <2>1, NoNewSingle DEF IInv, Paths
<1>4. CASE via' = via
  BY <1>4, NoNewSingle DEF IInv
<1>5. CASE UNCHANGED vars
  BY <1>4, <1>5 DEF vars
<1>6. CASE \E f \in Flights : CancelFlight(f) \/ ReinstateFlight(f)
  BY <1>4, <1>6 DEF CancelFlight, ReinstateFlight
<1>7. CASE \/ \E s \in Statuses : SetCrewStatus(s)
           \/ \E d \in Documents : SetDocument(d)
           \/ \E e \in Expiries : SetTraining(e)
           \/ \E c \in Clauses \cup {NoClause} : SetClause(c)
           \/ \E t \in Instants : PassTime(t)
  BY <1>4, <1>7 DEF SetCrewStatus, SetDocument, SetTraining, SetClause, PassTime
<1> QED
  BY <1>1, <1>2, <1>3, <1>5, <1>6, <1>7 DEF Next

\* Whatever the schedule and the limits, two flights that both came through the
\* single-flight gate under no clause never overlap.
THEOREM SinglesNeverOverlap == Spec => []SinglesDontOverlap
<1>1. IInv => SinglesDontOverlap
  BY DEF IInv
<1> QED
  BY <1>1, InitIInv, NextIInv, PTL DEF Spec

----------------------------------------------------------------------------
(* A finite set has a least element: the first and the last flight of a    *)
(* duty are flights of it.                                                 *)

LEMMA SomeLeast ==
  ASSUME NEW S, IsFiniteSet(S), S # {}, NEW h \in [S -> Int]
  PROVE  \E x \in S : \A y \in S : h[x] <= h[y]
<1> DEFINE G == {T \in SUBSET S : T # {} => \E x \in T : \A y \in T : h[x] <= h[y]}
<1>1. ASSUME NEW T \in SUBSET S, \A x \in T : T \ {x} \in G PROVE T \in G
  <2> SUFFICES ASSUME NEW x \in T PROVE \E z \in T : \A y \in T : h[z] <= h[y]
    OBVIOUS
  <2>1. h[x] \in Int /\ \A y \in T : h[y] \in Int
    OBVIOUS
  <2>2. CASE T \ {x} = {}
    BY <2>1, <2>2
  <2>3. CASE T \ {x} # {}
    <3>1. PICK m \in T \ {x} : \A y \in T \ {x} : h[m] <= h[y]
      BY <1>1, <2>3
    <3>2. CASE h[x] <= h[m]
      BY <2>1, <3>1, <3>2
    <3>3. CASE h[m] <= h[x]
      BY <2>1, <3>1, <3>3
    <3> QED BY <2>1, <3>2, <3>3
  <2> QED BY <2>2, <2>3
<1>2. SUBSET S \subseteq G
  <2> HIDE DEF G
  <2> QED BY <1>1, UpFromEmpty
<1> QED BY <1>2

LEMMA Times ==
  ASSUME NEW f \in Flights
  PROVE  Dep(f) \in Nat /\ Arr(f) \in Nat /\ Dep(f) < Arr(f)
BY ScheduleAssumption DEF Dep, Arr

LEMMA DeparturesDiffer ==
  ASSUME NEW f \in Flights, NEW g \in Flights, Dep(f) = Dep(g)
  PROVE  f = g
BY ScheduleAssumption

LEMMA FlightsAreFinite ==
  ASSUME NEW S \in SUBSET Flights
  PROVE  IsFiniteSet(S)
BY LimitAssumption, FS_Subset

LEMMA FirstOf ==
  ASSUME NEW D \in SUBSET Flights, D # {}
  PROVE  First(D) \in D /\ \A g \in D : Dep(First(D)) <= Dep(g)
<1> DEFINE dep == [f \in D |-> Dep(f)]
<1>1. dep \in [D -> Int]
  BY Times
<1>2. \E f \in D : \A g \in D : dep[f] <= dep[g]
  <2> HIDE DEF dep
  <2> QED BY <1>1, FlightsAreFinite, SomeLeast
<1> QED BY <1>2 DEF First

LEMMA LastOf ==
  ASSUME NEW D \in SUBSET Flights, D # {}
  PROVE  Last(D) \in D /\ \A g \in D : Dep(g) <= Dep(Last(D))
<1> DEFINE back == [f \in D |-> -Dep(f)]
<1>1. back \in [D -> Int]
  BY Times
<1>2. \E f \in D : \A g \in D : back[f] <= back[g]
  <2> HIDE DEF back
  <2> QED BY <1>1, FlightsAreFinite, SomeLeast
<1>3. \E f \in D : \A g \in D : Dep(g) <= Dep(f)
  BY <1>2, Times
<1> QED BY <1>3 DEF Last

----------------------------------------------------------------------------
(* What came through the gate unchallenged.                                *)

\* Without a clause the findings stand as they are.
LEMMA ApplyOmIs ==
  ASSUME om = NoClause, NEW issues
  PROVE  ApplyOm(issues) = issues
<1>1. om.key = "none" /\ "none" \notin DOMAIN Families
  BY DEF NoClause, Families
<1>2. \A j : ~Bound(j)
  BY <1>1 DEF Bound
<1> QED
  BY <1>2 DEF ApplyOm

LEMMA CheckCrewIs ==
  ASSUME om = NoClause, NEW f, NEW down
  PROVE  CheckCrew(f, down) = CrewIssues({f}, down) \cup QualificationIssues(Schedule[f].type)
            \cup ConflictIssues(f, down) \cup RestIssues(f, International(f), down)
            \cup FdpIssues(f, down)
BY ApplyOmIs, Zenon DEF CheckCrew

\* A flight that becomes "checked" met no block at all.
LEMMA CheckedIsClear ==
  ASSUME NEW f \in Flights, NEW down, AssignCrew(f, down),
         f \in DOMAIN via, via'[f] = "checked"
  PROVE  /\ om = NoClause /\ down = {}
         /\ \A i \in CheckCrew(f, {}) : i.sev # "BLOCKING"
<1>1. via'[f] = Path(CheckCrew(f, down), down) /\ HardBlocks(CheckCrew(f, down)) = {}
  BY DEF AssignCrew
<1>2. om = NoClause /\ down = {} /\ FtlBlocks(CheckCrew(f, down)) = {}
  BY <1>1 DEF Path
<1> QED
  BY <1>1, <1>2 DEF FtlBlocks, HardBlocks

\* Only the gate for one flight makes a flight "checked".
LEMMA OnlyTheGateChecks ==
  ASSUME via \in [Flights -> Paths], [Next]_vars, NEW f \in Flights,
         via[f] # "checked", via'[f] = "checked"
  PROVE  \E down \in FaultsNow : AssignCrew(f, down)
<1>1. CASE \E g \in Flights, down \in FaultsNow : AssignCrew(g, down)
  <2>1. PICK g \in Flights, down \in FaultsNow : AssignCrew(g, down)
    BY <1>1
  <2>2. f = g
    BY <2>1 DEF AssignCrew
  <2> QED BY <2>1, <2>2
<1>2. CASE \E D \in Duties, down \in FaultsNow \cap {{}, {"fdp_rules"}} :
             AssignConnectedDuty(D, down)
  <2>1. PICK D, down : AssignConnectedDuty(D, down)
    BY <1>2
  <2>2. via'[f] \in {"other", "duty", via[f]}
    BY <2>1 DEF AssignConnectedDuty
  <2> QED BY <2>2
<1>3. CASE \E g \in Flights : AssignRiding(g) \/ RemoveAssignment(g)
  <2>1. PICK g \in Flights : AssignRiding(g) \/ RemoveAssignment(g)
    BY <1>3
  <2>2. via'[f] \in {"other", "off", via[f]}
    BY <2>1 DEF AssignRiding, RemoveAssignment
  <2> QED BY <2>2
<1>4. CASE \E g \in Flights : CancelFlight(g) \/ ReinstateFlight(g)
  BY <1>4 DEF CancelFlight, ReinstateFlight
<1>5. CASE \/ \E s \in Statuses : SetCrewStatus(s)
           \/ \E d \in Documents : SetDocument(d)
           \/ \E e \in Expiries : SetTraining(e)
           \/ \E c \in Clauses \cup {NoClause} : SetClause(c)
           \/ \E t \in Instants : PassTime(t)
  BY <1>5 DEF SetCrewStatus, SetDocument, SetTraining, SetClause, PassTime
<1>6. CASE UNCHANGED vars
  BY <1>6 DEF vars
<1> QED
  BY <1>1, <1>2, <1>3, <1>4, <1>5, <1>6 DEF Next

----------------------------------------------------------------------------
(* The hours of a set of flights.                                          *)

HalfHours(S) == UNION {{f} \X (Dep(f)..(Arr(f) - 1)) : f \in S}

LEMMA FlightHoursIs == \A S : FlightHours(S) = Cardinality(HalfHours(S))
  BY DEF FlightHours, HalfHours

LEMMA HalfHoursFinite ==
  ASSUME NEW S \in SUBSET Flights
  PROVE  IsFiniteSet(HalfHours(S))
<1> DEFINE Row(f) == {f} \X (Dep(f)..(Arr(f) - 1))
           rows == {Row(f) : f \in S}
           row == [f \in S |-> Row(f)]
<1>1. row \in Surjection(S, rows)
  BY DEF Surjection
<1>2. IsFiniteSet(rows)
  <2> HIDE DEF row, rows
  <2> QED BY <1>1, FlightsAreFinite, FS_Surjection
<1>3. ASSUME NEW f \in S PROVE IsFiniteSet(Row(f))
  <2>1. IsFiniteSet(Dep(f)..(Arr(f) - 1))
    <3>1. Dep(f) \in Int /\ Arr(f) - 1 \in Int
      BY Times
    <3> QED BY <3>1, FS_Interval
  <2> QED BY <2>1, FS_Singleton, FS_Product
<1>4. \A R \in rows : IsFiniteSet(R)
  BY <1>3
<1>5. IsFiniteSet(UNION rows)
  <2> HIDE DEF rows
  <2> QED BY <1>2, <1>4, FS_UNION
<1> QED BY <1>5 DEF HalfHours

LEMMA HoursGrow ==
  ASSUME NEW T \in SUBSET Flights, NEW S \in SUBSET T
  PROVE  FlightHours(S) \in Nat /\ FlightHours(T) \in Nat /\ FlightHours(S) <= FlightHours(T)
<1>1. IsFiniteSet(HalfHours(S)) /\ IsFiniteSet(HalfHours(T))
  BY HalfHoursFinite
<1>2. HalfHours(S) \in SUBSET HalfHours(T)
  BY DEF HalfHours
<1> QED BY <1>1, <1>2, FlightHoursIs, FS_CardinalityType, FS_Subset

LEMMA HoursOfBoth ==
  ASSUME NEW S \in SUBSET Flights, NEW T \in SUBSET Flights
  PROVE  FlightHours(S \cup T) <= FlightHours(S) + FlightHours(T)
<1>1. IsFiniteSet(HalfHours(S)) /\ IsFiniteSet(HalfHours(T))
  BY HalfHoursFinite
<1>2. HalfHours(S \cup T) = HalfHours(S) \cup HalfHours(T)
  BY DEF HalfHours
<1>3. IsFiniteSet(HalfHours(S) \cap HalfHours(T))
  BY <1>1, FS_Intersection
<1>4. /\ Cardinality(HalfHours(S)) \in Nat /\ Cardinality(HalfHours(T)) \in Nat
      /\ Cardinality(HalfHours(S) \cap HalfHours(T)) \in Nat
  BY <1>1, <1>3, FS_CardinalityType
<1>5. Cardinality(HalfHours(S) \cup HalfHours(T))
        = Cardinality(HalfHours(S)) + Cardinality(HalfHours(T))
            - Cardinality(HalfHours(S) \cap HalfHours(T))
  BY <1>1, FS_Union
<1>6. Cardinality(HalfHours(S) \cup HalfHours(T))
        <= Cardinality(HalfHours(S)) + Cardinality(HalfHours(T))
  BY <1>4, <1>5
<1>7. /\ FlightHours(S) = Cardinality(HalfHours(S))
      /\ FlightHours(T) = Cardinality(HalfHours(T))
      /\ FlightHours(S \cup T) = Cardinality(HalfHours(S) \cup HalfHours(T))
  BY <1>2, FlightHoursIs
<1> QED BY <1>6, <1>7

LEMMA MonthOpens ==
  ASSUME NEW a \in Nat
  PROVE  MonthStart(a) \in Nat /\ MonthStart(a) <= a
<1>1. MonthDays \in Nat \ {0}
  BY LimitAssumption
<1>2. a % MonthDays \in Nat /\ a % MonthDays <= a
  BY <1>1
<1> QED BY <1>2 DEF MonthStart

\* A day on or after the first of a month is in that month or a later one.
LEMMA MonthsFollow ==
  ASSUME NEW a \in Nat, NEW d \in Nat, d >= MonthStart(a)
  PROVE  MonthStart(d) >= MonthStart(a)
<1> DEFINE n == MonthDays  p == a \div n  q == d \div n
<1>1. n \in Nat \ {0}
  BY LimitAssumption
<1>2. /\ p \in Int /\ a = n * p + (a % n) /\ a % n \in 0..(n - 1)
      /\ q \in Int /\ d = n * q + (d % n) /\ d % n \in 0..(n - 1)
  BY <1>1
<1>3. MonthStart(a) = n * p /\ MonthStart(d) = n * q
  <2>1. \A x, y, z \in Int : x = y + z => x - z = y
    OBVIOUS
  <2>2. n * p \in Int /\ n * q \in Int /\ a % n \in Int /\ d % n \in Int
    BY <1>1, <1>2
  <2>3. a - (a % n) = n * p /\ d - (d % n) = n * q
    <3> HIDE DEF n, p, q
    <3> QED BY <1>2, <2>1, <2>2
  <2> QED BY <2>3 DEF MonthStart
<1> HIDE DEF n, p, q
<1>4. p <= q
  <2> SUFFICES ASSUME q <= p - 1 PROVE FALSE
    BY <1>2
  <2>1. n * q <= n * (p - 1)
    BY <1>1, <1>2
  <2>2. n * (p - 1) = n * p - n
    BY <1>1, <1>2
  <2> QED BY <1>1, <1>2, <1>3, <2>1, <2>2
<1>5. n * p <= n * q
  BY <1>1, <1>2, <1>4
<1> QED BY <1>3, <1>5

----------------------------------------------------------------------------
(* The cap of the month.                                                   *)

LEMMA ParamIs ==
  ASSUME om = NoClause, NEW key, NEW name, NEW lo, NEW hi, NEW default
  PROVE  Param(key, name, lo, hi, default) = default /\ Flag(key, name, default) = default
BY DEF NoClause, Param, Flag

LEMMA HoursAreWhole ==
  ASSUME NEW S \in SUBSET Flights, NEW day
  PROVE  HoursSince(S, day) \in Nat
BY HoursGrow DEF HoursSince

\* A window that is full is found exceeded.
LEMMA FullWindow ==
  ASSUME om = NoClause, NEW exceeded, NEW warning, NEW key, NEW start, NEW limit \in Nat,
         NEW warn, NEW sev, NEW projected \in SUBSET Flights,
         HoursSince(Flying, start) + HoursSince(projected, start) >= limit
  PROVE  Window(exceeded, warning, key, start, limit, warn, sev, projected)
           = {Issue(exceeded, sev)}
<1>1. Param(key, "max_hours", 2, Unlimited, limit) = limit
  BY ParamIs
<1>2. HoursSince(Flying, start) + HoursSince(projected, start) \in Nat
  BY HoursAreWhole DEF Flying, Roster
<1> QED BY <1>1, <1>2 DEF Window

LEMMA ClearedMonth ==
  ASSUME om = NoClause, NEW f \in Flights, \A i \in CheckCrew(f, {}) : i.sev # "BLOCKING"
  PROVE  HoursSince(Flying, MonthStart(Today)) + HoursSince({f}, MonthStart(Today)) < MonthLimit
<1> SUFFICES ASSUME HoursSince(Flying, MonthStart(Today)) + HoursSince({f}, MonthStart(Today))
                      >= MonthLimit
             PROVE  FALSE
  BY HoursAreWhole, LimitAssumption DEF Flying, Roster
<1> DEFINE i == Issue("hours_monthly_exceeded", "BLOCKING")
<1>1. MonthlyIssues({f}) = {i}
  <2>1. MonthLimit \in Nat
    BY LimitAssumption
  <2> QED BY <2>1, FullWindow DEF MonthlyIssues
<1>2. i \in FlightHoursIssues({f}, {})
  <2>1. Roster \cup {f} # {}
    OBVIOUS
  <2>2. FlightHoursIssues({f}, {}) = HourIssues({f})
    BY <2>1 DEF FlightHoursIssues
  <2> QED BY <1>1, <2>2 DEF HourIssues
<1>3. i \in CheckCrew(f, {})
  BY <1>2, CheckCrewIs DEF CrewIssues
<1> QED BY <1>3 DEF Issue

TypesInv == now \in Nat /\ via \in [Flights -> Paths] /\ recut \in BOOLEAN

LEMMA InitTypes == Init => TypesInv
  BY LimitAssumption DEF Init, TypesInv, Paths

LEMMA NextTypes == TypesInv /\ [Next]_vars => TypesInv'
<1> SUFFICES ASSUME TypesInv, [Next]_vars PROVE TypesInv'
  OBVIOUS
<1>1. CASE \E f \in Flights, down \in FaultsNow : AssignCrew(f, down)
  <2>1. PICK f \in Flights, down \in FaultsNow : AssignCrew(f, down)
    BY <1>1
  <2>2. Path(CheckCrew(f, down), down) \in Paths
    BY DEF Path, Paths
  <2> QED BY <2>1, <2>2 DEF AssignCrew, TypesInv
<1>2. CASE \E D \in Duties, down \in FaultsNow \cap {{}, {"fdp_rules"}} :
             AssignConnectedDuty(D, down)
  <2>1. PICK D, down : AssignConnectedDuty(D, down)
    BY <1>2
  <2> QED BY <2>1 DEF AssignConnectedDuty, TypesInv, Paths
<1>3. CASE \E f \in Flights : AssignRiding(f) \/ RemoveAssignment(f)
  BY <1>3 DEF AssignRiding, RemoveAssignment, TypesInv, Paths
<1>4. CASE \E f \in Flights : CancelFlight(f) \/ ReinstateFlight(f)
  BY <1>4 DEF CancelFlight, ReinstateFlight, TypesInv
<1>5. CASE \/ \E s \in Statuses : SetCrewStatus(s)
           \/ \E d \in Documents : SetDocument(d)
           \/ \E e \in Expiries : SetTraining(e)
           \/ \E c \in Clauses \cup {NoClause} : SetClause(c)
  BY <1>5 DEF SetCrewStatus, SetDocument, SetTraining, SetClause, TypesInv
<1>6. CASE \E t \in Instants : PassTime(t)
  BY <1>6, LimitAssumption DEF PassTime, TypesInv
<1>7. CASE UNCHANGED vars
  BY <1>7 DEF vars, TypesInv
<1> QED
  BY <1>1, <1>2, <1>3, <1>4, <1>5, <1>6, <1>7 DEF Next

\* The flights of the month of f, which is not over, are among those since the first
\* of the month: the ones already flown and f.
LEMMA MonthIsCovered ==
  ASSUME TypesInv, NEW f \in Flights, Day(Dep(f)) >= MonthStart(Today),
         NEW S \in SUBSET (Flying \cup {f}),
         \A g \in S : MonthStart(Day(Dep(g))) = MonthStart(Day(Dep(f)))
  PROVE  FlightHours(S) <= HoursSince(Flying, MonthStart(Today)) + HoursSince({f}, MonthStart(Today))
<1> DEFINE A == {g \in Flying : Day(Dep(g)) >= MonthStart(Today)}
           B == {g \in {f} : Day(Dep(g)) >= MonthStart(Today)}
<1>1. Today \in Nat
  BY DEF TypesInv, Today, Day
<1>2. \A g \in Flights : Day(Dep(g)) \in Nat
  BY Times DEF Day
<1>3. MonthStart(Today) \in Nat
  BY <1>1, MonthOpens
<1>4. MonthStart(Day(Dep(f))) >= MonthStart(Today)
  BY <1>1, <1>2, MonthsFollow
<1>5. Flying \subseteq Flights
  BY DEF Flying, Roster
<1>6. ASSUME NEW g \in S PROVE Day(Dep(g)) >= MonthStart(Today)
  <2>1. MonthStart(Day(Dep(g))) <= Day(Dep(g)) /\ MonthStart(Day(Dep(g))) \in Nat
    BY <1>2, <1>5, MonthOpens
  <2> QED BY <1>2, <1>3, <1>4, <1>5, <2>1
<1>7. S \in SUBSET (A \cup B)
  BY <1>6
<1>8. A \in SUBSET Flights /\ B \in SUBSET Flights /\ A \cup B \in SUBSET Flights
  BY <1>5
<1>9. HoursSince(Flying, MonthStart(Today)) = FlightHours(A)
      /\ HoursSince({f}, MonthStart(Today)) = FlightHours(B)
  BY DEF HoursSince
<1> HIDE DEF A, B
<1>10. FlightHours(A \cup B) <= FlightHours(A) + FlightHours(B)
  BY <1>8, HoursOfBoth
<1>11. FlightHours(S) <= FlightHours(A \cup B)
  BY <1>7, <1>8, HoursGrow
<1>12. /\ FlightHours(A) \in Nat /\ FlightHours(B) \in Nat
       /\ FlightHours(S) \in Nat /\ FlightHours(A \cup B) \in Nat
  BY <1>7, <1>8, HoursGrow
<1> QED BY <1>9, <1>10, <1>11, <1>12

\* Whatever the schedule and the limit, a flight that passes the gate unchallenged
\* leaves the member under the limit of its month, the new flight counted.
THEOREM MonthStaysCapped == Spec => MonthCapAtAssign
<1> DEFINE Month(f) == {g \in Flights \ cancelled :
                          via'[g] # "off" /\ MonthStart(Day(Dep(g))) = MonthStart(Day(Dep(f)))}
<1>1. ASSUME TypesInv, [Next]_vars, NEW f \in Flights \ cancelled,
             via[f] = "off", via'[f] = "checked", Day(Dep(f)) >= MonthStart(Today)
      PROVE  FlightHours(Month(f)) < MonthLimit
  <2>1. PICK down \in FaultsNow : AssignCrew(f, down)
    BY <1>1, OnlyTheGateChecks DEF TypesInv
  <2>2. om = NoClause /\ \A i \in CheckCrew(f, {}) : i.sev # "BLOCKING"
    BY <1>1, <2>1, CheckedIsClear DEF TypesInv
  <2>3. Month(f) \in SUBSET (Flying \cup {f})
    BY <2>1 DEF AssignCrew, Flying, Roster
  <2>4. \A g \in Month(f) : MonthStart(Day(Dep(g))) = MonthStart(Day(Dep(f)))
    OBVIOUS
  <2> HIDE DEF Month
  <2>5. FlightHours(Month(f)) <= HoursSince(Flying, MonthStart(Today))
                                   + HoursSince({f}, MonthStart(Today))
    BY <1>1, <2>3, <2>4, MonthIsCovered
  <2>6. HoursSince(Flying, MonthStart(Today)) + HoursSince({f}, MonthStart(Today)) < MonthLimit
    BY <2>2, ClearedMonth
  <2>7. /\ FlightHours(Month(f)) \in Nat /\ MonthLimit \in Nat
        /\ HoursSince(Flying, MonthStart(Today)) \in Nat
        /\ HoursSince({f}, MonthStart(Today)) \in Nat
    <3>1. Flying \cup {f} \in SUBSET Flights /\ Flying \in SUBSET Flights /\ {f} \in SUBSET Flights
      BY DEF Flying, Roster
    <3>2. FlightHours(Month(f)) \in Nat
      BY <2>3, <3>1, HoursGrow
    <3> QED BY <3>1, <3>2, HoursAreWhole, LimitAssumption
  <2> QED BY <2>5, <2>6, <2>7
<1>2. TypesInv /\ [Next]_vars
        => [\A f \in Flights \ cancelled :
              via[f] = "off" /\ via'[f] = "checked" /\ Day(Dep(f)) >= MonthStart(Today)
                => FlightHours({g \in Flights \ cancelled :
                       via'[g] # "off" /\ MonthStart(Day(Dep(g))) = MonthStart(Day(Dep(f)))})
                     < MonthLimit]_vars
  BY <1>1
<1> QED
  BY <1>2, InitTypes, NextTypes, PTL DEF Spec, MonthCapAtAssign

----------------------------------------------------------------------------
(* Duties.  More flights that do not overlap leave the duties they do not  *)
(* join as they were.                                                      *)

Apart(S) == \A f, g \in S : f # g => ~Overlap(f, g)

LEMMA OpensIs ==
  ASSUME NEW S, NEW b
  PROVE  b \in Opens(S) <=> /\ b \in S
                            /\ \E a \in S : Dep(b) - Arr(a) >= MinRest /\ Follows(S, a, b)
BY DEF Opens

LEMMA JoinedIs ==
  ASSUME NEW S, NEW O, NEW f, NEW g
  PROVE  g \in Joined(S, O, f) <=> g \in S /\ \A b \in O : Dep(b) <= Dep(f) <=> Dep(b) <= Dep(g)
BY DEF Joined

\* What departs between two flights of a duty is of that duty.
LEMMA Between ==
  ASSUME NEW S \in SUBSET Flights, NEW f \in S, NEW g \in Joined(S, Opens(S), f), NEW p \in S,
         \/ Dep(f) <= Dep(p) /\ Dep(p) <= Dep(g)
         \/ Dep(g) <= Dep(p) /\ Dep(p) <= Dep(f)
  PROVE  p \in Joined(S, Opens(S), f)
<1>1. Opens(S) \subseteq S
  BY OpensIs
<1>2. g \in S /\ \A b \in Opens(S) : Dep(b) <= Dep(f) <=> Dep(b) <= Dep(g)
  BY JoinedIs
<1>3. ASSUME NEW b \in Opens(S) PROVE Dep(b) <= Dep(f) <=> Dep(b) <= Dep(p)
  <2>1. Dep(b) \in Nat /\ Dep(f) \in Nat /\ Dep(g) \in Nat /\ Dep(p) \in Nat
    BY <1>1, <1>2, Times
  <2> QED BY <1>2, <2>1
<1> QED BY <1>3, JoinedIs

\* A rest that cuts the larger schedule between two flights of the smaller cuts the
\* smaller between them: without overlaps its gap there is no shorter.
LEMMA CutStays ==
  ASSUME NEW T \in SUBSET Flights, Apart(T), NEW S \in SUBSET T,
         NEW x \in S, NEW y \in S, NEW c \in Opens(T), Dep(x) < Dep(c), Dep(c) <= Dep(y)
  PROVE  \E b \in Opens(S) : Dep(x) < Dep(b) /\ Dep(b) <= Dep(y)
<1> DEFINE early == {h \in S : Dep(h) < Dep(c)}
           late  == {h \in S : Dep(c) <= Dep(h)}
           u == Last(early)
           v == First(late)
<1>1. u \in early /\ \A h \in early : Dep(h) <= Dep(u)
  <2>1. early \in SUBSET Flights /\ early # {}
    OBVIOUS
  <2> HIDE DEF early
  <2> QED BY <2>1, LastOf
<1>2. v \in late /\ \A h \in late : Dep(v) <= Dep(h)
  <2>1. late \in SUBSET Flights /\ late # {}
    OBVIOUS
  <2> HIDE DEF late
  <2> QED BY <2>1, FirstOf
<1> HIDE DEF u, v
<1>3. PICK a \in T : Dep(c) - Arr(a) >= MinRest /\ Follows(T, a, c)
  BY OpensIs
<1>4. \A h \in T : Dep(h) \in Nat /\ Arr(h) \in Nat /\ Dep(h) < Arr(h)
  BY Times
<1>5. c \in T
  BY OpensIs
<1>6. u \in S /\ v \in S /\ Dep(u) < Dep(c) /\ Dep(c) <= Dep(v) /\ Dep(x) <= Dep(u) /\ Dep(v) <= Dep(y)
  BY <1>1, <1>2
<1>7. Dep(u) <= Dep(a)
  BY <1>3, <1>4, <1>5, <1>6 DEF Follows
<1>8. Arr(u) <= Arr(a)
  <2>1. CASE u = a
    BY <1>4, <2>1
  <2>2. CASE u # a
    <3>1. ~(Dep(u) < Arr(a) /\ Dep(a) < Arr(u))
      BY <1>6, <2>2 DEF Apart, Overlap
    <3> QED BY <1>4, <1>6, <1>7, <3>1
  <2> QED BY <2>1, <2>2
<1>9. Dep(v) - Arr(u) >= MinRest
  BY <1>3, <1>4, <1>5, <1>6, <1>8, LimitAssumption
<1>10. Follows(S, u, v)
  <2>1. Dep(u) < Dep(v)
    BY <1>4, <1>5, <1>6
  <2>2. ASSUME NEW h \in S, Dep(u) < Dep(h), Dep(h) < Dep(v) PROVE FALSE
    <3>1. CASE Dep(h) < Dep(c)
      BY <1>1, <1>4, <1>6, <2>2, <3>1
    <3>2. CASE Dep(c) <= Dep(h)
      BY <1>2, <1>4, <1>6, <2>2, <3>2
    <3> QED BY <1>4, <1>5, <3>1, <3>2
  <2> QED BY <2>1, <2>2 DEF Follows
<1>11. v \in Opens(S)
  BY <1>6, <1>9, <1>10, OpensIs
<1>12. Dep(x) < Dep(v)
  BY <1>4, <1>5, <1>6
<1> QED BY <1>6, <1>11, <1>12

\* A rest that cuts the smaller schedule cuts the larger where nothing was added.
LEMMA CutComes ==
  ASSUME NEW T \in SUBSET Flights, NEW S \in SUBSET T,
         NEW x \in S, NEW y \in S, NEW b \in Opens(S), Dep(x) < Dep(b), Dep(b) <= Dep(y),
         \A p \in T : Dep(x) <= Dep(p) /\ Dep(p) <= Dep(y) => p \in S
  PROVE  b \in Opens(T)
<1>1. PICK a \in S : Dep(b) - Arr(a) >= MinRest /\ Follows(S, a, b)
  BY OpensIs
<1>2. \A h \in T : Dep(h) \in Nat
  BY Times
<1>3. b \in S
  BY OpensIs
<1>4. Dep(x) <= Dep(a)
  BY <1>1, <1>2, <1>3 DEF Follows
<1>5. ASSUME NEW c \in T, Dep(a) < Dep(c), Dep(c) < Dep(b) PROVE FALSE
  <2>1. c \in S
    BY <1>2, <1>3, <1>4, <1>5
  <2> QED BY <1>1, <1>5, <2>1 DEF Follows
<1>6. Follows(T, a, b)
  BY <1>1, <1>5 DEF Follows
<1> QED BY <1>1, <1>3, <1>6, OpensIs

LEMMA DutiesStay ==
  ASSUME NEW T \in SUBSET Flights, Apart(T), NEW S \in SUBSET T, NEW f \in S,
         Joined(T, Opens(T), f) \subseteq S
  PROVE  Joined(T, Opens(T), f) = Joined(S, Opens(S), f)
<1> DEFINE D == Joined(T, Opens(T), f)
           E == Joined(S, Opens(S), f)
<1>1. \A h \in T : Dep(h) \in Nat
  BY Times
<1>2. f \in D /\ Opens(T) \subseteq T /\ Opens(S) \subseteq S
  BY JoinedIs, OpensIs
<1>3. ASSUME NEW g \in D PROVE g \in E
  <2>1. g \in S
    OBVIOUS
  <2>2. ASSUME NEW b \in Opens(S) PROVE Dep(b) <= Dep(f) <=> Dep(b) <= Dep(g)
    <3>1. CASE Dep(g) < Dep(b) /\ Dep(b) <= Dep(f)
      <4>1. ASSUME NEW p \in T, Dep(g) <= Dep(p), Dep(p) <= Dep(f) PROVE p \in S
        <5>1. p \in D
          BY <4>1, Between
        <5> QED BY <5>1
      <4>2. b \in Opens(T)
        BY <2>1, <3>1, <4>1, CutComes
      <4> QED BY <1>1, <1>2, <2>1, <4>2, JoinedIs
    <3>2. CASE Dep(f) < Dep(b) /\ Dep(b) <= Dep(g)
      <4>1. ASSUME NEW p \in T, Dep(f) <= Dep(p), Dep(p) <= Dep(g) PROVE p \in S
        <5>1. p \in D
          BY <4>1, Between
        <5> QED BY <5>1
      <4>2. b \in Opens(T)
        BY <2>1, <3>2, <4>1, CutComes
      <4> QED BY <1>1, <1>2, <2>1, <4>2, JoinedIs
    <3> QED BY <1>1, <1>2, <2>1, <3>1, <3>2
  <2> QED BY <2>1, <2>2, JoinedIs
<1>4. ASSUME NEW g \in E PROVE g \in D
  <2>1. g \in S /\ \A b \in Opens(S) : Dep(b) <= Dep(f) <=> Dep(b) <= Dep(g)
    BY JoinedIs
  <2>2. ASSUME NEW c \in Opens(T) PROVE Dep(c) <= Dep(f) <=> Dep(c) <= Dep(g)
    <3>1. CASE Dep(g) < Dep(c) /\ Dep(c) <= Dep(f)
      <4>1. PICK b \in Opens(S) : Dep(g) < Dep(b) /\ Dep(b) <= Dep(f)
        BY <2>1, <3>1, CutStays
      <4> QED BY <1>1, <1>2, <2>1, <4>1
    <3>2. CASE Dep(f) < Dep(c) /\ Dep(c) <= Dep(g)
      <4>1. PICK b \in Opens(S) : Dep(f) < Dep(b) /\ Dep(b) <= Dep(g)
        BY <2>1, <3>2, CutStays
      <4> QED BY <1>1, <1>2, <2>1, <4>1
    <3> QED BY <1>1, <1>2, <2>1, <3>1, <3>2
  <2> QED BY <2>1, <2>2, JoinedIs
<1> QED BY <1>3, <1>4

\* Every flight of a duty has that duty.
LEMMA SameDuty ==
  ASSUME NEW S, NEW g \in S, NEW f \in Joined(S, Opens(S), g)
  PROVE  Joined(S, Opens(S), f) = Joined(S, Opens(S), g)
BY Zenon DEF Joined

LEMMA DutiesAre ==
  ASSUME NEW S, NEW D
  PROVE  D \in DutiesOf(S) <=> \E f \in S : D = Joined(S, Opens(S), f)
BY DEF DutiesOf

DutyInv == TypesInv /\ DutyWithinFdp

Cleared(D) == ~Has(EvaluateFdp(D, {}), "BLOCKING")

\* What _check_fdp found no fault with is within the table.
LEMMA CheckedDuty ==
  ASSUME om = NoClause, NEW f \in Flights, \A i \in CheckCrew(f, {}) : i.sev # "BLOCKING"
  PROVE  Cleared(DutyOf(Flying \cup {f}, f))
<1>1. FdpIssues(f, {}) = EvaluateFdp(DutyOf(Flying \cup {f}, f), {})
  BY DEF FdpIssues
<1>2. \A i \in FdpIssues(f, {}) : i.sev # "BLOCKING"
  BY CheckCrewIs
<1> QED BY <1>1, <1>2 DEF Cleared, Has

\* A step that adds flights, or none, cuts no duty anew: a duty of checked flights
\* was one before, or it is the one the gate has just looked at.
LEMMA AddingKeepsDuties ==
  ASSUME DutyInv, via' \in [Flights -> Paths], cancelled' = cancelled, recut' = recut,
         Flying \subseteq Flying',
         \A f \in Flying : via'[f] = via[f],
         \A f \in Flying' \ Flying : via'[f] = "checked" =>
           Flying' = Flying \cup {f} /\ Cleared(DutyOf(Flying \cup {f}, f))
  PROVE  DutyWithinFdp'
<1> SUFFICES ASSUME ~recut, Apart(Flying'), NEW D \in DutiesOf(Flying'),
                    \A f \in D : via'[f] = "checked"
             PROVE  Cleared(D)
  BY DEF DutyWithinFdp, Cleared, Apart, DutiesOf, Joined, Opens, Follows, Overlap, EvaluateFdp, Has
<1>1. Flying' \in SUBSET Flights
  BY DEF Flying, Roster
<1>2. PICK g \in Flying' : D = Joined(Flying', Opens(Flying'), g)
  BY DutiesAre
<1>3. CASE D \subseteq Flying
  <2>1. g \in Flying
    BY <1>2, <1>3, JoinedIs
  <2>2. D = Joined(Flying, Opens(Flying), g)
    BY <1>1, <1>2, <1>3, <2>1, DutiesStay
  <2>3. D \in DutiesOf(Flying)
    BY <2>1, <2>2, DutiesAre
  <2>4. Apart(Flying)
    BY DEF Apart
  <2>5. \A f \in D : via[f] = "checked"
    BY <1>3
  <2> QED BY <2>3, <2>4, <2>5 DEF DutyInv, DutyWithinFdp, Apart, Cleared
<1>4. CASE ~(D \subseteq Flying)
  <2>1. PICK f \in D : f \notin Flying
    BY <1>4
  <2>2. f \in Flying' \ Flying
    BY <1>2, <2>1, JoinedIs
  <2>3. Flying' = Flying \cup {f} /\ Cleared(DutyOf(Flying \cup {f}, f))
    BY <2>1, <2>2
  <2>4. D = Joined(Flying', Opens(Flying'), f)
    BY <1>2, <2>1, SameDuty
  <2> QED BY <2>3, <2>4 DEF DutyOf
<1> QED BY <1>3, <1>4

LEMMA NoFlightsNoDuties ==
  ASSUME Flying = {}
  PROVE  DutyWithinFdp
BY DEF DutyWithinFdp, DutiesOf

LEMMA InitDuty == Init => DutyInv
<1> SUFFICES ASSUME Init PROVE DutyInv
  OBVIOUS
<1>1. Flying = {}
  BY DEF Init, Flying, Roster
<1> QED BY <1>1, InitTypes, NoFlightsNoDuties DEF DutyInv

LEMMA AssignKeepsDuty ==
  ASSUME DutyInv, NEW f \in Flights, NEW down, AssignCrew(f, down)
  PROVE  DutyWithinFdp'
<1>1. /\ via[f] = "off" /\ cancelled' = cancelled /\ recut' = recut
      /\ via' = [via EXCEPT ![f] = Path(CheckCrew(f, down), down)]
  BY DEF AssignCrew
<1>2. Path(CheckCrew(f, down), down) \in Paths \ {"off"}
  BY DEF Path, Paths
<1> HIDE DEF Path
<1>3. via \in [Flights -> Paths] /\ via' \in [Flights -> Paths]
  BY <1>1, <1>2 DEF DutyInv, TypesInv
<1>4. Flying \subseteq Flying' /\ Flying' \subseteq Flying \cup {f}
      /\ \A g \in Flying : via'[g] = via[g]
  BY <1>1, <1>2, <1>3 DEF Flying, Roster
<1>5. ASSUME NEW g \in Flying' \ Flying, via'[g] = "checked"
      PROVE  Flying' = Flying \cup {g} /\ Cleared(DutyOf(Flying \cup {g}, g))
  <2>1. g = f /\ Flying' = Flying \cup {g}
    BY <1>4, <1>5
  <2>2. om = NoClause /\ \A i \in CheckCrew(f, {}) : i.sev # "BLOCKING"
    BY <1>3, <1>5, <2>1, CheckedIsClear
  <2>3. Cleared(DutyOf(Flying \cup {f}, f))
    BY <2>2, CheckedDuty
  <2> QED BY <2>1, <2>3
<1> QED BY <1>1, <1>3, <1>4, <1>5, AddingKeepsDuties

LEMMA OthersKeepDuty ==
  ASSUME DutyInv, via' \in [Flights -> Paths], cancelled' = cancelled, recut' = recut,
         \A f \in Flights : via'[f] = via[f] \/ (via[f] = "off" /\ via'[f] \in {"duty", "other"})
  PROVE  DutyWithinFdp'
<1>1. Flying \subseteq Flying' /\ \A f \in Flying : via'[f] = via[f]
  BY DEF Flying, Roster
<1>2. ASSUME NEW f \in Flying' \ Flying, via'[f] = "checked" PROVE FALSE
  BY <1>2 DEF Flying, Roster
<1> QED BY <1>1, <1>2, AddingKeepsDuties

\* What recuts the duties while anything is left of them promises nothing.
LEMMA RecutKeepsDuty ==
  ASSUME recut' \/ Flying' = {}
  PROVE  DutyWithinFdp'
BY DEF DutyWithinFdp, DutiesOf

LEMMA NextDuty == DutyInv /\ [Next]_vars => DutyInv'
<1> SUFFICES ASSUME DutyInv, [Next]_vars PROVE DutyInv'
  OBVIOUS
<1>1. TypesInv' /\ via \in [Flights -> Paths] /\ via' \in [Flights -> Paths]
  BY NextTypes DEF DutyInv, TypesInv
<1> SUFFICES DutyWithinFdp'
  BY <1>1 DEF DutyInv
<1>2. CASE \E f \in Flights, down \in FaultsNow : AssignCrew(f, down)
  BY <1>2, AssignKeepsDuty
<1>3. CASE \E D \in Duties, down \in FaultsNow \cap {{}, {"fdp_rules"}} :
             AssignConnectedDuty(D, down)
  <2>1. PICK D, down : AssignConnectedDuty(D, down)
    BY <1>3
  <2>2. /\ cancelled' = cancelled /\ recut' = recut
        /\ \A f \in Flights : (via'[f] \in {"duty", "other"} /\ f \notin Roster) \/ via'[f] = via[f]
    BY <2>1 DEF AssignConnectedDuty
  <2> QED BY <1>1, <2>2, OthersKeepDuty DEF Roster
<1>4. CASE \E f \in Flights : AssignRiding(f)
  <2>1. PICK f \in Flights : AssignRiding(f)
    BY <1>4
  <2>2. /\ cancelled' = cancelled /\ recut' = recut
        /\ \A g \in Flights : via'[g] = via[g] \/ (via[g] = "off" /\ via'[g] \in {"duty", "other"})
    BY <1>1, <2>1 DEF AssignRiding
  <2> QED BY <1>1, <2>2, OthersKeepDuty
<1>5. CASE \E f \in Flights : RemoveAssignment(f)
  <2>1. PICK f \in Flights : RemoveAssignment(f)
    BY <1>5
  <2>2. Roster = {f} => Flying' = {}
    BY <1>1, <2>1 DEF RemoveAssignment, Flying, Roster
  <2>3. Roster # {f} => recut'
    BY <2>1 DEF RemoveAssignment
  <2> QED BY <2>2, <2>3, RecutKeepsDuty
<1>6. CASE \E f \in Flights : CancelFlight(f) \/ ReinstateFlight(f)
  <2>1. PICK f \in Flights : CancelFlight(f) \/ ReinstateFlight(f)
    BY <1>6
  <2>2. via' = via
    BY <2>1 DEF CancelFlight, ReinstateFlight
  <2>3. CASE f \in Roster
    BY <2>1, <2>3, RecutKeepsDuty DEF CancelFlight, ReinstateFlight
  <2>4. CASE f \notin Roster
    <3>1. recut' = recut
      BY <2>1, <2>4 DEF CancelFlight, ReinstateFlight, DutyInv, TypesInv
    <3>2. Flying' = Flying
      BY <2>1, <2>2, <2>4 DEF CancelFlight, ReinstateFlight, Ordinary, Flying, Roster
    <3>3. \A D : D \in DutiesOf(Flying') <=> D \in DutiesOf(Flying)
      BY <3>2
    <3> QED BY <2>2, <3>1, <3>2 DEF DutyInv, DutyWithinFdp, DutiesOf, Joined, Opens, Follows,
                                    Overlap, EvaluateFdp, Has
  <2> QED BY <2>3, <2>4
<1>7. CASE \/ \E s \in Statuses : SetCrewStatus(s)
           \/ \E d \in Documents : SetDocument(d)
           \/ \E e \in Expiries : SetTraining(e)
           \/ \E c \in Clauses \cup {NoClause} : SetClause(c)
           \/ \E t \in Instants : PassTime(t)
  <2>1. via' = via /\ cancelled' = cancelled /\ recut' = recut
    BY <1>7 DEF SetCrewStatus, SetDocument, SetTraining, SetClause, PassTime
  <2> QED BY <1>1, <2>1, OthersKeepDuty
<1>8. CASE UNCHANGED vars
  BY <1>1, <1>8, OthersKeepDuty DEF vars
<1> QED
  BY <1>2, <1>3, <1>4, <1>5, <1>6, <1>7, <1>8 DEF Next

\* Whatever the schedule and the table, a duty whose flights all came through the gate
\* unchallenged is within the table, in whatever order they and the others came, while
\* the flown flights do not overlap and none was removed, cancelled or reinstated.
THEOREM DutiesStayWithinFdp == Spec => []DutyWithinFdp
<1>1. DutyInv => DutyWithinFdp
  BY DEF DutyInv
<1> QED
  BY <1>1, InitDuty, NextDuty, PTL DEF Spec

----------------------------------------------------------------------------
(* What each check can find, its lookups answering and no clause bound.    *)

Severe == {"BLOCKING", "WARNING"}

LEMMA IssueIs ==
  ASSUME NEW rule, NEW sev
  PROVE  Issue(rule, sev).rule = rule /\ Issue(rule, sev).sev = sev
BY DEF Issue

LEMMA WhenIs ==
  ASSUME NEW c, NEW rule, NEW sev, NEW i
  PROVE  i \in When(c, rule, sev) <=> c /\ i = Issue(rule, sev)
BY Zenon DEF When

LEMMA StatusFindings ==
  /\ \A i \in CrewStatusIssues :
       i.sev \in Severe /\ (i.sev = "BLOCKING" => crew \in {"blocked", "suspended"})
  /\ crew \in {"blocked", "suspended"} => \E i \in CrewStatusIssues : i.sev = "BLOCKING"
<1>1. CASE crew \in {"blocked", "suspended"}
  <2>1. CrewStatusIssues = {Issue("crew_status_blocked", "BLOCKING")}
    BY <1>1 DEF CrewStatusIssues
  <2> QED BY <1>1, <2>1, IssueIs DEF Severe
<1>2. CASE crew \notin {"blocked", "suspended"}
  <2>1. CrewStatusIssues \subseteq {Issue("crew_on_leave", "WARNING")}
    BY <1>2 DEF CrewStatusIssues
  <2> QED BY <1>2, <2>1, IssueIs DEF Severe
<1> QED BY <1>1, <1>2

DocExpired      == doc.expiry # 0 /\ doc.expiry < Today
TrainingExpired == training < Today

LEMMA FlagIs ==
  ASSUME om = NoClause, NEW key, NEW name
  PROVE  Flag(key, name, TRUE)
<1>1. ~om.active
  BY DEF NoClause
<1> QED BY <1>1, Zenon DEF Flag

LEMMA DocumentFindings ==
  ASSUME om = NoClause
  PROVE  /\ \A i \in DocumentIssues({}) : i.sev \in Severe /\ (i.sev = "BLOCKING" => DocExpired)
         /\ DocExpired => \E i \in DocumentIssues({}) : i.sev = "BLOCKING"
<1>1. Flag("documents", "block_if_expired", TRUE)
  BY FlagIs
<1> DEFINE warn == Param("documents", "warning_before_days", 1, 365, WarnDays)
           sev == IF Flag("documents", "block_if_expired", TRUE) THEN "BLOCKING" ELSE "WARNING"
           A == When(doc.expiry < Today, "doc_expired", sev)
           B == When(doc.expiry \in Today..(Today + warn), "doc_expiring", "WARNING")
           C == When(~doc.verified, "doc_unverified", "WARNING")
<1>2. CASE doc.expiry = 0
  <2>1. DocumentIssues({}) = {Issue("doc_invalid_date", "WARNING")}
    BY <1>2 DEF DocumentIssues
  <2> QED BY <1>2, <2>1, IssueIs DEF Severe, DocExpired
<1>3. CASE doc.expiry # 0
  <2>1. DocumentIssues({}) = A \cup B \cup C
    BY <1>3, Zenon DEF DocumentIssues
  <2>2. \A i : i \in B \/ i \in C => i.sev = "WARNING"
    BY WhenIs, IssueIs
  <2>3. sev = "BLOCKING"
    BY <1>1
  <2>4. \A i : i \in A => i.sev = "BLOCKING" /\ doc.expiry < Today
    <3> HIDE DEF sev
    <3>1. \A i : i \in A => i = Issue("doc_expired", sev) /\ doc.expiry < Today
      BY Zenon DEF When
    <3> QED BY <2>3, <3>1, IssueIs
  <2>5. doc.expiry < Today => Issue("doc_expired", sev) \in A
    BY WhenIs
  <2>6. Issue("doc_expired", sev).sev = "BLOCKING"
    BY <2>3, IssueIs
  <2> HIDE DEF A, B, C, sev
  <2> QED BY <1>3, <2>1, <2>2, <2>4, <2>5, <2>6 DEF Severe, DocExpired
<1> QED BY <1>2, <1>3

LEMMA TrainingFindings ==
  ASSUME om = NoClause
  PROVE  /\ \A i \in TrainingIssues({}) : i.sev \in Severe /\ (i.sev = "BLOCKING" => TrainingExpired)
         /\ TrainingExpired => \E i \in TrainingIssues({}) : i.sev = "BLOCKING"
<1>1. Flag("training", "block_if_expired", TRUE)
  BY FlagIs
<1> DEFINE sev == IF Flag("training", "block_if_expired", TRUE) THEN "BLOCKING" ELSE "WARNING"
           A == When(training < Today, "training_expired", sev)
           B == When(training \in Today..(Today + WarnDays), "training_expiring", "WARNING")
<1>2. sev = "BLOCKING"
  BY <1>1
<1>3. TrainingIssues({}) = A \cup B
  <2>1. "training" \notin {}
    OBVIOUS
  <2> QED BY <2>1, Zenon DEF TrainingIssues
<1>4. \A i : i \in B => i.sev = "WARNING"
  BY WhenIs, IssueIs
<1> HIDE DEF sev
<1>5. \A i : i \in A <=> TrainingExpired /\ i = Issue("training_expired", sev)
  BY Zenon DEF When, TrainingExpired
<1> HIDE DEF A, B
<1> QED BY <1>2, <1>3, <1>4, <1>5, IssueIs DEF Severe

LEMMA QualificationFindings ==
  ASSUME NEW type
  PROVE  /\ \A i \in QualificationIssues(type) : i.sev \in Severe
         /\ Qualified(type) => QualificationIssues(type) = {}
<1>1. \A i : i \in QualificationIssues(type) <=>
               ~Qualified(type) /\ i = Issue("aircraft_not_type_rated", "BLOCKING")
  BY WhenIs DEF QualificationIssues
<1> QED BY <1>1, IssueIs DEF Severe

LEMMA ConflictFindings ==
  ASSUME NEW f
  PROVE  /\ \A i \in ConflictIssues(f, {}) : i.sev \in Severe
         /\ ConflictIssues(f, {}) # {} => \E g \in Roster \ {f} : Overlap(f, g)
BY DEF ConflictIssues, Issue, Severe

LEMMA RestFindings ==
  ASSUME NEW f, NEW intl
  PROVE  \A i \in RestIssues(f, intl, {}) : i.sev \in Severe /\ i.rule \in FtlRules
<1>1. {"rest_insufficient", "rest_near_limit"} \subseteq FtlRules
  BY DEF FtlRules, Families
<1>2. \A i \in RestIssues(f, intl, {}) : i = Issue("rest_insufficient", "BLOCKING")
                                         \/ i = Issue("rest_near_limit", "WARNING")
  BY DEF RestIssues, When
<1> QED BY <1>1, <1>2 DEF Issue, Severe

LEMMA FdpFindings ==
  ASSUME NEW f
  PROVE  \A i \in FdpIssues(f, {}) :
           i.sev \in Severe /\ (i.sev = "BLOCKING" => i.rule \in FtlRules)
<1>1. {"fdp_night_sector_limit", "fdp_exceeded"} \subseteq FtlRules
  BY DEF FtlRules, Families
<1>2. ASSUME NEW D, NEW i \in EvaluateFdp(D, {})
      PROVE  i \in {Issue("fdp_night_sector_limit", "BLOCKING"), Issue("fdp_exceeded", "BLOCKING"),
                    Issue("fdp_table_unavailable", "WARNING"), Issue("fdp_near_limit", "WARNING")}
  BY <1>2 DEF EvaluateFdp, When
<1>3. FdpIssues(f, {}) = EvaluateFdp(DutyOf(Flying \cup {f}, f), {})
  BY DEF FdpIssues
<1>4. ASSUME NEW i \in FdpIssues(f, {})
      PROVE  i \in {Issue("fdp_night_sector_limit", "BLOCKING"), Issue("fdp_exceeded", "BLOCKING"),
                    Issue("fdp_table_unavailable", "WARNING"), Issue("fdp_near_limit", "WARNING")}
  BY <1>2, <1>3
<1> QED BY <1>1, <1>4 DEF Issue, Severe

LEMMA WindowFindings ==
  ASSUME NEW exceeded, NEW warning, NEW key, NEW start, NEW limit, NEW warn, NEW sev, NEW projected,
         NEW i \in Window(exceeded, warning, key, start, limit, warn, sev, projected)
  PROVE  i = Issue(exceeded, sev) \/ i = Issue(warning, "WARNING")
BY DEF Window

LEMMA HourFindings ==
  ASSUME NEW projected
  PROVE  \A i \in FlightHoursIssues(projected, {}) :
           /\ i.sev \in {"BLOCKING", "CRITICAL", "WARNING"} /\ i.rule \in FtlRules
           /\ i.sev = "CRITICAL" => i.rule = "hours_28day_exceeded"
<1>1. {"hours_yearly_exceeded", "hours_yearly_warning", "hours_28day_exceeded", "hours_28day_warning",
       "hours_monthly_exceeded", "hours_monthly_warning"} \subseteq FtlRules
  BY DEF FtlRules, Families
<1>2. ASSUME NEW i \in FlightHoursIssues(projected, {})
      PROVE  i \in HourIssues(projected)
  BY <1>2 DEF FlightHoursIssues
<1>3. ASSUME NEW i \in HourIssues(projected)
      PROVE  \/ i \in {Issue("hours_yearly_exceeded", "BLOCKING"), Issue("hours_yearly_warning", "WARNING")}
             \/ i \in {Issue("hours_28day_exceeded", "CRITICAL"), Issue("hours_28day_warning", "WARNING")}
             \/ i \in {Issue("hours_monthly_exceeded", "BLOCKING"), Issue("hours_monthly_warning", "WARNING")}
  BY <1>3, WindowFindings DEF HourIssues, YearlyIssues, RollingIssues, MonthlyIssues
<1> QED BY <1>1, <1>2, <1>3 DEF Issue

\* All that check_crew finds for a flight: what blocks and no override may pass is the
\* member's status, a paper out of date, the qualification or another flight.
LEMMA FlightFindings ==
  ASSUME TypesInv, om = NoClause, NEW f \in Flights, NEW i \in CheckCrew(f, {})
  PROVE  /\ i.sev \in {"BLOCKING", "CRITICAL", "WARNING"}
         /\ i.sev = "CRITICAL" => i.rule = "hours_28day_exceeded"
         /\ i.sev = "BLOCKING" /\ i.rule \notin FtlRules =>
              \/ crew \in {"blocked", "suspended"} \/ DocExpired \/ TrainingExpired
              \/ ~Qualified(Schedule[f].type)
              \/ \E g \in Roster \ {f} : Overlap(f, g)
<1>1. CASE i \in CrewStatusIssues
  BY <1>1, StatusFindings DEF Severe
<1>2. CASE i \in DocumentIssues({})
  BY <1>2, DocumentFindings DEF Severe
<1>3. CASE i \in TrainingIssues({})
  BY <1>3, TrainingFindings DEF Severe
<1>4. CASE i \in FlightHoursIssues({f}, {})
  BY <1>4, HourFindings
<1>5. CASE i \in QualificationIssues(Schedule[f].type)
  <2>1. ~Qualified(Schedule[f].type)
    BY <1>5, QualificationFindings
  <2>2. i.sev \in Severe
    BY <1>5, QualificationFindings
  <2> QED BY <2>1, <2>2 DEF Severe
<1>6. CASE i \in ConflictIssues(f, {})
  <2>1. \E g \in Roster \ {f} : Overlap(f, g)
    BY <1>6, ConflictFindings
  <2>2. i.sev \in Severe
    BY <1>6, ConflictFindings
  <2> QED BY <2>1, <2>2 DEF Severe
<1>7. CASE i \in RestIssues(f, International(f), {})
  BY <1>7, RestFindings DEF Severe
<1>8. CASE i \in FdpIssues(f, {})
  BY <1>8, FdpFindings DEF Severe
<1> QED BY <1>1, <1>2, <1>3, <1>4, <1>5, <1>6, <1>7, <1>8, CheckCrewIs DEF CrewIssues

----------------------------------------------------------------------------
(* The board stops a member exactly when the engine does.                  *)

MonthSpent == Spent(MonthLimit, MonthStart(Today))
YearSpent  == Spent(YearLimit, YearStart(Today))

Stopped == \/ crew \in {"blocked", "suspended"} \/ DocExpired \/ TrainingExpired
           \/ MonthSpent \/ YearSpent

LEMMA NoHours == \A day : HoursSince({}, day) = 0
<1>1. HalfHours({}) = {}
  BY DEF HalfHours
<1> QED BY <1>1, FlightHoursIs, FS_EmptySet DEF HoursSince

\* The hours already flown, against the limits.
LEMMA SpentFindings ==
  ASSUME om = NoClause
  PROVE  /\ MonthSpent \/ YearSpent => \E i \in FlightHoursIssues({}, {}) : i.sev = "BLOCKING"
         /\ \A i \in FlightHoursIssues({}, {}) : i.sev = "BLOCKING" => MonthSpent \/ YearSpent
<1>1. /\ MonthLimit \in Nat \ {0} /\ YearLimit \in Nat \ {0} /\ RollingLimit \in Nat
      /\ {} \in SUBSET Flights /\ Flying \in SUBSET Flights
  BY LimitAssumption DEF Flying, Roster
<1>2. \A day : HoursSince(Flying, day) \in Nat
               /\ HoursSince(Flying, day) + HoursSince({}, day) = HoursSince(Flying, day)
  BY <1>1, NoHours, HoursAreWhole
<1>3. CASE Roster = {}
  <2>1. Flying = {} /\ FlightHoursIssues({}, {}) = {}
    BY <1>3 DEF Flying, FlightHoursIssues
  <2>2. ~MonthSpent /\ ~YearSpent
    BY <1>1, <2>1, NoHours DEF MonthSpent, YearSpent, Spent
  <2> QED BY <2>1, <2>2
<1>4. CASE Roster # {}
  <2>1. FlightHoursIssues({}, {}) = YearlyIssues({}) \cup RollingIssues({}) \cup MonthlyIssues({})
    BY <1>4 DEF FlightHoursIssues, HourIssues
  <2>2. MonthSpent => MonthlyIssues({}) = {Issue("hours_monthly_exceeded", "BLOCKING")}
    BY <1>1, <1>2, FullWindow DEF MonthSpent, Spent, MonthlyIssues
  <2>3. YearSpent => YearlyIssues({}) = {Issue("hours_yearly_exceeded", "BLOCKING")}
    BY <1>1, <1>2, FullWindow DEF YearSpent, Spent, YearlyIssues
  <2>4. ~MonthSpent => \A i \in MonthlyIssues({}) : i.sev = "WARNING"
    <3>1. Param("flight_hours_monthly", "max_hours", 2, Unlimited, MonthLimit) = MonthLimit
      BY ParamIs
    <3>2. \A i \in MonthlyIssues({}) : ~MonthSpent => i = Issue("hours_monthly_warning", "WARNING")
      BY <1>1, <1>2, <3>1 DEF MonthlyIssues, Window, MonthSpent, Spent
    <3> QED BY <3>2, IssueIs
  <2>5. ~YearSpent => \A i \in YearlyIssues({}) : i.sev = "WARNING"
    <3>1. Param("flight_hours_yearly", "max_hours", 2, Unlimited, YearLimit) = YearLimit
      BY ParamIs
    <3>2. \A i \in YearlyIssues({}) : ~YearSpent => i = Issue("hours_yearly_warning", "WARNING")
      BY <1>1, <1>2, <3>1 DEF YearlyIssues, Window, YearSpent, Spent
    <3> QED BY <3>2, IssueIs
  <2>6. \A i \in RollingIssues({}) : i.sev # "BLOCKING"
    BY WindowFindings, IssueIs DEF RollingIssues
  <2> QED BY <2>1, <2>2, <2>3, <2>4, <2>5, <2>6, IssueIs
<1> QED BY <1>3, <1>4

LEMMA EngineStops ==
  ASSUME TypesInv, om = NoClause
  PROVE  Has(CrewIssues({}, {}), "BLOCKING") <=> Stopped
<1>1. CrewIssues({}, {}) = CrewStatusIssues \cup DocumentIssues({}) \cup TrainingIssues({})
                             \cup FlightHoursIssues({}, {})
  BY DEF CrewIssues
<1> QED BY <1>1, StatusFindings, DocumentFindings, TrainingFindings, SpentFindings DEF Has, Stopped

LEMMA BoardStops ==
  ASSUME TypesInv
  PROVE  Has(BatchIssues({}), "BLOCKING") <=> Stopped
<1> DEFINE month == HoursSince(Flying, MonthStart(Today))
           roll  == HoursSince(Flying, Today - 28)
           M == CASE month >= MonthLimit -> {Issue("hours_monthly_exceeded", "BLOCKING")}
                  [] month < MonthLimit /\ 100 * month >= 83 * MonthLimit
                       -> {Issue("hours_monthly_warning", "WARNING")}
                  [] OTHER -> {}
           R == CASE roll >= RollingLimit -> {Issue("hours_28day_exceeded", "CRITICAL")}
                  [] roll < RollingLimit /\ 10 * roll >= 9 * RollingLimit
                       -> {Issue("hours_28day_warning", "WARNING")}
                  [] OTHER -> {}
           Y == When(Spent(YearLimit, YearStart(Today)), "hours_yearly_exceeded", "BLOCKING")
           E == When(DocExpired, "doc_expired", "BLOCKING")
           F == When(doc.expiry \in Today..(Today + WarnDays), "doc_expiring", "WARNING")
           T == When(TrainingExpired, "training_expired", "BLOCKING")
           U == When(training \in Today..(Today + WarnDays), "training_expiring", "WARNING")
<1>1. BatchIssues({}) = CrewStatusIssues \cup M \cup R \cup Y \cup (E \cup F) \cup (T \cup U)
  BY Zenon DEF BatchIssues, DocExpired, TrainingExpired
<1>2. /\ MonthLimit \in Nat /\ RollingLimit \in Nat /\ month \in Nat /\ roll \in Nat
  BY LimitAssumption, HoursAreWhole DEF Flying, Roster
<1>3. /\ MonthSpent => Issue("hours_monthly_exceeded", "BLOCKING") \in M
      /\ ~MonthSpent => \A i \in M : i = Issue("hours_monthly_warning", "WARNING")
  BY <1>2 DEF MonthSpent, Spent
<1>4. \A i \in R : i = Issue("hours_28day_exceeded", "CRITICAL")
                   \/ i = Issue("hours_28day_warning", "WARNING")
  BY <1>2
<1>5. \A i : i \in Y <=> YearSpent /\ i = Issue("hours_yearly_exceeded", "BLOCKING")
  BY Zenon DEF When, YearSpent
<1>6. \A i : i \in E <=> DocExpired /\ i = Issue("doc_expired", "BLOCKING")
  BY Zenon DEF When
<1>7. \A i : i \in T <=> TrainingExpired /\ i = Issue("training_expired", "BLOCKING")
  BY Zenon DEF When
<1>8. \A i : i \in F \/ i \in U => i.sev = "WARNING"
  BY WhenIs, IssueIs
<1> HIDE DEF M, R, Y, E, F, T, U
<1>9. ASSUME NEW i \in BatchIssues({}), i.sev = "BLOCKING" PROVE Stopped
  BY <1>1, <1>3, <1>4, <1>5, <1>6, <1>7, <1>8, <1>9, StatusFindings, IssueIs DEF Stopped
<1>10. ASSUME Stopped PROVE \E i \in BatchIssues({}) : i.sev = "BLOCKING"
  BY <1>1, <1>3, <1>5, <1>6, <1>7, <1>10, StatusFindings, IssueIs DEF Stopped
<1> QED BY <1>9, <1>10 DEF Has

----------------------------------------------------------------------------
(* The score.                                                              *)

Graded(issues) == \A i \in issues : i.sev \in {"BLOCKING", "CRITICAL", "WARNING"}

Marks(issues, c) == {10} \cup {Factor[i.sev] : i \in {j \in issues : j.rule \in Category[c]}}

LEMMA ScoreIs ==
  ASSUME NEW issues
  PROVE  Score(issues) = (25 * Min(Marks(issues, "rest")) + 25 * Min(Marks(issues, "hours"))
                            + 20 * Min(Marks(issues, "fdp")) + 20 * Min(Marks(issues, "papers"))
                            + 10 * Min(Marks(issues, "flight"))) \div 10
BY DEF Score, Marks, Weights

LEMMA LeastMark ==
  ASSUME NEW S \in SUBSET {0, 2, 5, 10}, 10 \in S
  PROVE  Min(S) \in S /\ \A x \in S : Min(S) <= x
<1>1. \E x \in S : \A y \in S : x <= y
  <2>1. CASE 0 \in S
    BY <2>1
  <2>2. CASE 0 \notin S /\ 2 \in S
    BY <2>2
  <2>3. CASE 0 \notin S /\ 2 \notin S /\ 5 \in S
    BY <2>3
  <2>4. CASE S = {10}
    BY <2>4
  <2> QED BY <2>1, <2>2, <2>3, <2>4
<1> QED BY <1>1 DEF Min

LEMMA MarksAre ==
  ASSUME NEW issues, Graded(issues), NEW c
  PROVE  /\ Marks(issues, c) \in SUBSET {0, 2, 5, 10} /\ 10 \in Marks(issues, c)
         /\ Min(Marks(issues, c)) \in 0..10
<1>1. \A s \in {"BLOCKING", "CRITICAL", "WARNING"} : Factor[s] \in {0, 2, 5}
  BY DEF Factor
<1>2. Marks(issues, c) \in SUBSET {0, 2, 5, 10} /\ 10 \in Marks(issues, c)
  BY <1>1 DEF Marks, Graded
<1> QED BY <1>2, LeastMark

\* No finding keeps the whole score.
LEMMA FullScore == Score({}) = 100
<1>1. \A c : Marks({}, c) = {10}
  BY DEF Marks
<1>2. Min({10}) = 10
  <2>1. {10} \in SUBSET {0, 2, 5, 10} /\ 10 \in {10}
    OBVIOUS
  <2>2. Min({10}) \in {10}
    BY <2>1, LeastMark
  <2> QED BY <2>2
<1>3. Score({}) = (25 * 10 + 25 * 10 + 20 * 10 + 20 * 10 + 10 * 10) \div 10
  BY <1>1, <1>2, ScoreIs
<1> QED BY <1>3

\* The 28-day limit alone takes the member below the score of a ready one.
LEMMA CriticalScore ==
  ASSUME NEW issues, Graded(issues), NEW i \in issues,
         i.sev = "CRITICAL", i.rule = "hours_28day_exceeded"
  PROVE  Score(issues) < 90
<1> DEFINE m(c) == Min(Marks(issues, c))
<1>1. i.rule \in Category["hours"]
  BY DEF Category, Families
<1>2. 2 \in Marks(issues, "hours")
  <2>1. Factor[i.sev] = 2
    BY DEF Factor
  <2> QED BY <1>1, <2>1 DEF Marks
<1>3. m("hours") <= 2
  BY <1>2, MarksAre, LeastMark
<1>4. m("rest") \in 0..10 /\ m("hours") \in 0..10 /\ m("fdp") \in 0..10 /\ m("papers") \in 0..10
      /\ m("flight") \in 0..10
  BY MarksAre
<1>5. Score(issues) = (25 * m("rest") + 25 * m("hours") + 20 * m("fdp") + 20 * m("papers")
                        + 10 * m("flight")) \div 10
  BY ScoreIs
<1> HIDE DEF m
<1>6. \A a, b, c, d, e \in 0..10 : b <= 2 =>
        (25 * a + 25 * b + 20 * c + 20 * d + 10 * e) \div 10 < 90
  OBVIOUS
<1> QED BY <1>3, <1>4, <1>5, <1>6

LEMMA FindingsAreGraded ==
  ASSUME TypesInv, om = NoClause, NEW f \in Flights
  PROVE  Graded(CheckCrew(f, {}))
BY FlightFindings DEF Graded

\* What is projected READY has no finding at all.
LEMMA ReadyIsClean ==
  ASSUME NEW issues, Graded(issues), Projection(issues) = "READY"
  PROVE  issues = {}
<1>1. OverallStatus(issues) \notin {"BLOCKED", "RED", "YELLOW"}
  BY DEF Projection
<1>2. ~Has(issues, "BLOCKING") /\ ~Has(issues, "CRITICAL") /\ ~Has(issues, "WARNING")
  BY <1>1 DEF OverallStatus
<1> QED BY <1>2 DEF Has, Graded

LEMMA CleanIsReady == Readiness({}) = "READY"
<1>1. ~Has({}, "BLOCKING")
  BY DEF Has
<1> QED BY <1>1, FullScore DEF Readiness

LEMMA CriticalIsNotReady ==
  ASSUME NEW issues, Graded(issues), NEW i \in issues,
         i.sev = "CRITICAL", i.rule = "hours_28day_exceeded"
  PROVE  Readiness(issues) # "READY"
<1>1. Score(issues) \in Int /\ Score(issues) < 90 /\ ~(Score(issues) >= 90)
  <2>1. Score(issues) \in Int
    <3>1. \A c : Min(Marks(issues, c)) \in Int
      BY MarksAre
    <3> QED BY <3>1, ScoreIs
  <2> QED BY <2>1, CriticalScore
<1>2. CASE Has(issues, "BLOCKING") \/ Score(issues) < 50
  BY <1>1, <1>2 DEF Readiness
<1>3. CASE ~Has(issues, "BLOCKING") /\ Score(issues) \in 70..89
  BY <1>1, <1>3 DEF Readiness
<1>4. CASE ~Has(issues, "BLOCKING") /\ Score(issues) \in 50..69
  BY <1>1, <1>4 DEF Readiness
<1> QED BY <1>1, <1>2, <1>3, <1>4

\* Whatever the schedule, the limits and the member's papers: the readiness board and
\* the list of suggested crew promise what the gate keeps, and score and projection
\* do not contradict each other.
THEOREM AdviceStands == Spec => []AdviceHolds
<1>1. ASSUME TypesInv PROVE AdviceHolds
  <2> SUFFICES ASSUME om = NoClause
      PROVE  /\ OverallStatus(BatchIssues({})) = "BLOCKED" <=> CrewStatus = "BLOCKED"
             /\ \A f \in Flights \ Roster :
                  LET issues == CheckCrew(f, {})
                  IN  /\ Suggested(f) /\ SuggestedStatus(f, OverallStatus(BatchIssues({}))) # "BLOCKED"
                           => \/ HardBlocks(issues) = {}
                              \/ \E g \in Roster \cap cancelled : Overlap(f, g)
                      /\ Projection(issues) = "READY" => Readiness(issues) = "READY"
                      /\ Has(issues, "CRITICAL") => Readiness(issues) # "READY"
    BY Zenon DEF AdviceHolds
  <2>1. \A S : OverallStatus(S) = "BLOCKED" <=> Has(S, "BLOCKING")
    BY DEF OverallStatus
  <2>2. OverallStatus(BatchIssues({})) = "BLOCKED" <=> Stopped
    BY <1>1, <2>1, BoardStops
  <2>3. CrewStatus = "BLOCKED" <=> Stopped
    <3>1. CrewStatus = OverallStatus(CrewIssues({}, {}))
      BY ApplyOmIs, Zenon DEF CrewStatus
    <3> QED BY <1>1, <2>1, <3>1, EngineStops
  <2>4. ASSUME NEW f \in Flights \ Roster
        PROVE  /\ Suggested(f) /\ SuggestedStatus(f, OverallStatus(BatchIssues({}))) # "BLOCKED"
                    => \/ HardBlocks(CheckCrew(f, {})) = {}
                       \/ \E g \in Roster \cap cancelled : Overlap(f, g)
               /\ Projection(CheckCrew(f, {})) = "READY" => Readiness(CheckCrew(f, {})) = "READY"
               /\ Has(CheckCrew(f, {}), "CRITICAL") => Readiness(CheckCrew(f, {})) # "READY"
    <3>1. Graded(CheckCrew(f, {}))
      BY <1>1, FindingsAreGraded
    <3>2. ASSUME Suggested(f), SuggestedStatus(f, OverallStatus(BatchIssues({}))) # "BLOCKED",
                 NEW i \in HardBlocks(CheckCrew(f, {}))
          PROVE  \E g \in Roster \cap cancelled : Overlap(f, g)
      <4>1. Qualified(Schedule[f].type) /\ ~Stopped
        BY <2>2, <3>2 DEF SuggestedStatus
      <4>2. i \in CheckCrew(f, {}) /\ i.sev = "BLOCKING" /\ i.rule \notin FtlRules
        BY <3>2 DEF HardBlocks
      <4>3. \E g \in Roster \ {f} : Overlap(f, g)
        BY <1>1, <4>1, <4>2, FlightFindings DEF Stopped
      <4> QED BY <3>2, <4>3 DEF Suggested, Flying
    <3>3. ASSUME Projection(CheckCrew(f, {})) = "READY" PROVE Readiness(CheckCrew(f, {})) = "READY"
      BY <3>1, <3>3, ReadyIsClean, CleanIsReady
    <3>4. ASSUME NEW i \in CheckCrew(f, {}), i.sev = "CRITICAL"
          PROVE  Readiness(CheckCrew(f, {})) # "READY"
      BY <1>1, <3>1, <3>4, FlightFindings, CriticalIsNotReady
    <3> QED BY <3>2, <3>3, <3>4 DEF Has
  <2> QED BY <2>2, <2>3, <2>4
<1> QED
  BY <1>1, InitTypes, NextTypes, PTL DEF Spec

----------------------------------------------------------------------------
(* The card and the monitor read the duty under way alike.                 *)

LEMMA DutiesAreFlown ==
  ASSUME NEW D \in DutiesOf(Flying)
  PROVE  /\ D \in SUBSET Flights /\ D # {}
         /\ First(D) \in Flights /\ Last(D) \in Flights
         /\ FdpStart(D) \in Int /\ FdpEnd(D) \in Int
<1>1. Flying \in SUBSET Flights
  BY DEF Flying, Roster
<1>2. PICK f \in Flying : D = Joined(Flying, Opens(Flying), f)
  BY DutiesAre
<1>3. D \in SUBSET Flights /\ D # {}
  BY <1>1, <1>2, JoinedIs
<1>4. First(D) \in Flights /\ Last(D) \in Flights
  BY <1>3, FirstOf, LastOf
<1> QED BY <1>3, <1>4, Times DEF FdpStart, FdpEnd, ReportLead, PostFlight

\* A set of duties has one that starts first.
LEMMA EarliestIs ==
  ASSUME NEW Ds \in SUBSET DutiesOf(Flying), Ds # {}
  PROVE  Earliest(Ds) \in Ds
<1> DEFINE start == [D \in Ds |-> FdpStart(D)]
<1>2. \A D \in Ds : FdpStart(D) \in Int
  BY DutiesAreFlown
<1>3. start \in [Ds -> Int]
  BY <1>2
<1>4. IsFiniteSet(Ds)
  <2>1. \A D \in Ds : D \in SUBSET Flights
    BY DutiesAreFlown
  <2>2. Ds \in SUBSET (SUBSET Flights)
    BY <2>1
  <2> QED BY <2>2, LimitAssumption, FS_SUBSET, FS_Subset
<1>5. \E D \in Ds : \A E \in Ds : start[D] <= start[E]
  <2> HIDE DEF start
  <2> QED BY <1>3, <1>4, SomeLeast
<1>6. \E D \in Ds : \A E \in Ds : FdpStart(D) <= FdpStart(E)
  BY <1>5
<1> QED BY <1>6 DEF Earliest

\* With no day asked for, the monitor shows the duty under way.
LEMMA MonitorShowsDuty ==
  ASSUME TypesInv, OnDuty # {}
  PROVE  MonitorDuty(AnyDay) = Earliest(OnDuty)
<1>1. ASSUME NEW D \in DutiesOf(Flying) PROVE Day(Dep(First(D)) + Baghdad) # AnyDay
  <2>1. Dep(First(D)) + Baghdad \in Nat
    BY DutiesAreFlown, Times DEF Baghdad
  <2> QED BY <2>1 DEF Day, AnyDay
<1>2. {D \in DutiesOf(Flying) : Day(Dep(First(D)) + Baghdad) = AnyDay} = {}
  BY <1>1
<1> DEFINE Ds       == DutiesOf(Flying)
           onDay    == {D \in Ds : Day(Dep(First(D)) + Baghdad) = AnyDay}
           upcoming == {D \in Ds : Dep(First(D)) >= now}
<1>3. MonitorDuty(AnyDay) =
        CASE onDay # {} -> Earliest(onDay)
          [] onDay = {} /\ OnDuty # {} -> Earliest(OnDuty)
          [] onDay \cup OnDuty = {} /\ upcoming # {} -> Earliest(upcoming)
          [] OTHER -> Latest(Ds)
  BY Zenon DEF MonitorDuty, OnDuty
<1>4. onDay = {}
  BY <1>2
<1> HIDE DEF onDay, upcoming, Ds
<1> QED BY <1>3, <1>4

\* While the duty lasts, what is used of it is the time since its report.
LEMMA RemainingIsLeft ==
  ASSUME TypesInv, OnDuty # {}
  PROVE  MonitorRemaining(Earliest(OnDuty)) = Left(Earliest(OnDuty))
<1> DEFINE D == Earliest(OnDuty)
<1>1. D \in OnDuty
  BY EarliestIs DEF OnDuty
<1>2. now \in FdpStart(D)..FdpEnd(D)
  BY <1>1 DEF OnDuty
<1> HIDE DEF D
<1>3. FdpStart(D) \in Int /\ FdpEnd(D) \in Int
  BY <1>1, DutiesAreFlown DEF OnDuty
<1>4. now \in Int /\ FdpStart(D) <= now /\ now <= FdpEnd(D)
  BY <1>2, <1>3 DEF TypesInv
<1>5. Min({now, FdpEnd(D)}) = now
  <2>1. Min({now, FdpEnd(D)}) \in {now, FdpEnd(D)} /\ Min({now, FdpEnd(D)}) <= now
    <3>1. \E x \in {now, FdpEnd(D)} : \A y \in {now, FdpEnd(D)} : x <= y
      BY <1>3, <1>4
    <3> QED BY <3>1 DEF Min
  <2> QED BY <1>3, <1>4, <2>1
<1>6. FdpUsed(D) = now - FdpStart(D)
  BY <1>3, <1>4, <1>5 DEF FdpUsed
<1> QED BY <1>6 DEF MonitorRemaining, Left, D

\* Whatever the schedule, the table and the limits: the two screens agree on the duty
\* under way, and what stops the member on the card, 28-day hours aside, stops him on
\* the monitor.
THEOREM ScreensStayAgreed == Spec => []ScreensAgree
<1>1. ASSUME TypesInv PROVE ScreensAgree
  <2> SUFFICES ASSUME Flying # {}
      PROVE  /\ OnDuty # {} => /\ MonitorDuty(AnyDay) = Earliest(OnDuty)
                               /\ MonitorRemaining(MonitorDuty(AnyDay)) = Left(MonitorDuty(AnyDay))
             /\ om = NoClause /\ ~Spent(RollingLimit, Today - 28) /\ Legality = "BLOCKED"
                  => Monitor(AnyDay) = "BLOCKED"
    BY Zenon DEF ScreensAgree
  <2>1. OnDuty # {} => /\ MonitorDuty(AnyDay) = Earliest(OnDuty)
                       /\ MonitorRemaining(MonitorDuty(AnyDay)) = Left(MonitorDuty(AnyDay))
    BY <1>1, MonitorShowsDuty, RemainingIsLeft
  <2>2. ASSUME om = NoClause, ~Spent(RollingLimit, Today - 28), Legality = "BLOCKED"
        PROVE  Monitor(AnyDay) = "BLOCKED"
    <3> DEFINE near == When(OnDuty # {} /\ 10 * Left(Earliest(OnDuty)) <= MaxFdp(Earliest(OnDuty)),
                            "fdp_near", "WARNING")
               resting == When(OnDuty = {} /\ NextReport > now, "resting", "WARNING")
               gone == HoursGone \/ (OnDuty # {} /\ Left(Earliest(OnDuty)) <= 0)
               issues == CrewIssues({}, {}) \cup near \cup resting
    <3>1. Legality = Verdict(gone, issues)
      BY Zenon DEF Legality
    <3>2. gone \/ Has(issues, "BLOCKING")
      <4> HIDE DEF gone, issues
      <4>1. ~gone => OverallStatus(issues) = "BLOCKED"
        BY <2>2, <3>1 DEF Verdict
      <4> QED BY <4>1 DEF OverallStatus
    <3>3. Has(issues, "BLOCKING") => Has(CrewIssues({}, {}), "BLOCKING")
      <4>1. \A i : i \in near \/ i \in resting => i.sev = "WARNING"
        BY WhenIs, IssueIs
      <4> HIDE DEF near, resting
      <4> QED BY <4>1 DEF Has
    <3>4. Has(CrewIssues({}, {}), "BLOCKING") => Monitor(AnyDay) = "BLOCKED"
      BY DEF Monitor
    <3>5. HoursGone => Stopped
      BY <2>2 DEF HoursGone, Stopped, MonthSpent, YearSpent
    <3>6. OnDuty # {} /\ Left(Earliest(OnDuty)) <= 0 => Monitor(AnyDay) = "BLOCKED"
      <4>1. OnDuty # {} /\ Left(Earliest(OnDuty)) <= 0 => MonitorRemaining(MonitorDuty(AnyDay)) <= 0
        BY <2>1
      <4> QED BY <4>1 DEF Monitor
    <3>7. HoursGone => Monitor(AnyDay) = "BLOCKED"
      BY <1>1, <2>2, <3>4, <3>5, EngineStops
    <3> QED BY <3>2, <3>3, <3>4, <3>6, <3>7
  <2> QED BY <2>1, <2>2
<1> QED
  BY <1>1, InitTypes, NextTypes, PTL DEF Spec
=============================================================================
