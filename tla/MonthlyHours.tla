---------------------------- MODULE MonthlyHours ----------------------------
(***************************************************************************)
(* The credited flight hours of a crew member (core/monthly_hours.py): the *)
(* monthly matrix with its cache in each process, the legal statement, the *)
(* profile and the ranker, each of which adds the hours up by itself.      *)
(* They read the roster, the flights with their actual times, and then the *)
(* hours a super admin has set for a day by hand; if that last read fails  *)
(* they go on as if none were set.  A server serves one request at a time; *)
(* a step of the clock is longer than a request.                           *)
(*                                                                         *)
(* Times are minutes UTC from the Baghdad midnight that begins the month;  *)
(* hours are in half minutes, so that a deadhead may credit one half.      *)
(***************************************************************************)
EXTENDS Integers, Functions

CONSTANTS
  Sectors,     \* flights
  Std,         \* [Sectors -> planned departure]
  Block,       \* [Sectors -> duration_hours, in minutes]
  Days,        \* days_in_month
  Moments,     \* times OCC may record
  SetHours,    \* hours a super admin may set
  Queries,     \* the deadhead policies the matrix is asked for
  Ttl,         \* _MATRIX_TTL, in ticks of the clock
  Tracked,     \* the sectors OCC records times of
  Servers      \* processes there may be

VARIABLES
  duty,        \* [Sectors -> duty_type of the member]
  dropped,     \* sectors that are cancelled, or the member is taken off
  atd, ata,    \* recorded departure and arrival of each sector, or None
  override,    \* [1..Days -> hours set by hand, or None]
  reading,     \* [deployed servers -> Resting or the matrix being built: [dh, computed]]
  cache,       \* [deployed servers -> [Queries -> Empty or [left, total, over, ok]]]
  editor,      \* history: the server of the last edit by hand, or "nobody"
  age          \* history: ticks since what the hours depend on changed, at most Ttl

vars == <<duty, dropped, atd, ata, override, reading, cache, editor, age>>

None     == -1
Empty    == [left |-> 0]
Resting  == [dh |-> "no query"]
Policies == {"none", "half", "full"}   \* dh_credit

\* No negative hours are set by hand (monthly_hours.py 208-209); a planned block may
\* be negative, for create_flight compares no times (flights.py 325-329).
HoursAssumption ==
  /\ Tracked \subseteq Sectors
  /\ Std \in [Sectors -> Int] /\ Block \in [Sectors -> Int]
  /\ Days \in Nat /\ Ttl \in Nat \ {0}
  /\ Moments \subseteq Int \ {None} /\ SetHours \subseteq Nat

----------------------------------------------------------------------------
(* Hours of one leg.                                                       *)

\* Actual block when both times are recorded and in order, else the planned one.
LegHours(s) ==
  IF atd[s] # None /\ ata[s] # None /\ ata[s] > atd[s] THEN ata[s] - atd[s] ELSE Block[s]

DhFactor(dh) == CASE dh = "half" -> 1 [] dh = "full" -> 2 [] OTHER -> 0

CreditedHours(type, minutes, dh) ==
  CASE type = "operating" -> 2 * minutes
    [] type = "deadhead"  -> minutes * DhFactor(dh)
    [] OTHER              -> 0

\* Mutant: the statement counts a deadhead like a flight.
InclusionDeadhead(type, minutes, dh) ==
  IF minutes <= 0 THEN 0
  ELSE IF type \in {"operating", "deadhead"} THEN 2 * minutes ELSE 0

\* The statement's own crediting of a leg: nothing without a duration.
Inclusion(type, minutes, dh) ==
  IF minutes <= 0 THEN 0
  ELSE CASE type = "operating" -> 2 * minutes
         [] type = "deadhead" /\ DhFactor(dh) > 0 -> minutes * DhFactor(dh)
         [] OTHER -> 0

----------------------------------------------------------------------------
(* The four sums.                                                          *)

Rostered == Sectors \ dropped
DayOf(s)   == Std[s] \div 1440 + 1
InMonth(s) == Std[s] >= 0 /\ DayOf(s) <= Days

Credits(dh) == [s \in Sectors |-> CreditedHours(duty[s], LegHours(s), dh)]
DayLegs(d)  == {s \in Rostered : InMonth(s) /\ DayOf(s) = d}

\* What the last look-up gives when it raises.
NoOverrides == [d \in 1..Days |-> None]

\* build_matrix adds up each day and lets an edit by hand that it has read replace it.
Computed(dh) == [d \in 1..Days |-> SumFunctionOnSet(Credits(dh), DayLegs(d))]

MatrixOf(computed, read) ==
  LET day == [d \in 1..Days |-> IF read[d] # None THEN read[d] ELSE computed[d]]
  IN  SumFunctionOnSet(day, {d \in 1..Days : d <= 15})
        + SumFunctionOnSet(day, {d \in 1..Days : d > 15})

BuildMatrix(read, dh) == MatrixOf(Computed(dh), read)

\* build_statement: the credited_total of the legal statement.
BuildStatement(read, dh) ==
  LET credit   == [s \in Sectors |-> Inclusion(duty[s], LegHours(s), dh)]
      computed == [d \in 1..Days |-> SumFunctionOnSet(credit, DayLegs(d))]
      by_hand  == {d \in 1..Days : read[d] # None}
  IN SumFunctionOnSet(read, by_hand) + SumFunctionOnSet(computed, (1..Days) \ by_hand)

\* crew_flight_hours, the current month: from its first minute on, whatever the
\* month of the leg; legs without credit are passed over.
ProfileMonth(dh) ==
  SumFunctionOnSet(Credits(dh), {s \in Rostered : Credits(dh)[s] > 0 /\ Std[s] >= 0})

\* month_hours_by_crew, by which IROPS ranks: again without an end.
RankerMonth(dh) == SumFunctionOnSet(Credits(dh), {s \in Rostered : Std[s] >= 0})

----------------------------------------------------------------------------
(* The matrix and its cache.                                               *)

\* An entry counts until its end; past it, it is dropped (Tick).  An answer from the
\* cache changes nothing.
CacheGet(w, dh) == cache[w][dh] # Empty

\* GET /matrix and /export: the flights of the month and the roster are read (two
\* reads, taken as one) ...
ReadRoster(w) ==
  /\ reading[w] = Resting
  /\ \E dh \in Queries :
       /\ ~CacheGet(w, dh)
       /\ reading' = [reading EXCEPT ![w] = [dh |-> dh, computed |-> Computed(dh)]]
  /\ UNCHANGED <<duty, dropped, atd, ata, override, cache, editor, age>>

\* ... then the edits by hand.  Their look-up may raise, which nothing shows; the
\* matrix is kept in either case.  The eviction of the oldest entries is left out.
ReadOverrides(w) ==
  /\ reading[w] # Resting
  /\ \E ok \in BOOLEAN :
       LET read == IF ok THEN override ELSE NoOverrides
       IN  cache' = [cache EXCEPT ![w][reading[w].dh] =
             [left |-> Ttl, total |-> MatrixOf(reading[w].computed, read), over |-> read, ok |-> ok]]
  /\ reading' = [reading EXCEPT ![w] = Resting]
  /\ UNCHANGED <<duty, dropped, atd, ata, override, editor, age>>

\* The instance is killed and its cache with it.
Restart(w) ==
  /\ reading' = [reading EXCEPT ![w] = Resting]
  /\ cache' = [cache EXCEPT ![w] = [dh \in Queries |-> Empty]]
  /\ UNCHANGED <<duty, dropped, atd, ata, override, editor, age>>

\* One step of the clock: every entry is nearer its end.
Tick ==
  /\ \A w \in DOMAIN reading : reading[w] = Resting
  /\ cache' = [w \in DOMAIN cache |-> [dh \in Queries |->
                 IF cache[w][dh].left > 1 THEN [cache[w][dh] EXCEPT !.left = @ - 1] ELSE Empty]]
  /\ age' = IF age < Ttl THEN age + 1 ELSE Ttl
  /\ UNCHANGED <<duty, dropped, atd, ata, override, reading, editor>>

InvalidateMatrixCache(w) == cache' = [cache EXCEPT ![w] = [dh \in Queries |-> Empty]]

\* POST /override: this server's entries go, the others' stay.
SetOverride(w) ==
  /\ reading[w] = Resting
  /\ \E d \in 1..Days, h \in SetHours : override' = [override EXCEPT ![d] = h]
  /\ InvalidateMatrixCache(w)
  /\ editor' = w /\ age' = 0
  /\ UNCHANGED <<duty, dropped, atd, ata, reading>>

\* Mutant: the day reverts and the cached matrix stays.
ClearOverrideCached(w) ==
  /\ reading[w] = Resting
  /\ \E d \in 1..Days : override' = [override EXCEPT ![d] = None]
  /\ editor' = w /\ age' = 0
  /\ UNCHANGED <<duty, dropped, atd, ata, reading, cache>>

\* POST /override/clear
ClearOverride(w) ==
  /\ reading[w] = Resting
  /\ \E d \in 1..Days : override' = [override EXCEPT ![d] = None]
  /\ InvalidateMatrixCache(w)
  /\ editor' = w /\ age' = 0
  /\ UNCHANGED <<duty, dropped, atd, ata, reading>>

----------------------------------------------------------------------------
(* POST /occ/flights/{id}/actual-times: either time or both; the pair that *)
(* would result must be in order.                                          *)

Final(sent, read) == IF sent = None THEN read ELSE sent

\* The times sent are written, the cached matrices stay.  A correction demands a
\* reason, which is to hand.
RecordActualTimes ==
  /\ \E s \in Tracked, d, a \in Moments \cup {None} :
       LET fd == Final(d, atd[s])
           fa == Final(a, ata[s])
       IN /\ d # None \/ a # None
          /\ fd # None /\ fa # None => fa > fd
          /\ atd' = [atd EXCEPT ![s] = fd]
          /\ ata' = [ata EXCEPT ![s] = fa]
  /\ age' = 0
  /\ UNCHANGED <<duty, dropped, override, reading, cache, editor>>

\* Assignments and cancellations, by any endpoint.
ChangeDuty ==
  /\ \E s \in Sectors : dropped' = (dropped \cup {s}) \ (dropped \cap {s})
  /\ age' = 0
  /\ UNCHANGED <<duty, atd, ata, override, reading, cache, editor>>

\* Times recorded out of order (two requests, each of which saw a pair in order)
\* are among the rows there may be.
Init ==
  /\ duty \in [Sectors -> {"operating", "deadhead", "standby"}]
  /\ dropped = {}
  /\ atd \in [Sectors -> Moments \cup {None}] /\ ata \in [Sectors -> Moments \cup {None}]
  /\ \A s \in Sectors \ Tracked : atd[s] = None /\ ata[s] = None
  /\ override = [d \in 1..Days |-> None]
  /\ \E deployed \in SUBSET Servers :
       /\ deployed # {}
       /\ cache = [w \in deployed |-> [dh \in Queries |-> Empty]]
       /\ reading = [w \in deployed |-> Resting]
  /\ editor = "nobody"
  /\ age = Ttl

Next ==
  \/ Tick \/ RecordActualTimes \/ ChangeDuty
  \/ \E w \in DOMAIN cache :
       \/ ReadRoster(w) \/ ReadOverrides(w) \/ Restart(w)
       \/ SetOverride(w) \/ ClearOverride(w)

Spec == Init /\ [][Next]_vars
----------------------------------------------------------------------------
(* Properties.                                                             *)

\* A leg that is counted although its planned arrival is before its departure.
Reversed(s) == LegHours(s) < 0

\* "Uses the same policy as the matrix, so totals match exactly": of the same edits
\* by hand the statement says what the matrix says under every deadhead policy, and
\* the ranker what the profile says, unless a leg is reversed, which the matrix and
\* the ranker subtract and the others leave out; profile and matrix agree too if
\* there are no edits and the member is not rostered beyond the month.
HoursAgree ==
  \A dh \in Policies, read \in {override, NoOverrides} :
    /\ BuildMatrix(read, dh) <= BuildStatement(read, dh)
    /\ (\A s \in Rostered : InMonth(s) => ~Reversed(s)) =>
         BuildMatrix(read, dh) = BuildStatement(read, dh)
    /\ RankerMonth(dh) <= ProfileMonth(dh)
    /\ (\A s \in Rostered : ~Reversed(s)) => RankerMonth(dh) = ProfileMonth(dh)
    /\ (\A s \in Rostered : InMonth(s)) => RankerMonth(dh) = BuildMatrix(NoOverrides, dh)

\* "Overrides must show on the next matrix read": a matrix kept by the server that
\* wrote the last of them has them all, and no server's is behind the tables for
\* longer than it is kept; unless their look-up failed, which leaves a matrix that
\* has none and is as recent otherwise.
MatrixIsRecent ==
  \A w \in DOMAIN cache, dh \in Queries :
    LET e == cache[w][dh] IN e # Empty =>
      /\ editor = w /\ e.ok => e.over = override
      /\ e.total # BuildMatrix(IF e.ok THEN override ELSE NoOverrides, dh) => age < Ttl
=============================================================================
