-------------------------- MODULE PointsCalculator --------------------------
(* The points of one user on one chain (services/points_calculator.go).  The *)
(* event consumer commits balance changes; the ticker's goroutine, the one   *)
(* Start spawns for an immediate run, and one per API request calculate the  *)
(* points earned since the last calculation, each in a transaction.          *)
(*                                                                           *)
(* PostgreSQL runs the transactions at READ COMMITTED and none of their      *)
(* SELECTs locks, so every statement sees what has been committed by then.   *)
(*                                                                           *)
(* Time is counted in moments (the code's milliseconds), of which a minute   *)
(* has MinPeriod.                                                            *)
EXTENDS BalancePeriods

CONSTANTS
    Tickers,       \* goroutines that run calculateAllPoints
    Triggers,      \* goroutines of requests that name the user
    Balances,      \* the balances a change may leave
    MinPeriod,     \* shortest stretch that is calculated, in moments (one minute)
    MaxPeriod,     \* longest one (24 hours)
    Unit,          \* see PeriodPoints
    MaxLag,        \* bound: a change is committed this long after its timestamp
    MaxTime,       \* bound: the clock stops here
    MaxChanges,    \* bound on the balance changes
    MaxFaults      \* bound on the transactions that fail

Workers == Tickers \union Triggers

ASSUME PointsAssumption ==
    /\ Tickers \intersect Triggers = {}
    /\ Balances \subseteq Int
    /\ MinPeriod \in Nat \ {0} /\ MaxPeriod \in Nat /\ MinPeriod <= MaxPeriod
    /\ Unit \in Nat \ {0}
    /\ MaxLag \in Nat
    /\ MaxTime \in Nat /\ MaxChanges \in Nat /\ MaxFaults \in Nat

VARIABLES
    now,        \* the clock
    changes,    \* balance_changes of the user, as committed: [ts, after, missed]
    rows,       \* points_calculations, in the order of their IDs
    totals,     \* user_points: the totals, in the order of their IDs
    calc,       \* what each goroutine has read
    raced,      \* history: one committed on top of a calculation it had not read
    faults      \* transactions that may still fail

vars == <<now, changes, rows, totals, calc, raced, faults>>

None == -1

Idle == [pc |-> "idle", known |-> 0, start |-> 0, end |-> 0, initial |-> 0,
         earned |-> <<>>, total |-> None]

Row == [start : 0..MaxTime, end : 0..MaxTime, balance : Balances \union {0}, points : Nat]

TypeOK ==
    /\ now \in 0..MaxTime
    /\ changes \in Seq([ts : 0..MaxTime, after : Balances, missed : BOOLEAN])
    /\ rows \in Seq(Row)
    /\ totals \in Seq(Nat)
    /\ calc \in [Workers ->
            [pc : {"idle", "selected", "first", "clock", "read", "total", "commit"},
             known : Nat, start : Nat, end : Nat, initial : Balances \union {0},
             earned : Seq(Row), total : Nat \union {None}]]
    /\ raced \in BOOLEAN
    /\ faults \in 0..MaxFaults

Init ==
    /\ now = 0
    /\ changes = <<>> /\ rows = <<>> /\ totals = <<>>
    /\ calc = [w \in Workers |-> Idle]
    /\ raced = FALSE
    /\ faults = MaxFaults

-----------------------------------------------------------------------------
(* The world outside: time passes, and the consumer commits changes.  Their  *)
(* timestamp is the listener's, taken before the event was published; missed *)
(* is history: a calculation has paid for a time after the timestamp, and no *)
(* calculation will read the change, or read it in its place.                *)

Tick ==
    /\ now < MaxTime
    /\ now' = now + 1
    /\ UNCHANGED <<changes, rows, totals, calc, raced, faults>>

(* Calculated already, in a row or in a transaction that has read the        *)
(* changes.                                                                  *)
PaidBeyond(ts) ==
    \/ \E i \in DOMAIN rows : rows[i].end > ts
    \/ \E w \in Workers : \E i \in DOMAIN calc[w].earned : calc[w].earned[i].end > ts

Change ==
    /\ Len(changes) < MaxChanges
    /\ \E ts \in 0..now, b \in Balances :
        /\ now - ts <= MaxLag
        /\ changes' = Append(changes, [ts |-> ts, after |-> b, missed |-> PaidBeyond(ts)])
    /\ UNCHANGED <<now, rows, totals, calc, raced, faults>>

CurrentBalance == IF changes = <<>> THEN 0 ELSE Last(changes).after

-----------------------------------------------------------------------------
(* calculateAllPoints and calculateUserPointsTx                              *)

SumPoints(s) ==
    LET sum[n \in 0..Len(s)] == IF n = 0 THEN 0 ELSE sum[n - 1] + s[n].points
    IN  sum[Len(s)]

(* calculateAllPoints lists the users whose balance is not "0".  A request   *)
(* that names the user does not look.                                        *)
Select(w) ==
    /\ calc[w].pc = "idle"
    /\ w \in Triggers \/ CurrentBalance # 0
    /\ calc' = [calc EXCEPT ![w].pc = "selected"]
    /\ UNCHANGED <<now, changes, rows, totals, raced, faults>>

(* Faulty variant: "end_time ASC".                                           *)
IsEarliest(i) == \A j \in DOMAIN rows :
    \/ rows[j].end > rows[i].end
    \/ (rows[j].end = rows[i].end /\ i <= j)

(* "ORDER BY end_time DESC, id": the last calculation.                       *)
IsLast(i) == \A j \in DOMAIN rows :
    \/ rows[j].end < rows[i].end
    \/ (rows[j].end = rows[i].end /\ i <= j)

(* Faulty variants: the comparison turned round; "<=" for "<".               *)
EndOfLonger(start) == IF now - start < MaxPeriod THEN start + MaxPeriod ELSE now

TooShortByOne(start, end) == end - start <= MinPeriod

(* The stretch to calculate: from the end of the last calculation, or from   *)
(* the first change, to now, but no longer than MaxPeriod.  Nothing is done  *)
(* without a change, or for less than MinPeriod.                             *)
EndOf(start) == IF now - start > MaxPeriod THEN start + MaxPeriod ELSE now

TooShort(start, end) == end - start < MinPeriod

(* Faulty variant: the stretch begins with the balance of today.             *)
ReadLastBalanceOfToday(w) ==
    /\ calc[w].pc = "selected"
    /\ LET last == CHOOSE i \in DOMAIN rows : IsLast(i)
       IN  calc' = [calc EXCEPT ![w] =
                IF rows = <<>> THEN [Idle EXCEPT !.pc = "first"]
                ELSE [Idle EXCEPT !.pc = "clock", !.known = Len(rows),
                                  !.start = rows[last].end, !.initial = CurrentBalance]]
    /\ UNCHANGED <<now, changes, rows, totals, raced, faults>>

(* The last calculation; known counts the rows that it has seen.             *)
ReadLast(w) ==
    /\ calc[w].pc = "selected"
    /\ LET last == CHOOSE i \in DOMAIN rows : IsLast(i)
       IN  calc' = [calc EXCEPT ![w] =
                IF rows = <<>> THEN [Idle EXCEPT !.pc = "first"]
                ELSE [Idle EXCEPT !.pc = "clock", !.known = Len(rows),
                                  !.start = rows[last].end, !.initial = rows[last].balance]]
    /\ UNCHANGED <<now, changes, rows, totals, raced, faults>>

(* Without one, the first change.                                            *)
ReadFirst(w) ==
    /\ calc[w].pc = "first"
    /\ calc' = [calc EXCEPT ![w] =
            IF changes = <<>> THEN Idle
            ELSE [Idle EXCEPT !.pc = "clock",
                              !.start = Min({changes[i].ts : i \in DOMAIN changes})]]
    /\ UNCHANGED <<now, changes, rows, totals, raced, faults>>

(* time.Now() ends the stretch.                                              *)
ReadClock(w) ==
    /\ calc[w].pc = "clock"
    /\ LET end == EndOf(calc[w].start)
       IN  calc' = [calc EXCEPT ![w] =
                IF TooShort(calc[w].start, end) THEN Idle
                ELSE [calc[w] EXCEPT !.pc = "read", !.end = end]]
    /\ UNCHANGED <<now, changes, rows, totals, raced, faults>>

(* "ORDER BY timestamp": the database may return equal timestamps in any     *)
(* order.                                                                    *)
Window(start, end) ==
    {s \in SetToSeqs({i \in DOMAIN changes : changes[i].ts \in start..end}) :
        \A j, k \in DOMAIN s : j < k => changes[s[j]].ts <= changes[s[k]].ts}

(* The periods that earn points become rows, ...                             *)
Earned(p) ==
    LET points == PeriodPoints(p.balance, p.end - p.start, Unit)
    IN  IF points > 0
        THEN <<[start |-> p.start, end |-> p.end, balance |-> p.balance,
                points |-> points]>>
        ELSE <<>>

Found(order) == [k \in DOMAIN order |-> changes[order[k]]]

Periods(order, c) == BuildBalancePeriods(Found(order), c.start, c.end, c.initial)

(* ... and without any the transaction leaves no trace.                      *)
ReadChanges(w) ==
    /\ calc[w].pc = "read"
    /\ \E periods \in {Periods(order, calc[w]) :
                        order \in Window(calc[w].start, calc[w].end)} :
        LET earned == FlattenSeq([k \in DOMAIN periods |-> Earned(periods[k])])
        IN  calc' = [calc EXCEPT ![w] =
                IF earned = <<>> THEN Idle
                ELSE [@ EXCEPT !.pc = "total", !.earned = earned]]
    /\ UNCHANGED <<now, changes, rows, totals, raced, faults>>

(* Faulty variant: the total is never looked up.                             *)
ReadNoTotal(w) ==
    /\ calc[w].pc = "total"
    /\ calc' = [calc EXCEPT ![w].pc = "commit", ![w].total = None]
    /\ UNCHANGED <<now, changes, rows, totals, raced, faults>>

(* updateUserTotalPointsTx reads the total of the user's first row ...       *)
ReadTotal(w) ==
    /\ calc[w].pc = "total"
    /\ calc' = [calc EXCEPT ![w].pc = "commit",
                            ![w].total = IF totals = <<>> THEN None ELSE Head(totals)]
    /\ UNCHANGED <<now, changes, rows, totals, raced, faults>>

(* ... and writes the sum, or a first row.                                   *)
NewTotals(c) ==
    IF c.total = None THEN Append(totals, SumPoints(c.earned))
    ELSE [totals EXCEPT ![1] = c.total + SumPoints(c.earned)]

Commit(w) ==
    /\ calc[w].pc = "commit"
    /\ rows' = rows \o calc[w].earned
    /\ totals' = NewTotals(calc[w])
    /\ raced' = (raced \/ calc[w].known # Len(rows))
    /\ calc' = [calc EXCEPT ![w] = Idle]
    /\ UNCHANGED <<now, changes, faults>>

(* Faulty variant: the total is written outside the transaction.             *)
AbortKeepsTotal(w) ==
    /\ calc[w].pc # "idle" /\ faults > 0
    /\ faults' = faults - 1
    /\ totals' = IF calc[w].pc = "commit" THEN NewTotals(calc[w]) ELSE totals
    /\ calc' = [calc EXCEPT ![w] = Idle]
    /\ UNCHANGED <<now, changes, rows, raced>>

(* A statement fails, or the process stops: the transaction rolls back.      *)
Abort(w) ==
    /\ calc[w].pc # "idle" /\ faults > 0
    /\ faults' = faults - 1
    /\ calc' = [calc EXCEPT ![w] = Idle]
    /\ UNCHANGED <<now, changes, rows, totals, raced>>

Calculate(w) ==
    \/ Select(w) \/ ReadLast(w) \/ ReadFirst(w) \/ ReadClock(w)
    \/ ReadChanges(w) \/ ReadTotal(w) \/ Commit(w)

Next == Tick \/ Change \/ \E w \in Workers : Calculate(w) \/ Abort(w)

Spec == Init /\ [][Next]_vars

(* Time passes, and the ticker goes on ticking.                              *)
FairSpec == Spec /\ WF_vars(Tick) /\ \A w \in Tickers : WF_vars(Calculate(w))

-----------------------------------------------------------------------------
(* Properties                                                                *)

(* No moment is paid twice, ...                                              *)
RowsDisjoint ==
    \A i, j \in DOMAIN rows :
        i < j => rows[i].end <= rows[j].start \/ rows[j].end <= rows[i].start

(* ... and the user's total is the sum of the calculations, in one row.      *)
TotalIsSum ==
    IF rows = <<>> THEN totals = <<>> ELSE totals = <<SumPoints(rows)>>

(* "Locks with FOR UPDATE, against concurrency" (points_calculator.go:130,   *)
(* and 310 for the total): however many goroutines calculate, each works on  *)
(* what the one before has committed.                                        *)
CalculationsExclude == RowsDisjoint /\ TotalIsSum

(* They do as long as none commits although another has committed since it   *)
(* read the last calculation: a calculation between two others, one that     *)
(* fails and one that finds nothing to do harm nobody.                       *)
PaidOnceUnlessRaced == ~raced => RowsDisjoint

TotalIsSumUnlessRaced == ~raced => TotalIsSum

(* Whatever the race, the total the user is shown is never more than the     *)
(* calculations that are listed: a race loses points of the total.           *)
TotalWithinRows == \A i \in DOMAIN totals : totals[i] <= SumPoints(rows)

(* A row pays the balance that was held in its time, according to all the    *)
(* changes committed until today, unless one was committed too late to be    *)
(* read in its place, or two have the same timestamp.                        *)
InPlace ==
    /\ \A i \in DOMAIN changes : ~changes[i].missed
    /\ \A i, j \in DOMAIN changes : changes[i].ts = changes[j].ts => i = j

RowsPayHeldBalance ==
    InPlace => \A i \in DOMAIN rows : HoldsItsBalance(rows[i], changes, 0)

(* A user whose balance is not 0 is paid up in the end: from the end of the  *)
(* last row (or the first change), over a minute or longer but no longer     *)
(* than MaxPeriod, there is no stretch of one balance left that earns        *)
(* points.  What follows MaxPeriod without any (a balance of 0, one below 0, *)
(* or one so small that every stretch is cut off to nothing) is never paid.  *)
UnpaidFrom ==
    IF rows = <<>> THEN Min({changes[i].ts : i \in DOMAIN changes})
    ELSE Max({rows[i].end : i \in DOMAIN rows})

Earns(from, to) ==
    /\ \A i \in DOMAIN changes : changes[i].ts \notin (from + 1)..(to - 1)
    /\ HeldAt(changes, from, 0) * (to - from) >= Unit

LeftUnpaid ==
    LET start == UnpaidFrom
        end == Min({now, start + MaxPeriod})
    IN  end - start >= MinPeriod /\ \E from, to \in start..end : from < to /\ Earns(from, to)

HolderIsPaid == <>[](InPlace /\ CurrentBalance # 0 => ~LeftUnpaid)

(* buildBalancePeriods, on whatever the query of a calculation is about to   *)
(* return: the periods tile the stretch, and each has the balance that was   *)
(* held; of changes with equal timestamps the last one counts.               *)
PeriodsMatchReference ==
    \A w \in Workers : calc[w].pc = "read" =>
        LET c == calc[w] IN
        \A order \in Window(c.start, c.end) :
            /\ Tiles(Periods(order, c), c.start, c.end)
            /\ \A i \in DOMAIN Periods(order, c) :
                HoldsItsBalance(Periods(order, c)[i], Found(order), c.initial)
=============================================================================
