--------------------------- MODULE BalancePeriods ---------------------------
(* The arithmetic of services/points_calculator.go: buildBalancePeriods cuts *)
(* a stretch of time into periods of constant balance, calculatePeriodPoints *)
(* gives the points of one.  Time is in moments, balances in whole tokens.   *)
EXTENDS Integers, Sequences, SequencesExt, FiniteSetsExt

(* One period, if it lasts: the code appends none of zero length.            *)
Period(from, to, balance) ==
    IF to > from
    THEN <<[start |-> from, end |-> to, balance |-> balance]>>
    ELSE <<>>

(* currentTime and currentBalance, once k changes have been looked at; the   *)
(* end of the stretch follows the last one.                                  *)
TimeAt(k, changes, start, end) ==
    IF k = 0 THEN start ELSE IF k > Len(changes) THEN end ELSE changes[k].ts

BalanceAt(k, changes, initial) == IF k = 0 THEN initial ELSE changes[k].after

(* Faulty variant: the stretch after the last change is left out.            *)
BuildWithoutLast(changes, start, end, initial) ==
    FlattenSeq([k \in 1..Len(changes) |->
        Period(TimeAt(k - 1, changes, start, end), TimeAt(k, changes, start, end),
               BalanceAt(k - 1, changes, initial))])

(* changes, records [ts, after], come ordered by timestamp, all of them in   *)
(* start..end.                                                               *)
BuildBalancePeriods(changes, start, end, initial) ==
    FlattenSeq([k \in 1..(Len(changes) + 1) |->
        Period(TimeAt(k - 1, changes, start, end), TimeAt(k, changes, start, end),
               BalanceAt(k - 1, changes, initial))])

(* balance * rate * duration, cut off below the sixth decimal: unit is the   *)
(* balance, times the moments it is held, that earns the smallest amount.    *)
PeriodPoints(balance, duration, unit) ==
    IF balance > 0 THEN (balance * duration) \div unit ELSE 0

-----------------------------------------------------------------------------
(* The reference: the balance held in the moment after t.       *)
HeldAt(changes, t, initial) ==
    LET past == {i \in DOMAIN changes : changes[i].ts <= t}
    IN  IF past = {} THEN initial
        ELSE changes[CHOOSE i \in past : \A j \in past :
                        \/ changes[j].ts < changes[i].ts
                        \/ changes[j].ts = changes[i].ts /\ j <= i].after

(* The periods tile start..end without gap or overlap.                       *)
Tiles(periods, start, end) ==
    /\ start < end => periods # <<>> /\ Head(periods).start = start
                                     /\ Last(periods).end = end
    /\ \A i \in DOMAIN periods : periods[i].start < periods[i].end
    /\ \A i \in 1..(Len(periods) - 1) : periods[i].end = periods[i + 1].start

(* In every moment the period's balance is the one held.                     *)
HoldsItsBalance(p, changes, initial) ==
    \A t \in p.start..(p.end - 1) : HeldAt(changes, t, initial) = p.balance
=============================================================================
