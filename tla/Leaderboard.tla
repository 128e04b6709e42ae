----------------------------- MODULE Leaderboard -----------------------------
(* The two ranked lists of the API: GetAllBalances in                        *)
(* controllers/balance_controller.go and GetPointsLeaderboard in             *)
(* controllers/points_controller.go.  Amounts are decimal strings in a text  *)
(* column; the list of points is ordered by their value, the list of         *)
(* balances by the text.  A balance may be negative (event_consumer.go:210   *)
(* subtracts without a floor); points are only ever added.  A client walks   *)
(* through the pages while the service goes on working.                      *)
EXTENDS Integers, Sequences, SequencesExt, FiniteSetsExt

CONSTANTS
    Users,
    MaxAmount,      \* bound on the amounts, and on the debts
    Base,           \* of the digits (10)
    Minima,         \* the values of min_balance clients name; 0: none
    Limits,         \* the limits clients ask for
    MaxLimit,       \* 100
    DefaultLimit    \* 50

ASSUME LeaderboardAssumption ==
    /\ IsFiniteSet(Users)   \* the rows of a table
    /\ MaxAmount \in Nat /\ Base \in Nat \ {0, 1}
    /\ Minima \subseteq Nat /\ 0 \in Minima
    /\ Limits \subseteq Int
    /\ MaxLimit \in Nat /\ DefaultLimit \in 1..MaxLimit

VARIABLES
    amount,    \* the column: balance, or total_points
    asked,     \* what this client asks for: [list, minimum, limit]
    page,      \* the page it asks for next
    listed,    \* what it was shown: [user, amount, page]
    changed    \* history: amounts have changed since the first page

vars == <<amount, asked, page, listed, changed>>

Request == [list : {"balances"}, minimum : Minima, limit : Limits]
             \union [list : {"points"}, minimum : {0}, limit : Limits]

Amounts == (-MaxAmount)..MaxAmount

TypeOK ==
    /\ amount \in [Users -> Amounts]
    /\ asked \in Request /\ page \in 0..(Cardinality(Users) + 1)
    /\ listed \in Seq([user : Users, amount : Amounts, page : Nat])
    /\ changed \in BOOLEAN

(* What the column of the list asked for may hold.                           *)
Column == {a \in Amounts : asked.list = "points" => a >= 0}

Init ==
    /\ asked \in Request /\ amount \in [Users -> Column]
    /\ page \in {0, 1} /\ listed = <<>> /\ changed = FALSE

-----------------------------------------------------------------------------
(* The text of an amount: its digits, and before a debt the minus sign,      *)
(* which comes before every digit, as it does in ASCII.                       *)
Digits[n \in Nat] ==
    IF n < Base THEN <<n>> ELSE Append(Digits[n \div Base], n % Base)

Minus == -1

Text(n) == IF n < 0 THEN <<Minus>> \o Digits[-n] ELSE Digits[n]

TextBefore(m, n) ==
    LET s == Text(m)
        t == Text(n)
    IN  \/ IsStrictPrefix(s, t)
        \/ \E i \in DOMAIN s \intersect DOMAIN t :
            s[i] < t[i] /\ \A k \in 1..(i - 1) : s[k] = t[k]

(* "CAST(total_points AS DECIMAL)", or the bare column.                      *)
Before(m, n) == IF asked.list = "points" THEN m < n ELSE TextBefore(m, n)

(* Faulty variant: the filter is not applied.                                *)
MatchingAll == Users

(* "balance >= ?" compares texts too; the points' list has no such filter.   *)
Matching ==
    {u \in Users : asked.minimum > 0 => ~TextBefore(amount[u], asked.minimum)}

(* "ORDER BY ... DESC": of equal values either may come first.               *)
Rankings ==
    {s \in SetToSeqs(Matching) :
        \A i, j \in DOMAIN s : i < j => ~Before(amount[s[i]], amount[s[j]])}

LimitOf(l) == IF l < 1 \/ l > MaxLimit THEN DefaultLimit ELSE l

PageOf(p) == IF p < 1 THEN 1 ELSE p

(* Faulty variants: the first page is skipped; there is a page too many.     *)
OffsetAfter(p, l) == p * l

TotalPagesAndOne(l) == Cardinality(Matching) \div l + 1

Offset(p, l) == (p - 1) * l

TotalPages(l) == (Cardinality(Matching) + l - 1) \div l

(* One request for a page.  A client of the points' list, which names no     *)
(* total, goes on until a page is empty.                                     *)
Get ==
    LET limit == LimitOf(asked.limit)
        p == PageOf(page)
    IN  /\ p <= TotalPages(limit)
        /\ \E ranking \in Rankings :
            listed' = listed \o
                [k \in 1..Min({limit, Len(ranking) - Offset(p, limit)}) |->
                    LET u == ranking[Offset(p, limit) + k]
                    IN  [user |-> u, amount |-> amount[u], page |-> p]]
        /\ page' = p + 1
        /\ UNCHANGED <<amount, asked, changed>>

(* A balance change, or a calculation of points.                             *)
Update ==
    /\ \E u \in Users, a \in Column : amount' = [amount EXCEPT ![u] = a]
    /\ changed' = (changed \/ listed # <<>>)
    /\ UNCHANGED <<asked, page, listed>>

Next == Get \/ Update

Spec == Init /\ [][Next]_vars

-----------------------------------------------------------------------------
(* Properties                                                                *)

(* The order of the texts is that of the values between numbers without a    *)
(* sign that have the same length, and between one with a sign and one       *)
(* without; of two debts it may be either, of equal length the wrong one.    *)
Comparable(m, n) ==
    \/ asked.list = "points"
    \/ IF m < 0 THEN n >= 0 ELSE n < 0 \/ Len(Digits[m]) = Len(Digits[n])

(* A page, and all of them while nothing changes, shows the amounts from the *)
(* largest to the smallest, as far as they are Comparable: the column of the *)
(* balances is there "for the leaderboard's order" (models.go:70), but it    *)
(* holds texts.                                                              *)
Snapshot(i, j) == changed => listed[i].page = listed[j].page

ListedDescending ==
    \A i, j \in DOMAIN listed :
        i < j /\ Snapshot(i, j) /\ Comparable(listed[i].amount, listed[j].amount)
            => listed[i].amount >= listed[j].amount

(* A client that has walked through the pages was shown every user that      *)
(* matches once, for whatever limit it asked, if nothing changed and no two  *)
(* users are tied.                                                           *)
NoTies == \A u, v \in Users : amount[u] = amount[v] => u = v

EveryoneListedOnce ==
    ~changed /\ NoTies /\ page > TotalPages(LimitOf(asked.limit))
        => /\ {listed[i].user : i \in DOMAIN listed} = Matching
           /\ Len(listed) = Cardinality(Matching)

(* "min_balance" (balance_controller.go:181, api_integration_test.go:244):   *)
(* nobody is listed with less, and no debtor, unless the number has another  *)
(* length.                                                                   *)
ListedHaveMinimum ==
    asked.minimum > 0 =>
        \A i \in DOMAIN listed : Comparable(listed[i].amount, asked.minimum)
            => listed[i].amount >= asked.minimum
=============================================================================
