----------------------- MODULE PointsCalculator_proofs -----------------------
(* Proofs about the points of a user, for any balances, changes, lengths of  *)
(* a stretch, goroutines and number of faults: the types; the periods a      *)
(* stretch is cut into; that a row pays the balance that was held; that,     *)
(* until a calculation commits on top of one it has not read, no moment is   *)
(* paid twice and the total is the sum; and that the total is never more.    *)
EXTENDS PointsCalculator, SequenceTheorems, FunctionTheorems, FiniteSetTheorems,
        WellFoundedInduction, TLAPS

-----------------------------------------------------------------------------
(* Induction, as a fact about sets: every set of naturals has a least        *)
(* element.                                                                  *)
LEMMA LeastNatural ==
    ASSUME NEW T, T \subseteq Nat, T # {}
    PROVE  \E x \in T : \A y \in T : x <= y
<1> DEFINE R == {p \in Nat \X Nat : p[1] < p[2]}
<1>1. IsWellFoundedOn(R, Nat)
  BY NatLessThanWellFounded DEF OpToRel
<1> HIDE DEF R
<1>2. PICK x \in T : \A y \in T : <<y, x>> \notin R
  BY <1>1, WFMin, Zenon
<1>3. \A y \in T : ~(y < x)
  BY <1>2 DEF R
<1> QED BY <1>2, <1>3

LEMMA InductiveSet ==
    ASSUME NEW S, 0 \in S, \A n \in Nat : n \in S => n + 1 \in S
    PROVE  Nat \subseteq S
<1> SUFFICES ASSUME Nat \ S # {} PROVE FALSE
  OBVIOUS
<1>1. PICK x \in Nat \ S : \A y \in Nat \ S : x <= y
  BY LeastNatural
<1>2. x # 0 /\ x - 1 \in Nat
  BY <1>1
<1>3. x - 1 \in S
  BY <1>1, <1>2
<1> QED BY <1>1, <1>2, <1>3

-----------------------------------------------------------------------------
(* FlattenSeq of a sequence of pieces that are empty or hold one element: it *)
(* holds what the pieces hold, in their order.  m says from which piece each *)
(* element of r is.                                                          *)
Pieces(pieces, n, T) ==
    /\ n \in Nat
    /\ \A k \in 1..n : pieces[k] \in Seq(T) /\ Len(pieces[k]) <= 1

PickedBy(m, r, pieces, n) ==
    /\ m \in [1..Len(r) -> 1..n]
    /\ \A j \in 1..Len(r) : pieces[m[j]] = <<r[j]>>
    /\ \A i, j \in 1..Len(r) : i < j => m[i] < m[j]
    /\ \A k \in 1..n : pieces[k] # <<>> => \E j \in 1..Len(r) : m[j] = k

LEMMA LastOrBefore ==
    ASSUME NEW n \in Nat, NEW k \in 1..(n + 1)
    PROVE  k = n + 1 \/ k \in 1..n
OBVIOUS

LEMMA PickOne ==
    ASSUME NEW T, NEW n \in Nat, NEW pieces, Pieces(pieces, n + 1, T),
           NEW r \in Seq(T), NEW m, PickedBy(m, r, pieces, n)
    PROVE  /\ r \o pieces[n + 1] \in Seq(T)
           /\ \E l : PickedBy(l, r \o pieces[n + 1], pieces, n + 1)
<1>1. Len(r) \in Nat /\ pieces[n + 1] \in Seq(T) /\ Len(pieces[n + 1]) \in 0..1
  <2>1. n + 1 \in 1..(n + 1)
    OBVIOUS
  <2>2. pieces[n + 1] \in Seq(T) /\ Len(pieces[n + 1]) <= 1
    BY <2>1 DEF Pieces
  <2>3. Len(pieces[n + 1]) \in Nat /\ Len(r) \in Nat
    BY <2>2, LenProperties
  <2>4. \A k \in Nat : k <= 1 => k \in 0..1
    OBVIOUS
  <2> QED BY <2>2, <2>3, <2>4
<1>2. r \o pieces[n + 1] \in Seq(T)
  BY <1>1
<1>3. CASE pieces[n + 1] = <<>>
  <2>1. r \o pieces[n + 1] = r
    BY <1>1, <1>3
  <2>2. PickedBy(m, r, pieces, n + 1)
    BY <1>1, <1>3 DEF PickedBy
  <2> QED BY <1>2, <2>1, <2>2
<1>4. CASE pieces[n + 1] # <<>>
  <2>1. PICK x \in T : pieces[n + 1] = <<x>>
    <3> DEFINE p == pieces[n + 1]
    <3> HIDE DEF p
    <3>1. p \in Seq(T) /\ Len(p) \in 0..1 /\ p # <<>>
      BY <1>1, <1>4 DEF p
    <3>2. Len(p) = 1
      BY <3>1
    <3>3. p[1] \in T /\ p = <<p[1]>>
      BY <3>1, <3>2
    <3> QED BY <3>3 DEF p
  <2> DEFINE q == r \o pieces[n + 1]
             l == [j \in 1..(Len(r) + 1) |-> IF j = Len(r) + 1 THEN n + 1 ELSE m[j]]
  <2>2. /\ Len(q) = Len(r) + 1 /\ q[Len(r) + 1] = x
        /\ \A j \in 1..Len(r) : q[j] = r[j]
    BY <1>1, <2>1
  <2> HIDE DEF q
  <2>3. l \in [1..Len(q) -> 1..(n + 1)]
    BY <1>1, <2>2 DEF PickedBy
  <2>4. ASSUME NEW j \in 1..Len(q) PROVE pieces[l[j]] = <<q[j]>>
    <3>1. CASE j = Len(r) + 1
      BY <1>1, <2>1, <2>2, <3>1
    <3>2. CASE j \in 1..Len(r)
      <4>1. l[j] = m[j] /\ q[j] = r[j]
        BY <1>1, <2>2, <3>2
      <4> QED BY <3>2, <4>1 DEF PickedBy
    <3> QED BY <1>1, <2>2, <3>1, <3>2
  <2>5. ASSUME NEW i \in 1..Len(q), NEW j \in 1..Len(q), i < j
        PROVE  l[i] < l[j]
    <3>1. i \in 1..Len(r) /\ l[i] = m[i] /\ m[i] \in 1..n
      BY <1>1, <2>2, <2>5 DEF PickedBy
    <3>2. CASE j = Len(r) + 1
      BY <2>2, <3>1, <3>2
    <3>3. CASE j \in 1..Len(r)
      <4>1. m[i] < m[j]
        BY <2>5, <3>1, <3>3 DEF PickedBy
      <4>2. l[j] = m[j]
        BY <1>1, <2>2, <3>3
      <4> QED BY <3>1, <4>1, <4>2
    <3> QED BY <1>1, <2>2, <3>2, <3>3
  <2>6. \A k \in 1..(n + 1) : pieces[k] # <<>> => \E j \in 1..Len(q) : l[j] = k
    <3> SUFFICES ASSUME NEW k \in 1..(n + 1), pieces[k] # <<>>
                 PROVE  \E j \in 1..Len(q) : l[j] = k
      OBVIOUS
    <3>1. CASE k = n + 1
      BY <1>1, <2>2, <3>1
    <3>2. CASE k \in 1..n
      <4>1. PICK j \in 1..Len(r) : m[j] = k
        BY <3>2 DEF PickedBy
      <4> QED BY <1>1, <2>2, <4>1
    <3>3. k = n + 1 \/ k \in 1..n
      BY LastOrBefore
    <3> QED BY <3>1, <3>2, <3>3
  <2> HIDE DEF l
  <2>7. PickedBy(l, q, pieces, n + 1)
    BY <2>3, <2>4, <2>5, <2>6 DEF PickedBy
  <2> QED BY <1>2, <2>7 DEF q
<1> QED BY <1>3, <1>4

(* flatten, the recursive function of FlattenSeq, is one.                    *)
Chained(f, pieces, n) ==
    \A i \in 1..n : f[i] = IF i = 1 THEN pieces[i] ELSE f[i - 1] \o pieces[i]

Flattens(f, pieces, last, T) ==
    /\ f \in [1..last -> Seq(T)]
    /\ Chained(f, pieces, last)

LEMMA FlattenExists ==
    ASSUME NEW T, NEW n \in Nat, NEW pieces \in [1..n -> Seq(T)]
    PROVE  \E f : Flattens(f, pieces, n, T)
<1> DEFINE P == {last \in Nat : last <= n => \E f : Flattens(f, pieces, last, T)}
<1>1. 0 \in P
  <2>1. Flattens([i \in 1..0 |-> <<>>], pieces, 0, T)
    BY DEF Flattens, Chained
  <2> QED BY <2>1
<1>2. ASSUME NEW last \in Nat, last \in P PROVE last + 1 \in P
  <2> SUFFICES ASSUME last + 1 <= n
               PROVE  \E g : Flattens(g, pieces, last + 1, T)
    OBVIOUS
  <2>1. PICK f : Flattens(f, pieces, last, T)
    BY <1>2
  <2> DEFINE next == IF last = 0 THEN pieces[1] ELSE f[last] \o pieces[last + 1]
             g == [i \in 1..(last + 1) |-> IF i = last + 1 THEN next ELSE f[i]]
  <2>2. next \in Seq(T)
    <3>1. pieces[last + 1] \in Seq(T)
      OBVIOUS
    <3>2. last # 0 => f[last] \in Seq(T)
      BY <2>1 DEF Flattens, Chained
    <3> QED BY <3>1, <3>2
  <2> HIDE DEF next
  <2>3. g \in [1..(last + 1) -> Seq(T)]
    BY <2>1, <2>2 DEF Flattens, Chained
  <2>4. ASSUME NEW i \in 1..(last + 1)
        PROVE  g[i] = IF i = 1 THEN pieces[i] ELSE g[i - 1] \o pieces[i]
    <3>1. CASE i = last + 1
      <4>1. g[last + 1] = next
        OBVIOUS
      <4>2. last # 0 => g[last] = f[last]
        OBVIOUS
      <4>3. next = IF last = 0 THEN pieces[1] ELSE f[last] \o pieces[last + 1]
        BY DEF next
      <4> HIDE DEF g
      <4>4. CASE last = 0
        BY <3>1, <4>1, <4>3, <4>4
      <4>5. CASE last # 0
        <5>1. i # 1 /\ i - 1 = last
          BY <3>1, <4>5
        <5> QED BY <3>1, <4>1, <4>2, <4>3, <4>5, <5>1
      <4> QED BY <4>4, <4>5
    <3>2. CASE i \in 1..last
      <4>1. g[i] = f[i] /\ (i # 1 => g[i - 1] = f[i - 1])
        BY <3>2
      <4> HIDE DEF g
      <4> QED BY <2>1, <3>2, <4>1 DEF Flattens, Chained
    <3> QED BY <3>1, <3>2
  <2>5. Flattens(g, pieces, last + 1, T)
    BY <2>3, <2>4 DEF Flattens, Chained
  <2> QED BY <2>5
<1> HIDE DEF P
<1>3. Nat \subseteq P
  BY <1>1, <1>2, InductiveSet
<1> QED BY <1>3 DEF P

LEMMA FlattenPicks ==
    ASSUME NEW T, NEW n \in Nat, n # 0, NEW pieces, Pieces(pieces, n, T),
           NEW f, Chained(f, pieces, n)
    PROVE  f[n] \in Seq(T) /\ \E m : PickedBy(m, f[n], pieces, n)
<1> DEFINE P == {last \in Nat : last + 1 <= n =>
                    /\ f[last + 1] \in Seq(T)
                    /\ \E m : PickedBy(m, f[last + 1], pieces, last + 1)}
<1>1. 0 \in P
  <2>1. Pieces(pieces, 1, T) /\ f[1] = pieces[1] /\ pieces[1] \in Seq(T)
    BY DEF Pieces, Chained
  <2>2. PickedBy([j \in 1..0 |-> 1], <<>>, pieces, 0)
    BY DEF PickedBy
  <2>3. /\ <<>> \o pieces[1] \in Seq(T)
        /\ \E m : PickedBy(m, <<>> \o pieces[1], pieces, 1)
    BY <2>1, <2>2, PickOne, 0 + 1 = 1, <<>> \in Seq(T)
  <2>4. <<>> \o pieces[1] = pieces[1]
    BY <2>1
  <2> QED BY <2>1, <2>3, <2>4
<1>2. ASSUME NEW last \in Nat, last \in P PROVE last + 1 \in P
  <2> SUFFICES ASSUME last + 2 <= n
               PROVE  /\ f[last + 2] \in Seq(T)
                      /\ \E m : PickedBy(m, f[last + 2], pieces, last + 2)
    OBVIOUS
  <2>1. PICK m : PickedBy(m, f[last + 1], pieces, last + 1)
    BY <1>2
  <2>2. f[last + 1] \in Seq(T) /\ last + 1 \in Nat /\ (last + 1) + 1 = last + 2
    BY <1>2
  <2>3. Pieces(pieces, last + 2, T)
    <3>1. ASSUME NEW k \in 1..(last + 2)
          PROVE  pieces[k] \in Seq(T) /\ Len(pieces[k]) <= 1
      BY DEF Pieces
    <3> QED BY <3>1 DEF Pieces
  <2>4. f[last + 2] = f[last + 1] \o pieces[last + 2]
    <3>1. last + 2 \in 1..n /\ last + 2 # 1 /\ (last + 2) - 1 = last + 1
      OBVIOUS
    <3> HIDE DEF P
    <3>2. f[last + 2] = f[(last + 2) - 1] \o pieces[last + 2]
      BY <3>1 DEF Chained
    <3> QED BY <3>1, <3>2
  <2> QED BY <2>1, <2>2, <2>3, <2>4, PickOne
<1> HIDE DEF P
<1>3. Nat \subseteq P
  BY <1>1, <1>2, InductiveSet
<1>4. n - 1 \in P
  BY <1>3
<1> QED BY <1>4 DEF P

LEMMA FlattenSeqPicks ==
    ASSUME NEW T, NEW n \in Nat, NEW pieces \in [1..n -> Seq(T)],
           \A k \in 1..n : Len(pieces[k]) <= 1
    PROVE  /\ FlattenSeq(pieces) \in Seq(T)
           /\ \E m : PickedBy(m, FlattenSeq(pieces), pieces, n)
<1>1. pieces \in Seq(Seq(T)) /\ Len(pieces) = n
  BY SeqDef
<1>2. CASE n = 0
  <2>1. FlattenSeq(pieces) = <<>>
    BY <1>1, <1>2 DEF FlattenSeq
  <2>2. PickedBy([j \in 1..0 |-> 1], <<>>, pieces, n)
    BY <1>2 DEF PickedBy
  <2> QED BY <2>1, <2>2
<1>3. CASE n # 0
  <2> DEFINE Next1(f) == [i \in 1..n |-> IF i = 1 THEN pieces[i]
                                                   ELSE f[i - 1] \o pieces[i]]
             flatten == CHOOSE f : f = Next1(f)
  <2>1. FlattenSeq(pieces) = flatten[n]
    BY <1>1, <1>3, Zenon DEF FlattenSeq
  <2>2. \E f : f = Next1(f)
    <3>1. PICK f : Flattens(f, pieces, n, T)
      BY FlattenExists
    <3>2. f = Next1(f)
      BY <3>1 DEF Flattens, Chained
    <3> QED BY <3>2
  <2>3. flatten = Next1(flatten)
    BY <2>2
  <2> HIDE DEF flatten
  <2>4. Chained(flatten, pieces, n)
    BY <2>3 DEF Chained
  <2>5. Pieces(pieces, n, T)
    BY DEF Pieces
  <2> QED BY <1>3, <2>1, <2>4, <2>5, FlattenPicks
<1> QED BY <1>2, <1>3

-----------------------------------------------------------------------------
(* buildBalancePeriods, for any stretch and any changes in it, ordered by    *)
(* their timestamps.                                                         *)
Stretch(ch, start, end, initial, B) ==
    /\ start \in Int /\ end \in Int /\ start <= end /\ initial \in B
    /\ Len(ch) \in Nat /\ DOMAIN ch = 1..Len(ch)
    /\ \A k \in 1..Len(ch) : ch[k].ts \in start..end /\ ch[k].after \in B
    /\ \A j, k \in 1..Len(ch) : j < k => ch[j].ts <= ch[k].ts

PeriodOf(B) == [start : Int, end : Int, balance : B]

LEMMA TimesRise ==
    ASSUME NEW ch, NEW start, NEW end, NEW initial, NEW B,
           Stretch(ch, start, end, initial, B)
    PROVE  /\ \A k \in 0..(Len(ch) + 1) : TimeAt(k, ch, start, end) \in start..end
           /\ \A j, k \in 0..(Len(ch) + 1) :
                j <= k => TimeAt(j, ch, start, end) <= TimeAt(k, ch, start, end)
           /\ TimeAt(0, ch, start, end) = start
           /\ TimeAt(Len(ch) + 1, ch, start, end) = end
           /\ \A k \in 1..(Len(ch) + 1) : BalanceAt(k - 1, ch, initial) \in B
<1> USE DEF Stretch
<1>1. \A k \in 0..(Len(ch) + 1) : TimeAt(k, ch, start, end) \in start..end
  BY DEF TimeAt
<1>2. ASSUME NEW j \in 0..(Len(ch) + 1), NEW k \in 0..(Len(ch) + 1), j <= k
      PROVE  TimeAt(j, ch, start, end) <= TimeAt(k, ch, start, end)
  BY <1>2 DEF TimeAt
<1>3. /\ TimeAt(0, ch, start, end) = start
      /\ TimeAt(Len(ch) + 1, ch, start, end) = end
  BY DEF TimeAt
<1>4. ASSUME NEW k \in 1..(Len(ch) + 1) PROVE BalanceAt(k - 1, ch, initial) \in B
  BY DEF BalanceAt
<1> QED BY <1>1, <1>2, <1>3, <1>4

(* m is the number of the cut each period is.                                *)
CutsOf(m, periods, ch, start, end, initial) ==
    /\ m \in [1..Len(periods) -> 1..(Len(ch) + 1)]
    /\ \A j \in 1..Len(periods) :
        /\ TimeAt(m[j] - 1, ch, start, end) < TimeAt(m[j], ch, start, end)
        /\ periods[j] = [start   |-> TimeAt(m[j] - 1, ch, start, end),
                         end     |-> TimeAt(m[j], ch, start, end),
                         balance |-> BalanceAt(m[j] - 1, ch, initial)]
    /\ \A i, j \in 1..Len(periods) : i < j => m[i] < m[j]
    /\ \A k \in 1..(Len(ch) + 1) :
        TimeAt(k - 1, ch, start, end) < TimeAt(k, ch, start, end)
            => \E j \in 1..Len(periods) : m[j] = k

LEMMA PeriodsAreCuts ==
    ASSUME NEW ch, NEW start, NEW end, NEW initial, NEW B,
           Stretch(ch, start, end, initial, B)
    PROVE  LET periods == BuildBalancePeriods(ch, start, end, initial)
           IN  /\ periods \in Seq(PeriodOf(B))
               /\ \E m : CutsOf(m, periods, ch, start, end, initial)
<1> DEFINE n == Len(ch) + 1
           T(k) == TimeAt(k, ch, start, end)
           P(k) == [start |-> T(k - 1), end |-> T(k),
                    balance |-> BalanceAt(k - 1, ch, initial)]
           pieces == [k \in 1..n |-> Period(T(k - 1), T(k), BalanceAt(k - 1, ch, initial))]
           periods == FlattenSeq(pieces)
<1>1. n \in Nat
  BY DEF Stretch
<1> HIDE DEF P, T, pieces
<1>2. ASSUME NEW k \in 1..n
      PROVE  /\ pieces[k] = IF T(k) > T(k - 1) THEN <<P(k)>> ELSE <<>>
             /\ T(k) \in Int /\ T(k - 1) \in Int /\ P(k) \in PeriodOf(B)
  <2>1. k \in 0..(Len(ch) + 1) /\ k - 1 \in 0..(Len(ch) + 1)
    BY DEF Stretch
  <2>2. T(k) \in start..end /\ T(k - 1) \in start..end
    BY <2>1, TimesRise DEF T
  <2>3. T(k) \in Int /\ T(k - 1) \in Int
    BY <2>2 DEF Stretch
  <2>4. BalanceAt(k - 1, ch, initial) \in B
    BY TimesRise
  <2>5. P(k) \in PeriodOf(B)
    BY <2>3, <2>4 DEF P, PeriodOf
  <2>6. pieces[k] = IF T(k) > T(k - 1) THEN <<P(k)>> ELSE <<>>
    BY DEF pieces, P, Period
  <2> QED BY <2>3, <2>5, <2>6
<1>3. ASSUME NEW k \in 1..n
      PROVE  pieces[k] \in Seq(PeriodOf(B)) /\ Len(pieces[k]) <= 1
  <2>1. P(k) \in PeriodOf(B) /\ (pieces[k] = <<P(k)>> \/ pieces[k] = <<>>)
    BY <1>2
  <2>2. \A x \in PeriodOf(B) : <<x>> \in Seq(PeriodOf(B)) /\ Len(<<x>>) <= 1
    OBVIOUS
  <2>3. <<>> \in Seq(PeriodOf(B)) /\ Len(<<>>) <= 1
    OBVIOUS
  <2> QED BY <2>1, <2>2, <2>3
<1>4. pieces \in [1..n -> Seq(PeriodOf(B))]
  BY <1>3 DEF pieces
<1> HIDE DEF n
<1>5. periods \in Seq(PeriodOf(B)) /\ \E m : PickedBy(m, periods, pieces, n)
  BY <1>1, <1>3, <1>4, FlattenSeqPicks
<1>6. PICK m : PickedBy(m, periods, pieces, n)
  BY <1>5
<1> HIDE DEF periods
<1>7. ASSUME NEW j \in 1..Len(periods)
      PROVE  T(m[j] - 1) < T(m[j]) /\ periods[j] = P(m[j])
  <2>1. m[j] \in 1..n /\ pieces[m[j]] = <<periods[j]>>
    BY <1>6 DEF PickedBy
  <2>2. pieces[m[j]] # <<>>
    BY <2>1
  <2>3. T(m[j]) > T(m[j] - 1) /\ <<P(m[j])>> = <<periods[j]>>
    BY <1>2, <2>1, <2>2
  <2> QED BY <1>2, <2>1, <2>3
<1>8. ASSUME NEW k \in 1..n, T(k - 1) < T(k)
      PROVE  \E j \in 1..Len(periods) : m[j] = k
  <2>1. pieces[k] = <<P(k)>>
    BY <1>2, <1>8
  <2>2. pieces[k] # <<>>
    BY <2>1
  <2> QED BY <1>6, <2>2 DEF PickedBy
<1>9. CutsOf(m, periods, ch, start, end, initial)
  BY <1>6, <1>7, <1>8 DEF CutsOf, PickedBy, n, P, T
<1>10. BuildBalancePeriods(ch, start, end, initial) = periods
  BY DEF BuildBalancePeriods, periods, pieces, T, n
<1> QED BY <1>5, <1>9, <1>10

(* Where time passes between two cuts, a period starts at the first of them. *)
LEMMA CutBetween ==
    ASSUME NEW ch, NEW start, NEW end, NEW initial, NEW B,
           Stretch(ch, start, end, initial, B),
           NEW periods, Len(periods) \in Nat,
           NEW m, CutsOf(m, periods, ch, start, end, initial),
           NEW a \in 0..(Len(ch) + 1), NEW b \in 0..(Len(ch) + 1),
           TimeAt(a, ch, start, end) < TimeAt(b, ch, start, end)
    PROVE  \E j \in 1..Len(periods) : a < m[j] /\ m[j] <= b
<1> DEFINE T(k) == TimeAt(k, ch, start, end)
           S == {k \in Nat : a < k /\ k <= b /\ T(a) < T(k)}
<1>1. /\ Len(ch) \in Nat
      /\ \A k \in 0..(Len(ch) + 1) : T(k) \in Int
      /\ \A j, k \in 0..(Len(ch) + 1) : j <= k => T(j) <= T(k)
  <2>1. Len(ch) \in Nat /\ start \in Int /\ end \in Int
    BY DEF Stretch
  <2>2. ASSUME NEW k \in 0..(Len(ch) + 1) PROVE T(k) \in Int
    <3>1. T(k) \in start..end
      BY TimesRise
    <3> QED BY <2>1, <3>1
  <2>3. \A j, k \in 0..(Len(ch) + 1) : j <= k => T(j) <= T(k)
    BY TimesRise
  <2> QED BY <2>1, <2>2, <2>3
<1> HIDE DEF T
<1>2. a < b
  BY <1>1 DEF T
<1>3. b \in S
  BY <1>1, <1>2 DEF T
<1>4. PICK k \in S : \A l \in S : k <= l
  <2>1. S \subseteq Nat /\ S # {}
    BY <1>3
  <2> HIDE DEF S
  <2> QED BY <2>1, LeastNatural
<1>5. k \in 1..(Len(ch) + 1) /\ k - 1 \in 0..(Len(ch) + 1) /\ a <= k - 1 /\ k <= b
  BY <1>1, <1>4
<1>6. T(k - 1) <= T(a)
  <2>1. CASE k - 1 = a
    BY <1>1, <2>1
  <2>2. CASE a < k - 1
    <3>1. k - 1 \notin S
      BY <1>4, <1>5
    <3>2. ~(T(a) < T(k - 1))
      BY <1>4, <1>5, <2>2, <3>1
    <3> QED BY <1>1, <1>5, <3>2
  <2> QED BY <1>5, <2>1, <2>2
<1>7. T(k - 1) < T(k)
  <2>1. T(a) < T(k)
    BY <1>4
  <2> QED BY <1>1, <1>5, <1>6, <2>1
<1>8. PICK j \in 1..Len(periods) : m[j] = k
  BY <1>5, <1>7 DEF CutsOf, T
<1> QED BY <1>4, <1>8

(* The periods tile the stretch.                                             *)
LEMMA PeriodsTile ==
    ASSUME NEW ch, NEW start, NEW end, NEW initial, NEW B,
           Stretch(ch, start, end, initial, B),
           NEW periods \in Seq(PeriodOf(B)),
           NEW m, CutsOf(m, periods, ch, start, end, initial)
    PROVE  Tiles(periods, start, end)
<1> DEFINE T(k) == TimeAt(k, ch, start, end)
           n == Len(ch) + 1
           L == Len(periods)
<1>1. /\ n \in Nat /\ L \in Nat /\ DOMAIN periods = 1..L
      /\ \A k \in 0..n : T(k) \in Int
      /\ \A j, k \in 0..n : j <= k => T(j) <= T(k)
      /\ T(0) = start /\ T(n) = end
  <2>1. Len(ch) \in Nat /\ start \in Int /\ end \in Int
    BY DEF Stretch
  <2>2. ASSUME NEW k \in 0..n PROVE T(k) \in Int
    <3>1. T(k) \in start..end
      BY TimesRise
    <3> QED BY <2>1, <3>1
  <2>3. \A j, k \in 0..n : j <= k => T(j) <= T(k)
    BY TimesRise
  <2>4. T(0) = start /\ T(n) = end
    BY TimesRise
  <2>5. L \in Nat /\ DOMAIN periods = 1..L
    BY LenProperties
  <2> QED BY <2>1, <2>2, <2>3, <2>4, <2>5
<1>2. /\ \A j \in 1..L : m[j] \in 1..n /\ m[j] \in 0..n /\ m[j] - 1 \in 0..n
      /\ \A j \in 1..L : T(m[j] - 1) < T(m[j])
      /\ \A j \in 1..L : periods[j].start = T(m[j] - 1) /\ periods[j].end = T(m[j])
      /\ \A i, j \in 1..L : i < j => m[i] < m[j]
  <2>1. \A j \in 1..L : m[j] \in 1..n
    BY DEF CutsOf
  <2> QED BY <1>1, <2>1 DEF CutsOf
<1>3. ASSUME NEW a \in 0..n, NEW b \in 0..n, T(a) < T(b)
      PROVE  \E j \in 1..L : a < m[j] /\ m[j] <= b
  BY <1>1, <1>3, CutBetween
<1> HIDE DEF T, n, L
<1>4. ASSUME start < end
      PROVE  periods # <<>> /\ Head(periods).start = start /\ Last(periods).end = end
  <2>1. PICK j \in 1..L : 0 < m[j]
    BY <1>1, <1>3, <1>4
  <2>2. /\ 1 \in 1..L /\ L \in 1..L /\ periods # <<>>
        /\ Head(periods) = periods[1] /\ Last(periods) = periods[L]
    BY <1>1, <2>1 DEF L, Last
  <2>3. T(m[1] - 1) = start
    <3> SUFFICES ASSUME T(0) < T(m[1] - 1) PROVE FALSE
      BY <1>1, <1>2, <2>2
    <3> DEFINE b == m[1] - 1
    <3>0. 0 \in 0..n /\ b \in 0..n
      BY <1>1, <1>2, <2>2
    <3> HIDE DEF b
    <3>1. PICK i \in 1..L : m[i] <= b
      BY <1>3, <3>0 DEF b
    <3>2. i = 1 \/ 1 < i
      BY <1>1
    <3>3. m[1] <= m[i] /\ m[1] \in 1..n /\ m[i] \in 1..n
      BY <1>2, <2>2, <3>2
    <3> QED BY <1>1, <3>1, <3>3 DEF b
  <2>4. T(m[L]) = end
    <3> SUFFICES ASSUME T(m[L]) < T(n) PROVE FALSE
      BY <1>1, <1>2, <2>2
    <3>1. PICK i \in 1..L : m[L] < m[i]
      BY <1>1, <1>2, <1>3, <2>2
    <3>2. i = L \/ i < L
      BY <1>1
    <3> QED BY <1>1, <1>2, <2>2, <3>1, <3>2
  <2> QED BY <1>2, <2>2, <2>3, <2>4
<1>5. ASSUME NEW i \in 1..(L - 1)
      PROVE  periods[i].end = periods[i + 1].start
  <2>1. i \in 1..L /\ i + 1 \in 1..L /\ i < i + 1
    BY <1>1
  <2>2. m[i] < m[i + 1]
    BY <1>2, <2>1
  <2>3. T(m[i]) <= T(m[i + 1] - 1)
    BY <1>1, <1>2, <2>1, <2>2
  <2>4. ~(T(m[i]) < T(m[i + 1] - 1))
    <3> SUFFICES ASSUME T(m[i]) < T(m[i + 1] - 1) PROVE FALSE
      OBVIOUS
    <3>1. PICK j \in 1..L : m[i] < m[j] /\ m[j] <= m[i + 1] - 1
      BY <1>2, <1>3, <2>1
    <3>2. j <= i \/ i + 1 <= j
      BY <1>1, <2>1
    <3>3. m[j] \in 1..n /\ m[i] \in 1..n /\ m[i + 1] \in 1..n
      BY <1>2, <2>1
    <3>4. j <= i => m[j] <= m[i]
      BY <1>2, <2>1, <3>3
    <3>5. i + 1 <= j => m[i + 1] <= m[j]
      BY <1>2, <2>1, <3>3
    <3>6. m[j] \in Int /\ m[i] \in Int /\ m[i + 1] \in Int
      BY <1>1, <3>3
    <3>7. ~(m[j] <= m[i]) /\ ~(m[i + 1] <= m[j])
      BY <3>1, <3>6
    <3> QED BY <3>2, <3>4, <3>5, <3>7
  <2>5. T(m[i]) \in Int /\ T(m[i + 1] - 1) \in Int
    BY <1>1, <1>2, <2>1
  <2>6. T(m[i]) = T(m[i + 1] - 1)
    BY <2>3, <2>4, <2>5
  <2> QED BY <1>2, <2>1, <2>6
<1>6. \A i \in 1..L : periods[i].start < periods[i].end
  BY <1>2
<1> QED BY <1>1, <1>4, <1>5, <1>6 DEF Tiles, L

(* In a period, the balance is the one the changes left.                     *)
LEMMA CutHolds ==
    ASSUME NEW ch, NEW start, NEW end, NEW initial, NEW B,
           Stretch(ch, start, end, initial, B),
           NEW k \in 1..(Len(ch) + 1), NEW t \in Int,
           TimeAt(k - 1, ch, start, end) <= t, t < TimeAt(k, ch, start, end)
    PROVE  HeldAt(ch, t, initial) = BalanceAt(k - 1, ch, initial)
<1> DEFINE T(i) == TimeAt(i, ch, start, end)
           past == {i \in DOMAIN ch : ch[i].ts <= t}
           Latest(i) == \A j \in past : \/ ch[j].ts < ch[i].ts
                                        \/ ch[j].ts = ch[i].ts /\ j <= i
<1>1. /\ Len(ch) \in Nat /\ DOMAIN ch = 1..Len(ch)
      /\ \A i \in 1..Len(ch) : T(i) = ch[i].ts /\ T(i) \in Int
      /\ \A i, j \in 0..(Len(ch) + 1) : i <= j => T(i) <= T(j)
  <2>1. Len(ch) \in Nat /\ DOMAIN ch = 1..Len(ch)
    BY DEF Stretch
  <2>2. \A i \in 1..Len(ch) : T(i) = ch[i].ts /\ T(i) \in Int
    BY DEF Stretch, TimeAt
  <2>3. \A i, j \in 0..(Len(ch) + 1) : i <= j => T(i) <= T(j)
    BY TimesRise
  <2> QED BY <2>1, <2>2, <2>3
<1>2. k \in 0..(Len(ch) + 1) /\ k - 1 \in 0..(Len(ch) + 1) /\ T(k - 1) \in Int /\ T(k) \in Int
  <2>1. k \in 0..(Len(ch) + 1) /\ k - 1 \in 0..(Len(ch) + 1)
    BY <1>1
  <2>2. T(k) \in start..end /\ T(k - 1) \in start..end
    BY <2>1, TimesRise
  <2> QED BY <2>1, <2>2 DEF Stretch
<1> HIDE DEF T
<1>3. past = 1..(k - 1)
  <2>1. ASSUME NEW i \in 1..Len(ch) PROVE ch[i].ts <= t <=> i <= k - 1
    <3>1. i \in 0..(Len(ch) + 1) /\ T(i) = ch[i].ts /\ T(i) \in Int
      BY <1>1
    <3>2. i <= k - 1 => T(i) <= T(k - 1)
      BY <1>1, <1>2, <3>1
    <3>3. ~(i <= k - 1) => T(k) <= T(i)
      BY <1>1, <1>2, <3>1
    <3> QED BY <1>2, <3>1, <3>2, <3>3 DEF T
  <2>2. k - 1 <= Len(ch) /\ k - 1 \in Nat
    BY <1>1
  <2> QED BY <1>1, <2>1, <2>2
<1>4. CASE k = 1
  <2>1. past = {}
    BY <1>3, <1>4
  <2>2. HeldAt(ch, t, initial) = initial
    BY <2>1 DEF HeldAt
  <2> QED BY <1>4, <2>2 DEF BalanceAt
<1>5. CASE k # 1
  <2>1. k - 1 \in past /\ past # {} /\ past \subseteq 1..Len(ch)
    BY <1>1, <1>2, <1>3, <1>5
  <2>2. HeldAt(ch, t, initial) = ch[CHOOSE i \in past : Latest(i)].after
    BY <2>1 DEF HeldAt
  <2>3. ASSUME NEW i \in past, NEW j \in past, i <= j PROVE ch[i].ts <= ch[j].ts
    <3>1. i \in 1..Len(ch) /\ j \in 1..Len(ch) /\ T(i) = ch[i].ts /\ T(j) = ch[j].ts
      BY <1>1, <2>1
    <3>2. T(i) <= T(j)
      BY <1>1, <2>3, <3>1
    <3> QED BY <3>1, <3>2
  <2>4. Latest(k - 1)
    BY <1>1, <1>3, <2>1, <2>3
  <2> HIDE DEF past
  <2>5. ASSUME NEW i \in past, Latest(i) PROVE i = k - 1
    <3>1. i <= k - 1 /\ ch[i].ts <= ch[k - 1].ts /\ i \in 1..Len(ch) /\ k - 1 \in 1..Len(ch)
      BY <1>3, <2>1, <2>3
    <3>2. ch[k - 1].ts < ch[i].ts \/ (ch[k - 1].ts = ch[i].ts /\ k - 1 <= i)
      BY <2>1, <2>5
    <3>3. ch[i].ts \in Int /\ ch[k - 1].ts \in Int
      BY <1>1, <3>1
    <3> QED BY <1>1, <3>1, <3>2, <3>3
  <2> HIDE DEF Latest
  <2>6. (CHOOSE i \in past : Latest(i)) = k - 1
    BY <2>1, <2>4, <2>5, Zenon
  <2>7. HeldAt(ch, t, initial) = ch[k - 1].after
    BY <2>2, <2>6, Zenon
  <2>8. BalanceAt(k - 1, ch, initial) = ch[k - 1].after
    BY <1>5 DEF BalanceAt
  <2> QED BY <2>7, <2>8
<1> QED BY <1>4, <1>5
-----------------------------------------------------------------------------
(* The query of a calculation returns every change of its window, each one   *)
(* once, in the order of their timestamps.                                   *)
ChangeOf == [ts : 0..MaxTime, after : Balances, missed : BOOLEAN]

Timed == changes \in Seq(ChangeOf)

InWindow(start, end) == {i \in DOMAIN changes : changes[i].ts \in start..end}

LEMMA ChangesTyped ==
    ASSUME Timed
    PROVE  /\ Len(changes) \in Nat /\ DOMAIN changes = 1..Len(changes)
           /\ \A i \in DOMAIN changes : /\ changes[i] \in ChangeOf
                                        /\ changes[i].ts \in 0..MaxTime
                                        /\ changes[i].ts \in Int
                                        /\ changes[i].after \in Balances
<1>1. Len(changes) \in Nat /\ DOMAIN changes = 1..Len(changes)
  BY DEF Timed
<1>2. ASSUME NEW i \in DOMAIN changes
      PROVE  changes[i] \in ChangeOf
  BY <1>1, ElementOfSeq DEF Timed
<1>3. MaxTime \in Nat
  BY PointsAssumption DEF PointsAssumption
<1> QED BY <1>1, <1>2, <1>3 DEF ChangeOf

LEMMA WindowListsAll ==
    ASSUME Timed, NEW start \in Nat, NEW end \in Nat, NEW order \in Window(start, end)
    PROVE  /\ Len(order) \in Nat
           /\ order \in [1..Len(order) -> InWindow(start, end)]
           /\ \A j, k \in 1..Len(order) : j # k => order[j] # order[k]
           /\ \A i \in InWindow(start, end) : \E k \in 1..Len(order) : order[k] = i
           /\ \A j, k \in 1..Len(order) :
                j < k => changes[order[j]].ts <= changes[order[k]].ts
<1> DEFINE W == InWindow(start, end)
           n == Cardinality(W)
<1>1. IsFiniteSet(W) /\ n \in Nat
  <2>1. IsFiniteSet(1..Len(changes)) /\ W \in SUBSET (1..Len(changes))
    BY ChangesTyped, FS_Interval DEF InWindow
  <2> QED BY <2>1, FS_Subset, FS_CardinalityType
<1>2. /\ order \in SetToSeqs(W)
      /\ \A j, k \in DOMAIN order : j < k => changes[order[j]].ts <= changes[order[k]].ts
  BY DEF Window, InWindow
<1> HIDE DEF W
<1>3. order \in [1..n -> W] /\ \A j, k \in 1..n : j # k => order[j] # order[k]
  BY <1>2 DEF SetToSeqs
<1>4. DOMAIN order = 1..n /\ Len(order) = n
  <2>1. order \in Seq(W)
    BY <1>1, <1>3, SeqDef
  <2> QED BY <1>1, <1>3, <2>1
<1>5. \A i \in W : \E k \in 1..n : order[k] = i
  <2>1. order \in Injection(1..n, W)
    BY <1>3, Fun_IsInj
  <2>2. Cardinality(1..n) = n
    BY <1>1, FS_Interval
  <2>3. order \in Surjection(1..n, W)
    BY <1>1, <2>1, <2>2, FS_Injection
  <2> QED BY <2>3 DEF Surjection
<1> QED BY <1>1, <1>2, <1>3, <1>4, <1>5 DEF W

LEMMA FoundIsStretch ==
    ASSUME Timed, NEW start \in Nat, NEW end \in Nat, start <= end,
           NEW order \in Window(start, end), NEW initial \in Balances \union {0}
    PROVE  Stretch(Found(order), start, end, initial, Balances \union {0})
<1>1. /\ Len(order) \in Nat
      /\ order \in [1..Len(order) -> InWindow(start, end)]
      /\ \A j, k \in 1..Len(order) : j < k => changes[order[j]].ts <= changes[order[k]].ts
  BY WindowListsAll
<1> DEFINE n == Len(order)
           ch == Found(order)
<1>2. ASSUME NEW k \in 1..n
      PROVE  /\ changes[order[k]] \in ChangeOf
             /\ changes[order[k]].ts \in start..end
             /\ changes[order[k]].after \in Balances \union {0}
  <2>1. order[k] \in InWindow(start, end)
    BY <1>1
  <2>2. order[k] \in DOMAIN changes /\ changes[order[k]].ts \in start..end
    BY <2>1 DEF InWindow
  <2>3. changes[order[k]] \in ChangeOf
    BY <2>2, ChangesTyped
  <2>4. changes[order[k]].after \in Balances \union {0}
    BY <2>2, ChangesTyped
  <2> QED BY <2>2, <2>3, <2>4
<1>3. ch = [k \in 1..n |-> changes[order[k]]]
  BY <1>1 DEF Found
<1>4. DOMAIN ch = 1..n /\ Len(ch) = n
  <2>1. ch \in [1..n -> ChangeOf]
    BY <1>2, <1>3
  <2>2. ch \in Seq(ChangeOf)
    BY <1>1, <2>1, SeqDef
  <2> QED BY <1>1, <1>3, <2>2
<1>5. \A k \in 1..n : ch[k] = changes[order[k]]
  BY <1>3
<1> HIDE DEF ch, n
<1>6. /\ \A k \in 1..n : ch[k].ts \in start..end /\ ch[k].after \in Balances \union {0}
      /\ \A j, k \in 1..n : j < k => ch[j].ts <= ch[k].ts
  BY <1>1, <1>2, <1>5 DEF n
<1>7. n \in Nat
  BY <1>1 DEF n
<1> QED BY <1>4, <1>6, <1>7 DEF Stretch, ch
(* The periods follow each other inside the stretch.                         *)
LEMMA PeriodsFollow ==
    ASSUME NEW ch, NEW start, NEW end, NEW initial, NEW B,
           Stretch(ch, start, end, initial, B)
    PROVE  LET periods == BuildBalancePeriods(ch, start, end, initial)
           IN  /\ periods \in Seq(PeriodOf(B))
               /\ Tiles(periods, start, end)
               /\ \A i \in 1..Len(periods) :
                    /\ start <= periods[i].start
                    /\ periods[i].start < periods[i].end
                    /\ periods[i].end <= end
                    /\ HoldsItsBalance(periods[i], ch, initial)
               /\ \A i, j \in 1..Len(periods) :
                    i < j => periods[i].end <= periods[j].start
<1> DEFINE T(k) == TimeAt(k, ch, start, end)
           n == Len(ch) + 1
           periods == BuildBalancePeriods(ch, start, end, initial)
           L == Len(periods)
<1>1. periods \in Seq(PeriodOf(B)) /\ \E m : CutsOf(m, periods, ch, start, end, initial)
  BY PeriodsAreCuts
<1> HIDE DEF periods
<1>2. PICK m : CutsOf(m, periods, ch, start, end, initial)
  BY <1>1
<1>3. Tiles(periods, start, end)
  BY <1>1, <1>2, PeriodsTile
<1>4. Len(ch) \in Nat /\ start \in Int /\ end \in Int /\ L \in Nat
  BY <1>1, LenProperties DEF Stretch
<1>5. ASSUME NEW k \in 0..n PROVE T(k) \in start..end /\ T(k) \in Int
  BY <1>4, TimesRise
<1>6. \A j, k \in 0..n : j <= k => T(j) <= T(k)
  BY TimesRise
<1>7. ASSUME NEW j \in 1..L
      PROVE  /\ m[j] \in 1..n /\ m[j] \in 0..n /\ m[j] - 1 \in 0..n
             /\ T(m[j] - 1) < T(m[j])
             /\ periods[j].start = T(m[j] - 1) /\ periods[j].end = T(m[j])
             /\ periods[j].balance = BalanceAt(m[j] - 1, ch, initial)
  <2>1. m[j] \in 1..n
    BY <1>2 DEF CutsOf
  <2>2. m[j] \in 0..n /\ m[j] - 1 \in 0..n
    BY <1>4, <2>1
  <2>3. T(m[j] - 1) < T(m[j])
    BY <1>2 DEF CutsOf
  <2>4. periods[j] = [start |-> T(m[j] - 1), end |-> T(m[j]),
                      balance |-> BalanceAt(m[j] - 1, ch, initial)]
    BY <1>2 DEF CutsOf
  <2> HIDE DEF T, n
  <2> QED BY <2>1, <2>2, <2>3, <2>4
<1>8. \A i, j \in 1..L : i < j => m[i] < m[j]
  BY <1>2 DEF CutsOf
<1> HIDE DEF T, n, L
<1>9. ASSUME NEW i \in 1..L
      PROVE  /\ start <= periods[i].start
             /\ periods[i].start < periods[i].end
             /\ periods[i].end <= end
             /\ periods[i].start \in Int /\ periods[i].end \in Int
  <2>1. T(m[i] - 1) \in start..end /\ T(m[i]) \in start..end
    BY <1>5, <1>7
  <2>2. T(m[i] - 1) \in Int /\ T(m[i]) \in Int
    BY <1>5, <1>7
  <2> QED BY <1>4, <1>7, <2>1, <2>2
<1>10. ASSUME NEW i \in 1..L PROVE HoldsItsBalance(periods[i], ch, initial)
  <2> SUFFICES ASSUME NEW t \in (periods[i].start)..(periods[i].end - 1)
               PROVE  HeldAt(ch, t, initial) = periods[i].balance
    BY DEF HoldsItsBalance
  <2>1. t \in Int /\ T(m[i] - 1) <= t /\ t < T(m[i])
    <3>1. periods[i].start \in Int /\ periods[i].end \in Int
      BY <1>9
    <3>2. t \in Int /\ periods[i].start <= t /\ t < periods[i].end
      BY <3>1
    <3> QED BY <1>7, <3>2
  <2>2. m[i] \in 1..n
    BY <1>7
  <2>3. HeldAt(ch, t, initial) = BalanceAt(m[i] - 1, ch, initial)
    BY <2>1, <2>2, CutHolds DEF T, n
  <2> QED BY <1>7, <2>3
<1>11. ASSUME NEW i \in 1..L, NEW j \in 1..L, i < j
       PROVE  periods[i].end <= periods[j].start
  <2>1. m[i] <= m[j] - 1
    <3>1. m[i] < m[j]
      BY <1>8, <1>11
    <3>2. m[i] \in 1..n /\ m[j] \in 1..n
      BY <1>7
    <3> QED BY <3>1, <3>2 DEF n
  <2>2. m[i] \in 0..n /\ m[j] - 1 \in 0..n
    BY <1>7
  <2>3. T(m[i]) <= T(m[j] - 1)
    BY <1>6, <2>1, <2>2
  <2> QED BY <1>7, <2>3
<1> QED BY <1>1, <1>3, <1>9, <1>10, <1>11 DEF periods, L

-----------------------------------------------------------------------------
(* The rows a calculation makes of its periods.                              *)
LEMMA EarnedOne ==
    ASSUME NEW p, p.start \in 0..MaxTime, p.end \in 0..MaxTime,
           p.balance \in Balances \union {0}
    PROVE  \/ Earned(p) = <<>>
           \/ \E r \in Row : /\ Earned(p) = <<r>>
                             /\ r.start = p.start /\ r.end = p.end
                             /\ r.balance = p.balance
<1> DEFINE points == PeriodPoints(p.balance, p.end - p.start, Unit)
           r == [start |-> p.start, end |-> p.end, balance |-> p.balance,
                 points |-> points]
<1>1. points \in Int
  <2>1. Balances \subseteq Int /\ Unit \in Nat \ {0} /\ MaxTime \in Nat
    BY PointsAssumption DEF PointsAssumption
  <2>2. p.balance \in Int /\ p.end - p.start \in Int
    <3>0. \A b \in Balances \union {0} : b \in Int
      BY <2>1
    <3>1. p.balance \in Int
      BY <3>0
    <3>2. p.start \in Int /\ p.end \in Int
      BY <2>1
    <3> QED BY <3>1, <3>2
  <2>3. \A a, b \in Int : a * b \in Int
    OBVIOUS
  <2>4. \A a \in Int, u \in Nat \ {0} : a \div u \in Int
    OBVIOUS
  <2>5. (p.balance * (p.end - p.start)) \div Unit \in Int
    BY <2>1, <2>2, <2>3, <2>4
  <2> QED BY <2>5 DEF PeriodPoints
<1> HIDE DEF points
<1>2. Earned(p) = IF points > 0 THEN <<r>> ELSE <<>>
  BY DEF Earned, points
<1>3. CASE points > 0
  <2>1. points \in Nat
    BY <1>1, <1>3
  <2>2. r \in Row
    BY <2>1 DEF Row
  <2>3. Earned(p) = <<r>>
    BY <1>2, <1>3
  <2> QED BY <2>2, <2>3
<1>4. CASE ~(points > 0)
  BY <1>2, <1>4
<1> QED BY <1>3, <1>4

Earnings(order, start, end, initial) ==
    LET periods == BuildBalancePeriods(Found(order), start, end, initial)
    IN  FlattenSeq([k \in DOMAIN periods |-> Earned(periods[k])])

LEMMA EarnedRows ==
    ASSUME Timed,
           NEW start \in Nat, NEW end \in Nat, start <= end, end <= MaxTime,
           NEW order \in Window(start, end), NEW initial \in Balances \union {0}
    PROVE  LET earned == Earnings(order, start, end, initial)
           IN  /\ earned \in Seq(Row)
               /\ \A i \in 1..Len(earned) :
                    /\ start <= earned[i].start
                    /\ earned[i].start < earned[i].end
                    /\ earned[i].end <= end
                    /\ HoldsItsBalance(earned[i], Found(order), initial)
               /\ \A i, j \in 1..Len(earned) :
                    i < j => earned[i].end <= earned[j].start
<1> DEFINE B == Balances \union {0}
           ch == Found(order)
           periods == BuildBalancePeriods(ch, start, end, initial)
           n == Len(periods)
           pieces == [k \in 1..n |-> Earned(periods[k])]
           earned == FlattenSeq(pieces)
<1>1. Stretch(ch, start, end, initial, B)
  BY FoundIsStretch
<1> HIDE DEF ch, B
<1>2. /\ periods \in Seq(PeriodOf(B))
      /\ \A i \in 1..n : /\ start <= periods[i].start
                         /\ periods[i].start < periods[i].end
                         /\ periods[i].end <= end
                         /\ HoldsItsBalance(periods[i], ch, initial)
      /\ \A i, j \in 1..n : i < j => periods[i].end <= periods[j].start
  BY <1>1, PeriodsFollow
<1> HIDE DEF periods
<1>3. n \in Nat /\ DOMAIN periods = 1..n
  BY <1>2, LenProperties
<1>4. Earnings(order, start, end, initial) = earned
  BY <1>3 DEF Earnings, periods, ch
<1>5. ASSUME NEW k \in 1..n
      PROVE  \/ pieces[k] = <<>>
             \/ \E r \in Row : /\ pieces[k] = <<r>>
                               /\ r.start = periods[k].start /\ r.end = periods[k].end
                               /\ r.balance = periods[k].balance
  <2>1. periods[k] \in PeriodOf(B)
    BY <1>2, ElementOfSeq
  <2>2. /\ periods[k].start \in Int /\ periods[k].end \in Int
        /\ periods[k].balance \in Balances \union {0}
    BY <2>1 DEF PeriodOf, B
  <2>3. MaxTime \in Nat
    BY PointsAssumption DEF PointsAssumption
  <2>4. /\ start <= periods[k].start /\ periods[k].start < periods[k].end
        /\ periods[k].end <= end
    BY <1>2
  <2>5. periods[k].start \in 0..MaxTime /\ periods[k].end \in 0..MaxTime
    BY <2>2, <2>3, <2>4
  <2>6. pieces[k] = Earned(periods[k])
    OBVIOUS
  <2> QED BY <2>2, <2>5, <2>6, EarnedOne
<1>6. ASSUME NEW k \in 1..n
      PROVE  pieces[k] \in Seq(Row) /\ Len(pieces[k]) <= 1
  <2>1. \A r \in Row : <<r>> \in Seq(Row) /\ Len(<<r>>) <= 1
    OBVIOUS
  <2>2. <<>> \in Seq(Row) /\ Len(<<>>) <= 1
    OBVIOUS
  <2> QED BY <1>5, <2>1, <2>2
<1>7. pieces \in [1..n -> Seq(Row)]
  BY <1>6
<1> HIDE DEF n
<1>8. earned \in Seq(Row) /\ \E m : PickedBy(m, earned, pieces, n)
  BY <1>3, <1>6, <1>7, FlattenSeqPicks
<1>9. PICK m : PickedBy(m, earned, pieces, n)
  BY <1>8
<1> HIDE DEF earned, pieces
<1>10. ASSUME NEW i \in 1..Len(earned)
       PROVE  /\ m[i] \in 1..n
              /\ earned[i].start = periods[m[i]].start
              /\ earned[i].end = periods[m[i]].end
              /\ earned[i].balance = periods[m[i]].balance
  <2>1. m[i] \in 1..n /\ pieces[m[i]] = <<earned[i]>>
    BY <1>9 DEF PickedBy
  <2>2. pieces[m[i]] # <<>>
    BY <2>1
  <2>3. PICK r \in Row : /\ pieces[m[i]] = <<r>>
                         /\ r.start = periods[m[i]].start /\ r.end = periods[m[i]].end
                         /\ r.balance = periods[m[i]].balance
    BY <1>5, <2>1, <2>2
  <2>4. r = earned[i]
    BY <2>1, <2>3
  <2> QED BY <2>1, <2>3, <2>4
<1>11. ASSUME NEW i \in 1..Len(earned)
       PROVE  /\ start <= earned[i].start /\ earned[i].start < earned[i].end
              /\ earned[i].end <= end
  BY <1>2, <1>10
<1>12. ASSUME NEW i \in 1..Len(earned)
       PROVE  HoldsItsBalance(earned[i], ch, initial)
  <2>1. HoldsItsBalance(periods[m[i]], ch, initial)
    BY <1>2, <1>10
  <2> QED BY <1>10, <2>1 DEF HoldsItsBalance
<1>13. ASSUME NEW i \in 1..Len(earned), NEW j \in 1..Len(earned), i < j
       PROVE  earned[i].end <= earned[j].start
  <2>1. m[i] < m[j]
    BY <1>9, <1>13 DEF PickedBy
  <2> QED BY <1>2, <1>10, <2>1
<1> QED BY <1>4, <1>8, <1>11, <1>12, <1>13 DEF ch
-----------------------------------------------------------------------------
(* Types.  A stretch that is being calculated lasts, and is over.            *)
Working(w) == calc[w].pc \in {"read", "total", "commit"}

CalcOf == [pc : {"idle", "selected", "first", "clock", "read", "total", "commit"},
           known : Nat, start : Nat, end : Nat, initial : Balances \union {0},
           earned : Seq(Row), total : Nat \union {None}]

TypeInv ==
    /\ now \in 0..MaxTime
    /\ Timed /\ Len(changes) <= MaxChanges
    /\ rows \in Seq(Row)
    /\ totals \in Seq(Nat)
    /\ calc \in [Workers -> CalcOf]
    /\ raced \in BOOLEAN
    /\ faults \in 0..MaxFaults
    /\ \A w \in Workers : Working(w) => calc[w].start < calc[w].end /\ calc[w].end <= now
    /\ \A w \in Workers : calc[w].known <= Len(rows)

LEMMA RowTyped ==
    ASSUME NEW r \in Row
    PROVE  /\ r.start \in 0..MaxTime /\ r.end \in 0..MaxTime
           /\ r.start \in Nat /\ r.end \in Nat /\ r.end <= MaxTime
           /\ r.balance \in Balances \union {0}
           /\ r.points \in Nat
<1>1. MaxTime \in Nat
  BY PointsAssumption DEF PointsAssumption
<1>2. /\ r.start \in 0..MaxTime /\ r.end \in 0..MaxTime /\ r.points \in Nat
  BY DEF Row
<1>3. r.balance \in Balances \union {0}
  BY DEF Row
<1> QED BY <1>1, <1>2, <1>3

(* "ORDER BY end_time DESC" finds a row, and none ends later.                *)
LEMMA LastRow ==
    ASSUME rows \in Seq(Row), rows # <<>>
    PROVE  LET last == CHOOSE i \in DOMAIN rows : IsLast(i)
           IN  last \in DOMAIN rows /\ \A j \in DOMAIN rows : rows[j].end <= rows[last].end
<1>1. Len(rows) \in Nat /\ DOMAIN rows = 1..Len(rows) /\ 1 \in DOMAIN rows
  BY LenProperties
<1>2. ASSUME NEW i \in DOMAIN rows PROVE rows[i].end \in Nat /\ rows[i].end <= MaxTime
  <2>1. rows[i] \in Row
    BY <1>1, ElementOfSeq
  <2> QED BY <2>1, RowTyped
<1>3. MaxTime \in Nat
  BY PointsAssumption DEF PointsAssumption
<1> DEFINE G == {MaxTime - rows[i].end : i \in DOMAIN rows}
<1>4. PICK g \in G : \A h \in G : g <= h
  <2>1. G \subseteq Nat /\ G # {}
    BY <1>1, <1>2, <1>3
  <2> HIDE DEF G
  <2> QED BY <2>1, LeastNatural
<1>5. PICK k \in DOMAIN rows : \A i \in DOMAIN rows : rows[i].end <= rows[k].end
  <2>1. PICK k \in DOMAIN rows : g = MaxTime - rows[k].end
    BY <1>4
  <2>2. ASSUME NEW i \in DOMAIN rows PROVE rows[i].end <= rows[k].end
    <3>1. MaxTime - rows[k].end <= MaxTime - rows[i].end
      BY <1>4, <2>1
    <3> QED BY <1>2, <1>3, <3>1
  <2> QED BY <2>2
<1> DEFINE E == {i \in DOMAIN rows : rows[i].end = rows[k].end}
<1>6. PICK l \in E : \A i \in E : l <= i
  <2>1. E \subseteq Nat /\ E # {}
    BY <1>1, <1>5
  <2> HIDE DEF E
  <2> QED BY <2>1, LeastNatural
<1>7. l \in DOMAIN rows /\ IsLast(l)
  <2>1. ASSUME NEW j \in DOMAIN rows
        PROVE  rows[j].end < rows[l].end \/ (rows[j].end = rows[l].end /\ l <= j)
    BY <1>2, <1>5, <1>6
  <2> QED BY <1>6, <2>1 DEF IsLast
<1> DEFINE last == CHOOSE i \in DOMAIN rows : IsLast(i)
<1>8. last \in DOMAIN rows /\ IsLast(last)
  BY <1>7, Zenon
<1> HIDE DEF last
<1>9. ASSUME NEW j \in DOMAIN rows PROVE rows[j].end <= rows[last].end
  BY <1>2, <1>8 DEF IsLast
<1> QED BY <1>8, <1>9 DEF last

LEMMA FirstChange ==
    ASSUME Timed, changes # <<>>
    PROVE  LET first == Min({changes[i].ts : i \in DOMAIN changes})
           IN  first \in Nat /\ \E i \in DOMAIN changes : first = changes[i].ts
<1> DEFINE S == {changes[i].ts : i \in DOMAIN changes}
<1>1. S \subseteq Nat /\ S # {}
  <2>1. 1 \in DOMAIN changes
    BY ChangesTyped DEF Timed
  <2>2. \A i \in DOMAIN changes : changes[i].ts \in Nat
    BY ChangesTyped, PointsAssumption DEF PointsAssumption
  <2> QED BY <2>1, <2>2
<1>2. \A x \in S : \E i \in DOMAIN changes : x = changes[i].ts
  OBVIOUS
<1> HIDE DEF S
<1>3. \E x \in S : \A y \in S : x <= y
  BY <1>1, LeastNatural
<1>4. Min(S) \in S
  BY <1>3, Zenon DEF Min
<1>5. Min(S) \in Nat /\ \E i \in DOMAIN changes : Min(S) = changes[i].ts
  BY <1>1, <1>2, <1>4
<1> QED BY <1>5 DEF S

(* The start of the stretch: the end of a row after which none ends, ...     *)
Begun(w, i) ==
    /\ i \in DOMAIN rows /\ rows[i] \in Row
    /\ \A j \in DOMAIN rows : rows[j].end <= rows[i].end
    /\ calc' = [calc EXCEPT ![w] = [Idle EXCEPT !.pc = "clock", !.known = Len(rows),
                                                !.start = rows[i].end,
                                                !.initial = rows[i].balance]]

LEMMA LastRead ==
    ASSUME TypeInv, NEW w \in Workers, ReadLast(w)
    PROVE  \/ rows = <<>> /\ calc' = [calc EXCEPT ![w] = [Idle EXCEPT !.pc = "first"]]
           \/ \E i : Begun(w, i)
<1> DEFINE last == CHOOSE i \in DOMAIN rows : IsLast(i)
<1>1. CASE rows = <<>>
  BY <1>1 DEF ReadLast
<1>2. CASE rows # <<>>
  <2>1. calc' = [calc EXCEPT ![w] = [Idle EXCEPT !.pc = "clock", !.known = Len(rows),
                                                 !.start = rows[last].end,
                                                 !.initial = rows[last].balance]]
    BY <1>2 DEF ReadLast
  <2>2. rows \in Seq(Row)
    BY DEF TypeInv
  <2>3. last \in DOMAIN rows /\ \A j \in DOMAIN rows : rows[j].end <= rows[last].end
    BY <1>2, <2>2, LastRow
  <2> HIDE DEF last
  <2>4. rows[last] \in Row
    BY <2>2, <2>3, LenProperties, ElementOfSeq
  <2>5. Begun(w, last)
    BY <2>1, <2>3, <2>4 DEF Begun
  <2> QED BY <2>5
<1> QED BY <1>1, <1>2

(* ... or the first change.                                                  *)
BegunFirst(w, i) ==
    /\ i \in 1..Len(changes) /\ changes[i].ts \in Nat
    /\ calc' = [calc EXCEPT ![w] = [Idle EXCEPT !.pc = "clock", !.start = changes[i].ts]]

LEMMA FirstRead ==
    ASSUME TypeInv, NEW w \in Workers, ReadFirst(w)
    PROVE  calc' = [calc EXCEPT ![w] = Idle] \/ \E i : BegunFirst(w, i)
<1> DEFINE first == Min({changes[i].ts : i \in DOMAIN changes})
<1>1. CASE changes = <<>>
  BY <1>1 DEF ReadFirst
<1>2. CASE changes # <<>>
  <2>1. calc' = [calc EXCEPT ![w] = [Idle EXCEPT !.pc = "clock", !.start = first]]
    BY <1>2 DEF ReadFirst
  <2>2. Timed
    BY DEF TypeInv
  <2>3. first \in Nat /\ \E i \in DOMAIN changes : first = changes[i].ts
    BY <1>2, <2>2, FirstChange
  <2> HIDE DEF first
  <2>4. PICK i \in DOMAIN changes : first = changes[i].ts
    BY <2>3
  <2>5. i \in 1..Len(changes)
    BY <2>2, ChangesTyped
  <2>6. BegunFirst(w, i)
    BY <2>1, <2>3, <2>4, <2>5 DEF BegunFirst
  <2> QED BY <2>6
<1> QED BY <1>1, <1>2

(* The clock ends it.                                                        *)
Ended(w, end) ==
    /\ calc[w].pc = "clock"
    /\ calc' = [calc EXCEPT ![w] = [calc[w] EXCEPT !.pc = "read", !.end = end]]
    /\ end \in Nat /\ calc[w].start < end /\ end <= now

LEMMA ClockRead ==
    ASSUME TypeInv, NEW w \in Workers, ReadClock(w)
    PROVE  calc' = [calc EXCEPT ![w] = Idle] \/ \E end : Ended(w, end)
<1> DEFINE start == calc[w].start
           end == EndOf(start)
<1>1. calc' = [calc EXCEPT ![w] = IF TooShort(start, end) THEN Idle
                                  ELSE [calc[w] EXCEPT !.pc = "read", !.end = end]]
  BY DEF ReadClock
<1>2. CASE TooShort(start, end)
  BY <1>1, <1>2
<1>3. CASE ~TooShort(start, end)
  <2>1. now \in Nat /\ start \in Nat
    BY PointsAssumption DEF TypeInv, CalcOf, PointsAssumption
  <2>2. MinPeriod \in Nat /\ MinPeriod > 0 /\ MaxPeriod \in Nat
    BY PointsAssumption DEF PointsAssumption
  <2>3. calc[w].pc = "clock"
    BY DEF ReadClock
  <2>4. calc' = [calc EXCEPT ![w] = [calc[w] EXCEPT !.pc = "read", !.end = end]]
    BY <1>1, <1>3
  <2> HIDE DEF start
  <2>5. end \in Nat /\ start < end /\ end <= now
    <3>1. CASE now - start > MaxPeriod
      <4>1. end = start + MaxPeriod
        BY <3>1 DEF EndOf
      <4> QED BY <1>3, <2>1, <2>2, <3>1, <4>1 DEF TooShort
    <3>2. CASE ~(now - start > MaxPeriod)
      <4>1. end = now
        BY <3>2 DEF EndOf
      <4> QED BY <1>3, <2>1, <2>2, <4>1 DEF TooShort
    <3> QED BY <3>1, <3>2
  <2> HIDE DEF end
  <2>6. Ended(w, end)
    BY <2>3, <2>4, <2>5 DEF Ended, start
  <2> QED BY <2>6
<1> QED BY <1>2, <1>3

(* What a calculation reads: earned are the rows of the stretch.             *)
Earning(w, order, earned) ==
    /\ calc[w].pc = "read"
    /\ order \in Window(calc[w].start, calc[w].end)
    /\ calc' = [calc EXCEPT ![w] = [@ EXCEPT !.pc = "total", !.earned = earned]]
    /\ earned \in Seq(Row) /\ earned # <<>>
    /\ \A i \in 1..Len(earned) :
        /\ calc[w].start <= earned[i].start
        /\ earned[i].start < earned[i].end
        /\ earned[i].end <= calc[w].end
        /\ HoldsItsBalance(earned[i], Found(order), calc[w].initial)
    /\ \A i, j \in 1..Len(earned) : i < j => earned[i].end <= earned[j].start

LEMMA ChangesRead ==
    ASSUME TypeInv, NEW w \in Workers, ReadChanges(w)
    PROVE  \/ calc' = [calc EXCEPT ![w] = Idle]
           \/ \E order, earned : Earning(w, order, earned)
<1> DEFINE c == calc[w]
<1>1. PICK order \in Window(c.start, c.end) :
        calc' = [calc EXCEPT ![w] =
            IF Earnings(order, c.start, c.end, c.initial) = <<>> THEN Idle
            ELSE [@ EXCEPT !.pc = "total",
                           !.earned = Earnings(order, c.start, c.end, c.initial)]]
  <2> DEFINE earnedIn(periods) == FlattenSeq([k \in DOMAIN periods |-> Earned(periods[k])])
             after(earned) == [calc EXCEPT ![w] =
                IF earned = <<>> THEN Idle
                ELSE [@ EXCEPT !.pc = "total", !.earned = earned]]
  <2>1. PICK periods \in {Periods(order, c) : order \in Window(c.start, c.end)} :
            calc' = after(earnedIn(periods))
    BY DEF ReadChanges
  <2> HIDE DEF c, after, earnedIn
  <2>2. PICK order \in Window(c.start, c.end) : periods = Periods(order, c)
    BY <2>1
  <2>3. earnedIn(Periods(order, c)) = Earnings(order, c.start, c.end, c.initial)
    BY DEF earnedIn, Earnings, Periods
  <2>4. calc' = after(Earnings(order, c.start, c.end, c.initial))
    BY <2>1, <2>2, <2>3
  <2> QED BY <2>4 DEF after
<1> DEFINE earned == Earnings(order, c.start, c.end, c.initial)
<1>2. c \in CalcOf /\ c.pc = "read"
  BY DEF TypeInv, ReadChanges
<1>3. /\ c.start \in Nat /\ c.end \in Nat /\ c.initial \in Balances \union {0}
      /\ c.start < c.end /\ c.end <= now
  <2>1. c.start \in Nat /\ c.end \in Nat
    BY <1>2 DEF CalcOf
  <2>2. c.initial \in Balances \union {0}
    BY <1>2 DEF CalcOf
  <2>3. c.start < c.end /\ c.end <= now
    BY <1>2 DEF TypeInv, Working
  <2> QED BY <2>1, <2>2, <2>3
<1>4. c.start <= c.end /\ c.end <= MaxTime /\ Timed /\ Len(changes) <= MaxChanges
  BY <1>3, PointsAssumption DEF TypeInv, PointsAssumption
<1> HIDE DEF c
<1>5. /\ earned \in Seq(Row)
      /\ \A i \in 1..Len(earned) :
            /\ c.start <= earned[i].start
            /\ earned[i].start < earned[i].end
            /\ earned[i].end <= c.end
            /\ HoldsItsBalance(earned[i], Found(order), c.initial)
      /\ \A i, j \in 1..Len(earned) : i < j => earned[i].end <= earned[j].start
  BY <1>1, <1>3, <1>4, EarnedRows
<1>6. CASE earned = <<>>
  BY <1>1, <1>6
<1>7. CASE earned # <<>>
  <2>1. calc' = [calc EXCEPT ![w] = [@ EXCEPT !.pc = "total", !.earned = earned]]
    BY <1>1, <1>7
  <2> HIDE DEF earned
  <2>2. calc' = [calc EXCEPT ![w] = [@ EXCEPT !.pc = "total", !.earned = earned]]
    BY <2>1
  <2>3. Earning(w, order, earned)
    BY <1>1, <1>2, <1>5, <1>7, <2>2 DEF Earning, c
  <2> QED BY <2>3
<1> QED BY <1>6, <1>7
Adds(f, s, n) == /\ f \in [0..n -> Nat] /\ f[0] = 0
                 /\ \A i \in 1..n : f[i] = f[i - 1] + s[i].points

LEMMA SumPointsExists ==
    ASSUME NEW s, Len(s) \in Nat, \A i \in 1..Len(s) : s[i].points \in Nat
    PROVE  \E f : /\ f \in [0..Len(s) -> Nat]
                  /\ f = [n \in 0..Len(s) |-> IF n = 0 THEN 0 ELSE f[n - 1] + s[n].points]
<1> DEFINE P == {n \in Nat : n <= Len(s) => \E f : Adds(f, s, n)}
<1>1. 0 \in P
  <2>1. Adds([n \in 0..0 |-> 0], s, 0)
    BY DEF Adds
  <2> QED BY <2>1
<1>2. ASSUME NEW n \in Nat, n \in P PROVE n + 1 \in P
  <2> SUFFICES ASSUME n + 1 <= Len(s) PROVE \E g : Adds(g, s, n + 1)
    OBVIOUS
  <2>1. PICK f : Adds(f, s, n)
    BY <1>2
  <2> DEFINE g == [i \in 0..(n + 1) |-> IF i = n + 1 THEN f[n] + s[n + 1].points ELSE f[i]]
  <2>2. s[n + 1].points \in Nat /\ f[n] \in Nat
    BY <2>1 DEF Adds
  <2>3. g \in [0..(n + 1) -> Nat] /\ g[0] = 0
    BY <2>1, <2>2 DEF Adds
  <2>4. ASSUME NEW i \in 1..(n + 1) PROVE g[i] = g[i - 1] + s[i].points
    <3>1. CASE i = n + 1
      <4>1. g[n + 1] = f[n] + s[n + 1].points /\ g[n] = f[n] /\ (n + 1) - 1 = n
        OBVIOUS
      <4> HIDE DEF g
      <4> QED BY <3>1, <4>1
    <3>2. CASE i \in 1..n
      <4>1. g[i] = f[i] /\ g[i - 1] = f[i - 1]
        BY <3>2
      <4> HIDE DEF g
      <4> QED BY <2>1, <3>2, <4>1 DEF Adds
    <3> QED BY <3>1, <3>2
  <2> HIDE DEF g
  <2>5. Adds(g, s, n + 1)
    BY <2>3, <2>4 DEF Adds
  <2> QED BY <2>5
<1> HIDE DEF P
<1>3. Len(s) \in P
  BY <1>1, <1>2, InductiveSet
<1>4. PICK f : Adds(f, s, Len(s))
  BY <1>3 DEF P
<1>5. f = [n \in 0..Len(s) |-> IF n = 0 THEN 0 ELSE f[n - 1] + s[n].points]
  <2> DEFINE h == [n \in 0..Len(s) |-> IF n = 0 THEN 0 ELSE f[n - 1] + s[n].points]
  <2>1. ASSUME NEW n \in 0..Len(s) PROVE f[n] = h[n]
    <3>1. CASE n = 0
      BY <1>4, <3>1 DEF Adds
    <3>2. CASE n \in 1..Len(s)
      BY <1>4, <3>2 DEF Adds
    <3> QED BY <3>1, <3>2
  <2>2. f \in [0..Len(s) -> Nat]
    BY <1>4 DEF Adds
  <2> QED BY <2>1, <2>2
<1> QED BY <1>4, <1>5 DEF Adds

(* SumPoints adds up: sums are the partial sums of a sequence.               *)
PartialSums(f, s) ==
    /\ f \in [0..Len(s) -> Nat]
    /\ f[0] = 0
    /\ \A n \in 1..Len(s) : f[n] = f[n - 1] + s[n].points
    /\ SumPoints(s) = f[Len(s)]

LEMMA SumPointsIsLast ==
    ASSUME NEW s, Len(s) \in Nat, \A i \in 1..Len(s) : s[i].points \in Nat
    PROVE  \E f : PartialSums(f, s)
<1> DEFINE Step(f) == [n \in 0..Len(s) |-> IF n = 0 THEN 0 ELSE f[n - 1] + s[n].points]
           sum == CHOOSE f : f = Step(f)
<1>1. PICK f : f \in [0..Len(s) -> Nat] /\ f = Step(f)
  BY SumPointsExists
<1>2. sum = Step(sum)
  BY <1>1
<1>3. SumPoints(s) = sum[Len(s)]
  BY Zenon DEF SumPoints
<1> HIDE DEF sum
<1>4. sum[0] = 0 /\ \A n \in 1..Len(s) : sum[n] = sum[n - 1] + s[n].points
  BY <1>2
<1> DEFINE P == {n \in Nat : n <= Len(s) => sum[n] \in Nat}
<1>5. 0 \in P
  BY <1>4
<1>6. ASSUME NEW n \in Nat, n \in P PROVE n + 1 \in P
  <2> SUFFICES ASSUME n + 1 <= Len(s) PROVE sum[n + 1] \in Nat
    OBVIOUS
  <2>1. sum[n] \in Nat /\ n + 1 \in 1..Len(s) /\ (n + 1) - 1 = n
    BY <1>6
  <2>2. sum[n + 1] = sum[n] + s[n + 1].points
    BY <1>4, <2>1
  <2> QED BY <2>1, <2>2
<1> HIDE DEF P
<1>7. Nat \subseteq P
  BY <1>5, <1>6, InductiveSet
<1>8. \A n \in 0..Len(s) : sum[n] \in Nat
  BY <1>7 DEF P
<1>9. sum \in [0..Len(s) -> Nat]
  BY <1>2, <1>8
<1>10. PartialSums(sum, s)
  BY <1>3, <1>4, <1>9 DEF PartialSums
<1> QED BY <1>10

LEMMA PointsTyped ==
    ASSUME NEW s \in Seq(Row)
    PROVE  Len(s) \in Nat /\ \A i \in 1..Len(s) : s[i].points \in Nat
<1>1. Len(s) \in Nat
  BY LenProperties
<1>2. ASSUME NEW i \in 1..Len(s) PROVE s[i].points \in Nat
  BY ElementOfSeq, RowTyped
<1> QED BY <1>1, <1>2

LEMMA SumPointsType ==
    ASSUME NEW s \in Seq(Row)
    PROVE  SumPoints(s) \in Nat
<1>1. PICK f : PartialSums(f, s)
  BY PointsTyped, SumPointsIsLast
<1> QED BY <1>1, PointsTyped DEF PartialSums

(* The sum of rows after which others come is the sum of both.               *)
LEMMA SumPointsConcat ==
    ASSUME NEW s \in Seq(Row), NEW t \in Seq(Row)
    PROVE  SumPoints(s \o t) = SumPoints(s) + SumPoints(t)
<1> DEFINE u == s \o t
           a == Len(s)
           b == Len(t)
<1>1. /\ u \in Seq(Row) /\ Len(u) = a + b /\ a \in Nat /\ b \in Nat
      /\ \A i \in 1..a : u[i] = s[i]
      /\ \A i \in 1..b : u[a + i] = t[i]
  BY ConcatProperties, LenProperties
<1> HIDE DEF u
<1>2. PICK f : PartialSums(f, s)
  BY PointsTyped, SumPointsIsLast
<1>3. PICK g : PartialSums(g, t)
  BY PointsTyped, SumPointsIsLast
<1>4. PICK h : PartialSums(h, u)
  BY <1>1, PointsTyped, SumPointsIsLast
<1>5. /\ \A n \in 0..a : f[n] \in Nat
      /\ \A n \in 0..b : g[n] \in Nat
      /\ \A n \in 0..(a + b) : h[n] \in Nat
      /\ f[0] = 0 /\ g[0] = 0 /\ h[0] = 0
      /\ SumPoints(s) = f[a] /\ SumPoints(t) = g[b] /\ SumPoints(u) = h[a + b]
  BY <1>1, <1>2, <1>3, <1>4 DEF PartialSums
<1>6. /\ \A n \in 1..a : f[n] = f[n - 1] + s[n].points
      /\ \A n \in 1..b : g[n] = g[n - 1] + t[n].points
      /\ \A n \in 1..(a + b) : h[n] = h[n - 1] + u[n].points
  BY <1>1, <1>2, <1>3, <1>4 DEF PartialSums
<1> HIDE DEF a, b
<1> DEFINE P == {n \in Nat : n <= a => h[n] = f[n]}
           Q == {n \in Nat : n <= b => h[a + n] = f[a] + g[n]}
<1>7. 0 \in P
  BY <1>5
<1>8. ASSUME NEW n \in Nat, n \in P PROVE n + 1 \in P
  <2> SUFFICES ASSUME n + 1 <= a PROVE h[n + 1] = f[n + 1]
    OBVIOUS
  <2>1. n + 1 \in 1..a /\ n + 1 \in 1..(a + b) /\ (n + 1) - 1 = n /\ h[n] = f[n]
    BY <1>1, <1>8
  <2>2. h[n + 1] = h[n] + u[n + 1].points /\ f[n + 1] = f[n] + s[n + 1].points
    BY <1>6, <2>1
  <2>3. u[n + 1] = s[n + 1]
    BY <1>1, <2>1 DEF a
  <2> QED BY <2>1, <2>2, <2>3
<1> HIDE DEF P
<1>9. a \in P
  BY <1>1, <1>7, <1>8, InductiveSet
<1>10. h[a] = f[a]
  BY <1>9 DEF P
<1>11. 0 \in Q
  <2>1. a + 0 = a /\ f[a] \in Nat
    BY <1>1, <1>5
  <2> QED BY <1>5, <1>10, <2>1
<1>12. ASSUME NEW n \in Nat, n \in Q PROVE n + 1 \in Q
  <2> SUFFICES ASSUME n + 1 <= b PROVE h[a + (n + 1)] = f[a] + g[n + 1]
    OBVIOUS
  <2>1. /\ n + 1 \in 1..b /\ (n + 1) - 1 = n /\ h[a + n] = f[a] + g[n]
        /\ a + (n + 1) \in 1..(a + b) /\ (a + (n + 1)) - 1 = a + n
        /\ n \in 0..b /\ a \in 0..a
    BY <1>1, <1>12
  <2>2. /\ h[a + (n + 1)] = h[a + n] + u[a + (n + 1)].points
        /\ g[n + 1] = g[n] + t[n + 1].points
    BY <1>6, <2>1
  <2>3. u[a + (n + 1)] = t[n + 1]
    BY <1>1, <2>1 DEF a, b
  <2>4. t[n + 1].points \in Nat /\ f[a] \in Nat /\ g[n] \in Nat
    <3>1. t[n + 1].points \in Nat
      BY <2>1, PointsTyped DEF b
    <3> QED BY <1>5, <2>1, <3>1
  <2> QED BY <2>1, <2>2, <2>3, <2>4
<1> HIDE DEF Q
<1>13. b \in Q
  BY <1>1, <1>11, <1>12, InductiveSet
<1> QED BY <1>5, <1>13 DEF Q, u
-----------------------------------------------------------------------------
(* The types are an invariant.                                               *)
LEMMA ConstantsTyped ==
    /\ MaxTime \in Nat /\ MaxChanges \in Nat /\ MaxFaults \in Nat
    /\ MaxPeriod \in Nat /\ MinPeriod \in Nat \ {0} /\ None = -1
BY PointsAssumption DEF PointsAssumption, None

LEMMA IdleTyped ==
    Idle \in CalcOf /\ Idle.pc = "idle" /\ Idle.earned = <<>> /\ Idle.known = 0
<1>1. Idle = [pc |-> "idle", known |-> 0, start |-> 0, end |-> 0, initial |-> 0,
              earned |-> <<>>, total |-> None]
  BY DEF Idle
<1>2. <<>> \in Seq(Row)
  OBVIOUS
<1> QED BY <1>1, <1>2 DEF CalcOf

LEMMA TypesInitially == Init => TypeInv
<1> SUFFICES ASSUME Init PROVE TypeInv
  OBVIOUS
<1>1. now \in 0..MaxTime /\ faults \in 0..MaxFaults /\ raced \in BOOLEAN
  <2>1. now = 0 /\ faults = MaxFaults /\ raced = FALSE
    BY DEF Init
  <2>2. raced \in BOOLEAN
    BY <2>1
  <2>3. now \in 0..MaxTime /\ faults \in 0..MaxFaults
    BY <2>1, ConstantsTyped
  <2> QED BY <2>2, <2>3
<1>2. Timed /\ Len(changes) <= MaxChanges /\ rows \in Seq(Row) /\ totals \in Seq(Nat)
  BY ConstantsTyped DEF Init, Timed
<1>3. /\ calc \in [Workers -> CalcOf]
      /\ \A w \in Workers : calc[w].pc = "idle" /\ calc[w].known = 0
  BY IdleTyped DEF Init
<1>4. \A w \in Workers : ~Working(w) /\ calc[w].known <= Len(rows)
  BY <1>3 DEF Working, Init
<1> QED BY <1>1, <1>2, <1>3, <1>4 DEF TypeInv

(* A step changes what one goroutine has read.                               *)
LEMMA CalcChanges ==
    ASSUME TypeInv, NEW w \in Workers, NEW c \in CalcOf,
           calc' = [calc EXCEPT ![w] = c],
           c.pc \in {"read", "total", "commit"} => c.start < c.end /\ c.end <= now'
    PROVE  /\ calc' \in [Workers -> CalcOf]
           /\ now' = now =>
                \A v \in Workers : Working(v)' => calc'[v].start < calc'[v].end /\ calc'[v].end <= now'
<1>1. calc \in [Workers -> CalcOf]
  BY DEF TypeInv
<1>2. calc' \in [Workers -> CalcOf] /\ calc'[w] = c /\ \A v \in Workers : v # w => calc'[v] = calc[v]
  BY <1>1
<1>3. ASSUME now' = now, NEW v \in Workers, Working(v)'
      PROVE  calc'[v].start < calc'[v].end /\ calc'[v].end <= now'
  <2>1. CASE v = w
    BY <1>2, <1>3, <2>1 DEF Working
  <2>2. CASE v # w
    <3>1. calc'[v] = calc[v] /\ Working(v)
      BY <1>2, <1>3, <2>2 DEF Working
    <3> QED BY <1>3, <3>1 DEF TypeInv
  <2> QED BY <2>1, <2>2
<1> QED BY <1>2, <1>3

LEMMA TypesStep == TypeInv /\ [Next]_vars => TypeInv'
<1> SUFFICES ASSUME TypeInv, [Next]_vars PROVE TypeInv'
  OBVIOUS
<1>1. ASSUME NEW w \in Workers, NEW c \in CalcOf,
             calc' = [calc EXCEPT ![w] = c],
             c.pc \in {"read", "total", "commit"} => c.start < c.end /\ c.end <= now,
             c.known <= Len(rows'), Len(rows) <= Len(rows'),
             UNCHANGED <<now, changes>>, raced' \in BOOLEAN,
             rows' \in Seq(Row), totals' \in Seq(Nat), faults' \in 0..MaxFaults
      PROVE  TypeInv'
  <2>1. /\ calc' \in [Workers -> CalcOf]
        /\ \A v \in Workers : Working(v)' => calc'[v].start < calc'[v].end /\ calc'[v].end <= now'
    BY <1>1, CalcChanges
  <2>2. now' \in 0..MaxTime /\ Timed' /\ Len(changes') <= MaxChanges
    BY <1>1 DEF TypeInv, Timed
  <2>3. ASSUME NEW v \in Workers PROVE calc'[v].known <= Len(rows')
    <3>1. CASE v = w
      <4>1. calc'[v] = c
        BY <1>1, <3>1 DEF TypeInv
      <4> QED BY <1>1, <4>1
    <3>2. CASE v # w
      <4>1. calc'[v] = calc[v]
        BY <1>1, <3>2 DEF TypeInv
      <4>2. calc[v].known \in Nat /\ calc[v].known <= Len(rows)
        BY DEF TypeInv, CalcOf
      <4>3. Len(rows) \in Nat /\ Len(rows') \in Nat
        BY <1>1, LenProperties DEF TypeInv
      <4> QED BY <1>1, <4>1, <4>2, <4>3
    <3> QED BY <3>1, <3>2
  <2> QED BY <1>1, <2>1, <2>2, <2>3 DEF TypeInv
<1>2. ASSUME NEW w \in Workers, calc' = [calc EXCEPT ![w] = Idle],
             UNCHANGED <<now, changes>>, raced' \in BOOLEAN, Len(rows) <= Len(rows'),
             rows' \in Seq(Row), totals' \in Seq(Nat), faults' \in 0..MaxFaults
      PROVE  TypeInv'
  <2>1. Idle \in CalcOf /\ ~(Idle.pc \in {"read", "total", "commit"})
    BY IdleTyped
  <2>2. Idle.known <= Len(rows')
    <3>1. Len(rows') \in Nat
      BY <1>2, LenProperties
    <3> QED BY <3>1, IdleTyped
  <2> QED BY <1>1, <1>2, <2>1, <2>2
<1>3. /\ rows \in Seq(Row) /\ totals \in Seq(Nat) /\ faults \in 0..MaxFaults
      /\ raced \in BOOLEAN /\ Len(rows) \in Nat /\ Len(rows) <= Len(rows)
      /\ \A w \in Workers : calc[w] \in CalcOf
  <2>1. rows \in Seq(Row) /\ Len(rows) \in Nat
    BY LenProperties DEF TypeInv
  <2> QED BY <2>1 DEF TypeInv
<1>4. ASSUME NEW w \in Workers
      PROVE  /\ calc[w].start \in Nat /\ calc[w].end \in Nat
             /\ calc[w].initial \in Balances \union {0}
             /\ calc[w].earned \in Seq(Row) /\ calc[w].total \in Nat \union {None}
             /\ calc[w].known \in Nat /\ calc[w].known <= Len(rows)
             /\ Working(w) => calc[w].start < calc[w].end /\ calc[w].end <= now
  <2>1. calc[w] \in CalcOf
    BY <1>3
  <2>2. /\ calc[w].start \in Nat /\ calc[w].end \in Nat /\ calc[w].earned \in Seq(Row)
        /\ calc[w].known \in Nat
    BY <2>1 DEF CalcOf
  <2>3. calc[w].initial \in Balances \union {0} /\ calc[w].total \in Nat \union {None}
    BY <2>1 DEF CalcOf
  <2> QED BY <2>2, <2>3 DEF TypeInv
<1>5. CASE Tick
  <2>1. now' \in 0..MaxTime /\ now' >= now
    BY <1>5, ConstantsTyped DEF Tick, TypeInv
  <2>2. UNCHANGED <<changes, rows, totals, calc, raced, faults>>
    BY <1>5 DEF Tick
  <2>3. \A w \in Workers : Working(w)' => calc'[w].start < calc'[w].end /\ calc'[w].end <= now'
    BY <1>4, <2>1, <2>2, ConstantsTyped DEF Working, TypeInv
  <2>4. Timed' /\ Len(changes') <= MaxChanges
    BY <2>2 DEF TypeInv, Timed
  <2>5. \A w \in Workers : calc'[w].known <= Len(rows')
    BY <1>4, <2>2
  <2> QED BY <1>3, <2>1, <2>2, <2>3, <2>4, <2>5 DEF TypeInv
<1>6. CASE Change
  <2>1. PICK ts \in 0..now, b \in Balances :
          changes' = Append(changes, [ts |-> ts, after |-> b, missed |-> PaidBeyond(ts)])
    BY <1>6 DEF Change
  <2>2. Len(changes) < MaxChanges /\ UNCHANGED <<now, rows, totals, calc, raced, faults>>
    BY <1>6 DEF Change
  <2> DEFINE ch == [ts |-> ts, after |-> b, missed |-> PaidBeyond(ts)]
  <2>3. ts \in 0..MaxTime
    BY ConstantsTyped DEF TypeInv
  <2>4. PaidBeyond(ts) \in BOOLEAN
    BY DEF PaidBeyond
  <2>5. ch \in ChangeOf
    BY <2>3, <2>4 DEF ChangeOf
  <2> HIDE DEF ch
  <2>6. changes' = Append(changes, ch)
    BY <2>1 DEF ch
  <2>7. changes' \in Seq(ChangeOf) /\ Len(changes') = Len(changes) + 1
    BY <2>5, <2>6, AppendProperties DEF TypeInv, Timed
  <2>8. Timed' /\ Len(changes') <= MaxChanges
    <3>1. Len(changes) \in Nat
      BY ChangesTyped DEF TypeInv
    <3> QED BY <2>2, <2>7, <3>1, ConstantsTyped DEF Timed
  <2>9. \A w \in Workers : Working(w)' => calc'[w].start < calc'[w].end /\ calc'[w].end <= now'
    BY <1>4, <2>2 DEF Working
  <2>10. \A w \in Workers : calc'[w].known <= Len(rows')
    BY <1>4, <2>2
  <2> QED BY <2>2, <2>8, <2>9, <2>10 DEF TypeInv
<1>7. ASSUME NEW w \in Workers, Select(w) PROVE TypeInv'
  <2> DEFINE c == [calc[w] EXCEPT !.pc = "selected"]
  <2>1. c \in CalcOf /\ c.pc = "selected" /\ c.known = calc[w].known
    BY <1>3 DEF CalcOf
  <2>2. /\ calc' = [calc EXCEPT ![w] = c]
        /\ UNCHANGED <<now, changes, rows, totals, raced, faults>>
    BY <1>7 DEF Select
  <2> HIDE DEF c
  <2> QED BY <1>1, <1>3, <1>4, <2>1, <2>2
<1>8. ASSUME NEW w \in Workers, ReadLast(w) PROVE TypeInv'
  <2>1. UNCHANGED <<now, changes, rows, totals, raced, faults>>
    BY <1>8 DEF ReadLast
  <2>2. CASE calc' = [calc EXCEPT ![w] = [Idle EXCEPT !.pc = "first"]]
    <3> DEFINE c == [Idle EXCEPT !.pc = "first"]
    <3>1. c \in CalcOf /\ c.pc = "first" /\ c.known = 0
      BY IdleTyped DEF CalcOf
    <3> HIDE DEF c
    <3>2. calc' = [calc EXCEPT ![w] = c]
      BY <2>2 DEF c
    <3>3. c.known <= Len(rows') /\ ~(c.pc \in {"read", "total", "commit"})
      BY <1>3, <2>1, <3>1
    <3> QED BY <1>1, <1>3, <2>1, <3>1, <3>2, <3>3
  <2>3. ASSUME NEW i, Begun(w, i) PROVE TypeInv'
    <3> DEFINE c == [Idle EXCEPT !.pc = "clock", !.known = Len(rows),
                                 !.start = rows[i].end, !.initial = rows[i].balance]
    <3>1. rows[i].end \in Nat /\ rows[i].balance \in Balances \union {0}
      BY <2>3, RowTyped DEF Begun
    <3>2. c \in CalcOf /\ c.pc = "clock" /\ c.known = Len(rows)
      BY <1>3, <3>1, IdleTyped DEF CalcOf
    <3>3. calc' = [calc EXCEPT ![w] = c]
      BY <2>3 DEF Begun
    <3> HIDE DEF c
    <3> QED BY <1>1, <1>3, <2>1, <3>2, <3>3
  <2> QED BY <1>8, <2>2, <2>3, LastRead
<1>9. ASSUME NEW w \in Workers, ReadFirst(w) PROVE TypeInv'
  <2>1. UNCHANGED <<now, changes, rows, totals, raced, faults>>
    BY <1>9 DEF ReadFirst
  <2>2. CASE calc' = [calc EXCEPT ![w] = Idle]
    BY <1>2, <1>3, <2>1, <2>2
  <2>3. ASSUME NEW i, BegunFirst(w, i) PROVE TypeInv'
    <3> DEFINE c == [Idle EXCEPT !.pc = "clock", !.start = changes[i].ts]
    <3>1. c \in CalcOf /\ c.pc = "clock" /\ c.known = 0
      BY <2>3, IdleTyped DEF CalcOf, BegunFirst
    <3>2. calc' = [calc EXCEPT ![w] = c]
      BY <2>3 DEF BegunFirst
    <3> HIDE DEF c
    <3>3. c.known <= Len(rows') /\ ~(c.pc \in {"read", "total", "commit"})
      BY <1>3, <2>1, <3>1
    <3> QED BY <1>1, <1>3, <2>1, <3>1, <3>2, <3>3
  <2> QED BY <1>9, <2>2, <2>3, FirstRead
<1>10. ASSUME NEW w \in Workers, ReadClock(w) PROVE TypeInv'
  <2>1. UNCHANGED <<now, changes, rows, totals, raced, faults>>
    BY <1>10 DEF ReadClock
  <2>2. CASE calc' = [calc EXCEPT ![w] = Idle]
    BY <1>2, <1>3, <2>1, <2>2
  <2>3. ASSUME NEW end, Ended(w, end) PROVE TypeInv'
    <3> DEFINE c == [calc[w] EXCEPT !.pc = "read", !.end = end]
    <3>1. /\ calc' = [calc EXCEPT ![w] = c] /\ end \in Nat
          /\ calc[w].start < end /\ end <= now
      BY <2>3 DEF Ended
    <3>2. c \in CalcOf /\ c.start = calc[w].start /\ c.end = end /\ c.known = calc[w].known
      BY <1>3, <3>1 DEF CalcOf
    <3> HIDE DEF c
    <3> QED BY <1>1, <1>3, <1>4, <2>1, <3>1, <3>2
  <2> QED BY <1>10, <2>2, <2>3, ClockRead
<1>11. ASSUME NEW w \in Workers, ReadChanges(w) PROVE TypeInv'
  <2>1. UNCHANGED <<now, changes, rows, totals, raced, faults>>
    BY <1>11 DEF ReadChanges
  <2>2. CASE calc' = [calc EXCEPT ![w] = Idle]
    BY <1>2, <1>3, <2>1, <2>2
  <2>3. ASSUME NEW order, NEW earned, Earning(w, order, earned)
        PROVE  TypeInv'
    <3> DEFINE c == [calc[w] EXCEPT !.pc = "total", !.earned = earned]
    <3>1. earned \in Seq(Row) /\ calc[w].pc = "read"
      BY <2>3 DEF Earning
    <3>2. c \in CalcOf /\ c.start = calc[w].start /\ c.end = calc[w].end /\ c.known = calc[w].known
      BY <1>3, <3>1 DEF CalcOf
    <3>3. calc' = [calc EXCEPT ![w] = c]
      BY <2>3 DEF Earning
    <3>4. calc[w].start < calc[w].end /\ calc[w].end <= now
      BY <1>4, <3>1 DEF Working
    <3> HIDE DEF c
    <3> QED BY <1>1, <1>3, <1>4, <2>1, <3>2, <3>3, <3>4
  <2> QED BY <1>11, <2>2, <2>3, ChangesRead
<1>12. ASSUME NEW w \in Workers, ReadTotal(w) PROVE TypeInv'
  <2> DEFINE total == IF totals = <<>> THEN None ELSE Head(totals)
             c == [calc[w] EXCEPT !.pc = "commit", !.total = total]
  <2>1. total \in Nat \union {None}
    BY <1>3
  <2> HIDE DEF total
  <2>2. c \in CalcOf /\ c.start = calc[w].start /\ c.end = calc[w].end /\ c.known = calc[w].known
    BY <1>3, <2>1 DEF CalcOf
  <2>3. calc' = [calc EXCEPT ![w] = c] /\ UNCHANGED <<now, changes, rows, totals, raced, faults>>
    <3>1. calc' = [calc EXCEPT ![w].pc = "commit", ![w].total = total]
      BY <1>12 DEF ReadTotal, total
    <3>2. [calc EXCEPT ![w].pc = "commit", ![w].total = total] = [calc EXCEPT ![w] = c]
      BY DEF TypeInv
    <3> QED BY <1>12, <3>1, <3>2 DEF ReadTotal
  <2>4. calc[w].start < calc[w].end /\ calc[w].end <= now
    BY <1>4, <1>12 DEF Working, ReadTotal
  <2> HIDE DEF c
  <2> QED BY <1>1, <1>3, <1>4, <2>2, <2>3, <2>4
<1>13. ASSUME NEW w \in Workers, Commit(w) PROVE TypeInv'
  <2>1. /\ rows' = rows \o calc[w].earned
        /\ totals' = IF calc[w].total = None
                     THEN Append(totals, SumPoints(calc[w].earned))
                     ELSE [totals EXCEPT ![1] = calc[w].total + SumPoints(calc[w].earned)]
        /\ calc' = [calc EXCEPT ![w] = Idle]
        /\ UNCHANGED <<now, changes, faults>> /\ raced' \in BOOLEAN
    BY <1>3, <1>13 DEF Commit, NewTotals
  <2>2. SumPoints(calc[w].earned) \in Nat
    BY <1>4, SumPointsType
  <2>3. rows' \in Seq(Row) /\ Len(rows) <= Len(rows')
    <3>1. rows' \in Seq(Row) /\ Len(rows') = Len(rows) + Len(calc[w].earned)
      BY <1>3, <1>4, <2>1, ConcatProperties
    <3>2. Len(calc[w].earned) \in Nat
      BY <1>4, LenProperties
    <3> QED BY <1>3, <3>1, <3>2
  <2>4. totals' \in Seq(Nat)
    <3>1. CASE calc[w].total = None
      BY <1>3, <2>1, <2>2, <3>1, AppendProperties
    <3>2. CASE calc[w].total # None
      <4> DEFINE x == calc[w].total + SumPoints(calc[w].earned)
      <4>1. x \in Nat
        BY <1>4, <2>2, <3>2
      <4> HIDE DEF x
      <4>2. totals' = [totals EXCEPT ![1] = x]
        BY <2>1, <3>2 DEF x
      <4>3. CASE totals = <<>>
        <5>1. [totals EXCEPT ![1] = x] = totals
          BY <4>3
        <5> QED BY <1>3, <4>2, <5>1
      <4>4. CASE totals # <<>>
        <5>1. 1 \in 1..Len(totals)
          BY <1>3, <4>4
        <5>2. [totals EXCEPT ![1] = x] \in Seq(Nat)
          BY <1>3, <4>1, <5>1, ExceptSeq
        <5> QED BY <4>2, <5>2
      <4> QED BY <4>3, <4>4
    <3> QED BY <3>1, <3>2
  <2> QED BY <1>2, <1>3, <2>1, <2>3, <2>4
<1>14. ASSUME NEW w \in Workers, Abort(w) PROVE TypeInv'
  <2>1. faults' \in 0..MaxFaults
    BY <1>3, <1>14, ConstantsTyped DEF Abort
  <2>2. calc' = [calc EXCEPT ![w] = Idle] /\ UNCHANGED <<now, changes, rows, totals, raced>>
    BY <1>14 DEF Abort
  <2> QED BY <1>2, <1>3, <2>1, <2>2
<1>15. CASE UNCHANGED vars
  BY <1>15 DEF vars, TypeInv, Timed, Working
<1> QED
  BY <1>5, <1>6, <1>7, <1>8, <1>9, <1>10, <1>11, <1>12, <1>13, <1>14, <1>15
  DEF Next, Calculate

(* What is in the tables and in the goroutines' hands has its type.          *)
THEOREM CalculatorTypes == Spec => []TypeOK
<1>1. TypeInv => TypeOK
  BY DEF TypeInv, TypeOK, Timed, ChangeOf, CalcOf
<1>2. Spec => []TypeInv
  BY TypesInitially, TypesStep, PTL DEF Spec
<1> QED BY <1>1, <1>2, PTL

(* buildBalancePeriods, on whatever a calculation reads: the periods tile    *)
(* the stretch and have the balance that was held.                           *)
THEOREM PeriodsAreRight == Spec => []PeriodsMatchReference
<1>1. TypeInv => PeriodsMatchReference
  <2> SUFFICES ASSUME TypeInv, NEW w \in Workers, calc[w].pc = "read",
                      NEW order \in Window(calc[w].start, calc[w].end)
               PROVE  LET c == calc[w]
                          periods == BuildBalancePeriods(Found(order), c.start, c.end, c.initial)
                      IN  /\ Tiles(periods, c.start, c.end)
                          /\ \A i \in DOMAIN periods :
                                HoldsItsBalance(periods[i], Found(order), c.initial)
    BY DEF PeriodsMatchReference, Periods
  <2> DEFINE c == calc[w]
             periods == BuildBalancePeriods(Found(order), c.start, c.end, c.initial)
  <2>1. c \in CalcOf /\ c.start < c.end /\ Timed
    BY DEF TypeInv, Working
  <2>2. c.start \in Nat /\ c.end \in Nat /\ c.start <= c.end
    BY <2>1 DEF CalcOf
  <2>3. c.initial \in Balances \union {0}
    BY <2>1 DEF CalcOf
  <2> HIDE DEF c
  <2>4. Stretch(Found(order), c.start, c.end, c.initial, Balances \union {0})
    BY <2>1, <2>2, <2>3, FoundIsStretch DEF c
  <2>5. /\ periods \in Seq(PeriodOf(Balances \union {0}))
        /\ Tiles(periods, c.start, c.end)
        /\ \A i \in 1..Len(periods) : HoldsItsBalance(periods[i], Found(order), c.initial)
    BY <2>4, PeriodsFollow
  <2> HIDE DEF periods
  <2>6. DOMAIN periods = 1..Len(periods)
    BY <2>5
  <2> QED BY <2>5, <2>6 DEF periods, c
<1>2. Spec => []TypeInv
  BY TypesInitially, TypesStep, PTL DEF Spec
<1> QED BY <1>1, <1>2, PTL
-----------------------------------------------------------------------------
(* The balance held is the one the latest change left.                       *)
Latest(ch, t, i) ==
    /\ i \in 1..Len(ch) /\ ch[i].ts <= t
    /\ \A j \in 1..Len(ch) : ch[j].ts <= t =>
            \/ ch[j].ts < ch[i].ts
            \/ ch[j].ts = ch[i].ts /\ j <= i

Stamped(ch) ==
    /\ Len(ch) \in Nat /\ DOMAIN ch = 1..Len(ch)
    /\ \A i \in 1..Len(ch) : ch[i].ts \in Int

LEMMA HeldIsLatest ==
    ASSUME NEW ch, Stamped(ch), NEW t \in Int, NEW initial, NEW i, Latest(ch, t, i)
    PROVE  HeldAt(ch, t, initial) = ch[i].after
<1> DEFINE past == {j \in DOMAIN ch : ch[j].ts <= t}
           L(k) == \A j \in past : \/ ch[j].ts < ch[k].ts
                                   \/ ch[j].ts = ch[k].ts /\ j <= k
<1>1. i \in past /\ L(i)
  BY DEF Latest, Stamped
<1>2. ASSUME NEW k \in past, L(k) PROVE k = i
  <2>1. ch[k].ts \in Int /\ ch[i].ts \in Int /\ k \in Int /\ i \in Int
    BY <1>1 DEF Stamped
  <2>2. ch[i].ts < ch[k].ts \/ (ch[i].ts = ch[k].ts /\ i <= k)
    BY <1>1, <1>2
  <2>3. ch[k].ts < ch[i].ts \/ (ch[k].ts = ch[i].ts /\ k <= i)
    BY <1>1, <1>2
  <2> QED BY <2>1, <2>2, <2>3
<1>3. HeldAt(ch, t, initial) = IF past = {} THEN initial
                               ELSE ch[CHOOSE k \in past : L(k)].after
  BY DEF HeldAt
<1> HIDE DEF past, L
<1>4. (CHOOSE k \in past : L(k)) = i
  BY <1>1, <1>2, Zenon
<1> QED BY <1>1, <1>3, <1>4

LEMMA LatestExists ==
    ASSUME NEW ch, Stamped(ch), NEW t \in Int,
           NEW k \in 1..Len(ch), ch[k].ts <= t
    PROVE  \E i : Latest(ch, t, i)
<1> DEFINE past == {i \in 1..Len(ch) : ch[i].ts <= t}
           G == {t - ch[i].ts : i \in past}
<1>1. Len(ch) \in Nat /\ \A i \in 1..Len(ch) : ch[i].ts \in Int
  BY DEF Stamped
<1>2. PICK g \in G : \A h \in G : g <= h
  <2>1. G \subseteq Nat /\ G # {}
    <3>1. \A i \in past : t - ch[i].ts \in Nat
      BY <1>1
    <3>2. k \in past
      OBVIOUS
    <3> HIDE DEF past
    <3> QED BY <3>1, <3>2
  <2> HIDE DEF G
  <2> QED BY <2>1, LeastNatural
<1>3. PICK l \in past : \A i \in past : ch[i].ts <= ch[l].ts
  <2>1. PICK l \in past : g = t - ch[l].ts
    BY <1>2
  <2>2. ASSUME NEW i \in past PROVE ch[i].ts <= ch[l].ts
    <3>1. t - ch[l].ts <= t - ch[i].ts
      BY <1>2, <2>1
    <3> QED BY <1>1, <3>1
  <2> QED BY <2>2
<1> DEFINE E == {Len(ch) - i : i \in {j \in past : ch[j].ts = ch[l].ts}}
<1>4. PICK e \in E : \A h \in E : e <= h
  <2>1. E \subseteq Nat /\ E # {}
    BY <1>1
  <2> HIDE DEF E
  <2> QED BY <2>1, LeastNatural
<1>5. PICK i \in past : ch[i].ts = ch[l].ts /\ e = Len(ch) - i
  BY <1>4
<1>6. ASSUME NEW j \in past
      PROVE  ch[j].ts < ch[i].ts \/ (ch[j].ts = ch[i].ts /\ j <= i)
  <2>1. CASE ch[j].ts = ch[l].ts
    <3>1. Len(ch) - i <= Len(ch) - j
      BY <1>4, <1>5, <2>1
    <3> QED BY <1>1, <1>5, <2>1, <3>1
  <2>2. CASE ch[j].ts # ch[l].ts
    BY <1>1, <1>3, <1>5, <2>2
  <2> QED BY <2>1, <2>2
<1>7. Latest(ch, t, i)
  BY <1>5, <1>6 DEF Latest
<1> QED BY <1>7

LEMMA HeldInitially ==
    ASSUME NEW ch, Stamped(ch), NEW t, NEW initial,
           \A i \in 1..Len(ch) : ~(ch[i].ts <= t)
    PROVE  HeldAt(ch, t, initial) = initial
<1>1. {j \in DOMAIN ch : ch[j].ts <= t} = {}
  BY DEF Stamped
<1> QED BY <1>1 DEF HeldAt

(* What was held at t does not change with a later change.                   *)
LEMMA HeldStays ==
    ASSUME NEW one, Stamped(one), NEW two, Stamped(two), NEW t \in Int, NEW initial,
           Len(one) <= Len(two),
           \A i \in 1..Len(one) : two[i] = one[i],
           \A i \in (Len(one) + 1)..Len(two) : t < two[i].ts
    PROVE  HeldAt(two, t, initial) = HeldAt(one, t, initial)
<1>1. /\ Len(one) \in Nat /\ Len(two) \in Nat
      /\ \A i \in 1..Len(two) : two[i].ts \in Int
      /\ \A i \in 1..Len(one) : one[i].ts \in Int
  BY DEF Stamped
<1>2. \A i \in 1..Len(two) : two[i].ts <= t => i \in 1..Len(one) /\ two[i] = one[i]
  <2> SUFFICES ASSUME NEW i \in 1..Len(two), two[i].ts <= t
               PROVE  i \in 1..Len(one)
    OBVIOUS
  <2>1. ~(t < two[i].ts)
    BY <1>1
  <2>2. i \notin (Len(one) + 1)..Len(two)
    BY <2>1
  <2> QED BY <1>1, <2>2
<1>3. CASE \E k \in 1..Len(one) : one[k].ts <= t
  <2>1. PICK i : Latest(one, t, i)
    BY <1>3, LatestExists
  <2>2. i \in 1..Len(one) /\ i \in 1..Len(two) /\ two[i] = one[i] /\ one[i].ts <= t
    BY <1>1, <2>1 DEF Latest
  <2>3. ASSUME NEW j \in 1..Len(two), two[j].ts <= t
        PROVE  two[j].ts < two[i].ts \/ (two[j].ts = two[i].ts /\ j <= i)
    <3>1. j \in 1..Len(one) /\ two[j] = one[j]
      BY <1>2, <2>3
    <3> QED BY <2>1, <2>2, <2>3, <3>1 DEF Latest
  <2>4. Latest(two, t, i)
    BY <2>2, <2>3 DEF Latest
  <2> QED BY <2>1, <2>2, <2>4, HeldIsLatest
<1>4. CASE \A k \in 1..Len(one) : ~(one[k].ts <= t)
  <2>1. \A i \in 1..Len(two) : ~(two[i].ts <= t)
    BY <1>2, <1>4
  <2> QED BY <1>4, <2>1, HeldInitially
<1> QED BY <1>3, <1>4

LEMMA ChangesStamped ==
    ASSUME Timed
    PROVE  Stamped(changes)
BY ChangesTyped DEF Stamped

(* Of changes with timestamps of their own, a calculation that begins with   *)
(* what was held before its stretch, or at a change, reads all it needs.     *)
LEMMA HeldFromFound ==
    ASSUME Timed, \A i, j \in DOMAIN changes : changes[i].ts = changes[j].ts => i = j,
           NEW start \in Nat, NEW end \in Nat, start < end,
           NEW order \in Window(start, end), NEW initial \in Balances \union {0},
           \/ HeldAt(changes, start - 1, 0) = initial
           \/ \E i \in 1..Len(changes) : changes[i].ts = start,
           NEW t \in start..(end - 1)
    PROVE  HeldAt(changes, t, 0) = HeldAt(Found(order), t, initial)
<1> DEFINE ch == Found(order)
           n == Len(order)
<1>1. /\ Stamped(changes) /\ Len(changes) \in Nat
      /\ \A i \in 1..Len(changes) : changes[i].ts \in Int
      /\ t \in Int /\ start <= t /\ t < end /\ start - 1 \in Int
  BY ChangesStamped DEF Stamped
<1>2. /\ n \in Nat
      /\ order \in [1..n -> InWindow(start, end)]
      /\ \A j, k \in 1..n : j # k => order[j] # order[k]
      /\ \A i \in InWindow(start, end) : \E k \in 1..n : order[k] = i
  BY WindowListsAll
<1>3. \A k \in 1..n : /\ order[k] \in 1..Len(changes)
                      /\ start <= changes[order[k]].ts
                      /\ changes[order[k]].ts <= end
  <2> SUFFICES ASSUME NEW k \in 1..n
               PROVE  /\ order[k] \in 1..Len(changes)
                      /\ start <= changes[order[k]].ts
                      /\ changes[order[k]].ts <= end
    OBVIOUS
  <2>1. order[k] \in InWindow(start, end)
    BY <1>2
  <2>2. order[k] \in 1..Len(changes) /\ changes[order[k]].ts \in start..end
    BY <2>1, ChangesTyped DEF InWindow
  <2> QED BY <2>2
<1>4. /\ Len(ch) = n /\ DOMAIN ch = 1..n
      /\ \A k \in 1..n : ch[k] = changes[order[k]]
  <2>1. Stretch(ch, start, end, initial, Balances \union {0})
    <3>1. start <= end
      OBVIOUS
    <3> QED BY <3>1, FoundIsStretch
  <2>2. DOMAIN order = 1..n
    BY <1>2
  <2>3. DOMAIN ch = 1..n /\ \A k \in 1..n : ch[k] = changes[order[k]]
    BY <2>2 DEF Found
  <2> HIDE DEF ch
  <2>4. Len(ch) \in Nat /\ DOMAIN ch = 1..Len(ch)
    BY <2>1 DEF Stretch
  <2>5. Len(ch) = n
    BY <1>2, <2>3, <2>4
  <2> QED BY <2>3, <2>5
<1> HIDE DEF ch, n
<1>5. Stamped(ch)
  BY <1>1, <1>2, <1>3, <1>4 DEF Stamped
<1>6. CASE \E i \in 1..Len(changes) : changes[i].ts <= t /\ start <= changes[i].ts
  <2>1. PICK i0 \in 1..Len(changes) : changes[i0].ts <= t /\ start <= changes[i0].ts
    BY <1>6
  <2>2. PICK i : Latest(changes, t, i)
    BY <1>1, <2>1, LatestExists
  <2>3. i \in 1..Len(changes) /\ changes[i].ts <= t /\ start <= changes[i].ts
    <3>1. i \in 1..Len(changes) /\ changes[i].ts <= t /\ changes[i0].ts <= changes[i].ts
      BY <1>1, <2>1, <2>2 DEF Latest
    <3> QED BY <1>1, <2>1, <3>1
  <2>4. i \in InWindow(start, end)
    BY <1>1, <2>3, ChangesTyped DEF InWindow
  <2>5. PICK k \in 1..n : order[k] = i
    BY <1>2, <2>4
  <2>6. ASSUME NEW j \in 1..Len(ch), ch[j].ts <= t
        PROVE  ch[j].ts < ch[k].ts \/ (ch[j].ts = ch[k].ts /\ j <= k)
    <3>1. j \in 1..n /\ ch[j] = changes[order[j]] /\ ch[k] = changes[i]
      BY <1>4, <2>5
    <3>2. order[j] \in 1..Len(changes)
      BY <1>3, <3>1
    <3>3. ch[j].ts < ch[k].ts \/ ch[j].ts = ch[k].ts
      BY <2>2, <2>6, <3>1, <3>2 DEF Latest
    <3>4. CASE ch[j].ts = ch[k].ts
      <4>1. order[j] = i
        BY <2>3, <3>1, <3>2, <3>4, ChangesTyped
      <4>2. j = k
        BY <1>2, <2>5, <3>1, <4>1
      <4> QED BY <1>2, <3>1, <3>4, <4>2
    <3> QED BY <3>3, <3>4
  <2>7. ch[k] = changes[i] /\ k \in 1..Len(ch)
    BY <1>4, <2>5
  <2>8. Latest(ch, t, k)
    BY <2>3, <2>6, <2>7 DEF Latest
  <2>9. HeldAt(ch, t, initial) = ch[k].after
    <3>1. t \in Int
      BY <1>1
    <3> QED BY <1>5, <2>8, <3>1, HeldIsLatest
  <2>10. HeldAt(changes, t, 0) = changes[i].after
    BY <1>1, <2>2, HeldIsLatest
  <2> QED BY <2>7, <2>9, <2>10 DEF ch
<1>7. CASE \A i \in 1..Len(changes) : changes[i].ts <= t => ~(start <= changes[i].ts)
  <2>0. HeldAt(changes, start - 1, 0) = initial
    <3> SUFFICES ASSUME NEW i \in 1..Len(changes), changes[i].ts = start PROVE FALSE
      OBVIOUS
    <3>1. start <= t /\ start \in Int
      BY <1>1
    <3>2. ~(start <= start)
      BY <1>7, <3>1
    <3> QED BY <3>1, <3>2
  <2>1. \A k \in 1..Len(ch) : ~(ch[k].ts <= t)
    BY <1>3, <1>4, <1>7
  <2>2. HeldAt(ch, t, initial) = initial
    BY <1>5, <2>1, HeldInitially
  <2>3. \A i \in 1..Len(changes) : changes[i].ts <= t <=> changes[i].ts <= start - 1
    BY <1>1, <1>7
  <2>4. HeldAt(changes, t, 0) = HeldAt(changes, start - 1, 0)
    <3> DEFINE past(s) == {j \in DOMAIN changes : changes[j].ts <= s}
               held(p) == IF p = {} THEN 0
                          ELSE changes[CHOOSE i \in p : \A j \in p :
                                    \/ changes[j].ts < changes[i].ts
                                    \/ changes[j].ts = changes[i].ts /\ j <= i].after
    <3>1. past(t) = past(start - 1)
      BY <2>3, ChangesTyped
    <3>2. /\ HeldAt(changes, t, 0) = held(past(t))
          /\ HeldAt(changes, start - 1, 0) = held(past(start - 1))
      BY Zenon DEF HeldAt
    <3> HIDE DEF past, held
    <3> QED BY <3>1, <3>2
  <2> QED BY <2>0, <2>2, <2>4 DEF ch
<1> QED BY <1>6, <1>7
-----------------------------------------------------------------------------
(* A row pays what was held, by the changes ch.                              *)
Pays(r, ch) == r.start < r.end /\ \A t \in r.start..(r.end - 1) : HeldAt(ch, t, 0) = r.balance

(* A stretch begins where a row ends, with what was held until then, or at a *)
(* change.                                                                   *)
BeginsRight(c) ==
    \/ /\ \E i \in 1..Len(rows) : rows[i].end = c.start
       /\ HeldAt(changes, c.start - 1, 0) = c.initial
    \/ \E i \in 1..Len(changes) : changes[i].ts = c.start

PayInv ==
    InPlace =>
        /\ \A i \in 1..Len(rows) : Pays(rows[i], changes)
        /\ \A w \in Workers :
            \A i \in 1..Len(calc[w].earned) : Pays(calc[w].earned[i], changes)
        /\ \A w \in Workers : calc[w].pc \in {"clock", "read"} => BeginsRight(calc[w])

(* ch grows by a change.                                                     *)
Grows(ch, two, time) ==
    /\ Stamped(ch) /\ Stamped(two)
    /\ Len(two) = Len(ch) + 1
    /\ \A i \in 1..Len(ch) : two[i] = ch[i]
    /\ two[Len(ch) + 1].ts = time

LEMMA HeldBeforeGrowth ==
    ASSUME NEW ch, NEW two, NEW time \in Nat, Grows(ch, two, time), NEW t \in Int, t < time
    PROVE  HeldAt(two, t, 0) = HeldAt(ch, t, 0)
<1>1. /\ Stamped(ch) /\ Stamped(two) /\ Len(ch) \in Nat /\ Len(ch) <= Len(two)
      /\ \A i \in 1..Len(ch) : two[i] = ch[i]
  BY DEF Grows, Stamped
<1>2. ASSUME NEW i \in (Len(ch) + 1)..Len(two) PROVE t < two[i].ts
  <2>1. i = Len(ch) + 1
    BY <1>1 DEF Grows
  <2> QED BY <2>1 DEF Grows
<1> QED BY <1>1, <1>2, HeldStays

LEMMA PaysAfterGrowth ==
    ASSUME NEW r \in Row, NEW ch, NEW two, NEW time \in Nat, Grows(ch, two, time),
           r.end <= time, Pays(r, ch)
    PROVE  Pays(r, two)
<1>1. r.start \in Nat /\ r.end \in Nat
  BY RowTyped
<1>2. r.start < r.end
  BY DEF Pays
<1>3. ASSUME NEW t \in r.start..(r.end - 1) PROVE HeldAt(two, t, 0) = r.balance
  <2>1. t \in Int /\ t < time
    BY <1>1
  <2>2. HeldAt(two, t, 0) = HeldAt(ch, t, 0)
    BY <2>1, HeldBeforeGrowth
  <2> QED BY <2>2 DEF Pays
<1> QED BY <1>2, <1>3 DEF Pays

LEMMA PayInitially == Init => PayInv
<1> SUFFICES ASSUME Init PROVE PayInv
  OBVIOUS
<1>1. Len(rows) = 0 /\ \A w \in Workers : calc[w] = Idle
  BY DEF Init
<1>2. Idle.pc = "idle" /\ Len(Idle.earned) = 0
  BY IdleTyped
<1> QED BY <1>1, <1>2 DEF PayInv

(* A change that is not missed is behind every row, and whatever is being    *)
(* paid.                                                                     *)
LEMMA PaidBefore ==
    ASSUME TypeInv, NEW ts \in Nat, ~PaidBeyond(ts)
    PROVE  /\ \A i \in 1..Len(rows) : rows[i].end <= ts
           /\ \A w \in Workers : \A i \in 1..Len(calc[w].earned) : calc[w].earned[i].end <= ts
<1>1. rows \in Seq(Row) /\ \A w \in Workers : calc[w].earned \in Seq(Row)
  BY DEF TypeInv, CalcOf
<1>2. ASSUME NEW s \in Seq(Row), NEW i \in 1..Len(s)
      PROVE  i \in DOMAIN s /\ s[i].end \in Nat
  <2>1. s[i] \in Row /\ DOMAIN s = 1..Len(s)
    BY ElementOfSeq, LenProperties
  <2> QED BY <2>1, RowTyped
<1>3. ASSUME NEW i \in 1..Len(rows) PROVE rows[i].end <= ts
  <2>1. i \in DOMAIN rows /\ rows[i].end \in Nat
    BY <1>1, <1>2
  <2>2. ~(rows[i].end > ts)
    BY <2>1 DEF PaidBeyond
  <2> QED BY <2>1, <2>2
<1>4. ASSUME NEW w \in Workers, NEW i \in 1..Len(calc[w].earned)
      PROVE  calc[w].earned[i].end <= ts
  <2>1. i \in DOMAIN calc[w].earned /\ calc[w].earned[i].end \in Nat
    BY <1>1, <1>2
  <2>2. ~(calc[w].earned[i].end > ts)
    BY <2>1 DEF PaidBeyond
  <2> QED BY <2>1, <2>2
<1> QED BY <1>3, <1>4

LEMMA PayStep == TypeInv /\ TypeInv' /\ PayInv /\ [Next]_vars => PayInv'
<1> SUFFICES ASSUME TypeInv, TypeInv', PayInv, [Next]_vars, InPlace'
             PROVE  /\ \A i \in 1..Len(rows') : Pays(rows'[i], changes')
                    /\ \A w \in Workers : \A i \in 1..Len(calc'[w].earned) :
                            Pays(calc'[w].earned[i], changes')
                    /\ \A w \in Workers : calc'[w].pc \in {"clock", "read"} =>
                            BeginsRight(calc[w])'
  BY DEF PayInv
<1> DEFINE Paid(s, ch) == \A i \in 1..Len(s) : Pays(s[i], ch)
           Begins(c, rs, ch) ==
                \/ /\ \E i \in 1..Len(rs) : rs[i].end = c.start
                   /\ HeldAt(ch, c.start - 1, 0) = c.initial
                \/ \E i \in 1..Len(ch) : ch[i].ts = c.start
           Right(c, rs, ch) == c.pc \in {"clock", "read"} => Begins(c, rs, ch)
           Goal == /\ Paid(rows', changes')
                   /\ \A w \in Workers : /\ Paid(calc'[w].earned, changes')
                                         /\ Right(calc'[w], rows', changes')
<1>1. /\ rows \in Seq(Row) /\ calc \in [Workers -> CalcOf] /\ Timed
      /\ now \in Nat /\ now' \in Nat /\ Timed'
      /\ \A w \in Workers : calc[w].earned \in Seq(Row) /\ calc[w].start \in Nat
                              /\ calc[w].end \in Nat
      /\ \A w \in Workers : Working(w) => calc[w].start < calc[w].end /\ calc[w].end <= now
  BY ConstantsTyped DEF TypeInv, CalcOf
<1>2. InPlace => /\ Paid(rows, changes)
                 /\ \A w \in Workers : /\ Paid(calc[w].earned, changes)
                                       /\ Right(calc[w], rows, changes)
  BY DEF PayInv, BeginsRight
<1>3. \A s \in Seq(Row) : \A i \in 1..Len(s) : s[i] \in Row
  BY ElementOfSeq
<1>4. ASSUME NEW w \in Workers, NEW c, calc' = [calc EXCEPT ![w] = c],
             UNCHANGED <<changes, rows>>,
             Paid(c.earned, changes), Right(c, rows, changes)
      PROVE  Goal
  <2>1. InPlace
    BY <1>4 DEF InPlace
  <2> HIDE DEF Paid, Right
  <2>2. ASSUME NEW v \in Workers
        PROVE  Paid(calc'[v].earned, changes) /\ Right(calc'[v], rows, changes)
    <3>1. CASE v = w
      <4>1. calc'[v] = c
        BY <1>1, <1>4, <3>1
      <4> QED BY <1>4, <4>1
    <3>2. CASE v # w
      <4>1. calc'[v] = calc[v]
        BY <1>1, <1>4, <3>2
      <4> QED BY <1>2, <2>1, <4>1
    <3> QED BY <3>1, <3>2
  <2> QED BY <1>2, <1>4, <2>1, <2>2
<1>5. /\ \A ch : Paid(Idle.earned, ch)
      /\ \A rs, ch : Right(Idle, rs, ch)
  <2>1. Idle.pc = "idle" /\ Len(Idle.earned) = 0
    BY IdleTyped
  <2> QED BY <2>1
<1>6. ASSUME NEW w \in Workers, calc' = [calc EXCEPT ![w] = Idle],
             UNCHANGED <<changes, rows>>
      PROVE  Goal
  <2> HIDE DEF Paid, Right, Goal
  <2> QED BY <1>4, <1>5, <1>6
<1>7. ASSUME UNCHANGED <<changes, rows, calc>> PROVE Goal
  <2>1. InPlace
    BY <1>7 DEF InPlace
  <2> HIDE DEF Paid, Right
  <2> QED BY <1>2, <1>7, <2>1
<1>8. ASSUME Change PROVE Goal
  <2>1. PICK ts \in 0..now, b \in Balances :
          changes' = Append(changes, [ts |-> ts, after |-> b, missed |-> PaidBeyond(ts)])
    BY <1>8 DEF Change
  <2>2. UNCHANGED <<rows, calc>>
    BY <1>8 DEF Change
  <2> DEFINE n == Len(changes)
  <2>3. /\ n \in Nat /\ Len(changes') = n + 1
        /\ DOMAIN changes = 1..n /\ DOMAIN changes' = 1..(n + 1)
        /\ \A i \in 1..n : changes'[i] = changes[i]
        /\ changes'[n + 1] = [ts |-> ts, after |-> b, missed |-> PaidBeyond(ts)]
    <3>1. n \in Nat /\ DOMAIN changes = 1..n
      BY <1>1, ChangesTyped
    <3> QED BY <1>1, <2>1, <3>1 DEF Timed
  <2> HIDE DEF n
  <2>4. InPlace
    BY <2>3 DEF InPlace
  <2>5. ts \in Nat /\ changes'[n + 1].ts = ts /\ ~PaidBeyond(ts)
    <3>1. ~(changes'[n + 1].missed)
      BY <2>3 DEF InPlace
    <3>2. ~PaidBeyond(ts)
      <4>1. changes'[n + 1].missed = PaidBeyond(ts)
        BY <2>3
      <4> QED BY <3>1, <4>1, Zenon
    <3>3. changes'[n + 1].ts = ts /\ ts \in Nat
      BY <1>1, <2>3
    <3> QED BY <3>2, <3>3
  <2>6. Grows(changes, changes', ts)
    <3>1. Stamped(changes) /\ Stamped(changes')
      <4>1. Stamped(changes)
        BY <1>1, ChangesStamped
      <4>2. \A i \in 1..(n + 1) : changes'[i].ts \in Int
        BY <1>1, <2>3, <2>5, <4>1 DEF Stamped, n
      <4> QED BY <2>3, <4>1, <4>2 DEF Stamped
    <3> QED BY <2>3, <2>5, <3>1 DEF Grows, n
  <2>7. /\ \A i \in 1..Len(rows) : rows[i].end <= ts
        /\ \A w \in Workers : \A i \in 1..Len(calc[w].earned) : calc[w].earned[i].end <= ts
    BY <2>5, PaidBefore
  <2>8. ASSUME NEW s \in Seq(Row), Paid(s, changes), \A i \in 1..Len(s) : s[i].end <= ts
        PROVE  Paid(s, changes')
    BY <1>3, <2>5, <2>6, <2>8, PaysAfterGrowth
  <2>9. ASSUME NEW w \in Workers PROVE Right(calc[w], rows, changes')
    <3> SUFFICES ASSUME calc[w].pc \in {"clock", "read"} PROVE Begins(calc[w], rows, changes')
      OBVIOUS
    <3>1. Begins(calc[w], rows, changes)
      BY <1>2, <2>4
    <3>2. CASE \E i \in 1..Len(changes) : changes[i].ts = calc[w].start
      <4>1. PICK i \in 1..n : changes[i].ts = calc[w].start
        BY <3>2 DEF n
      <4>2. i \in 1..Len(changes') /\ changes'[i].ts = calc[w].start
        BY <2>3, <4>1
      <4> QED BY <4>2
    <3>3. CASE /\ \E i \in 1..Len(rows) : rows[i].end = calc[w].start
               /\ HeldAt(changes, calc[w].start - 1, 0) = calc[w].initial
      <4>1. calc[w].start - 1 \in Int /\ calc[w].start - 1 < ts
        BY <1>1, <2>5, <2>7, <3>3
      <4>2. HeldAt(changes', calc[w].start - 1, 0) = HeldAt(changes, calc[w].start - 1, 0)
        BY <2>5, <2>6, <4>1, HeldBeforeGrowth
      <4> QED BY <3>3, <4>2
    <3> QED BY <3>1, <3>2, <3>3
  <2> HIDE DEF Paid, Right
  <2>10. ASSUME NEW w \in Workers PROVE Paid(calc[w].earned, changes')
    BY <1>1, <1>2, <2>4, <2>7, <2>8
  <2> QED BY <1>1, <1>2, <2>2, <2>4, <2>7, <2>8, <2>9, <2>10
<1>9. ASSUME NEW w \in Workers, Select(w) PROVE Goal
  <2>1. UNCHANGED <<changes, rows>>
    BY <1>9 DEF Select
  <2> DEFINE c == [calc[w] EXCEPT !.pc = "selected"]
  <2>2. calc' = [calc EXCEPT ![w] = c]
    BY <1>9 DEF Select
  <2>3. c.pc = "selected" /\ c.earned = calc[w].earned
    BY <1>1 DEF CalcOf
  <2>4. InPlace
    BY <2>1 DEF InPlace
  <2> HIDE DEF c
  <2>5. Right(c, rows, changes)
    BY <2>3
  <2> HIDE DEF Paid, Right, Goal
  <2>6. Paid(c.earned, changes)
    BY <1>2, <2>3, <2>4
  <2> QED BY <1>4, <2>1, <2>2, <2>5, <2>6
<1>10. ASSUME NEW w \in Workers, ReadLast(w) PROVE Goal
  <2>1. UNCHANGED <<changes, rows>>
    BY <1>10 DEF ReadLast
  <2>2. InPlace
    BY <2>1 DEF InPlace
  <2>3. CASE calc' = [calc EXCEPT ![w] = [Idle EXCEPT !.pc = "first"]]
    <3> DEFINE c == [Idle EXCEPT !.pc = "first"]
    <3>1. c.pc = "first" /\ c.earned = Idle.earned
      BY IdleTyped DEF CalcOf
    <3>2. calc' = [calc EXCEPT ![w] = c]
      BY <2>3
    <3> HIDE DEF c
    <3>3. Right(c, rows, changes)
      BY <3>1
    <3> HIDE DEF Paid, Right, Goal
    <3> QED BY <1>4, <1>5, <2>1, <3>1, <3>2, <3>3
  <2>4. ASSUME NEW i, Begun(w, i) PROVE Goal
    <3> DEFINE c == [Idle EXCEPT !.pc = "clock", !.known = Len(rows),
                                 !.start = rows[i].end, !.initial = rows[i].balance]
    <3>1. calc' = [calc EXCEPT ![w] = c] /\ i \in 1..Len(rows) /\ rows[i] \in Row
      BY <1>1, <2>4, LenProperties DEF Begun
    <3>2. /\ c.start = rows[i].end /\ c.initial = rows[i].balance
          /\ c.earned = Idle.earned
      BY IdleTyped DEF CalcOf
    <3> HIDE DEF c
    <3>3. HeldAt(changes, c.start - 1, 0) = c.initial
      <4>1. Pays(rows[i], changes)
        BY <1>2, <2>2, <3>1
      <4>2. c.start - 1 \in rows[i].start..(rows[i].end - 1)
        <5>1. rows[i].start \in Nat /\ rows[i].end \in Nat /\ rows[i].start < rows[i].end
          BY <3>1, <4>1, RowTyped DEF Pays
        <5> QED BY <3>2, <5>1
      <4> QED BY <3>2, <4>1, <4>2 DEF Pays
    <3>4. Right(c, rows, changes)
      BY <3>1, <3>2, <3>3
    <3> HIDE DEF Paid, Right, Goal
    <3> QED BY <1>4, <1>5, <2>1, <3>1, <3>2, <3>4
  <2> QED BY <1>10, <2>3, <2>4, LastRead
<1>11. ASSUME NEW w \in Workers, ReadFirst(w) PROVE Goal
  <2>1. UNCHANGED <<changes, rows>>
    BY <1>11 DEF ReadFirst
  <2>2. CASE calc' = [calc EXCEPT ![w] = Idle]
    BY <1>6, <2>1, <2>2
  <2>3. ASSUME NEW i, BegunFirst(w, i) PROVE Goal
    <3> DEFINE c == [Idle EXCEPT !.pc = "clock", !.start = changes[i].ts]
    <3>1. calc' = [calc EXCEPT ![w] = c] /\ i \in 1..Len(changes)
      BY <2>3 DEF BegunFirst
    <3>2. c.start = changes[i].ts /\ c.earned = Idle.earned
      BY IdleTyped DEF CalcOf
    <3> HIDE DEF c
    <3>3. Right(c, rows, changes)
      BY <3>1, <3>2
    <3> HIDE DEF Paid, Right, Goal
    <3> QED BY <1>4, <1>5, <2>1, <3>1, <3>2, <3>3
  <2> QED BY <1>11, <2>2, <2>3, FirstRead
<1>12. ASSUME NEW w \in Workers, ReadClock(w) PROVE Goal
  <2>1. UNCHANGED <<changes, rows>>
    BY <1>12 DEF ReadClock
  <2>2. CASE calc' = [calc EXCEPT ![w] = Idle]
    BY <1>6, <2>1, <2>2
  <2>3. ASSUME NEW end, Ended(w, end) PROVE Goal
    <3> DEFINE c == [calc[w] EXCEPT !.pc = "read", !.end = end]
    <3>1. calc' = [calc EXCEPT ![w] = c] /\ calc[w].pc = "clock"
      BY <2>3 DEF Ended
    <3>2. /\ c.start = calc[w].start /\ c.initial = calc[w].initial
          /\ c.earned = calc[w].earned
      BY <1>1 DEF CalcOf
    <3>3. InPlace
      BY <2>1 DEF InPlace
    <3> HIDE DEF c
    <3>4. Right(c, rows, changes)
      BY <1>2, <3>1, <3>2, <3>3
    <3> HIDE DEF Right, Goal
    <3>5. Paid(c.earned, changes)
      BY <1>2, <3>2, <3>3
    <3> HIDE DEF Paid
    <3> QED BY <1>4, <2>1, <3>1, <3>4, <3>5
  <2> QED BY <1>12, <2>2, <2>3, ClockRead
<1>13. ASSUME NEW w \in Workers, ReadChanges(w) PROVE Goal
  <2>1. UNCHANGED <<changes, rows>>
    BY <1>13 DEF ReadChanges
  <2>2. InPlace
    BY <2>1 DEF InPlace
  <2>3. CASE calc' = [calc EXCEPT ![w] = Idle]
    BY <1>6, <2>1, <2>3
  <2>4. ASSUME NEW order, NEW earned, Earning(w, order, earned)
        PROVE  Goal
    <3> DEFINE c == [calc[w] EXCEPT !.pc = "total", !.earned = earned]
               start == calc[w].start
               end == calc[w].end
               initial == calc[w].initial
    <3>1. /\ calc[w].pc = "read" /\ order \in Window(start, end)
          /\ calc' = [calc EXCEPT ![w] = c]
          /\ earned \in Seq(Row)
      BY <2>4 DEF Earning
    <3>2. \A i \in 1..Len(earned) :
            /\ start <= earned[i].start
            /\ earned[i].start < earned[i].end
            /\ earned[i].end <= end
            /\ HoldsItsBalance(earned[i], Found(order), initial)
      BY <2>4 DEF Earning
    <3>3. c.pc = "total" /\ c.earned = earned
      BY <1>1 DEF CalcOf
    <3>4. start \in Nat /\ end \in Nat /\ start < end
      BY <1>1, <3>1 DEF Working
    <3>5. initial \in Balances \union {0}
      <4>1. calc[w] \in CalcOf
        BY <1>1
      <4> QED BY <4>1 DEF CalcOf
    <3>6. \/ HeldAt(changes, start - 1, 0) = initial
          \/ \E i \in 1..Len(changes) : changes[i].ts = start
      BY <1>2, <2>2, <3>1
    <3> HIDE DEF c, start, end, initial
    <3>7. /\ Timed
          /\ \A i, j \in DOMAIN changes : changes[i].ts = changes[j].ts => i = j
      BY <2>2 DEF InPlace, TypeInv
    <3>8. order \in Window(start, end)
      BY <3>1
    <3>9. ASSUME NEW i \in 1..Len(earned) PROVE Pays(earned[i], changes)
      <4> DEFINE r == earned[i]
      <4>1. r.start \in Nat /\ r.end \in Nat
        BY <1>3, <3>1, RowTyped
      <4>2. start <= r.start /\ r.start < r.end /\ r.end <= end
        BY <3>2
      <4>3. HoldsItsBalance(r, Found(order), initial)
        BY <3>2
      <4> HIDE DEF r
      <4>4. ASSUME NEW t \in r.start..(r.end - 1)
            PROVE  HeldAt(changes, t, 0) = r.balance
        <5>1. t \in start..(end - 1)
          BY <3>4, <4>1, <4>2
        <5>2. HeldAt(changes, t, 0) = HeldAt(Found(order), t, initial)
          BY <3>4, <3>5, <3>6, <3>7, <3>8, <5>1, HeldFromFound
        <5> QED BY <4>3, <5>2 DEF HoldsItsBalance
      <4> QED BY <4>2, <4>4 DEF Pays, r
    <3>10. Paid(c.earned, changes) /\ Right(c, rows, changes)
      BY <3>3, <3>9
    <3> HIDE DEF Paid, Right, Goal
    <3> QED BY <1>4, <2>1, <3>1, <3>10
  <2> QED BY <1>1, <1>13, <2>3, <2>4, ChangesRead
<1>14. ASSUME NEW w \in Workers, ReadTotal(w) PROVE Goal
  <2>1. UNCHANGED <<changes, rows>>
    BY <1>14 DEF ReadTotal
  <2> DEFINE total == IF totals = <<>> THEN None ELSE Head(totals)
             c == [calc[w] EXCEPT !.pc = "commit", !.total = total]
  <2>2. calc' = [calc EXCEPT ![w] = c]
    <3>1. calc' = [calc EXCEPT ![w].pc = "commit", ![w].total = total]
      BY <1>14 DEF ReadTotal
    <3> HIDE DEF total
    <3>2. [calc EXCEPT ![w].pc = "commit", ![w].total = total] = [calc EXCEPT ![w] = c]
      BY DEF TypeInv
    <3> QED BY <3>1, <3>2
  <2> HIDE DEF total
  <2>3. c.pc = "commit" /\ c.earned = calc[w].earned
    BY <1>1 DEF CalcOf
  <2>4. InPlace
    BY <2>1 DEF InPlace
  <2> HIDE DEF c
  <2>5. Right(c, rows, changes)
    BY <2>3
  <2> HIDE DEF Paid, Right, Goal
  <2>6. Paid(c.earned, changes)
    BY <1>2, <2>3, <2>4
  <2> QED BY <1>4, <2>1, <2>2, <2>5, <2>6
<1>15. ASSUME NEW w \in Workers, Commit(w) PROVE Goal
  <2>1. /\ rows' = rows \o calc[w].earned
        /\ calc' = [calc EXCEPT ![w] = Idle]
        /\ UNCHANGED changes
    BY <1>15 DEF Commit
  <2>2. InPlace
    BY <2>1 DEF InPlace
  <2> DEFINE e == calc[w].earned
  <2>3. /\ Len(rows') = Len(rows) + Len(e) /\ Len(rows) \in Nat /\ Len(e) \in Nat
        /\ \A i \in 1..Len(rows) : rows'[i] = rows[i]
        /\ \A i \in 1..Len(e) : rows'[Len(rows) + i] = e[i]
    BY <1>1, <2>1, ConcatProperties, LenProperties
  <2>4. Paid(rows, changes) /\ Paid(e, changes)
    BY <1>2, <2>2
  <2> HIDE DEF e
  <2>5. ASSUME NEW i \in 1..Len(rows') PROVE Pays(rows'[i], changes)
    <3>1. CASE i \in 1..Len(rows)
      BY <2>3, <2>4, <3>1
    <3>2. CASE i \notin 1..Len(rows)
      <4>1. i - Len(rows) \in 1..Len(e) /\ Len(rows) + (i - Len(rows)) = i
        BY <2>3, <3>2
      <4>2. rows'[i] = e[i - Len(rows)]
        BY <2>3, <4>1
      <4> QED BY <2>4, <4>1, <4>2
    <3> QED BY <3>1, <3>2
  <2>6. Paid(rows', changes)
    BY <2>5
  <2> HIDE DEF Paid, Right
  <2>7. ASSUME NEW v \in Workers
        PROVE  Paid(calc'[v].earned, changes) /\ Right(calc'[v], rows', changes)
    <3>1. calc'[v] = IF v = w THEN Idle ELSE calc[v]
      BY <1>1, <2>1
    <3>2. ASSUME NEW c, Right(c, rows, changes) PROVE Right(c, rows', changes)
      <4> SUFFICES ASSUME NEW i \in 1..Len(rows), rows[i].end = c.start
                   PROVE  \E j \in 1..Len(rows') : rows'[j].end = c.start
        BY <3>2 DEF Right
      <4>1. i \in 1..Len(rows') /\ rows'[i] = rows[i]
        BY <2>3
      <4> QED BY <4>1
    <3> QED BY <1>2, <1>5, <2>2, <3>1, <3>2
  <2> QED BY <2>1, <2>6, <2>7
<1>16. ASSUME NEW w \in Workers, Abort(w) PROVE Goal
  <2>1. calc' = [calc EXCEPT ![w] = Idle] /\ UNCHANGED <<changes, rows>>
    BY <1>16 DEF Abort
  <2> HIDE DEF Goal
  <2> QED BY <1>6, <2>1
<1>17. Goal
  <2> HIDE DEF Goal
  <2>1. CASE Tick \/ UNCHANGED vars
    BY <1>7, <2>1 DEF Tick, vars
  <2> QED
    BY <1>8, <1>9, <1>10, <1>13, <1>14, <1>15, <1>16, <1>11, <1>12, <2>1 DEF Next, Calculate
<1> QED BY <1>17 DEF BeginsRight

(* A row pays the balance that was held in its time, whatever goroutines     *)
(* calculate and in whatever order their statements run, if no change was    *)
(* committed behind a calculation.                                           *)
THEOREM RowsPayWhatWasHeld == Spec => []RowsPayHeldBalance
<1>1. TypeInv /\ PayInv => RowsPayHeldBalance
  <2> SUFFICES ASSUME TypeInv, PayInv, InPlace, NEW i \in DOMAIN rows
               PROVE  HoldsItsBalance(rows[i], changes, 0)
    BY DEF RowsPayHeldBalance
  <2>1. i \in 1..Len(rows)
    BY LenProperties DEF TypeInv
  <2>2. Pays(rows[i], changes)
    BY <2>1 DEF PayInv
  <2> QED BY <2>2 DEF Pays, HoldsItsBalance
<1>2. Init => TypeInv /\ PayInv
  BY TypesInitially, PayInitially
<1>3. (TypeInv /\ PayInv) /\ [Next]_vars => (TypeInv /\ PayInv)'
  BY TypesStep, PayStep
<1>4. Spec => [](TypeInv /\ PayInv)
  BY <1>2, <1>3, PTL DEF Spec
<1> QED BY <1>1, <1>4, PTL
-----------------------------------------------------------------------------
(* What the comments that promise a lock are about holds until a calculation *)
(* commits that has not read what another committed.  Until then, one that   *)
(* has read every row (known) starts behind all of them.                     *)
InOrder(s) ==
    /\ \A i \in 1..Len(s) : s[i].start < s[i].end
    /\ \A i, j \in 1..Len(s) : i < j => s[i].end <= s[j].start

EarnsInOrder(c) ==
    /\ InOrder(c.earned)
    /\ \A i \in 1..Len(c.earned) : c.start <= c.earned[i].start
    /\ c.pc \in {"total", "commit"} => c.earned # <<>>

StartsBehind(c, rs) ==
    c.pc \in {"clock", "read", "total", "commit"} /\ c.known = Len(rs) =>
        \A i \in 1..Len(rs) : rs[i].end <= c.start

HasTotal(c, rs) ==
    c.pc = "commit" /\ c.known = Len(rs) =>
        c.total = IF rs = <<>> THEN None ELSE SumPoints(rs)

UnracedInv ==
    /\ \A w \in Workers : EarnsInOrder(calc[w]) /\ StartsBehind(calc[w], rows)
    /\ ~raced => /\ InOrder(rows) /\ TotalIsSum
                 /\ \A w \in Workers : HasTotal(calc[w], rows)

(* Rows behind rows stay in order.                                           *)
LEMMA OrderConcat ==
    ASSUME NEW s \in Seq(Row), NEW t \in Seq(Row), InOrder(s), InOrder(t),
           NEW start \in Nat,
           \A i \in 1..Len(s) : s[i].end <= start,
           \A i \in 1..Len(t) : start <= t[i].start
    PROVE  InOrder(s \o t)
<1> DEFINE u == s \o t
           a == Len(s)
           b == Len(t)
<1>1. /\ Len(u) = a + b /\ a \in Nat /\ b \in Nat
      /\ \A i \in 1..a : u[i] = s[i]
      /\ \A i \in 1..b : u[a + i] = t[i]
  BY ConcatProperties, LenProperties
<1>2. ASSUME NEW i \in 1..a PROVE s[i].end \in Nat
  BY ElementOfSeq, RowTyped
<1>3. ASSUME NEW i \in 1..b PROVE t[i].start \in Nat
  BY ElementOfSeq, RowTyped
<1> HIDE DEF u, a, b
<1>4. ASSUME NEW i \in 1..(a + b), i \notin 1..a
      PROVE  i - a \in 1..b /\ u[i] = t[i - a]
  <2>1. i - a \in 1..b /\ a + (i - a) = i
    BY <1>1, <1>4
  <2> QED BY <1>1, <2>1
<1>5. ASSUME NEW i \in 1..(a + b) PROVE u[i].start < u[i].end
  <2>1. CASE i \in 1..a
    BY <1>1, <2>1 DEF InOrder, a
  <2>2. CASE i \notin 1..a
    <3>1. i - a \in 1..b /\ u[i] = t[i - a]
      BY <1>4, <2>2
    <3> QED BY <3>1 DEF InOrder, b
  <2> QED BY <2>1, <2>2
<1>6. ASSUME NEW i \in 1..(a + b), NEW j \in 1..(a + b), i < j
      PROVE  u[i].end <= u[j].start
  <2>1. CASE i \in 1..a /\ j \in 1..a
    BY <1>1, <1>6, <2>1 DEF InOrder, a
  <2>2. CASE i \in 1..a /\ j \notin 1..a
    <3>1. j - a \in 1..b /\ u[j] = t[j - a] /\ u[i] = s[i]
      BY <1>1, <1>4, <2>2
    <3>2. s[i].end <= start /\ start <= t[j - a].start
      BY <2>2, <3>1 DEF a, b
    <3> QED BY <1>2, <1>3, <2>2, <3>1, <3>2
  <2>3. CASE i \notin 1..a
    <3>1. j \notin 1..a
      BY <1>1, <1>6, <2>3
    <3>2. i - a \in 1..b /\ u[i] = t[i - a] /\ j - a \in 1..b /\ u[j] = t[j - a]
      BY <1>4, <2>3, <3>1
    <3>3. i - a < j - a
      BY <1>1, <1>6
    <3> QED BY <3>2, <3>3 DEF InOrder, b
  <2> QED BY <2>1, <2>2, <2>3
<1>7. InOrder(u)
  BY <1>1, <1>5, <1>6 DEF InOrder
<1> QED BY <1>7 DEF u

LEMMA IdleFresh ==
    \A rs : EarnsInOrder(Idle) /\ StartsBehind(Idle, rs) /\ HasTotal(Idle, rs)
<1>1. Idle.pc = "idle" /\ Len(Idle.earned) = 0
  BY IdleTyped
<1> QED BY <1>1 DEF EarnsInOrder, StartsBehind, HasTotal, InOrder

LEMMA UnracedInitially == Init => UnracedInv
<1> SUFFICES ASSUME Init PROVE UnracedInv
  OBVIOUS
<1>1. rows = <<>> /\ totals = <<>> /\ \A w \in Workers : calc[w] = Idle
  BY DEF Init
<1> QED BY <1>1, IdleFresh DEF UnracedInv, InOrder, TotalIsSum

LEMMA UnracedStep == TypeInv /\ UnracedInv /\ [Next]_vars => UnracedInv'
<1> SUFFICES ASSUME TypeInv, UnracedInv, [Next]_vars PROVE UnracedInv'
  OBVIOUS
<1>1. /\ rows \in Seq(Row) /\ totals \in Seq(Nat) /\ calc \in [Workers -> CalcOf]
      /\ \A w \in Workers : calc[w].earned \in Seq(Row) /\ calc[w].start \in Nat
                              /\ calc[w].total \in Nat \union {None}
                              /\ calc[w].known \in Nat /\ calc[w].known <= Len(rows)
  BY DEF TypeInv, CalcOf
<1>2. \A w \in Workers : EarnsInOrder(calc[w]) /\ StartsBehind(calc[w], rows)
  BY DEF UnracedInv
<1>3. ~raced => /\ InOrder(rows) /\ TotalIsSum
                /\ \A w \in Workers : HasTotal(calc[w], rows)
  BY DEF UnracedInv
<1>4. ASSUME NEW w \in Workers, NEW c, calc' = [calc EXCEPT ![w] = c],
             UNCHANGED <<rows, totals, raced>>,
             EarnsInOrder(c), StartsBehind(c, rows), ~raced => HasTotal(c, rows)
      PROVE  UnracedInv'
  <2>1. \A v \in Workers : calc'[v] = IF v = w THEN c ELSE calc[v]
    BY <1>1, <1>4
  <2>2. \A v \in Workers : EarnsInOrder(calc'[v]) /\ StartsBehind(calc'[v], rows')
    BY <1>2, <1>4, <2>1
  <2>3. ~raced' => /\ InOrder(rows') /\ TotalIsSum'
                   /\ \A v \in Workers : HasTotal(calc'[v], rows')
    BY <1>3, <1>4, <2>1 DEF TotalIsSum
  <2>4. \A v \in Workers : (EarnsInOrder(calc[v]) /\ StartsBehind(calc[v], rows))'
    BY <2>2 DEF EarnsInOrder, StartsBehind, InOrder
  <2>5. ~raced' => \A v \in Workers : HasTotal(calc[v], rows)'
    BY <2>3 DEF HasTotal, SumPoints
  <2>6. ~raced' => InOrder(rows)'
    BY <2>3 DEF InOrder
  <2> QED BY <2>3, <2>4, <2>5, <2>6 DEF UnracedInv
<1>5. ASSUME NEW w \in Workers, calc' = [calc EXCEPT ![w] = Idle],
             UNCHANGED <<rows, totals, raced>>
      PROVE  UnracedInv'
  BY <1>4, <1>5, IdleFresh
<1>6. CASE UNCHANGED <<rows, totals, calc, raced>>
  BY <1>2, <1>3, <1>6 DEF UnracedInv, TotalIsSum, InOrder, EarnsInOrder, StartsBehind,
     HasTotal
<1>7. CASE Tick \/ Change \/ UNCHANGED vars
  BY <1>6, <1>7 DEF Tick, Change, vars
<1>8. ASSUME NEW w \in Workers, Select(w) PROVE UnracedInv'
  <2> DEFINE c == [calc[w] EXCEPT !.pc = "selected"]
  <2>1. calc' = [calc EXCEPT ![w] = c] /\ UNCHANGED <<rows, totals, raced>>
    BY <1>8 DEF Select
  <2>2. c.pc = "selected" /\ c.earned = calc[w].earned /\ c.start = calc[w].start
    BY <1>1 DEF CalcOf
  <2> HIDE DEF c
  <2>3. EarnsInOrder(calc[w])
    BY <1>2
  <2>4. EarnsInOrder(c) /\ StartsBehind(c, rows) /\ HasTotal(c, rows)
    BY <2>2, <2>3 DEF EarnsInOrder, StartsBehind, HasTotal
  <2> QED BY <1>4, <2>1, <2>4
<1>9. ASSUME NEW w \in Workers, ReadLast(w) PROVE UnracedInv'
  <2>1. UNCHANGED <<rows, totals, raced>>
    BY <1>9 DEF ReadLast
  <2>2. CASE calc' = [calc EXCEPT ![w] = [Idle EXCEPT !.pc = "first"]]
    <3> DEFINE c == [Idle EXCEPT !.pc = "first"]
    <3>1. c.pc = "first" /\ Len(c.earned) = 0
      BY IdleTyped DEF CalcOf
    <3> HIDE DEF c
    <3>2. EarnsInOrder(c) /\ StartsBehind(c, rows) /\ HasTotal(c, rows)
      BY <3>1 DEF EarnsInOrder, StartsBehind, HasTotal, InOrder
    <3>3. calc' = [calc EXCEPT ![w] = c]
      BY <2>2 DEF c
    <3> QED BY <1>4, <2>1, <3>2, <3>3
  <2>3. ASSUME NEW i, Begun(w, i) PROVE UnracedInv'
    <3> DEFINE c == [Idle EXCEPT !.pc = "clock", !.known = Len(rows),
                                 !.start = rows[i].end, !.initial = rows[i].balance]
    <3>1. calc' = [calc EXCEPT ![w] = c] /\ \A j \in DOMAIN rows : rows[j].end <= rows[i].end
      BY <2>3 DEF Begun
    <3>2. c.pc = "clock" /\ c.start = rows[i].end /\ Len(c.earned) = 0
      BY IdleTyped DEF CalcOf
    <3> HIDE DEF c
    <3>3. \A j \in 1..Len(rows) : rows[j].end <= c.start
      BY <1>1, <3>1, <3>2, LenProperties
    <3>4. EarnsInOrder(c) /\ StartsBehind(c, rows) /\ HasTotal(c, rows)
      BY <3>2, <3>3 DEF EarnsInOrder, StartsBehind, HasTotal, InOrder
    <3> QED BY <1>4, <2>1, <3>1, <3>4
  <2> QED BY <1>9, <2>2, <2>3, LastRead
<1>10. ASSUME NEW w \in Workers, ReadFirst(w) PROVE UnracedInv'
  <2>1. UNCHANGED <<rows, totals, raced>>
    BY <1>10 DEF ReadFirst
  <2>2. CASE calc' = [calc EXCEPT ![w] = Idle]
    BY <1>5, <2>1, <2>2
  <2>3. ASSUME NEW i, BegunFirst(w, i) PROVE UnracedInv'
    <3> DEFINE c == [Idle EXCEPT !.pc = "clock", !.start = changes[i].ts]
    <3>1. calc' = [calc EXCEPT ![w] = c]
      BY <2>3 DEF BegunFirst
    <3>2. c.pc = "clock" /\ c.known = 0 /\ Len(c.earned) = 0
      BY IdleTyped DEF CalcOf
    <3> HIDE DEF c
    <3>3. EarnsInOrder(c) /\ StartsBehind(c, rows) /\ HasTotal(c, rows)
      BY <3>2 DEF EarnsInOrder, StartsBehind, HasTotal, InOrder
    <3> QED BY <1>4, <2>1, <3>1, <3>3
  <2> QED BY <1>10, <2>2, <2>3, FirstRead
<1>11. ASSUME NEW w \in Workers, ReadClock(w) PROVE UnracedInv'
  <2>1. UNCHANGED <<rows, totals, raced>>
    BY <1>11 DEF ReadClock
  <2>2. CASE calc' = [calc EXCEPT ![w] = Idle]
    BY <1>5, <2>1, <2>2
  <2>3. ASSUME NEW end, Ended(w, end) PROVE UnracedInv'
    <3> DEFINE c == [calc[w] EXCEPT !.pc = "read", !.end = end]
    <3>1. calc' = [calc EXCEPT ![w] = c] /\ calc[w].pc = "clock"
      BY <2>3 DEF Ended
    <3>2. /\ c.pc = "read" /\ c.known = calc[w].known /\ c.start = calc[w].start
          /\ c.earned = calc[w].earned
      BY <1>1 DEF CalcOf
    <3> HIDE DEF c
    <3>3. EarnsInOrder(calc[w]) /\ StartsBehind(calc[w], rows)
      BY <1>2
    <3>4. EarnsInOrder(c) /\ StartsBehind(c, rows) /\ HasTotal(c, rows)
      BY <3>1, <3>2, <3>3 DEF EarnsInOrder, StartsBehind, HasTotal
    <3> QED BY <1>4, <2>1, <3>1, <3>4
  <2> QED BY <1>11, <2>2, <2>3, ClockRead
<1>12. ASSUME NEW w \in Workers, ReadChanges(w) PROVE UnracedInv'
  <2>1. UNCHANGED <<rows, totals, raced>>
    BY <1>12 DEF ReadChanges
  <2>2. CASE calc' = [calc EXCEPT ![w] = Idle]
    BY <1>5, <2>1, <2>2
  <2>3. ASSUME NEW order, NEW earned, Earning(w, order, earned)
        PROVE  UnracedInv'
    <3> DEFINE c == [calc[w] EXCEPT !.pc = "total", !.earned = earned]
    <3>1. /\ calc[w].pc = "read" /\ earned # <<>>
          /\ calc' = [calc EXCEPT ![w] = c]
      BY <2>3 DEF Earning
    <3>2. \A i \in 1..Len(earned) : /\ calc[w].start <= earned[i].start
                                    /\ earned[i].start < earned[i].end
      BY <2>3 DEF Earning
    <3>3. InOrder(earned)
      BY <2>3, <3>2 DEF Earning, InOrder
    <3>4. /\ c.pc = "total" /\ c.earned = earned /\ c.start = calc[w].start
          /\ c.known = calc[w].known
      BY <1>1 DEF CalcOf
    <3> HIDE DEF c
    <3>5. StartsBehind(calc[w], rows)
      BY <1>2
    <3>6. EarnsInOrder(c) /\ StartsBehind(c, rows) /\ HasTotal(c, rows)
      BY <3>1, <3>2, <3>3, <3>4, <3>5 DEF EarnsInOrder, StartsBehind, HasTotal
    <3> QED BY <1>4, <2>1, <3>1, <3>6
  <2> QED BY <1>12, <2>2, <2>3, ChangesRead
<1>13. ASSUME NEW w \in Workers, ReadTotal(w) PROVE UnracedInv'
  <2> DEFINE total == IF totals = <<>> THEN None ELSE Head(totals)
             c == [calc[w] EXCEPT !.pc = "commit", !.total = total]
  <2>1. calc' = [calc EXCEPT ![w] = c] /\ UNCHANGED <<rows, totals, raced>>
    <3>1. calc' = [calc EXCEPT ![w].pc = "commit", ![w].total = total]
      BY <1>13 DEF ReadTotal
    <3> HIDE DEF total
    <3>2. [calc EXCEPT ![w].pc = "commit", ![w].total = total] = [calc EXCEPT ![w] = c]
      BY DEF TypeInv
    <3> QED BY <1>13, <3>1, <3>2 DEF ReadTotal
  <2>2. ~raced => total = IF rows = <<>> THEN None ELSE SumPoints(rows)
    BY <1>3 DEF TotalIsSum
  <2> HIDE DEF total
  <2>3. /\ c.pc = "commit" /\ c.earned = calc[w].earned /\ c.start = calc[w].start
        /\ c.known = calc[w].known /\ c.total = total
    BY <1>1 DEF CalcOf
  <2> HIDE DEF c
  <2>4. EarnsInOrder(calc[w]) /\ StartsBehind(calc[w], rows) /\ calc[w].pc = "total"
    BY <1>2, <1>13 DEF ReadTotal
  <2>5. EarnsInOrder(c) /\ StartsBehind(c, rows)
    BY <2>3, <2>4 DEF EarnsInOrder, StartsBehind
  <2>6. ~raced => HasTotal(c, rows)
    BY <2>2, <2>3 DEF HasTotal
  <2> QED BY <1>4, <2>1, <2>5, <2>6
<1>14. ASSUME NEW w \in Workers, Commit(w) PROVE UnracedInv'
  <2> DEFINE e == calc[w].earned
             total == calc[w].total
  <2>1. /\ rows' = rows \o e
        /\ totals' = IF total = None THEN Append(totals, SumPoints(e))
                     ELSE [totals EXCEPT ![1] = total + SumPoints(e)]
        /\ calc' = [calc EXCEPT ![w] = Idle]
    BY <1>14 DEF Commit, NewTotals
  <2>2. /\ InOrder(e) /\ e # <<>> /\ e \in Seq(Row)
        /\ \A i \in 1..Len(e) : calc[w].start <= e[i].start
    <3>1. EarnsInOrder(calc[w]) /\ calc[w].pc = "commit"
      BY <1>2, <1>14 DEF Commit
    <3> QED BY <1>1, <3>1 DEF EarnsInOrder
  <2>3. ~raced' => ~raced /\ calc[w].known = Len(rows)
    BY <1>14, Zenon DEF Commit
  <2>4. ~raced' => /\ \A i \in 1..Len(rows) : rows[i].end <= calc[w].start
                   /\ total = IF rows = <<>> THEN None ELSE SumPoints(rows)
    <3>1. StartsBehind(calc[w], rows) /\ calc[w].pc = "commit"
      BY <1>2, <1>14 DEF Commit
    <3>2. ~raced => HasTotal(calc[w], rows)
      BY <1>3
    <3> QED BY <2>3, <3>1, <3>2 DEF StartsBehind, HasTotal
  <2> HIDE DEF e, total
  <2>5. Len(rows) < Len(rows') /\ Len(rows) \in Nat /\ Len(rows') \in Nat
    <3>1. Len(rows') = Len(rows) + Len(e)
      BY <1>1, <2>1, <2>2, ConcatProperties
    <3>2. Len(e) \in Nat /\ Len(e) # 0 /\ Len(rows) \in Nat
      BY <1>1, <2>2, LenProperties, EmptySeq
    <3> QED BY <3>1, <3>2
  <2>6. ASSUME NEW v \in Workers
        PROVE  EarnsInOrder(calc'[v]) /\ StartsBehind(calc'[v], rows') /\ HasTotal(calc'[v], rows')
    <3>1. CASE v = w
      <4>1. calc'[v] = Idle
        BY <1>1, <2>1, <3>1
      <4> QED BY <4>1, IdleFresh
    <3>2. CASE v # w
      <4>1. calc'[v] = calc[v]
        BY <1>1, <2>1, <3>2
      <4>2. calc[v].known \in Nat /\ calc[v].known <= Len(rows)
        BY <1>1
      <4>3. calc[v].known # Len(rows')
        BY <2>5, <4>2
      <4> QED BY <1>2, <4>1, <4>3 DEF StartsBehind, HasTotal
    <3> QED BY <3>1, <3>2
  <2>7. ~raced' => InOrder(rows')
    BY <1>1, <1>3, <2>1, <2>2, <2>3, <2>4, OrderConcat
  <2>8. rows' # <<>>
    BY <1>1, <2>1, <2>2
  <2>9. SumPoints(e) \in Nat /\ SumPoints(rows) \in Nat
    BY <1>1, <2>2, SumPointsType
  <2>10. ASSUME ~raced' PROVE totals' = <<SumPoints(rows')>>
    <3>0. TotalIsSum /\ total = IF rows = <<>> THEN None ELSE SumPoints(rows)
      BY <1>3, <2>3, <2>4, <2>10
    <3>1. CASE rows = <<>>
      <4>1. rows' = e /\ totals = <<>> /\ total = None
        BY <2>1, <2>2, <3>0, <3>1 DEF TotalIsSum
      <4> QED BY <2>1, <2>9, <4>1
    <3>2. CASE rows # <<>>
      <4> DEFINE x == total + SumPoints(e)
      <4>1. totals = <<SumPoints(rows)>> /\ total = SumPoints(rows) /\ total # None
        BY <2>9, <3>0, <3>2 DEF TotalIsSum, None
      <4>2. x = SumPoints(rows')
        BY <1>1, <2>1, <2>2, <4>1, SumPointsConcat
      <4>3. totals' = [totals EXCEPT ![1] = x]
        BY <2>1, <4>1
      <4> HIDE DEF x
      <4>4. totals' = <<x>>
        BY <4>1, <4>3
      <4> QED BY <4>2, <4>4
    <3> QED BY <3>1, <3>2
  <2>11. ~raced' => TotalIsSum'
    BY <2>8, <2>10 DEF TotalIsSum
  <2>12. \A v \in Workers : (EarnsInOrder(calc[v]) /\ StartsBehind(calc[v], rows))'
    BY <2>6 DEF EarnsInOrder, StartsBehind, InOrder
  <2>13. \A v \in Workers : HasTotal(calc[v], rows)'
    BY <2>6 DEF HasTotal, SumPoints
  <2>14. ~raced' => InOrder(rows)'
    BY <2>7 DEF InOrder
  <2> QED BY <2>11, <2>12, <2>13, <2>14 DEF UnracedInv
<1>15. ASSUME NEW w \in Workers, Abort(w) PROVE UnracedInv'
  BY <1>5, <1>15 DEF Abort
<1> QED
  BY <1>7, <1>8, <1>9, <1>10, <1>11, <1>12, <1>13, <1>14, <1>15 DEF Next, Calculate

LEMMA UnracedAlways == Spec => [](TypeInv /\ UnracedInv)
<1>1. Init => TypeInv /\ UnracedInv
  BY TypesInitially, UnracedInitially
<1>2. (TypeInv /\ UnracedInv) /\ [Next]_vars => (TypeInv /\ UnracedInv)'
  BY TypesStep, UnracedStep
<1> QED BY <1>1, <1>2, PTL DEF Spec

(* Until a calculation commits that has not seen what another committed, no  *)
(* moment is paid twice, however many goroutines calculate, fail and start   *)
(* again.  The run PointsRace shows the rest.                                *)
THEOREM NoMomentTwice == Spec => []PaidOnceUnlessRaced
<1>1. TypeInv /\ UnracedInv => PaidOnceUnlessRaced
  <2> SUFFICES ASSUME TypeInv, UnracedInv, ~raced,
                      NEW i \in DOMAIN rows, NEW j \in DOMAIN rows, i < j
               PROVE  rows[i].end <= rows[j].start
    BY DEF PaidOnceUnlessRaced, RowsDisjoint
  <2>1. DOMAIN rows = 1..Len(rows)
    BY LenProperties DEF TypeInv
  <2> QED BY <2>1 DEF UnracedInv, InOrder
<1> QED BY <1>1, UnracedAlways, PTL

(* Until then the user has one total, the sum of the rows.                   *)
THEOREM TotalsAreSums == Spec => []TotalIsSumUnlessRaced
<1>1. TypeInv /\ UnracedInv => TotalIsSumUnlessRaced
  BY DEF UnracedInv, TotalIsSumUnlessRaced
<1> QED BY <1>1, UnracedAlways, PTL
-----------------------------------------------------------------------------
(* Whatever races, a total that is shown, and one that a transaction is      *)
(* about to write back, is no more than the rows.                            *)
WithinInv ==
    /\ \A i \in 1..Len(totals) : totals[i] <= SumPoints(rows)
    /\ \A w \in Workers : calc[w].pc = "commit" =>
            calc[w].total = None \/ calc[w].total <= SumPoints(rows)

LEMMA WithinInitially == Init => WithinInv
<1> SUFFICES ASSUME Init PROVE WithinInv
  OBVIOUS
<1>1. Len(totals) = 0 /\ \A w \in Workers : calc[w].pc # "commit"
  BY IdleTyped DEF Init
<1> QED BY <1>1 DEF WithinInv

LEMMA WithinStep == TypeInv /\ WithinInv /\ [Next]_vars => WithinInv'
<1> SUFFICES ASSUME TypeInv, WithinInv, [Next]_vars PROVE WithinInv'
  OBVIOUS
<1>1. /\ rows \in Seq(Row) /\ totals \in Seq(Nat) /\ calc \in [Workers -> CalcOf]
      /\ \A w \in Workers : calc[w].earned \in Seq(Row)
                              /\ calc[w].total \in Nat \union {None}
  BY DEF TypeInv, CalcOf
<1>2. /\ \A i \in 1..Len(totals) : totals[i] <= SumPoints(rows)
      /\ \A w \in Workers : calc[w].pc = "commit" =>
            calc[w].total = None \/ calc[w].total <= SumPoints(rows)
  BY DEF WithinInv
<1>3. ASSUME UNCHANGED <<rows, totals>>,
             \A w \in Workers : calc'[w].pc = "commit" =>
                calc'[w].total = None \/ calc'[w].total <= SumPoints(rows)
      PROVE  WithinInv'
  <2>1. SumPoints(rows)' = SumPoints(rows)
    BY <1>3 DEF SumPoints
  <2> QED BY <1>2, <1>3, <2>1 DEF WithinInv
<1>4. ASSUME NEW w \in Workers, NEW c, calc' = [calc EXCEPT ![w] = c], c.pc # "commit",
             UNCHANGED <<rows, totals>>
      PROVE  WithinInv'
  <2>1. \A v \in Workers : calc'[v] = IF v = w THEN c ELSE calc[v]
    BY <1>1, <1>4
  <2> QED BY <1>2, <1>3, <1>4, <2>1
<1>5. ASSUME NEW w \in Workers, calc' = [calc EXCEPT ![w] = Idle], UNCHANGED <<rows, totals>>
      PROVE  WithinInv'
  BY <1>4, <1>5, IdleTyped
<1>6. CASE Tick \/ Change \/ UNCHANGED vars
  <2>1. UNCHANGED <<rows, totals, calc>>
    BY <1>6 DEF Tick, Change, vars
  <2> QED BY <1>2, <1>3, <2>1
<1>7. ASSUME NEW w \in Workers, Select(w) PROVE WithinInv'
  <2>1. calc' = [calc EXCEPT ![w] = [calc[w] EXCEPT !.pc = "selected"]]
        /\ UNCHANGED <<rows, totals>>
    BY <1>7 DEF Select
  <2>2. [calc[w] EXCEPT !.pc = "selected"].pc # "commit"
    BY <1>1 DEF CalcOf
  <2> QED BY <1>4, <2>1, <2>2
<1>8. ASSUME NEW w \in Workers, ReadLast(w) PROVE WithinInv'
  <2>1. UNCHANGED <<rows, totals>>
    BY <1>8 DEF ReadLast
  <2>2. [Idle EXCEPT !.pc = "first"].pc # "commit"
    BY IdleTyped DEF CalcOf
  <2>3. ASSUME NEW i, Begun(w, i) PROVE WithinInv'
    <3> DEFINE c == [Idle EXCEPT !.pc = "clock", !.known = Len(rows),
                                 !.start = rows[i].end, !.initial = rows[i].balance]
    <3>1. calc' = [calc EXCEPT ![w] = c] /\ c.pc # "commit"
      BY <2>3, IdleTyped DEF Begun, CalcOf
    <3> HIDE DEF c
    <3> QED BY <1>4, <2>1, <3>1
  <2> QED BY <1>4, <1>8, <2>1, <2>2, <2>3, LastRead
<1>9. ASSUME NEW w \in Workers, ReadFirst(w) PROVE WithinInv'
  <2>1. UNCHANGED <<rows, totals>>
    BY <1>9 DEF ReadFirst
  <2>2. ASSUME NEW i, BegunFirst(w, i) PROVE WithinInv'
    <3> DEFINE c == [Idle EXCEPT !.pc = "clock", !.start = changes[i].ts]
    <3>1. calc' = [calc EXCEPT ![w] = c] /\ c.pc # "commit"
      BY <2>2, IdleTyped DEF BegunFirst, CalcOf
    <3> HIDE DEF c
    <3> QED BY <1>4, <2>1, <3>1
  <2> QED BY <1>5, <1>9, <2>1, <2>2, FirstRead
<1>10. ASSUME NEW w \in Workers, ReadClock(w) PROVE WithinInv'
  <2>1. UNCHANGED <<rows, totals>>
    BY <1>10 DEF ReadClock
  <2>2. ASSUME NEW end, Ended(w, end) PROVE WithinInv'
    <3> DEFINE c == [calc[w] EXCEPT !.pc = "read", !.end = end]
    <3>1. calc' = [calc EXCEPT ![w] = c] /\ c.pc # "commit"
      BY <1>1, <2>2 DEF Ended, CalcOf
    <3> HIDE DEF c
    <3> QED BY <1>4, <2>1, <3>1
  <2> QED BY <1>5, <1>10, <2>1, <2>2, ClockRead
<1>11. ASSUME NEW w \in Workers, ReadChanges(w) PROVE WithinInv'
  <2>1. UNCHANGED <<rows, totals>>
    BY <1>11 DEF ReadChanges
  <2>2. ASSUME NEW order, NEW earned, Earning(w, order, earned) PROVE WithinInv'
    <3> DEFINE c == [calc[w] EXCEPT !.pc = "total", !.earned = earned]
    <3>1. calc' = [calc EXCEPT ![w] = c] /\ c.pc # "commit"
      BY <1>1, <2>2 DEF Earning, CalcOf
    <3> HIDE DEF c
    <3> QED BY <1>4, <2>1, <3>1
  <2> QED BY <1>5, <1>11, <2>1, <2>2, ChangesRead
<1>12. ASSUME NEW w \in Workers, ReadTotal(w) PROVE WithinInv'
  <2> DEFINE total == IF totals = <<>> THEN None ELSE Head(totals)
             c == [calc[w] EXCEPT !.pc = "commit", !.total = total]
  <2>1. calc' = [calc EXCEPT ![w] = c] /\ UNCHANGED <<rows, totals>>
    <3>1. calc' = [calc EXCEPT ![w].pc = "commit", ![w].total = total]
      BY <1>12 DEF ReadTotal
    <3> HIDE DEF total
    <3>2. [calc EXCEPT ![w].pc = "commit", ![w].total = total] = [calc EXCEPT ![w] = c]
      BY DEF TypeInv
    <3> QED BY <1>12, <3>1, <3>2 DEF ReadTotal
  <2>2. total = None \/ total <= SumPoints(rows)
    <3>1. CASE totals = <<>>
      BY <3>1
    <3>2. CASE totals # <<>>
      <4>1. total = totals[1] /\ 1 \in 1..Len(totals)
        BY <1>1, <3>2
      <4> QED BY <1>2, <4>1
    <3> QED BY <3>1, <3>2
  <2> HIDE DEF total
  <2>3. c.total = total
    BY <1>1 DEF CalcOf
  <2> HIDE DEF c
  <2>4. \A v \in Workers : calc'[v] = IF v = w THEN c ELSE calc[v]
    BY <1>1, <2>1
  <2> QED BY <1>2, <1>3, <2>1, <2>2, <2>3, <2>4
<1>13. ASSUME NEW w \in Workers, Commit(w) PROVE WithinInv'
  <2> DEFINE e == calc[w].earned
             total == calc[w].total
  <2>1. /\ rows' = rows \o e
        /\ totals' = IF total = None THEN Append(totals, SumPoints(e))
                     ELSE [totals EXCEPT ![1] = total + SumPoints(e)]
        /\ calc' = [calc EXCEPT ![w] = Idle] /\ calc[w].pc = "commit"
    BY <1>13 DEF Commit, NewTotals
  <2>2. e \in Seq(Row) /\ total \in Nat \union {None}
        /\ (total = None \/ total <= SumPoints(rows))
    BY <1>1, <1>2, <2>1
  <2>3. ASSUME NEW v \in Workers, v # w PROVE calc'[v] = calc[v]
    BY <1>1, <2>1, <2>3
  <2>4. calc'[w].pc = "idle"
    BY <1>1, <2>1, IdleTyped
  <2> HIDE DEF e, total
  <2>5. /\ SumPoints(e) \in Nat /\ SumPoints(rows) \in Nat
        /\ SumPoints(rows') = SumPoints(rows) + SumPoints(e)
    BY <1>1, <2>1, <2>2, SumPointsType, SumPointsConcat
  <2>6. SumPoints(rows)' = SumPoints(rows')
    BY DEF SumPoints
  <2>7. ASSUME NEW i \in 1..Len(totals') PROVE totals'[i] <= SumPoints(rows')
    <3>1. CASE total = None
      <4>1. totals' = Append(totals, SumPoints(e))
        BY <2>1, <3>1
      <4>2. /\ Len(totals') = Len(totals) + 1 /\ Len(totals) \in Nat
            /\ totals'[Len(totals) + 1] = SumPoints(e)
            /\ \A k \in 1..Len(totals) : totals'[k] = totals[k]
        BY <1>1, <2>5, <4>1, AppendProperties, LenProperties
      <4>3. CASE i = Len(totals) + 1
        BY <2>5, <4>2, <4>3
      <4>4. CASE i # Len(totals) + 1
        <5>1. i \in 1..Len(totals) /\ totals'[i] = totals[i]
          BY <4>2, <4>4
        <5>2. totals[i] <= SumPoints(rows) /\ totals[i] \in Nat
          BY <1>1, <1>2, <5>1, ElementOfSeq
        <5> QED BY <2>5, <5>1, <5>2
      <4> QED BY <4>3, <4>4
    <3>2. CASE total # None
      <4> DEFINE x == total + SumPoints(e)
      <4>1. x \in Nat /\ x <= SumPoints(rows')
        BY <2>2, <2>5, <3>2
      <4>2. totals' = [totals EXCEPT ![1] = x]
        BY <2>1, <3>2
      <4> HIDE DEF x
      <4>3. Len(totals) \in Nat /\ DOMAIN totals = 1..Len(totals)
        BY <1>1, LenProperties
      <4>4. Len(totals') = Len(totals)
        BY <1>1, <4>1, <4>2, <4>3
      <4>5. totals'[i] = IF i = 1 THEN x ELSE totals[i]
        BY <4>2, <4>3, <4>4
      <4>6. totals[i] <= SumPoints(rows) /\ totals[i] \in Nat
        BY <1>1, <1>2, <4>4, ElementOfSeq
      <4> QED BY <2>5, <4>1, <4>5, <4>6
    <3> QED BY <3>1, <3>2
  <2>8. ASSUME NEW v \in Workers, calc'[v].pc = "commit"
        PROVE  calc'[v].total = None \/ calc'[v].total <= SumPoints(rows')
    <3>1. v # w
      BY <2>4, <2>8
    <3>2. /\ calc'[v].total = calc[v].total /\ calc[v].total \in Nat \union {None}
          /\ (calc[v].total = None \/ calc[v].total <= SumPoints(rows))
      BY <1>1, <1>2, <2>3, <2>8, <3>1
    <3> QED BY <2>5, <3>2
  <2> QED BY <2>6, <2>7, <2>8 DEF WithinInv
<1>14. ASSUME NEW w \in Workers, Abort(w) PROVE WithinInv'
  BY <1>5, <1>14 DEF Abort
<1> QED
  BY <1>6, <1>7, <1>8, <1>9, <1>10, <1>11, <1>12, <1>13, <1>14 DEF Next, Calculate

(* However the transactions of any number of goroutines interleave, no total *)
(* is ever more than the calculations listed: a race costs points, it makes  *)
(* none.                                                                     *)
THEOREM TotalsWithinRows == Spec => []TotalWithinRows
<1>1. TypeInv /\ WithinInv => TotalWithinRows
  <2> SUFFICES ASSUME TypeInv, WithinInv, NEW i \in DOMAIN totals
               PROVE  totals[i] <= SumPoints(rows)
    BY DEF TotalWithinRows
  <2>1. i \in 1..Len(totals)
    BY LenProperties DEF TypeInv
  <2> QED BY <2>1 DEF WithinInv
<1>2. Init => TypeInv /\ WithinInv
  BY TypesInitially, WithinInitially
<1>3. (TypeInv /\ WithinInv) /\ [Next]_vars => (TypeInv /\ WithinInv)'
  BY TypesStep, WithinStep
<1>4. Spec => [](TypeInv /\ WithinInv)
  BY <1>2, <1>3, PTL DEF Spec
<1> QED BY <1>1, <1>4, PTL
=============================================================================
