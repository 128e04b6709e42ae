-------------------------- MODULE Leaderboard_proofs --------------------------
(* Proofs about the ranked lists, for any users, amounts, base, limits and   *)
(* minima: the types, that a list is shown in order, that nobody is listed   *)
(* with less than the minimum, and that a client that has walked through all *)
(* pages has seen every user once.                                           *)
EXTENDS Leaderboard, SequenceTheorems, FunctionTheorems, FiniteSetTheorems,
        WellFoundedInduction, TLAPS

-----------------------------------------------------------------------------
(* Induction, as a fact about sets: every set of naturals has a least        *)
(* element.                                                                  *)
LEMMA LeastNatural ==
    ASSUME NEW T, T \subseteq Nat, T # {}
    PROVE  \E x \in T : \A y \in T : x <= y
<1> DEFINE R == {p \in Nat \X Nat : p[1] < p[2]}
<1>1. IsWellFoundedOn(R, Nat)
  BY NatLessThanWellFounded DEF OpToRel
<1> HIDE DEF R
<1>2. PICK x \in T : \A y \in T : <<y, x>> \notin R
  BY <1>1, WFMin, Zenon
<1>3. \A y \in T : ~(y < x)
  BY <1>2 DEF R
<1> QED BY <1>2, <1>3

-----------------------------------------------------------------------------
(* Division, by the base or by a limit.                                      *)
LEMMA DivMod ==
    ASSUME NEW n \in Nat, NEW b \in Nat \ {0}
    PROVE  n \div b \in Nat /\ n % b \in 0..(b - 1) /\ n = b * (n \div b) + (n % b)
<1>1. n \div b \in Nat
  OBVIOUS
<1>2. n % b \in 0..(b - 1)
  OBVIOUS
<1>3. n = b * (n \div b) + (n % b)
  OBVIOUS
<1> QED BY <1>1, <1>2, <1>3

LEMMA Trichotomy ==
    ASSUME NEW m \in Nat, NEW n \in Nat
    PROVE  m < n \/ m = n \/ m > n
OBVIOUS

LEMMA NextNotOne ==
    ASSUME NEW m \in Nat, m # 0, NEW k, NEW n, k = 1, n = m + 1, k = n
    PROVE  FALSE
OBVIOUS

LEMMA SameNext ==
    ASSUME NEW m \in Nat, NEW n \in Nat, NEW k, NEW l, k = m + 1, l = n + 1, k = l
    PROVE  m = n
OBVIOUS

LEMMA TimesNext ==
    ASSUME NEW b \in Nat, NEW p \in Nat, NEW q \in Nat, p < q
    PROVE  b * p + b <= b * q
<1>1. PICK d \in Nat : q = p + 1 + d
  <2>1. q - p - 1 \in Nat /\ q = p + 1 + (q - p - 1)
    OBVIOUS
  <2> QED BY <2>1
<1>2. b * q = b * p + b + b * d
  BY <1>1
<1>3. b * d \in Nat /\ b * p \in Nat
  OBVIOUS
<1> QED BY <1>2, <1>3

(* Without its last digit a number is smaller, ...                           *)
LEMMA DivLess ==
    ASSUME NEW n \in Nat, NEW b \in Nat \ {0, 1}, n >= b
    PROVE  n \div b < n
<1> DEFINE q == n \div b
           r == n % b
<1>1. q \in Nat /\ r \in 0..(b - 1) /\ n = b * q + r
  BY DivMod
<1> HIDE DEF q, r
<1>2. q # 0
  BY <1>1
<1>3. b * q >= 2 * q
  BY <1>1
<1>4. q < n
  BY <1>1, <1>2, <1>3
<1> QED BY <1>4 DEF q

(* ... and the order of two numbers is that of what precedes the last digit, *)
(* then that of the last digit.                                              *)
LEMMA DivOrder ==
    ASSUME NEW m \in Nat, NEW n \in Nat, NEW b \in Nat \ {0}, m < n
    PROVE  m \div b < n \div b \/ (m \div b = n \div b /\ m % b < n % b)
<1> DEFINE p == m \div b
           q == n \div b
           r == m % b
           s == n % b
<1>1. p \in Nat /\ r \in 0..(b - 1) /\ m = b * p + r
  BY DivMod
<1>2. q \in Nat /\ s \in 0..(b - 1) /\ n = b * q + s
  BY DivMod
<1> HIDE DEF p, q, r, s
<1>3. b * p \in Nat /\ b * q \in Nat
  BY <1>1, <1>2
<1>4. CASE q < p
  <2>1. b * q + b <= b * p
    BY <1>1, <1>2, <1>4, TimesNext
  <2> QED BY <1>1, <1>2, <1>3, <2>1
<1>5. CASE p = q
  BY <1>1, <1>2, <1>3, <1>5 DEF p, q, r, s
<1>6. CASE p < q
  BY <1>6 DEF p, q
<1> QED BY <1>1, <1>2, <1>4, <1>5, <1>6

-----------------------------------------------------------------------------
(* Digits, the recursive function, is one.                                   *)
LEMMA BaseTyped == Base \in Nat \ {0, 1} /\ Base \in Nat \ {0} /\ Base \in Nat
BY LeaderboardAssumption DEF LeaderboardAssumption

LEMMA LastDigit ==
    ASSUME NEW n \in Nat, ~(n < Base)
    PROVE  /\ n \div Base \in Nat /\ n \div Base < n
           /\ n % Base \in Nat /\ n % Base < Base
<1>1. Base \in Nat \ {0, 1} /\ Base \in Nat \ {0} /\ n >= Base
  BY BaseTyped
<1>2. n \div Base \in Nat /\ n % Base \in 0..(Base - 1)
  BY <1>1, DivMod
<1>3. n \div Base < n
  BY <1>1, DivLess
<1> QED BY <1>1, <1>2, <1>3

DigitAt(f, n) == IF n < Base THEN <<n>> ELSE Append(f[n \div Base], n % Base)

Digital(f, n) ==
    /\ f \in [0..n -> Seq(Nat)]
    /\ \A i \in 0..n : f[i] = DigitAt(f, i)

LEMMA DigitalGrows ==
    ASSUME NEW n \in Nat, NEW f, Digital(f, n)
    PROVE  \E g : Digital(g, n + 1)
<1> DEFINE g == [i \in 0..(n + 1) |-> IF i = n + 1 THEN DigitAt(f, n + 1) ELSE f[i]]
<1>1. ASSUME NEW i \in 0..(n + 1), i >= Base
      PROVE  i \div Base \in 0..n /\ i \div Base < i /\ i % Base \in Nat
  <2>1. i \in Nat /\ ~(i < Base)
    BY <1>1, BaseTyped
  <2>2. i \div Base \in Nat /\ i \div Base < i /\ i % Base \in Nat
    BY <2>1, LastDigit
  <2> QED BY <2>2
<1>2. DigitAt(f, n + 1) \in Seq(Nat)
  <2>1. CASE n + 1 < Base
    BY <2>1 DEF DigitAt
  <2>2. CASE ~(n + 1 < Base)
    <3> DEFINE k == (n + 1) \div Base
               d == (n + 1) % Base
    <3>1. k \in 0..n /\ d \in Nat
      BY <1>1, <2>2, BaseTyped
    <3> HIDE DEF k, d
    <3>2. Append(f[k], d) \in Seq(Nat)
      BY <3>1, AppendProperties DEF Digital
    <3> QED BY <2>2, <3>2 DEF DigitAt, k, d
  <2> QED BY <2>1, <2>2
<1>3. g \in [0..(n + 1) -> Seq(Nat)]
  BY <1>2 DEF Digital
<1>4. \A i \in 0..n : g[i] = f[i]
  OBVIOUS
<1>5. g[n + 1] = DigitAt(f, n + 1)
  OBVIOUS
<1> HIDE DEF g
<1>6. ASSUME NEW i \in 0..(n + 1) PROVE DigitAt(g, i) = DigitAt(f, i)
  <2>1. CASE i < Base
    BY <2>1 DEF DigitAt
  <2>2. CASE ~(i < Base)
    <3>1. i \div Base \in 0..n
      BY <1>1, <2>2, BaseTyped
    <3>2. g[i \div Base] = f[i \div Base]
      BY <1>4, <3>1
    <3> QED BY <2>2, <3>2 DEF DigitAt
  <2> QED BY <2>1, <2>2
<1>7. ASSUME NEW i \in 0..(n + 1) PROVE g[i] = DigitAt(g, i)
  <2>1. CASE i = n + 1
    BY <1>5, <1>6, <2>1
  <2>2. CASE i \in 0..n
    <3>1. f[i] = DigitAt(f, i)
      BY <2>2 DEF Digital
    <3> QED BY <1>4, <1>6, <2>2, <3>1
  <2> QED BY <2>1, <2>2
<1>8. Digital(g, n + 1)
  BY <1>3, <1>7 DEF Digital
<1> QED BY <1>8

LEMMA DigitalExists == \A n \in Nat : \E f : Digital(f, n)
<1> DEFINE T == {n \in Nat : ~(\E f : Digital(f, n))}
<1> SUFFICES ASSUME T # {} PROVE FALSE
  OBVIOUS
<1>1. PICK n \in T : \A k \in T : n <= k
  <2> HIDE DEF T
  <2>1. T \subseteq Nat
    BY DEF T
  <2> QED BY <2>1, LeastNatural
<1>2. n # 0
  <2> DEFINE f == [i \in 0..0 |-> <<0>>]
  <2>1. Digital(f, 0)
    <3>1. \A i \in 0..0 : f[i] = DigitAt(f, i)
      BY BaseTyped DEF DigitAt
    <3> QED BY <3>1 DEF Digital
  <2> QED BY <2>1
<1>3. n \in Nat /\ n - 1 \in Nat /\ n - 1 \notin T /\ (n - 1) + 1 = n
  BY <1>1, <1>2
<1>4. PICK f : Digital(f, n - 1)
  BY <1>3
<1>5. \E g : Digital(g, n)
  BY <1>3, <1>4, DigitalGrows
<1> QED BY <1>1, <1>5

LEMMA DigitalUnique ==
    ASSUME NEW m \in Nat, NEW n \in Nat, NEW f, NEW g, Digital(f, m), Digital(g, n),
           NEW k \in Nat, k <= m, k <= n
    PROVE  f[k] = g[k]
<1> DEFINE T == {i \in Nat : i <= m /\ i <= n /\ f[i] # g[i]}
<1> SUFFICES ASSUME T # {} PROVE FALSE
  OBVIOUS
<1>1. PICK i \in T : \A j \in T : i <= j
  <2> HIDE DEF T
  <2>1. T \subseteq Nat
    BY DEF T
  <2> QED BY <2>1, LeastNatural
<1>2. f[i] = DigitAt(f, i) /\ g[i] = DigitAt(g, i)
  BY <1>1 DEF Digital
<1>3. CASE i < Base
  BY <1>1, <1>2, <1>3 DEF DigitAt
<1>4. CASE ~(i < Base)
  <2>1. i \div Base \in Nat /\ i \div Base < i
    <3>1. i \in Nat
      BY <1>1
    <3> QED BY <1>4, <3>1, LastDigit
  <2>2. i \div Base \notin T
    BY <1>1, <2>1
  <2>3. f[i \div Base] = g[i \div Base]
    BY <1>1, <2>1, <2>2
  <2> QED BY <1>1, <1>2, <1>4, <2>3 DEF DigitAt
<1> QED BY <1>3, <1>4

LEMMA DigitsAre ==
    /\ Digits \in [Nat -> Seq(Nat)]
    /\ \A n \in Nat : Digits[n] = DigitAt(Digits, n)
<1> DEFINE G(n) == CHOOSE f : Digital(f, n)
           F == [n \in Nat |-> G(n)[n]]
           Step(f) == [n \in Nat |->
                        IF n < Base THEN <<n>> ELSE Append(f[n \div Base], n % Base)]
<1>1. ASSUME NEW n \in Nat PROVE Digital(G(n), n)
  BY DigitalExists
<1> HIDE DEF G
<1>2. ASSUME NEW n \in Nat PROVE F[n] \in Seq(Nat) /\ F[n] = DigitAt(F, n)
  <2>1. F[n] = G(n)[n] /\ F[n] \in Seq(Nat)
    BY <1>1 DEF Digital
  <2>2. G(n)[n] = DigitAt(G(n), n)
    BY <1>1 DEF Digital
  <2>3. CASE n < Base
    BY <2>1, <2>2, <2>3 DEF DigitAt
  <2>4. CASE ~(n < Base)
    <3> DEFINE k == n \div Base
    <3>1. k \in Nat /\ k < n
      BY <2>4, LastDigit
    <3> HIDE DEF k
    <3>2. F[k] = G(k)[k]
      BY <3>1
    <3>3. G(k)[k] = G(n)[k]
      BY <1>1, <3>1, DigitalUnique
    <3> QED BY <2>1, <2>2, <2>4, <3>2, <3>3 DEF DigitAt, k
  <2> QED BY <2>1, <2>3, <2>4
<1>3. F = Step(F)
  <2>1. \A n \in Nat : F[n] = Step(F)[n]
    BY <1>2 DEF DigitAt
  <2> QED BY <2>1
<1>4. Digits = CHOOSE f : f = Step(f)
  BY Zenon DEF Digits
<1> HIDE DEF F
<1>5. Digits = Step(Digits)
  BY <1>3, <1>4
<1>6. \A n \in Nat : Digits[n] = DigitAt(Digits, n)
  BY <1>5 DEF DigitAt
<1> DEFINE T == {n \in Nat : Digits[n] \notin Seq(Nat)}
<1>7. T = {}
  <2> SUFFICES ASSUME T # {} PROVE FALSE
    OBVIOUS
  <2>1. PICK n \in T : \A k \in T : n <= k
    <3> HIDE DEF T
    <3>1. T \subseteq Nat
      BY DEF T
    <3> QED BY <3>1, LeastNatural
  <2>2. CASE n < Base
    <3>1. n \in Nat /\ Digits[n] = <<n>>
      BY <1>6, <2>1, <2>2 DEF DigitAt
    <3>2. <<n>> \in Seq(Nat)
      BY <3>1
    <3> QED BY <2>1, <3>1, <3>2
  <2>3. CASE ~(n < Base)
    <3> DEFINE k == n \div Base
               d == n % Base
    <3>1. k \in Nat /\ k < n /\ d \in Nat
      <4>1. n \in Nat
        BY <2>1
      <4> QED BY <2>3, <4>1, LastDigit
    <3>2. Digits[n] = Append(Digits[k], d)
      BY <1>6, <2>1, <2>3 DEF DigitAt
    <3> HIDE DEF k, d
    <3>3. Digits[k] \in Seq(Nat)
      BY <2>1, <3>1
    <3>4. Digits[n] \in Seq(Nat)
      BY <3>1, <3>2, <3>3, AppendProperties
    <3> QED BY <2>1, <3>4
  <2> QED BY <2>2, <2>3
<1>8. DOMAIN Digits = Nat
  BY <1>5
<1>9. Digits \in [Nat -> Seq(Nat)]
  <2>1. \A n \in Nat : Digits[n] \in Seq(Nat)
    BY <1>7
  <2>2. Digits = [n \in Nat |-> Digits[n]]
    BY <1>5
  <2> QED BY <2>1, <2>2
<1> QED BY <1>6, <1>9
-----------------------------------------------------------------------------
(* The order of texts.  Differs(s, t, i): s comes before t because of what   *)
(* is at i, or because it ends there.                                        *)
FirstLess(s, t) ==
    \E i \in DOMAIN s \intersect DOMAIN t :
        s[i] < t[i] /\ \A k \in 1..(i - 1) : s[k] = t[k]

TextLess(s, t) == IsStrictPrefix(s, t) \/ FirstLess(s, t)

Differs(s, t, i) ==
    /\ i \in 1..Len(t) /\ i <= Len(s) + 1
    /\ \A k \in 1..(i - 1) : s[k] = t[k]
    /\ i <= Len(s) => s[i] < t[i]

LEMMA SeqTyped ==
    ASSUME NEW s \in Seq(Int)
    PROVE  Len(s) \in Nat /\ DOMAIN s = 1..Len(s) /\ \A i \in 1..Len(s) : s[i] \in Int
<1>1. Len(s) \in Nat /\ DOMAIN s = 1..Len(s)
  BY LenProperties
<1>2. ASSUME NEW i \in 1..Len(s) PROVE s[i] \in Int
  BY ElementOfSeq
<1> QED BY <1>1, <1>2

LEMMA SameSeq ==
    ASSUME NEW s \in Seq(Int), NEW t \in Seq(Int), Len(s) = Len(t),
           \A i \in 1..Len(s) : s[i] = t[i]
    PROVE  s = t
BY SeqEqual

LEMMA TextLessDiffers ==
    ASSUME NEW s \in Seq(Int), NEW t \in Seq(Int)
    PROVE  TextLess(s, t) <=> \E i : Differs(s, t, i)
<1>1. /\ Len(s) \in Nat /\ DOMAIN s = 1..Len(s)
      /\ Len(t) \in Nat /\ DOMAIN t = 1..Len(t)
  BY SeqTyped
<1> DEFINE n == Len(s)
           a == SubSeq(s, 1, n)
           b == SubSeq(t, 1, n)
<1>2. a = s
  <2>1. a \in Seq(Int) /\ Len(a) = n /\ \A i \in 1..n : a[i] = s[i]
    BY <1>1
  <2> HIDE DEF a
  <2> QED BY <2>1, SameSeq
<1>3. n <= Len(t) => b \in Seq(Int) /\ Len(b) = n /\ \A i \in 1..n : b[i] = t[i]
  BY <1>1
<1> HIDE DEF a, b
<1>4. n <= Len(t) => (a = b <=> \A i \in 1..n : s[i] = t[i])
  BY <1>2, <1>3, SameSeq
<1>5. IsStrictPrefix(s, t) <=> n < Len(t) /\ \A i \in 1..n : s[i] = t[i]
  <2>1. IsStrictPrefix(s, t) <=> n <= Len(t) /\ a = b /\ s # t
    BY DEF IsStrictPrefix, IsPrefix, a, b
  <2>2. CASE n < Len(t)
    BY <1>1, <1>4, <2>1, <2>2
  <2>3. CASE n = Len(t)
    BY <1>1, <1>4, <2>1, <2>3, SameSeq
  <2>4. CASE n > Len(t)
    BY <1>1, <2>1, <2>4
  <2>5. n < Len(t) \/ n = Len(t) \/ n > Len(t)
    BY <1>1, Trichotomy
  <2> QED BY <2>2, <2>3, <2>4, <2>5, Zenon
<1>6. ASSUME IsStrictPrefix(s, t) PROVE \E i : Differs(s, t, i)
  <2>1. Differs(s, t, n + 1)
    BY <1>1, <1>5, <1>6 DEF Differs
  <2> QED BY <2>1
<1>7. ASSUME FirstLess(s, t) PROVE \E i : Differs(s, t, i)
  <2>1. PICK i \in 1..n : i \in 1..Len(t) /\ s[i] < t[i] /\ \A k \in 1..(i - 1) : s[k] = t[k]
    BY <1>1, <1>7 DEF FirstLess
  <2>2. Differs(s, t, i)
    BY <1>1, <2>1 DEF Differs
  <2> QED BY <2>2
<1>8. ASSUME NEW i, Differs(s, t, i) PROVE TextLess(s, t)
  <2>1. i \in 1..Len(t) /\ i <= n + 1 /\ \A k \in 1..(i - 1) : s[k] = t[k]
    BY <1>8 DEF Differs
  <2>2. CASE i <= n
    <3>1. i \in DOMAIN s \intersect DOMAIN t /\ s[i] < t[i]
      BY <1>1, <1>8, <2>1, <2>2 DEF Differs
    <3> QED BY <2>1, <3>1 DEF TextLess, FirstLess
  <2>3. CASE i = n + 1
    <3>1. n < Len(t) /\ \A k \in 1..n : s[k] = t[k]
      BY <1>1, <2>1, <2>3
    <3> QED BY <1>5, <3>1 DEF TextLess
  <2> QED BY <1>1, <2>1, <2>2, <2>3
<1> QED BY <1>6, <1>7, <1>8 DEF TextLess

LEMMA TextIrreflexive ==
    ASSUME NEW s \in Seq(Int)
    PROVE  ~TextLess(s, s)
<1> SUFFICES ASSUME NEW i, Differs(s, s, i) PROVE FALSE
  BY TextLessDiffers
<1>1. i \in 1..Len(s) /\ s[i] < s[i] /\ s[i] \in Int
  BY SeqTyped DEF Differs
<1> QED BY <1>1

LEMMA TextTransitive ==
    ASSUME NEW s \in Seq(Int), NEW t \in Seq(Int), NEW u \in Seq(Int),
           TextLess(s, t), TextLess(t, u)
    PROVE  TextLess(s, u)
<1>1. PICK i : Differs(s, t, i)
  BY TextLessDiffers
<1>2. PICK j : Differs(t, u, j)
  BY TextLessDiffers
<1>3. Len(s) \in Nat /\ Len(t) \in Nat /\ Len(u) \in Nat
  BY SeqTyped
<1>4. /\ i \in 1..Len(t) /\ i <= Len(s) + 1
      /\ \A k \in 1..(i - 1) : s[k] = t[k]
      /\ i <= Len(s) => s[i] < t[i]
  BY <1>1 DEF Differs
<1>5. /\ j \in 1..Len(u) /\ j <= Len(t) + 1
      /\ \A k \in 1..(j - 1) : t[k] = u[k]
      /\ j <= Len(t) => t[j] < u[j]
  BY <1>2 DEF Differs
<1>6. CASE i < j
  <2>1. i \in 1..(j - 1) /\ i \in 1..Len(u) /\ t[i] = u[i]
    BY <1>3, <1>4, <1>5, <1>6
  <2>2. \A k \in 1..(i - 1) : s[k] = u[k]
    BY <1>3, <1>4, <1>5, <1>6
  <2>3. Differs(s, u, i)
    BY <1>4, <2>1, <2>2 DEF Differs
  <2> QED BY <2>3, TextLessDiffers
<1>7. CASE i = j
  <2>1. t[i] < u[i] /\ i \in 1..Len(u)
    BY <1>3, <1>4, <1>5, <1>7
  <2>2. \A k \in 1..(i - 1) : s[k] = u[k]
    BY <1>4, <1>5, <1>7
  <2>3. i <= Len(s) => s[i] < u[i]
    <3> SUFFICES ASSUME i <= Len(s) PROVE s[i] < u[i]
      OBVIOUS
    <3>1. s[i] \in Int /\ t[i] \in Int /\ u[i] \in Int
      BY <1>3, <1>4, <2>1, SeqTyped
    <3> QED BY <1>4, <2>1, <3>1
  <2>4. Differs(s, u, i)
    BY <1>4, <2>1, <2>2, <2>3 DEF Differs
  <2> QED BY <2>4, TextLessDiffers
<1>8. CASE j < i
  <2>1. j \in 1..Len(t) /\ j \in 1..(i - 1) /\ s[j] = t[j] /\ j <= Len(s)
    BY <1>3, <1>4, <1>5, <1>8
  <2>2. \A k \in 1..(j - 1) : s[k] = u[k]
    BY <1>3, <1>4, <1>5, <1>8
  <2>3. s[j] < u[j]
    BY <1>5, <2>1
  <2>4. Differs(s, u, j)
    BY <1>3, <1>5, <2>1, <2>2, <2>3 DEF Differs
  <2> QED BY <2>4, TextLessDiffers
<1>9. i \in Int /\ j \in Int
  BY <1>4, <1>5
<1> QED BY <1>6, <1>7, <1>8, <1>9

LEMMA TextTotal ==
    ASSUME NEW s \in Seq(Int), NEW t \in Seq(Int)
    PROVE  TextLess(s, t) \/ TextLess(t, s) \/ s = t
<1> DEFINE Same(i) == i <= Len(s) /\ i <= Len(t) /\ s[i] = t[i]
           D == {i \in Nat : i # 0 /\ ~Same(i)}
<1>1. /\ Len(s) \in Nat /\ \A i \in 1..Len(s) : s[i] \in Int
      /\ Len(t) \in Nat /\ \A i \in 1..Len(t) : t[i] \in Int
  BY SeqTyped
<1>2. D \subseteq Nat /\ Len(s) + 1 \in D
  BY <1>1
<1>3. PICK i \in D : \A j \in D : i <= j
  <2> HIDE DEF D
  <2> QED BY <1>2, LeastNatural
<1>4. i \in Nat /\ i # 0 /\ ~Same(i)
  BY <1>3
<1>5. ASSUME NEW k \in 1..(i - 1) PROVE Same(k)
  <2>1. k \in Nat /\ k # 0 /\ ~(i <= k)
    BY <1>4
  <2>2. k \notin D
    BY <1>3, <2>1
  <2> QED BY <2>1, <2>2
<1>6. i <= Len(s) + 1 /\ i <= Len(t) + 1 /\ \A k \in 1..(i - 1) : s[k] = t[k]
  <2>1. i = 1 \/ i - 1 \in 1..(i - 1)
    BY <1>4
  <2>2. i = 1 \/ Same(i - 1)
    BY <1>5, <2>1
  <2> QED BY <1>1, <1>4, <1>5, <2>2
<1>7. CASE i <= Len(s) /\ i <= Len(t)
  <2>1. s[i] # t[i] /\ s[i] \in Int /\ t[i] \in Int
    BY <1>1, <1>4, <1>7
  <2>2. CASE s[i] < t[i]
    <3>1. Differs(s, t, i)
      BY <1>1, <1>4, <1>6, <1>7, <2>2 DEF Differs
    <3> QED BY <3>1, TextLessDiffers
  <2>3. CASE t[i] < s[i]
    <3>1. Differs(t, s, i)
      BY <1>1, <1>4, <1>6, <1>7, <2>3 DEF Differs
    <3> QED BY <3>1, TextLessDiffers
  <2> QED BY <2>1, <2>2, <2>3
<1>8. CASE i = Len(s) + 1 /\ i <= Len(t)
  <2>1. Differs(s, t, i)
    BY <1>1, <1>4, <1>6, <1>8 DEF Differs
  <2> QED BY <2>1, TextLessDiffers
<1>9. CASE i <= Len(s) /\ i = Len(t) + 1
  <2>1. Differs(t, s, i)
    BY <1>1, <1>4, <1>6, <1>9 DEF Differs
  <2> QED BY <2>1, TextLessDiffers
<1>10. CASE i = Len(s) + 1 /\ i = Len(t) + 1
  <2>1. Len(s) = Len(t) /\ \A k \in 1..Len(s) : s[k] = t[k]
    BY <1>1, <1>6, <1>10
  <2> QED BY <2>1, SameSeq
<1> QED BY <1>1, <1>4, <1>6, <1>7, <1>8, <1>9, <1>10

(* Numbers of one length have the order of their texts.                      *)
LEMMA SameLengthOrder ==
    ASSUME NEW m \in Nat, NEW n \in Nat, m < n, Len(Digits[m]) = Len(Digits[n])
    PROVE  FirstLess(Digits[m], Digits[n])
<1> DEFINE Ordered(k) == \A l \in Nat : l < k /\ Len(Digits[l]) = Len(Digits[k])
                            => FirstLess(Digits[l], Digits[k])
           T == {k \in Nat : ~Ordered(k)}
<1> SUFFICES ASSUME T # {} PROVE FALSE
  OBVIOUS
<1>1. PICK k \in T : \A j \in T : k <= j
  <2> HIDE DEF T
  <2>1. T \subseteq Nat
    BY DEF T
  <2> QED BY <2>1, LeastNatural
<1>2. PICK l \in Nat : /\ l < k /\ Len(Digits[l]) = Len(Digits[k])
                       /\ ~FirstLess(Digits[l], Digits[k])
  BY <1>1
<1>3. /\ k \in Nat /\ Digits[k] \in Seq(Nat) /\ Digits[l] \in Seq(Nat)
      /\ Digits[k] = DigitAt(Digits, k) /\ Digits[l] = DigitAt(Digits, l)
      /\ Len(Digits[l]) = Len(Digits[k])
  BY <1>1, <1>2, DigitsAre
<1>4. CASE k < Base
  <2>1. l < Base
    BY <1>2, <1>3, <1>4, BaseTyped
  <2>2. Digits[k] = <<k>> /\ Digits[l] = <<l>>
    BY <1>3, <1>4, <2>1 DEF DigitAt
  <2>3. FirstLess(<<l>>, <<k>>)
    <3>1. 1 \in DOMAIN <<l>> \intersect DOMAIN <<k>> /\ <<l>>[1] < <<k>>[1]
      BY <1>2
    <3>2. \A j \in 1..(1 - 1) : <<l>>[j] = <<k>>[j]
      OBVIOUS
    <3> QED BY <3>1, <3>2 DEF FirstLess
  <2> QED BY <1>2, <2>2, <2>3
<1>5. CASE ~(k < Base)
  <2> DEFINE p == k \div Base
             d == k % Base
             q == l \div Base
             e == l % Base
  <2>1. p \in Nat /\ p < k /\ d \in Nat
    BY <1>3, <1>5, LastDigit
  <2>2. Digits[k] = Append(Digits[p], d)
    BY <1>3, <1>5 DEF DigitAt
  <2>3. Digits[p] \in Seq(Nat) /\ Len(Digits[p]) \in Nat
    BY <2>1, DigitsAre, LenProperties
  <2>4. Len(Digits[p]) # 0
    <3> HIDE DEF p, d
    <3>1. Digits[p] = DigitAt(Digits, p)
      BY <2>1, DigitsAre
    <3>2. CASE p < Base
      BY <3>1, <3>2 DEF DigitAt
    <3>3. CASE ~(p < Base)
      <4>1. p \div Base \in Nat /\ p % Base \in Nat
        BY <2>1, <3>3, LastDigit
      <4>2. Digits[p \div Base] \in Seq(Nat)
        BY <4>1, DigitsAre
      <4>3. Digits[p] = Append(Digits[p \div Base], p % Base)
        BY <3>1, <3>3 DEF DigitAt
      <4>4. Len(Digits[p]) = Len(Digits[p \div Base]) + 1
        BY <4>1, <4>2, <4>3, AppendProperties
      <4> QED BY <4>2, <4>4, LenProperties
    <3> QED BY <3>2, <3>3
  <2>5. ~(l < Base)
    <3> SUFFICES ASSUME l < Base PROVE FALSE
      OBVIOUS
    <3> HIDE DEF p, d
    <3>1. Len(Digits[l]) = 1
      BY <1>3 DEF DigitAt
    <3>2. Len(Digits[k]) = Len(Digits[p]) + 1
      BY <2>1, <2>2, <2>3, AppendProperties
    <3>3. Len(Digits[l]) = Len(Digits[k])
      BY <1>3
    <3> QED BY <2>3, <2>4, <3>1, <3>2, <3>3, NextNotOne
  <2>6. q \in Nat /\ q < l /\ e \in Nat
    BY <1>2, <2>5, LastDigit
  <2>7. Digits[l] = Append(Digits[q], e)
    BY <1>3, <2>5 DEF DigitAt
  <2>8. Digits[q] \in Seq(Nat) /\ Len(Digits[q]) \in Nat
    BY <2>6, DigitsAre, LenProperties
  <2>9. q < p \/ (q = p /\ e < d)
    BY <1>2, <1>3, BaseTyped, DivOrder
  <2> HIDE DEF p, d, q, e
  <2> DEFINE n1 == Len(Digits[p])
  <2>10. /\ Len(Digits[k]) = n1 + 1 /\ Digits[k][n1 + 1] = d
         /\ \A j \in 1..n1 : Digits[k][j] = Digits[p][j]
    BY <2>1, <2>2, <2>3, AppendProperties
  <2>11. Len(Digits[q]) = n1
    <3>1. Len(Digits[l]) = Len(Digits[q]) + 1
      BY <2>6, <2>7, <2>8, AppendProperties
    <3>2. Len(Digits[l]) = Len(Digits[k])
      BY <1>3
    <3>3. Len(Digits[k]) = Len(Digits[p]) + 1
      BY <2>10 DEF n1
    <3>4. Len(Digits[q]) = Len(Digits[p])
      BY <2>3, <2>8, <3>1, <3>2, <3>3, SameNext
    <3> QED BY <3>4 DEF n1
  <2>12. /\ Len(Digits[l]) = n1 + 1 /\ Digits[l][n1 + 1] = e
         /\ \A j \in 1..n1 : Digits[l][j] = Digits[q][j]
    <3> DEFINE n2 == Len(Digits[q])
    <3>1. /\ Len(Digits[l]) = n2 + 1 /\ Digits[l][n2 + 1] = e
          /\ \A j \in 1..n2 : Digits[l][j] = Digits[q][j]
      BY <2>6, <2>7, <2>8, AppendProperties
    <3> HIDE DEF n1, n2
    <3>2. n2 = n1
      BY <2>11 DEF n2
    <3> QED BY <3>1, <3>2
  <2>13. /\ DOMAIN Digits[k] = 1..(n1 + 1) /\ DOMAIN Digits[l] = 1..(n1 + 1)
         /\ DOMAIN Digits[p] = 1..n1 /\ DOMAIN Digits[q] = 1..n1 /\ n1 \in Nat
    BY <1>3, <2>3, <2>8, <2>10, <2>11, <2>12, LenProperties
  <2> HIDE DEF n1
  <2>14. CASE q = p /\ e < d
    <3>1. \A j \in 1..((n1 + 1) - 1) : Digits[l][j] = Digits[k][j]
      BY <2>10, <2>12, <2>13, <2>14
    <3>2. n1 + 1 \in DOMAIN Digits[l] \intersect DOMAIN Digits[k]
      BY <2>13
    <3>3. Digits[l][n1 + 1] < Digits[k][n1 + 1]
      BY <2>10, <2>12, <2>14
    <3>4. FirstLess(Digits[l], Digits[k])
      BY <3>1, <3>2, <3>3 DEF FirstLess
    <3> QED BY <1>2, <3>4
  <2>15. CASE q < p
    <3>1. p \notin T
      BY <1>1, <1>3, <2>1
    <3>2. FirstLess(Digits[q], Digits[p])
      BY <2>1, <2>6, <2>11, <2>15, <3>1 DEF n1
    <3>3. PICK i \in 1..n1 : /\ Digits[q][i] < Digits[p][i]
                             /\ \A j \in 1..(i - 1) : Digits[q][j] = Digits[p][j]
      BY <2>13, <3>2 DEF FirstLess
    <3>4. i \in DOMAIN Digits[l] \intersect DOMAIN Digits[k]
      BY <2>13
    <3>5. Digits[l][i] < Digits[k][i]
      BY <2>10, <2>12, <3>3
    <3>6. ASSUME NEW j \in 1..(i - 1) PROVE Digits[l][j] = Digits[k][j]
      <4>1. j \in 1..n1
        BY <2>13
      <4> QED BY <2>10, <2>12, <3>3, <4>1
    <3>7. FirstLess(Digits[l], Digits[k])
      BY <3>4, <3>5, <3>6 DEF FirstLess
    <3> QED BY <1>2, <3>7
  <2> QED BY <2>9, <2>14, <2>15
<1> QED BY <1>4, <1>5

-----------------------------------------------------------------------------
(* The texts: of a number without a sign its digits, of a debt the minus,    *)
(* which is before every digit, and the digits.                              *)
LEMMA Widen ==
    ASSUME NEW s \in Seq(Nat)
    PROVE  s \in Seq(Int)
<1>1. s \in [1..Len(s) -> Nat] /\ Len(s) \in Nat
  BY SeqDef, LenProperties
<1>2. s \in [1..Len(s) -> Int]
  BY <1>1
<1> QED BY <1>1, <1>2, SeqDef

LEMMA DigitsStart ==
    ASSUME NEW n \in Nat
    PROVE  /\ Digits[n] \in Seq(Nat) /\ Digits[n] \in Seq(Int)
           /\ Len(Digits[n]) \in Nat \ {0} /\ 1 \in DOMAIN Digits[n]
           /\ Digits[n][1] \in Nat
<1>1. Digits[n] \in Seq(Nat) /\ Digits[n] = DigitAt(Digits, n)
  BY DigitsAre
<1>2. Len(Digits[n]) # 0
  <2>1. CASE n < Base
    BY <1>1, <2>1 DEF DigitAt
  <2>2. CASE ~(n < Base)
    <3> DEFINE k == n \div Base
               d == n % Base
    <3>1. k \in Nat /\ d \in Nat
      BY <2>2, LastDigit
    <3> HIDE DEF k, d
    <3>2. Digits[k] \in Seq(Nat)
      BY <3>1, DigitsAre
    <3>3. Digits[n] = Append(Digits[k], d)
      BY <1>1, <2>2 DEF DigitAt, k, d
    <3>4. Len(Digits[n]) = Len(Digits[k]) + 1 /\ Len(Digits[k]) \in Nat
      BY <3>1, <3>2, <3>3, AppendProperties, LenProperties
    <3> QED BY <3>4
  <2> QED BY <2>1, <2>2
<1>3. Len(Digits[n]) \in Nat /\ DOMAIN Digits[n] = 1..Len(Digits[n])
  BY <1>1, LenProperties
<1>4. 1 \in 1..Len(Digits[n])
  BY <1>2, <1>3
<1>5. Digits[n][1] \in Nat
  BY <1>1, <1>4, ElementOfSeq
<1> QED BY <1>1, <1>2, <1>3, <1>4, <1>5, Widen

(* The text of a debt.                                                       *)
LEMMA DebtText ==
    ASSUME NEW n \in Int, n < 0
    PROVE  /\ -n \in Nat /\ Text(n) \in Seq(Int)
           /\ Len(Text(n)) = Len(Digits[-n]) + 1 /\ Text(n)[1] = Minus
           /\ \A i \in 1..Len(Digits[-n]) : Text(n)[i + 1] = Digits[-n][i]
           /\ 1 \in DOMAIN Text(n)
<1>1. -n \in Nat
  OBVIOUS
<1> DEFINE d == Digits[-n]
           t == <<Minus>> \o d
<1>2. d \in Seq(Int) /\ Len(d) \in Nat
  BY <1>1, DigitsStart
<1>3. <<Minus>> \in Seq(Int) /\ Len(<<Minus>>) = 1 /\ <<Minus>>[1] = Minus
  BY DEF Minus
<1> HIDE DEF d
<1>4. /\ t \in Seq(Int) /\ Len(t) = Len(d) + 1 /\ t[1] = Minus
      /\ \A i \in 1..Len(d) : t[i + 1] = d[i]
      /\ 1 \in DOMAIN t
  BY <1>2, <1>3
<1>5. Text(n) = t
  BY DEF Text, d
<1> HIDE DEF t
<1> QED BY <1>1, <1>4, <1>5 DEF d

LEMMA SurplusText ==
    ASSUME NEW n \in Int, n >= 0
    PROVE  n \in Nat /\ Text(n) = Digits[n] /\ Text(n) \in Seq(Int)
<1>1. n \in Nat /\ Text(n) = Digits[n]
  BY DEF Text
<1> QED BY <1>1, DigitsStart

LEMMA TextTyped ==
    ASSUME NEW n \in Int
    PROVE  Text(n) \in Seq(Int)
<1>1. n < 0 \/ n >= 0
  OBVIOUS
<1> QED BY <1>1, DebtText, SurplusText

LEMMA TextBeforeIsLess ==
    ASSUME NEW m \in Int, NEW n \in Int
    PROVE  /\ Text(m) \in Seq(Int) /\ Text(n) \in Seq(Int)
           /\ TextBefore(m, n) <=> TextLess(Text(m), Text(n))
<1>1. Text(m) \in Seq(Int) /\ Text(n) \in Seq(Int)
  BY TextTyped
<1>2. TextBefore(m, n) <=> TextLess(Text(m), Text(n))
  BY Zenon DEF TextBefore, TextLess, FirstLess
<1> QED BY <1>1, <1>2

(* A debt is before what is none ...                                         *)
LEMMA DebtBefore ==
    ASSUME NEW m \in Int, NEW n \in Int, m < 0, n >= 0
    PROVE  TextBefore(m, n)
<1> DEFINE s == Text(m)
           t == Text(n)
<1>1. 1 \in DOMAIN s /\ s[1] = -1
  BY DebtText DEF Minus
<1>2. 1 \in DOMAIN t /\ t[1] \in Nat
  BY SurplusText, DigitsStart
<1> HIDE DEF s, t
<1>3. s[1] < t[1] /\ 1 \in DOMAIN s \intersect DOMAIN t
  BY <1>1, <1>2
<1>4. \A k \in 1..(1 - 1) : s[k] = t[k]
  OBVIOUS
<1>5. FirstLess(s, t)
  BY <1>3, <1>4 DEF FirstLess
<1> QED BY <1>5, TextBeforeIsLess DEF TextLess, s, t

(* ... and numbers have one text each.                                       *)
LEMMA DigitsDiffer ==
    ASSUME NEW m \in Nat, NEW n \in Nat, Digits[m] = Digits[n]
    PROVE  m = n
<1>1. Len(Digits[m]) = Len(Digits[n]) /\ Digits[m] \in Seq(Int) /\ Digits[n] \in Seq(Int)
  BY DigitsStart
<1>2. ~TextLess(Digits[m], Digits[n]) /\ ~TextLess(Digits[n], Digits[m])
  BY <1>1, TextIrreflexive
<1>3. ~(m < n)
  BY <1>1, <1>2, SameLengthOrder DEF TextLess
<1>4. ~(n < m)
  BY <1>1, <1>2, SameLengthOrder DEF TextLess
<1> QED BY <1>3, <1>4

LEMMA TextsDiffer ==
    ASSUME NEW m \in Int, NEW n \in Int, Text(m) = Text(n)
    PROVE  m = n
<1>1. CASE m >= 0 /\ n >= 0
  BY <1>1, SurplusText, DigitsDiffer
<1>2. CASE m < 0 /\ n < 0
  <2> DEFINE s == Digits[-m]
             t == Digits[-n]
  <2>1. /\ -m \in Nat /\ -n \in Nat
        /\ Len(Text(m)) = Len(s) + 1 /\ Len(Text(n)) = Len(t) + 1
        /\ \A i \in 1..Len(s) : Text(m)[i + 1] = s[i]
        /\ \A i \in 1..Len(t) : Text(n)[i + 1] = t[i]
    BY <1>2, DebtText
  <2>2. s \in Seq(Int) /\ t \in Seq(Int) /\ Len(s) \in Nat /\ Len(t) \in Nat
    BY <2>1, DigitsStart
  <2> HIDE DEF s, t
  <2>3. Len(s) = Len(t)
    BY <2>1, <2>2
  <2>4. \A i \in 1..Len(s) : s[i] = t[i]
    BY <2>1, <2>3
  <2>5. s = t
    BY <2>2, <2>3, <2>4, SameSeq
  <2>6. -m = -n
    BY <2>1, <2>5, DigitsDiffer DEF s, t
  <2> QED BY <2>6
<1>3. CASE m < 0 /\ n >= 0
  <2>1. TextBefore(m, n) /\ ~TextLess(Text(m), Text(n))
    BY <1>3, DebtBefore, TextBeforeIsLess, TextIrreflexive
  <2> QED BY <2>1, TextBeforeIsLess
<1>4. CASE m >= 0 /\ n < 0
  <2>1. TextBefore(n, m) /\ ~TextLess(Text(n), Text(m))
    BY <1>4, DebtBefore, TextBeforeIsLess, TextIrreflexive
  <2> QED BY <2>1, TextBeforeIsLess
<1> QED BY <1>1, <1>2, <1>3, <1>4

-----------------------------------------------------------------------------
(* The order of a list: of two different amounts one comes first, and among  *)
(* comparable ones it is the smaller.                                        *)
LEMMA BeforeIrreflexive == \A m \in Int : ~Before(m, m)
<1> SUFFICES ASSUME NEW m \in Int PROVE ~Before(m, m)
  OBVIOUS
<1>1. ~TextBefore(m, m)
  BY TextBeforeIsLess, TextIrreflexive
<1> QED BY <1>1 DEF Before

LEMMA BeforeTransitive ==
    ASSUME NEW k \in Int, NEW m \in Int, NEW n \in Int, Before(k, m), Before(m, n)
    PROVE  Before(k, n)
<1>1. CASE asked.list = "points"
  BY <1>1 DEF Before
<1>2. CASE asked.list # "points"
  <2>1. TextBefore(k, m) /\ TextBefore(m, n)
    BY <1>2 DEF Before
  <2>2. TextBefore(k, n)
    BY <2>1, TextBeforeIsLess, TextTransitive
  <2> QED BY <1>2, <2>2 DEF Before
<1> QED BY <1>1, <1>2

LEMMA TextBeforeTotal ==
    ASSUME NEW m \in Int, NEW n \in Int, m # n
    PROVE  TextBefore(m, n) \/ TextBefore(n, m)
<1>1. Text(m) # Text(n)
  BY TextsDiffer
<1>2. TextLess(Text(m), Text(n)) \/ TextLess(Text(n), Text(m))
  BY <1>1, TextTyped, TextTotal
<1> QED BY <1>2, TextBeforeIsLess

LEMMA BeforeTotal ==
    ASSUME NEW m \in Int, NEW n \in Int, m # n
    PROVE  Before(m, n) \/ Before(n, m)
BY TextBeforeTotal DEF Before

(* Comparable, of the list of balances.                                      *)
Alike(m, n) ==
    IF m < 0 THEN n >= 0 ELSE n < 0 \/ Len(Digits[m]) = Len(Digits[n])

LEMMA AlikeBefore ==
    ASSUME NEW m \in Int, NEW n \in Int, m < n, Alike(m, n)
    PROVE  TextBefore(m, n)
<1>1. CASE m < 0
  BY <1>1, DebtBefore DEF Alike
<1>2. CASE m >= 0
  <2>1. n >= 0 /\ Len(Digits[m]) = Len(Digits[n])
    BY <1>2 DEF Alike
  <2>2. /\ m \in Nat /\ n \in Nat
        /\ Text(m) = Digits[m] /\ Text(n) = Digits[n]
    BY <1>2, <2>1, SurplusText
  <2>3. FirstLess(Text(m), Text(n))
    BY <2>1, <2>2, SameLengthOrder
  <2> QED BY <2>3, TextBeforeIsLess DEF TextLess
<1> QED BY <1>1, <1>2

LEMMA ComparableBefore ==
    ASSUME NEW m \in Int, NEW n \in Int, m < n, Comparable(m, n)
    PROVE  Before(m, n)
BY AlikeBefore DEF Before, Comparable, Alike

LEMMA AmountsTyped == Amounts \subseteq Int /\ Column \subseteq Amounts
BY LeaderboardAssumption DEF LeaderboardAssumption, Amounts, Column

-----------------------------------------------------------------------------
(* Rankings.  Each lists every matching user once.                           *)
LEMMA IntervalSize ==
    ASSUME NEW k \in Nat
    PROVE  IsFiniteSet(1..k) /\ Cardinality(1..k) = k
<1>1. IsFiniteSet(1..k) /\ Cardinality(1..k) = IF 1 > k THEN 0 ELSE k - 1 + 1
  BY FS_Interval
<1> QED BY <1>1

LEMMA MatchingFinite ==
    /\ IsFiniteSet(Users) /\ Cardinality(Users) \in Nat
    /\ IsFiniteSet(Matching) /\ Matching \subseteq Users
    /\ Cardinality(Matching) \in Nat /\ Cardinality(Matching) <= Cardinality(Users)
<1>1. IsFiniteSet(Users)
  BY LeaderboardAssumption DEF LeaderboardAssumption
<1>2. Matching \in SUBSET Users
  BY DEF Matching
<1>3. IsFiniteSet(Matching) /\ Cardinality(Matching) <= Cardinality(Users)
  BY <1>1, <1>2, FS_Subset
<1> QED BY <1>1, <1>2, <1>3, FS_CardinalityType

LEMMA RankingListsAll ==
    ASSUME NEW r \in Rankings
    PROVE  /\ r \in [1..Cardinality(Matching) -> Matching]
           /\ Len(r) = Cardinality(Matching)
           /\ \A i, j \in 1..Cardinality(Matching) : i # j => r[i] # r[j]
           /\ \A u \in Matching : \E i \in 1..Cardinality(Matching) : r[i] = u
           /\ \A i, j \in 1..Cardinality(Matching) :
                i < j => ~Before(amount[r[i]], amount[r[j]])
<1> DEFINE n == Cardinality(Matching)
<1>1. IsFiniteSet(Matching) /\ n \in Nat
  BY MatchingFinite
<1>2. /\ r \in SetToSeqs(Matching)
      /\ \A i, j \in DOMAIN r : i < j => ~Before(amount[r[i]], amount[r[j]])
  BY DEF Rankings
<1>3. r \in [1..n -> Matching] /\ \A i, j \in 1..n : i # j => r[i] # r[j]
  BY <1>2 DEF SetToSeqs
<1>4. DOMAIN r = 1..n /\ Len(r) = n
  <2> HIDE DEF n
  <2>1. r \in Seq(Matching)
    BY <1>1, <1>3, SeqDef
  <2> QED BY <1>1, <1>3, <2>1
<1>5. \A u \in Matching : \E i \in 1..n : r[i] = u
  <2>1. r \in Injection(1..n, Matching)
    BY <1>3, Fun_IsInj
  <2>2. Cardinality(1..n) = n
    BY <1>1, FS_Interval
  <2>3. r \in Surjection(1..n, Matching)
    BY <1>1, <2>1, <2>2, FS_Injection
  <2> QED BY <2>3 DEF Surjection
<1> QED BY <1>2, <1>3, <1>4, <1>5

(* Two rankings differ in ties only: what one has at a place is not before   *)
(* what another has at that place or a later one.                            *)
LEMMA RankingsAgree ==
    ASSUME amount \in [Users -> Int], NEW r \in Rankings, NEW s \in Rankings,
           NEW p \in 1..Cardinality(Matching), NEW q \in 1..Cardinality(Matching), p <= q
    PROVE  ~Before(amount[r[p]], amount[s[q]])
<1> DEFINE n == Cardinality(Matching)
<1>0. n \in Nat /\ Matching \subseteq Users
  BY MatchingFinite
<1>1. /\ r \in [1..n -> Matching]
      /\ \A i, j \in 1..n : i # j => r[i] # r[j]
      /\ \A u \in Matching : \E i \in 1..n : r[i] = u
      /\ \A i, j \in 1..n : i < j => ~Before(amount[r[i]], amount[r[j]])
  BY RankingListsAll
<1>2. /\ s \in [1..n -> Matching]
      /\ \A i, j \in 1..n : i # j => s[i] # s[j]
      /\ \A i, j \in 1..n : i < j => ~Before(amount[s[i]], amount[s[j]])
  BY RankingListsAll
<1> SUFFICES ASSUME Before(amount[r[p]], amount[s[q]]) PROVE FALSE
  OBVIOUS
<1> DEFINE at(k) == CHOOSE i \in 1..n : r[i] = s[k]
           f == [k \in 1..q |-> at(k)]
<1>3. p \in 1..n /\ q \in 1..n /\ p <= q
  OBVIOUS
<1> HIDE DEF n
<1>4. ASSUME NEW k \in 1..q PROVE at(k) \in 1..n /\ r[at(k)] = s[k]
  <2>1. k \in 1..n
    BY <1>0, <1>3
  <2>2. s[k] \in Matching
    BY <1>2, <2>1
  <2> QED BY <1>1, <2>2
<1>5. ASSUME NEW k \in 1..q PROVE at(k) \in 1..(p - 1)
  <2> DEFINE i == at(k)
  <2>1. i \in 1..n /\ r[i] = s[k] /\ k \in 1..n
    BY <1>0, <1>3, <1>4
  <2> HIDE DEF i
  <2> SUFFICES ASSUME p <= i PROVE FALSE
    BY <1>0, <1>3, <2>1 DEF i
  <2>2. amount[r[p]] \in Int /\ amount[s[q]] \in Int /\ amount[s[k]] \in Int
    <3>1. r[p] \in Users /\ s[q] \in Users /\ s[k] \in Users
      BY <1>0, <1>1, <1>2, <1>3, <2>1
    <3> QED BY <3>1
  <2>3. amount[s[k]] # amount[s[q]] => k # q
    OBVIOUS
  <2>4. ~Before(amount[r[p]], amount[s[k]])
    <3>1. CASE p = i
      BY <2>1, <2>2, <3>1, BeforeIrreflexive
    <3>2. CASE p < i
      BY <1>1, <1>3, <2>1, <3>2
    <3> QED BY <1>3, <2>1, <3>1, <3>2
  <2>5. ~Before(amount[s[k]], amount[s[q]])
    <3>1. CASE k = q
      BY <2>2, <3>1, BeforeIrreflexive
    <3>2. CASE k < q
      BY <1>2, <1>3, <2>1, <3>2
    <3> QED BY <1>3, <2>1, <3>1, <3>2
  <2>6. amount[s[k]] = amount[r[p]] \/ Before(amount[s[k]], amount[r[p]])
    BY <2>2, <2>4, BeforeTotal
  <2>7. Before(amount[s[k]], amount[s[q]])
    BY <2>2, <2>6, BeforeTransitive
  <2> QED BY <2>5, <2>7
<1> HIDE DEF at
<1>6. f \in [1..q -> 1..(p - 1)]
  BY <1>5
<1>7. /\ IsFiniteSet(1..q) /\ Cardinality(1..q) = q
      /\ IsFiniteSet(1..(p - 1)) /\ Cardinality(1..(p - 1)) = p - 1
  <2>1. q \in Nat /\ p - 1 \in Nat
    BY <1>0, <1>3
  <2> QED BY <2>1, IntervalSize
<1> HIDE DEF f
<1>8. PICK j, k \in 1..q : j # k /\ f[j] = f[k]
  <2>1. Cardinality(1..(p - 1)) < Cardinality(1..q)
    BY <1>0, <1>3, <1>7
  <2> QED BY <1>6, <1>7, <2>1, FS_PigeonHole
<1>9. at(j) = at(k)
  BY <1>8 DEF f
<1>10. s[j] = s[k] /\ j \in 1..n /\ k \in 1..n
  BY <1>0, <1>3, <1>4, <1>9
<1> QED BY <1>2, <1>8, <1>10

-----------------------------------------------------------------------------
(* Pages.  A page there is begins before the end of the list, and the list   *)
(* ends where a page there is not would begin.                               *)
LEMMA PageStarts ==
    ASSUME NEW c \in Nat, NEW l \in Nat \ {0}, NEW p \in Nat \ {0}
    PROVE  /\ (p - 1) * l \in Nat
           /\ p <= (c + l - 1) \div l => (p - 1) * l < c
           /\ p > (c + l - 1) \div l => c <= (p - 1) * l
<1> DEFINE t == (c + l - 1) \div l
           r == (c + l - 1) % l
<1>1. /\ t \in Nat /\ r \in 0..(l - 1)
      /\ c + l - 1 = l * t + r
  <2>1. c + l - 1 \in Nat
    OBVIOUS
  <2> QED BY <2>1, DivMod
<1>2. p - 1 \in Nat /\ (p - 1) * l = l * (p - 1) /\ l * (p - 1) \in Nat /\ l * t \in Nat
  BY <1>1
<1> HIDE DEF t, r
<1>3. p <= t => (p - 1) * l < c
  <2> SUFFICES ASSUME p <= t PROVE (p - 1) * l < c
    OBVIOUS
  <2>1. l * (p - 1) + l <= l * t
    <3>1. p - 1 < t
      BY <1>1
    <3> QED BY <1>1, <1>2, <3>1, TimesNext
  <2> DEFINE x == l * (p - 1)
             y == l * t
  <2>2. x \in Nat /\ y \in Nat /\ (p - 1) * l = x /\ x + l <= y /\ c + l - 1 = y + r
    BY <1>1, <1>2, <2>1
  <2> HIDE DEF x, y
  <2> QED BY <1>1, <2>2
<1>4. p > t => c <= (p - 1) * l
  <2> SUFFICES ASSUME p > t PROVE c <= (p - 1) * l
    OBVIOUS
  <2>1. l * t <= l * (p - 1)
    <3>1. CASE p - 1 = t
      BY <1>1, <1>2, <3>1
    <3>2. CASE t < p - 1
      <4>1. l * t + l <= l * (p - 1)
        BY <1>1, <1>2, <3>2, TimesNext
      <4> QED BY <1>2, <4>1
    <3> QED BY <1>1, <3>1, <3>2
  <2> DEFINE x == l * (p - 1)
             y == l * t
  <2>2. x \in Nat /\ y \in Nat /\ (p - 1) * l = x /\ y <= x /\ c + l - 1 = y + r
    BY <1>1, <1>2, <2>1
  <2> HIDE DEF x, y
  <2> QED BY <1>1, <2>2
<1> QED BY <1>2, <1>3, <1>4 DEF t

LEMMA LimitTyped == asked \in Request => LimitOf(asked.limit) \in Nat \ {0}
<1> SUFFICES ASSUME asked \in Request PROVE LimitOf(asked.limit) \in Nat \ {0}
  OBVIOUS
<1>1. asked.limit \in Int
  BY LeaderboardAssumption DEF LeaderboardAssumption, Request
<1>2. DefaultLimit \in Nat \ {0} /\ MaxLimit \in Nat
  BY LeaderboardAssumption DEF LeaderboardAssumption
<1> QED BY <1>1, <1>2 DEF LimitOf

LEMMA MinOf ==
    ASSUME NEW a \in Int, NEW b \in Int
    PROVE  Min({a, b}) \in {a, b} /\ Min({a, b}) <= a /\ Min({a, b}) <= b
<1>1. \E x \in {a, b} : \A y \in {a, b} : x <= y
  <2>1. CASE a <= b
    BY <2>1
  <2>2. CASE b <= a
    BY <2>2
  <2> QED BY <2>1, <2>2
<1>2. /\ Min({a, b}) \in {a, b}
      /\ \A y \in {a, b} : Min({a, b}) <= y
  BY <1>1 DEF Min
<1> QED BY <1>2

(* What a request shows.                                                     *)
Entry == [user : Users, amount : Amounts, page : Nat]

Shown(r, o, n, p) ==
    [k \in 1..n |-> [user |-> r[o + k], amount |-> amount[r[o + k]], page |-> p]]

PageShown(r, o, n, p) ==
    /\ o = Offset(p, LimitOf(asked.limit))
    /\ p = PageOf(page) /\ p \in Nat \ {0} /\ p <= Cardinality(Users)
    /\ o \in Nat /\ n # 0 /\ o + n <= Cardinality(Matching)
    /\ n <= LimitOf(asked.limit)
    /\ n = LimitOf(asked.limit) \/ o + n = Cardinality(Matching)
    /\ listed' = listed \o Shown(r, o, n, p)
    /\ page' = p + 1
    /\ amount' = amount /\ asked' = asked /\ changed' = changed

LEMMA GetShows ==
    ASSUME TypeOK, Get
    PROVE  \E r \in Rankings, n \in Nat, o \in Nat, p \in Nat : PageShown(r, o, n, p)
<1> DEFINE l == LimitOf(asked.limit)
           p == PageOf(page)
           o == Offset(p, l)
           c == Cardinality(Matching)
<1>1. l \in Nat \ {0}
  BY LimitTyped DEF TypeOK
<1>2. p \in Nat \ {0}
  BY DEF TypeOK, PageOf
<1>3. c \in Nat /\ c <= Cardinality(Users) /\ Cardinality(Users) \in Nat
  BY MatchingFinite
<1>4. PICK r \in Rankings :
        listed' = listed \o
                [k \in 1..Min({l, Len(r) - o}) |->
                    [user |-> r[o + k], amount |-> amount[r[o + k]], page |-> p]]
  BY DEF Get
<1>5. p <= TotalPages(l) /\ page' = p + 1
  BY DEF Get
<1>6. amount' = amount /\ asked' = asked /\ changed' = changed
  BY DEF Get
<1>7. TotalPages(l) = (c + l - 1) \div l /\ o = (p - 1) * l
  BY DEF TotalPages, Offset
<1> HIDE DEF l, p, c
<1>8. o \in Nat /\ o < c
  BY <1>1, <1>2, <1>3, <1>5, <1>7, PageStarts
<1>9. Len(r) = c
  BY RankingListsAll DEF c
<1> DEFINE n == Min({l, Len(r) - o})
<1> HIDE DEF o
<1>10. n \in Nat /\ n # 0 /\ n <= l /\ o + n <= c /\ (n = l \/ o + n = c)
  <2> HIDE DEF n
  <2>1. l \in Int /\ Len(r) - o = c - o /\ c - o \in Int
    BY <1>1, <1>3, <1>8, <1>9
  <2>2. n = Min({l, c - o})
    BY <2>1 DEF n
  <2>3. n \in {l, c - o} /\ n <= l /\ n <= c - o
    BY <2>1, <2>2, MinOf
  <2> QED BY <1>1, <1>3, <1>8, <2>3
<1>11. listed' = listed \o Shown(r, o, n, p)
  BY <1>4 DEF Shown
<1>12. p <= Cardinality(Users)
  <2>1. p - 1 <= (p - 1) * l
    BY <1>1, <1>2
  <2>2. p - 1 <= o
    BY <1>7, <2>1
  <2> QED BY <1>2, <1>3, <1>8, <2>2
<1> HIDE DEF n
<1>13. PageShown(r, o, n, p)
  BY <1>2, <1>5, <1>6, <1>8, <1>10, <1>11, <1>12 DEF PageShown, o, l, p, c
<1> QED BY <1>2, <1>8, <1>10, <1>13

LEMMA ShownIs ==
    ASSUME TypeOK, NEW r \in Rankings, NEW n \in Nat, NEW o \in Nat, NEW p \in Nat,
           o + n <= Cardinality(Matching)
    PROVE  /\ Shown(r, o, n, p) \in Seq(Entry)
           /\ Len(Shown(r, o, n, p)) = n
           /\ \A k \in 1..n :
                /\ o + k \in 1..Cardinality(Matching)
                /\ r[o + k] \in Matching
                /\ amount[r[o + k]] \in Amounts
                /\ Shown(r, o, n, p)[k].user = r[o + k]
                /\ Shown(r, o, n, p)[k].amount = amount[r[o + k]]
                /\ Shown(r, o, n, p)[k].page = p
<1> DEFINE x == Shown(r, o, n, p)
           c == Cardinality(Matching)
<1>1. c \in Nat /\ Matching \subseteq Users /\ r \in [1..c -> Matching]
  BY MatchingFinite, RankingListsAll
<1>2. o + n <= c
  OBVIOUS
<1>3. amount \in [Users -> Amounts]
  BY DEF TypeOK
<1> HIDE DEF c
<1>4. ASSUME NEW k \in 1..n
      PROVE  /\ o + k \in 1..c /\ r[o + k] \in Matching /\ r[o + k] \in Users
             /\ amount[r[o + k]] \in Amounts
  <2>1. o + k \in 1..c
    BY <1>1, <1>2
  <2>2. r[o + k] \in Matching /\ r[o + k] \in Users
    BY <1>1, <2>1
  <2> QED BY <1>3, <2>1, <2>2
<1>5. x = [k \in 1..n |->
             [user |-> r[o + k], amount |-> amount[r[o + k]], page |-> p]]
  BY DEF Shown
<1>6. x \in [1..n -> Entry]
  <2>1. ASSUME NEW k \in 1..n
        PROVE [user |-> r[o + k], amount |-> amount[r[o + k]], page |-> p] \in Entry
    BY <1>4 DEF Entry
  <2> QED BY <1>5, <2>1
<1>7. \A k \in 1..n : /\ x[k].user = r[o + k]
                      /\ x[k].amount = amount[r[o + k]]
                      /\ x[k].page = p
  BY <1>5
<1> HIDE DEF x
<1>8. x \in Seq(Entry)
  BY <1>6, SeqDef
<1>9. Len(x) = n
  BY <1>6, <1>8
<1> QED BY <1>4, <1>7, <1>8, <1>9 DEF x, c

LEMMA ListGrows ==
    ASSUME NEW y \in Seq(Entry), NEW x \in Seq(Entry)
    PROVE  /\ y \o x \in Seq(Entry) /\ Len(y \o x) = Len(y) + Len(x)
           /\ DOMAIN y = 1..Len(y) /\ DOMAIN (y \o x) = 1..(Len(y) + Len(x))
           /\ Len(y) \in Nat /\ Len(x) \in Nat
           /\ \A i \in 1..Len(y) : (y \o x)[i] = y[i]
           /\ \A k \in 1..Len(x) : (y \o x)[Len(y) + k] = x[k]
<1>1. Len(y) \in Nat /\ Len(x) \in Nat /\ DOMAIN y = 1..Len(y)
  BY LenProperties
<1>2. y \o x \in Seq(Entry) /\ Len(y \o x) = Len(y) + Len(x)
  OBVIOUS
<1>3. DOMAIN (y \o x) = 1..(Len(y) + Len(x))
  BY <1>2, LenProperties
<1>4. \A i \in 1..Len(y) : (y \o x)[i] = y[i]
  BY <1>1
<1>5. \A k \in 1..Len(x) : (y \o x)[Len(y) + k] = x[k]
  BY <1>1
<1> QED BY <1>1, <1>2, <1>3, <1>4, <1>5

(* The list after a request: the entries it had, and those of the page.      *)
PageAdded(r, o, n, p) ==
    /\ listed' \in Seq(Entry) /\ Len(listed') = Len(listed) + n
    /\ Len(listed) \in Nat
    /\ DOMAIN listed = 1..Len(listed) /\ DOMAIN listed' = 1..(Len(listed) + n)
    /\ \A i \in 1..Len(listed) : listed'[i] = listed[i]
    /\ \A k \in 1..n :
         /\ o + k \in 1..Cardinality(Matching)
         /\ r[o + k] \in Matching
         /\ amount[r[o + k]] \in Amounts
         /\ listed'[Len(listed) + k].user = r[o + k]
         /\ listed'[Len(listed) + k].amount = amount[r[o + k]]
         /\ listed'[Len(listed) + k].page = p

LEMMA GetAdds ==
    ASSUME TypeOK, NEW r \in Rankings, NEW n \in Nat, NEW o \in Nat, NEW p \in Nat,
           PageShown(r, o, n, p)
    PROVE  PageAdded(r, o, n, p)
<1> DEFINE x == Shown(r, o, n, p)
<1>1. listed \in Seq(Entry)
  BY DEF TypeOK, Entry
<1>2. listed' = listed \o x /\ o + n <= Cardinality(Matching)
  BY DEF PageShown
<1>3. /\ x \in Seq(Entry) /\ Len(x) = n
      /\ \A k \in 1..n :
            /\ o + k \in 1..Cardinality(Matching)
            /\ r[o + k] \in Matching
            /\ amount[r[o + k]] \in Amounts
            /\ x[k].user = r[o + k]
            /\ x[k].amount = amount[r[o + k]]
            /\ x[k].page = p
  BY <1>2, ShownIs
<1> HIDE DEF x
<1>4. /\ listed' \in Seq(Entry) /\ Len(listed') = Len(listed) + n
      /\ DOMAIN listed = 1..Len(listed) /\ DOMAIN listed' = 1..(Len(listed) + n)
      /\ Len(listed) \in Nat
      /\ \A i \in 1..Len(listed) : listed'[i] = listed[i]
      /\ \A k \in 1..n : listed'[Len(listed) + k] = x[k]
  BY <1>1, <1>2, <1>3, ListGrows
<1> QED BY <1>3, <1>4 DEF PageAdded

LEMMA AfterEnd ==
    ASSUME NEW m \in Nat, NEW n \in Nat, NEW i \in 1..(m + n), i \notin 1..m
    PROVE  i - m \in 1..n /\ i = m + (i - m)
OBVIOUS

-----------------------------------------------------------------------------
(* The types.                                                                *)
LEMMA TypesStep == TypeOK /\ [Next]_vars => TypeOK'
<1> SUFFICES ASSUME TypeOK, [Next]_vars PROVE TypeOK'
  OBVIOUS
<1> USE DEF TypeOK
<1>1. ASSUME Get PROVE TypeOK'
  <2>1. PICK r \in Rankings, n \in Nat, o \in Nat, p \in Nat : PageShown(r, o, n, p)
    BY <1>1, GetShows
  <2>2. listed' \in Seq(Entry)
    BY <2>1, GetAdds DEF PageAdded
  <2>3. listed' \in Seq([user : Users, amount : Amounts, page : Nat])
    BY <2>2 DEF Entry
  <2>4. /\ amount' = amount /\ asked' = asked /\ changed' = changed
        /\ page' = p + 1 /\ p <= Cardinality(Users) /\ Cardinality(Users) \in Nat
    BY <2>1, MatchingFinite DEF PageShown
  <2>5. page' \in 0..(Cardinality(Users) + 1)
    BY <2>4
  <2>6. amount' \in [Users -> Amounts] /\ asked' \in Request /\ changed' \in BOOLEAN
    BY <2>4 DEF Request
  <2> QED BY <2>3, <2>5, <2>6
<1>2. ASSUME Update PROVE TypeOK'
  <2>1. PICK u \in Users, a \in Amounts : amount' = [amount EXCEPT ![u] = a]
    BY <1>2, AmountsTyped DEF Update
  <2>2. amount' \in [Users -> Amounts]
    BY <2>1
  <2>3. changed' \in BOOLEAN
    BY <1>2 DEF Update
  <2>4. asked' = asked /\ page' = page /\ listed' = listed
    BY <1>2 DEF Update
  <2> QED BY <2>2, <2>3, <2>4 DEF Request
<1>3. CASE UNCHANGED vars
  BY <1>3 DEF vars, Request
<1> QED BY <1>1, <1>2, <1>3 DEF Next

LEMMA TypesInit == Init => TypeOK
<1> SUFFICES ASSUME Init PROVE TypeOK
  OBVIOUS
<1>1. page \in 0..(Cardinality(Users) + 1)
  BY MatchingFinite DEF Init
<1>2. listed \in Seq([user : Users, amount : Amounts, page : Nat])
  BY DEF Init
<1>3. amount \in [Users -> Amounts]
  BY AmountsTyped DEF Init
<1> QED BY <1>1, <1>2, <1>3 DEF Init, TypeOK

(* The types of the lists of the API (GetAllBalances and                     *)
(* GetPointsLeaderboard): a client never asks for a page beyond one after    *)
(* the last there can be, and is shown users and amounts of the table.       *)
THEOREM ListTypes == Spec => []TypeOK
BY TypesInit, TypesStep, PTL DEF Spec

-----------------------------------------------------------------------------
(* What makes the lists right.                                               *)
AboveMinimum ==
    \A i \in DOMAIN listed :
        asked.minimum > 0 => ~TextBefore(listed[i].amount, asked.minimum)

PagesBehind == \A i \in DOMAIN listed : listed[i].page < PageOf(page)

PagesDescend ==
    \A i, j \in DOMAIN listed :
        i < j /\ listed[i].page = listed[j].page
            => ~Before(listed[i].amount, listed[j].amount)

PagesFilled == PageOf(page) > 1 => listed # <<>>

(* While nothing changes, the client has seen the head of a ranking, as far  *)
(* as the pages it asked for reach.                                          *)
Reached(n, o, c) == n <= o /\ n <= c /\ (n = o \/ n = c)

SeenUpTo ==
    Reached(Len(listed), Offset(PageOf(page), LimitOf(asked.limit)), Cardinality(Matching))

FromRankings ==
    \A i \in DOMAIN listed :
        /\ listed[i].amount = amount[listed[i].user]
        /\ \E r \in Rankings : listed[i].user = r[i]

ListInv ==
    /\ AboveMinimum /\ PagesBehind /\ PagesDescend /\ PagesFilled
    /\ ~changed => SeenUpTo /\ FromRankings

LEMMA ListInit == Init => ListInv
<1> SUFFICES ASSUME Init PROVE ListInv
  OBVIOUS
<1>1. listed = <<>> /\ DOMAIN listed = {} /\ Len(listed) = 0
  BY DEF Init
<1>2. PageOf(page) = 1
  BY DEF Init, PageOf
<1>3. SeenUpTo
  <2>1. LimitOf(asked.limit) \in Nat
    BY LimitTyped DEF Init
  <2>2. Offset(PageOf(page), LimitOf(asked.limit)) = 0
    BY <1>2, <2>1 DEF Offset
  <2> QED BY <1>1, <2>2, MatchingFinite DEF SeenUpTo, Reached
<1>4. AboveMinimum /\ PagesBehind /\ PagesDescend /\ FromRankings
  BY <1>1 DEF AboveMinimum, PagesBehind, PagesDescend, FromRankings
<1>5. PagesFilled
  BY <1>2 DEF PagesFilled
<1> QED BY <1>3, <1>4, <1>5 DEF ListInv

LEMMA GetKeepsPages ==
    ASSUME TypeOK, ListInv, Get
    PROVE  AboveMinimum' /\ PagesBehind' /\ PagesDescend' /\ PagesFilled'
<1>1. PICK r \in Rankings, n \in Nat, o \in Nat, p \in Nat : PageShown(r, o, n, p)
  BY GetShows
<1> DEFINE m == Len(listed)
<1>2. /\ listed' \in Seq(Entry) /\ Len(listed') = m + n
      /\ m \in Nat
      /\ DOMAIN listed = 1..m /\ DOMAIN listed' = 1..(m + n)
      /\ \A i \in 1..m : listed'[i] = listed[i]
      /\ \A k \in 1..n :
           /\ o + k \in 1..Cardinality(Matching)
           /\ r[o + k] \in Matching
           /\ amount[r[o + k]] \in Amounts
           /\ listed'[m + k].user = r[o + k]
           /\ listed'[m + k].amount = amount[r[o + k]]
           /\ listed'[m + k].page = p
  <2>1. PageAdded(r, o, n, p)
    BY <1>1, GetAdds
  <2> QED BY <2>1 DEF PageAdded
<1>3. /\ n # 0 /\ p = PageOf(page) /\ p # 0 /\ page' = p + 1
      /\ asked' = asked
  BY <1>1 DEF PageShown
<1>4. PageOf(page') = p + 1
  BY <1>3 DEF PageOf
<1> HIDE DEF m
<1>5. ASSUME NEW i \in DOMAIN listed', i \notin 1..m
      PROVE  i - m \in 1..n /\ i = m + (i - m)
  BY <1>2, <1>5, AfterEnd
<1>6. AboveMinimum'
  <2> SUFFICES ASSUME NEW i \in DOMAIN listed', asked.minimum > 0
               PROVE  ~TextBefore(listed'[i].amount, asked.minimum)
    BY <1>3 DEF AboveMinimum
  <2>1. CASE i \in 1..m
    BY <1>2, <2>1 DEF ListInv, AboveMinimum
  <2>2. CASE i \notin 1..m
    <3> DEFINE k == i - m
    <3>1. k \in 1..n /\ i = m + k
      BY <1>5, <2>2
    <3> HIDE DEF k
    <3>2. listed'[i].amount = amount[r[o + k]] /\ r[o + k] \in Matching
      BY <1>2, <3>1
    <3> QED BY <3>2 DEF Matching
  <2> QED BY <2>1, <2>2
<1>7. PagesBehind'
  <2> SUFFICES ASSUME NEW i \in DOMAIN listed' PROVE listed'[i].page < p + 1
    BY <1>4 DEF PagesBehind, PageOf
  <2>1. CASE i \in 1..m
    <3>1. listed'[i].page < p
      BY <1>2, <1>3, <2>1 DEF ListInv, PagesBehind
    <3>2. listed \in Seq(Entry)
      BY DEF TypeOK, Entry
    <3>3. listed'[i].page \in Nat
      <4>1. listed[i] \in Entry
        BY <1>2, <2>1, <3>2, ElementOfSeq DEF m
      <4> QED BY <1>2, <2>1, <4>1 DEF Entry
    <3> QED BY <3>1, <3>3
  <2>2. CASE i \notin 1..m
    <3> DEFINE k == i - m
    <3>1. k \in 1..n /\ i = m + k
      BY <1>5, <2>2
    <3> HIDE DEF k
    <3>2. listed'[i].page = p
      BY <1>2, <3>1
    <3> QED BY <3>2
  <2> QED BY <2>1, <2>2
<1>8. PagesDescend'
  <2> SUFFICES ASSUME NEW i \in DOMAIN listed', NEW j \in DOMAIN listed', i < j,
                      listed'[i].page = listed'[j].page
               PROVE  ~Before(listed'[i].amount, listed'[j].amount)
    BY <1>3 DEF PagesDescend, Before
  <2>0. i \in 1..(m + n) /\ j \in 1..(m + n)
    BY <1>2
  <2>1. CASE j \in 1..m
    <3>1. i \in 1..m
      BY <1>2, <2>0, <2>1
    <3> QED BY <1>2, <2>1, <3>1 DEF ListInv, PagesDescend
  <2>2. CASE i \in 1..m /\ j \notin 1..m
    <3> DEFINE k == j - m
    <3>1. k \in 1..n /\ j = m + k
      BY <1>5, <2>2
    <3> HIDE DEF k
    <3>2. listed'[j].page = p
      BY <1>2, <3>1
    <3>3. listed'[i].page < p
      BY <1>2, <1>3, <2>2 DEF ListInv, PagesBehind
    <3> QED BY <3>2, <3>3
  <2>3. CASE i \notin 1..m /\ j \notin 1..m
    <3> DEFINE k == i - m
               l == j - m
    <3>1. k \in 1..n /\ i = m + k /\ l \in 1..n /\ j = m + l
      BY <1>5, <2>3
    <3> HIDE DEF k, l
    <3>2. /\ listed'[i].amount = amount[r[o + k]] /\ o + k \in 1..Cardinality(Matching)
          /\ listed'[j].amount = amount[r[o + l]] /\ o + l \in 1..Cardinality(Matching)
      BY <1>2, <3>1
    <3>3. o + k < o + l
      BY <1>2, <3>1
    <3>4. ~Before(amount[r[o + k]], amount[r[o + l]])
      BY <3>2, <3>3, RankingListsAll
    <3> QED BY <3>2, <3>4
  <2> QED BY <2>1, <2>2, <2>3
<1>9. PagesFilled'
  <2>1. Len(listed') # 0
    BY <1>2, <1>3
  <2>2. listed' # <<>>
    BY <2>1
  <2> QED BY <2>2 DEF PagesFilled
<1> QED BY <1>6, <1>7, <1>8, <1>9

LEMMA GetKeepsRankings ==
    ASSUME TypeOK, SeenUpTo, FromRankings, Get
    PROVE  SeenUpTo' /\ FromRankings'
<1>1. PICK r \in Rankings, n \in Nat, o \in Nat, p \in Nat : PageShown(r, o, n, p)
  BY GetShows
<1> DEFINE m == Len(listed)
           c == Cardinality(Matching)
           l == LimitOf(asked.limit)
<1>2. /\ Len(listed') = m + n
      /\ m \in Nat
      /\ DOMAIN listed = 1..m /\ DOMAIN listed' = 1..(m + n)
      /\ \A i \in 1..m : listed'[i] = listed[i]
      /\ \A k \in 1..n :
           /\ listed'[m + k].user = r[o + k]
           /\ listed'[m + k].amount = amount[r[o + k]]
  <2>1. PageAdded(r, o, n, p)
    BY <1>1, GetAdds
  <2> QED BY <2>1 DEF PageAdded
<1>3. /\ n # 0 /\ p = PageOf(page) /\ p # 0 /\ page' = p + 1
      /\ o = Offset(p, l) /\ o + n <= c /\ n <= l /\ (n = l \/ o + n = c)
  BY <1>1 DEF PageShown
<1>4. amount' = amount /\ asked' = asked
  BY <1>1 DEF PageShown
<1>5. c \in Nat /\ l \in Nat
  BY MatchingFinite, LimitTyped DEF TypeOK
<1>6. Matching' = Matching
  BY <1>4 DEF Matching
<1>7. Rankings' = Rankings
  BY <1>4, <1>6 DEF Rankings, Before
<1>8. PageOf(page') = p + 1
  BY <1>3 DEF PageOf
<1>9. LimitOf(asked'.limit) = l
  BY <1>4
<1>10. Offset(p + 1, l) = o + l
  <2>1. Offset(p + 1, l) = p * l /\ o = (p - 1) * l
    BY <1>3 DEF Offset
  <2>2. p * l = (p - 1) * l + l
    BY <1>5
  <2> QED BY <2>1, <2>2
<1>11. m = o
  <2>1. Reached(m, o, c)
    BY <1>3 DEF SeenUpTo
  <2> HIDE DEF m, c, l
  <2> QED BY <1>3, <1>5, <2>1 DEF Reached
<1>12. SeenUpTo'
  <2>1. Reached(m + n, o + l, c)
    <3> HIDE DEF m, c, l
    <3> QED BY <1>3, <1>5, <1>11 DEF Reached
  <2>2. Cardinality(Matching') = c
    BY <1>6
  <2>3. Offset(PageOf(page'), LimitOf(asked'.limit)) = o + l
    BY <1>8, <1>9, <1>10
  <2>4. Reached(Len(listed'), Offset(PageOf(page'), LimitOf(asked'.limit)), Cardinality(Matching'))
    BY <1>2, <2>1, <2>2, <2>3
  <2> QED BY <2>4 DEF SeenUpTo, PageOf, LimitOf
<1> HIDE DEF m, c, l
<1>13. FromRankings'
  <2> SUFFICES ASSUME NEW i \in DOMAIN listed'
               PROVE  /\ listed'[i].amount = amount[listed'[i].user]
                      /\ \E s \in Rankings : listed'[i].user = s[i]
    BY <1>4, <1>7 DEF FromRankings
  <2>1. CASE i \in 1..m
    BY <1>2, <2>1 DEF FromRankings
  <2>2. CASE i \notin 1..m
    <3> DEFINE k == i - m
    <3>1. k \in 1..n /\ i = m + k
      BY <1>2, <2>2, AfterEnd
    <3> HIDE DEF k
    <3>2. listed'[i].user = r[o + k] /\ listed'[i].amount = amount[r[o + k]]
      BY <1>2, <3>1
    <3>3. r[o + k] = r[i]
      BY <1>11, <3>1
    <3> QED BY <3>2, <3>3
  <2> QED BY <2>1, <2>2
<1> QED BY <1>12, <1>13

LEMMA ListStep == TypeOK /\ ListInv /\ [Next]_vars => ListInv'
<1> SUFFICES ASSUME TypeOK, ListInv, [Next]_vars PROVE ListInv'
  OBVIOUS
<1>1. ASSUME Get PROVE ListInv'
  <2>1. AboveMinimum' /\ PagesBehind' /\ PagesDescend' /\ PagesFilled'
    BY <1>1, GetKeepsPages
  <2>2. ASSUME ~changed' PROVE SeenUpTo' /\ FromRankings'
    <3>1. ~changed
      BY <1>1, <2>2 DEF Get
    <3>2. SeenUpTo /\ FromRankings
      BY <3>1 DEF ListInv
    <3> QED BY <1>1, <3>2, GetKeepsRankings
  <2> QED BY <2>1, <2>2 DEF ListInv
<1>2. ASSUME Update PROVE ListInv'
  <2>1. /\ asked' = asked /\ page' = page /\ listed' = listed
        /\ changed' = (changed \/ listed # <<>>)
    BY <1>2 DEF Update
  <2>2. AboveMinimum'
    BY <2>1 DEF ListInv, AboveMinimum
  <2>3. PagesBehind' /\ PagesFilled'
    BY <2>1 DEF ListInv, PagesBehind, PagesFilled
  <2>4. PagesDescend'
    BY <2>1 DEF ListInv, PagesDescend, Before
  <2>5. ASSUME ~changed' PROVE SeenUpTo' /\ FromRankings'
    <3>1. listed = <<>> /\ listed' = <<>>
      BY <2>1, <2>5
    <3>2. DOMAIN listed' = {} /\ Len(listed') = 0
      BY <3>1
    <3>3. PageOf(page) = 1
      BY <3>1 DEF ListInv, PagesFilled, TypeOK, PageOf
    <3>4. Offset(PageOf(page'), LimitOf(asked'.limit)) = 0
      <4>1. LimitOf(asked.limit) \in Nat
        BY LimitTyped DEF TypeOK
      <4> QED BY <2>1, <3>3, <4>1 DEF Offset
    <3>5. Cardinality(Matching') \in Nat
      <4>1. Matching' \in SUBSET Users
        BY DEF Matching
      <4>2. IsFiniteSet(Matching')
        BY <4>1, MatchingFinite, FS_Subset
      <4> QED BY <4>2, FS_CardinalityType
    <3>6. Reached(0, 0, Cardinality(Matching'))
      BY <3>5 DEF Reached
    <3>7. SeenUpTo'
      BY <3>2, <3>4, <3>6 DEF SeenUpTo, PageOf, LimitOf
    <3>8. FromRankings'
      BY <3>2 DEF FromRankings
    <3> QED BY <3>7, <3>8
  <2> QED BY <2>2, <2>3, <2>4, <2>5 DEF ListInv
<1>3. CASE UNCHANGED vars
  <2>1. /\ asked' = asked /\ page' = page /\ listed' = listed
        /\ changed' = changed /\ amount' = amount
    BY <1>3 DEF vars
  <2>2. Matching' = Matching
    BY <2>1 DEF Matching
  <2>3. Rankings' = Rankings
    BY <2>1, <2>2 DEF Rankings, Before
  <2>4. AboveMinimum'
    BY <2>1 DEF ListInv, AboveMinimum
  <2>5. PagesBehind' /\ PagesFilled'
    BY <2>1 DEF ListInv, PagesBehind, PagesFilled
  <2>6. PagesDescend'
    BY <2>1 DEF ListInv, PagesDescend, Before
  <2>7. SeenUpTo' <=> SeenUpTo
    BY <2>1, <2>2 DEF SeenUpTo
  <2>8. FromRankings' <=> FromRankings
    BY <2>1, <2>3 DEF FromRankings
  <2> QED BY <2>1, <2>4, <2>5, <2>6, <2>7, <2>8 DEF ListInv
<1> QED BY <1>1, <1>2, <1>3 DEF Next

LEMMA ListInductive == Spec => [](TypeOK /\ ListInv)
<1>1. Init => TypeOK /\ ListInv
  BY TypesInit, ListInit
<1>2. TypeOK /\ ListInv /\ [Next]_vars => (TypeOK /\ ListInv)'
  BY TypesStep, ListStep
<1> QED BY <1>1, <1>2, PTL DEF Spec

LEMMA ListedTyped ==
    ASSUME TypeOK
    PROVE  /\ DOMAIN listed = 1..Len(listed) /\ Len(listed) \in Nat
           /\ \A i \in DOMAIN listed :
                listed[i] \in Entry /\ listed[i].user \in Users /\ listed[i].amount \in Int
           /\ amount \in [Users -> Int]
           /\ asked.minimum \in Nat
           /\ asked.list \in {"balances", "points"}
           /\ asked.list = "points" => asked.minimum = 0
<1>1. listed \in Seq(Entry)
  BY DEF TypeOK, Entry
<1>2. DOMAIN listed = 1..Len(listed) /\ Len(listed) \in Nat
  BY <1>1, LenProperties
<1>3. \A i \in DOMAIN listed : listed[i] \in Entry
  BY <1>1, <1>2, ElementOfSeq
<1>4. Amounts \subseteq Int /\ Minima \subseteq Nat
  BY LeaderboardAssumption, AmountsTyped DEF LeaderboardAssumption
<1>5. \A i \in DOMAIN listed : listed[i].user \in Users /\ listed[i].amount \in Int
  BY <1>3, <1>4 DEF Entry
<1>6. amount \in [Users -> Int]
  BY <1>4 DEF TypeOK
<1>7. asked \in Request
  BY DEF TypeOK
<1>8. /\ asked.minimum \in Nat
      /\ asked.list \in {"balances", "points"}
      /\ asked.list = "points" => asked.minimum = 0
  <2>1. CASE asked \in [list : {"balances"}, minimum : Minima, limit : Limits]
    <3>1. asked.list = "balances" /\ asked.minimum \in Minima
      BY <2>1
    <3> QED BY <1>4, <3>1
  <2>2. CASE asked \in [list : {"points"}, minimum : {0}, limit : Limits]
    <3>1. asked.list = "points" /\ asked.minimum = 0
      BY <2>2
    <3> QED BY <3>1
  <2> QED BY <1>7, <2>1, <2>2 DEF Request
<1> QED BY <1>2, <1>3, <1>5, <1>6, <1>8

LEMMA DescendsFollows == TypeOK /\ ListInv => ListedDescending
<1> SUFFICES ASSUME TypeOK, ListInv, NEW i \in DOMAIN listed, NEW j \in DOMAIN listed,
                    i < j, Snapshot(i, j),
                    Comparable(listed[i].amount, listed[j].amount)
             PROVE  listed[i].amount >= listed[j].amount
  BY DEF ListedDescending
<1> DEFINE a == listed[i].amount
           b == listed[j].amount
<1>1. a \in Int /\ b \in Int
  BY ListedTyped
<1>2. ~Before(a, b)
  <2>1. CASE changed
    <3>1. listed[i].page = listed[j].page
      BY <2>1 DEF Snapshot
    <3> QED BY <3>1 DEF ListInv, PagesDescend
  <2>2. CASE ~changed
    <3>1. SeenUpTo /\ FromRankings
      BY <2>2 DEF ListInv
    <3>2. PICK r \in Rankings : listed[i].user = r[i]
      BY <3>1 DEF FromRankings
    <3>3. PICK s \in Rankings : listed[j].user = s[j]
      BY <3>1 DEF FromRankings
    <3>4. a = amount[r[i]] /\ b = amount[s[j]]
      BY <3>1, <3>2, <3>3 DEF FromRankings
    <3>5. Len(listed) <= Cardinality(Matching) /\ Cardinality(Matching) \in Nat
      BY <3>1, MatchingFinite DEF SeenUpTo, Reached
    <3>6. i \in 1..Len(listed) /\ j \in 1..Len(listed) /\ Len(listed) \in Nat
      BY ListedTyped
    <3>7. i \in 1..Cardinality(Matching) /\ j \in 1..Cardinality(Matching) /\ i <= j
      BY <3>5, <3>6
    <3>8. amount \in [Users -> Int]
      BY ListedTyped
    <3>9. ~Before(amount[r[i]], amount[s[j]])
      BY <3>7, <3>8, RankingsAgree
    <3> QED BY <3>4, <3>9
  <2> QED BY <2>1, <2>2
<1>3. Comparable(a, b)
  OBVIOUS
<1> HIDE DEF a, b
<1>4. ~(a < b)
  BY <1>1, <1>2, <1>3, ComparableBefore
<1>5. a >= b
  BY <1>1, <1>4
<1> QED BY <1>5 DEF a, b

LEMMA MinimumFollows == TypeOK /\ ListInv => ListedHaveMinimum
<1> SUFFICES ASSUME TypeOK, ListInv, asked.minimum > 0, NEW i \in DOMAIN listed,
                    Comparable(listed[i].amount, asked.minimum)
             PROVE  listed[i].amount >= asked.minimum
  BY DEF ListedHaveMinimum
<1> DEFINE a == listed[i].amount
           b == asked.minimum
<1>1. a \in Int /\ b \in Nat /\ b > 0 /\ asked.list # "points"
  BY ListedTyped
<1>2. ~TextBefore(a, b)
  BY DEF ListInv, AboveMinimum
<1>3. Alike(a, b)
  BY <1>1 DEF Comparable, Alike
<1> HIDE DEF a, b
<1>4. ~(a < b)
  BY <1>1, <1>2, <1>3, AlikeBefore
<1>5. a >= b
  BY <1>1, <1>4
<1> QED BY <1>5 DEF a, b

LEMMA RankingsUnique ==
    ASSUME amount \in [Users -> Int], NoTies, NEW r \in Rankings, NEW s \in Rankings,
           NEW i \in 1..Cardinality(Matching)
    PROVE  r[i] = s[i]
<1> DEFINE c == Cardinality(Matching)
<1>1. c \in Nat /\ Matching \subseteq Users /\ r[i] \in Matching /\ s[i] \in Matching
  <2>1. r \in [1..c -> Matching] /\ s \in [1..c -> Matching]
    BY RankingListsAll
  <2> QED BY <2>1, MatchingFinite
<1>2. r[i] \in Users /\ s[i] \in Users /\ amount[r[i]] \in Int /\ amount[s[i]] \in Int
  BY <1>1
<1>3. i <= i
  BY <1>1
<1>4. ~Before(amount[r[i]], amount[s[i]]) /\ ~Before(amount[s[i]], amount[r[i]])
  BY <1>3, RankingsAgree
<1>5. amount[r[i]] = amount[s[i]]
  BY <1>2, <1>4, BeforeTotal
<1> QED BY <1>2, <1>5 DEF NoTies

LEMMA EveryoneFollows == TypeOK /\ ListInv => EveryoneListedOnce
<1> SUFFICES ASSUME TypeOK, ListInv, ~changed, NoTies,
                    page > TotalPages(LimitOf(asked.limit))
             PROVE  /\ {listed[i].user : i \in DOMAIN listed} = Matching
                    /\ Len(listed) = Cardinality(Matching)
  BY DEF EveryoneListedOnce
<1> DEFINE c == Cardinality(Matching)
           l == LimitOf(asked.limit)
           p == PageOf(page)
           o == Offset(p, l)
<1>1. c \in Nat /\ l \in Nat \ {0} /\ IsFiniteSet(Matching)
  BY MatchingFinite, LimitTyped DEF TypeOK
<1>2. page \in Nat /\ p \in Nat \ {0} /\ p >= page
  <2>1. page \in Nat
    BY DEF TypeOK
  <2> QED BY <2>1 DEF PageOf
<1>3. TotalPages(l) = (c + l - 1) \div l /\ o = (p - 1) * l
  BY DEF TotalPages, Offset
<1>4. page > (c + l - 1) \div l
  BY <1>3
<1>5. Reached(Len(listed), o, c) /\ FromRankings
  BY DEF ListInv, SeenUpTo
<1>6. Len(listed) \in Nat /\ DOMAIN listed = 1..Len(listed) /\ amount \in [Users -> Int]
  BY ListedTyped
<1> HIDE DEF c, l, p, o
<1>7. (c + l - 1) \div l \in Nat
  <2>1. c + l - 1 \in Nat
    BY <1>1
  <2> QED BY <1>1, <2>1, DivMod
<1>8. c <= o /\ o \in Nat
  <2>1. p > (c + l - 1) \div l
    BY <1>2, <1>4, <1>7
  <2> QED BY <1>1, <1>2, <1>3, <2>1, PageStarts
<1>9. Len(listed) = c
  <2> DEFINE m == Len(listed)
  <2>1. m \in Nat /\ m <= c /\ (m = o \/ m = c)
    BY <1>5, <1>6 DEF Reached
  <2> HIDE DEF m
  <2>2. m = c
    BY <1>1, <1>8, <2>1
  <2> QED BY <2>2 DEF m
<1>10. ASSUME NEW r \in Rankings, NEW i \in 1..c PROVE listed[i].user = r[i]
  <2>1. PICK s \in Rankings : listed[i].user = s[i]
    BY <1>5, <1>6, <1>9 DEF FromRankings
  <2>2. r[i] = s[i]
    BY <1>6, RankingsUnique DEF c
  <2> QED BY <2>1, <2>2
<1>11. {listed[i].user : i \in DOMAIN listed} = Matching
  <2>1. CASE c = 0
    <3>1. Matching = {}
      BY <1>1, <2>1, FS_EmptySet DEF c
    <3> QED BY <1>6, <1>9, <2>1, <3>1
  <2>2. CASE c # 0
    <3>1. 1 \in DOMAIN listed
      BY <1>1, <1>6, <1>9, <2>2
    <3>2. PICK r \in Rankings : listed[1].user = r[1]
      BY <1>5, <3>1 DEF FromRankings
    <3>3. /\ r \in [1..c -> Matching]
          /\ \A u \in Matching : \E i \in 1..c : r[i] = u
      BY RankingListsAll DEF c
    <3>4. \A i \in 1..c : listed[i].user = r[i]
      BY <1>10
    <3>5. {listed[i].user : i \in DOMAIN listed} = {r[i] : i \in 1..c}
      BY <1>6, <1>9, <3>4
    <3>6. {r[i] : i \in 1..c} = Matching
      BY <3>3
    <3> QED BY <3>5, <3>6
  <2> QED BY <2>1, <2>2
<1> QED BY <1>9, <1>11 DEF c

(* A page, and all the pages of a client while nothing changes, show the     *)
(* amounts from the largest to the smallest ("ORDER BY ... DESC"), also      *)
(* where the database orders ties differently from one page to the next: all *)
(* points, and of the balances, debts included, those that are Comparable.   *)
THEOREM ListsDescend == Spec => []ListedDescending
BY ListInductive, DescendsFollows, PTL

(* Nobody is listed with less than the minimum a client named, among the     *)
(* numbers of its length, and nobody with a debt ("balance >= ?").           *)
THEOREM ListsKeepMinimum == Spec => []ListedHaveMinimum
BY ListInductive, MinimumFollows, PTL

(* A client that has walked through the pages has been shown every matching  *)
(* user, and none twice, if nothing changed and nobody is tied               *)
(* ("offset := (page - 1) * limit").                                         *)
THEOREM PagesShowEveryone == Spec => []EveryoneListedOnce
BY ListInductive, EveryoneFollows, PTL
=============================================================================
