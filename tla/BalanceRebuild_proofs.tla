----------------------- MODULE BalanceRebuild_proofs -----------------------
(* Proofs that a rebuild never writes a balance that the user never had, and *)
(* when it writes the sum of all changes, for any number of requests,        *)
(* amounts, changes and timestamps.                                          *)
EXTENDS BalanceRebuild, SequenceTheorems, WellFoundedInduction, TLAPS

Change == [ts : 1..MaxTime, amount : Amounts, after : Int]

ConsumerState == [pc : {"idle", "tx"}, ts : 0..MaxTime,
                  amount : Amounts \union {0}, before : Int, row : {"own", "blank"}]

RequestState == [pc : {"idle", "find", "create", "own", "blank", "done"}, after : Int]

BlankState == [there : BOOLEAN, balance : Int]

(* A transaction under way came from a message there was room for.           *)
TxOK ==
    con.pc = "tx" =>
        con.ts \in 1..MaxTime /\ con.amount \in Amounts /\ Len(changes) < MaxChanges

(* A request that has read holds the balance of a change that is committed.  *)
(* It stays one: changes are only added.                                     *)
ReadWasHeld ==
    \A r \in Requests :
        Served(r) => \E i \in DOMAIN changes : req[r].after = changes[i].after

RebuildInv == TypeOK /\ TxOK /\ BalanceWasHeld /\ ReadWasHeld

LEMMA ChangesTyped == TypeOK => changes \in Seq(Change) /\ Len(changes) \in Nat
  BY DEF TypeOK, Change

LEMMA StateTyped == TypeOK <=>
    /\ changes \in Seq(Change) /\ Len(changes) <= MaxChanges /\ balance \in Int
    /\ blank \in BlankState /\ con \in ConsumerState
    /\ req \in [Requests -> RequestState] /\ overlapped \in BOOLEAN
  BY DEF TypeOK, Change, ConsumerState, RequestState, BlankState

LEMMA IdleTyped == IdleConsumer \in ConsumerState /\ IdleConsumer.pc = "idle"
  BY RebuildAssumption DEF RebuildAssumption, IdleConsumer, ConsumerState

(* What First finds.                                                         *)
LEMMA FirstTyped ==
    ASSUME TypeOK
    PROVE  Current \in Int /\ FirstRow \in {"own", "blank"}
  BY DEF TypeOK, Current, FirstRow

LEMMA InitInv == Init => RebuildInv
<1> SUFFICES ASSUME Init PROVE RebuildInv
  OBVIOUS
<1>1. TypeOK
  <2>1. changes \in Seq(Change) /\ Len(changes) = 0
    BY DEF Init
  <2>2. con \in ConsumerState
    BY IdleTyped DEF Init
  <2>3. req \in [Requests -> RequestState]
    BY DEF Init, RequestState
  <2>4. Len(changes) <= MaxChanges
    BY <2>1, RebuildAssumption DEF RebuildAssumption
  <2>5. balance \in Int /\ blank \in BlankState
    BY DEF Init, BlankState
  <2>6. overlapped \in BOOLEAN
    BY Zenon DEF Init
  <2> QED BY <2>1, <2>2, <2>3, <2>4, <2>5, <2>6 DEF TypeOK, Change, ConsumerState,
                                                    RequestState, BlankState
<1>2. TxOK /\ BalanceWasHeld /\ ReadWasHeld
  BY DEF Init, TxOK, BalanceWasHeld, ReadWasHeld, IdleConsumer, Served
<1> QED BY <1>1, <1>2 DEF RebuildInv

(* Without a new change, what was held is held.                              *)
LEMMA ReadInv ==
    ASSUME RebuildInv, ConsumerRead
    PROVE  RebuildInv'
<1> USE DEF RebuildInv
<1>1. /\ con.pc = "idle" /\ Len(changes) < MaxChanges
      /\ UNCHANGED <<changes, balance, blank, req>>
  BY DEF ConsumerRead
<1>2. PICK ts \in 1..MaxTime, a \in Amounts :
         con' = [pc |-> "tx", ts |-> ts, amount |-> a, before |-> Current,
                 row |-> FirstRow]
  BY DEF ConsumerRead
<1>3. overlapped' \in BOOLEAN
  BY DEF ConsumerRead, TypeOK
<1>4. con' \in ConsumerState
  BY <1>2, FirstTyped, RebuildAssumption DEF RebuildAssumption, ConsumerState
<1>5. TypeOK'
  BY <1>1, <1>3, <1>4 DEF TypeOK, ConsumerState
<1>6. TxOK'
  BY <1>1, <1>2 DEF TxOK
<1>7. BalanceWasHeld' /\ ReadWasHeld'
  BY <1>1 DEF BalanceWasHeld, ReadWasHeld, Served
<1> QED BY <1>5, <1>6, <1>7

(* The new change holds the new balance; the others stay where they are.     *)
LEMMA CommitInv ==
    ASSUME RebuildInv, ConsumerCommit
    PROVE  RebuildInv'
<1> USE DEF RebuildInv
<1> DEFINE after == con.before + con.amount
           c == [ts |-> con.ts, amount |-> con.amount, after |-> after]
<1>1. /\ changes' = Append(changes, c) /\ con' = IdleConsumer
      /\ UNCHANGED <<req, overlapped>> /\ con.pc = "tx"
      /\ \/ balance' = after /\ blank' = blank
         \/ balance' = balance /\ blank' = [blank EXCEPT !.balance = after]
  BY DEF ConsumerCommit
<1>2. after \in Int
  <2>1. con.before \in Int
    BY DEF TypeOK
  <2>2. con.amount \in Int
    BY <1>1, RebuildAssumption DEF RebuildAssumption, TxOK
  <2> QED BY <2>1, <2>2
<1>3. c \in Change
  BY <1>1, <1>2 DEF TxOK, Change
<1>4. changes \in Seq(Change) /\ Len(changes) \in Nat
  BY ChangesTyped
<1> HIDE DEF c, after
<1>5. /\ changes' \in Seq(Change) /\ Len(changes') = Len(changes) + 1
      /\ DOMAIN changes' = 1..Len(changes) + 1 /\ DOMAIN changes = 1..Len(changes)
      /\ changes'[Len(changes) + 1] = c
      /\ \A i \in DOMAIN changes : changes'[i] = changes[i]
  BY <1>1, <1>3, <1>4
<1>6. c.after = after
  BY DEF c
<1>7. Len(changes') <= MaxChanges
  BY <1>1, <1>4, <1>5, RebuildAssumption DEF RebuildAssumption, TxOK
<1>8. con' \in ConsumerState /\ con'.pc = "idle"
  BY <1>1, IdleTyped
<1>13. /\ balance' \in Int /\ blank' \in BlankState
       /\ balance' \in {balance, after} /\ blank'.balance \in {blank.balance, after}
  BY <1>1, <1>2 DEF TypeOK, BlankState
<1>14. req' \in [Requests -> RequestState] /\ overlapped' \in BOOLEAN
  BY <1>1, StateTyped
<1>9. TypeOK'
  BY <1>5, <1>7, <1>8, <1>13, <1>14 DEF TypeOK, Change, ConsumerState, RequestState,
                                    BlankState
<1>10. TxOK'
  BY <1>8 DEF TxOK
<1>11. BalanceWasHeld'
  <2>1. \A i \in DOMAIN changes : i \in DOMAIN changes' /\ changes'[i] = changes[i]
    BY <1>4, <1>5
  <2>2. Len(changes) + 1 \in DOMAIN changes' /\ changes'[Len(changes) + 1].after = after
    BY <1>4, <1>5, <1>6
  <2> QED BY <1>13, <2>1, <2>2 DEF BalanceWasHeld
<1>12. ReadWasHeld'
  <2> SUFFICES ASSUME NEW r \in Requests, Served(r)'
               PROVE  \E i \in DOMAIN changes' : req'[r].after = changes'[i].after
    BY DEF ReadWasHeld
  <2>1. PICK i \in DOMAIN changes : req[r].after = changes[i].after
    BY <1>1 DEF ReadWasHeld, Served
  <2>2. i \in DOMAIN changes' /\ changes'[i] = changes[i]
    BY <1>4, <1>5
  <2> QED BY <1>1, <2>1, <2>2
<1> QED BY <1>9, <1>10, <1>11, <1>12

LEMMA RollbackInv ==
    ASSUME RebuildInv, ConsumerRollback
    PROVE  RebuildInv'
<1> USE DEF RebuildInv
<1>1. con' \in ConsumerState /\ con'.pc = "idle"
  BY IdleTyped DEF ConsumerRollback
<1>2. UNCHANGED <<changes, balance, blank, req, overlapped>>
  BY DEF ConsumerRollback
<1> QED BY <1>1, <1>2 DEF TypeOK, TxOK, BalanceWasHeld, ReadWasHeld, Served,
                          ConsumerState

LEMMA RebuildReadInv ==
    ASSUME RebuildInv, NEW r \in Requests, RebuildRead(r)
    PROVE  RebuildInv'
<1> USE DEF RebuildInv
<1>1. UNCHANGED <<changes, balance, blank, con>> /\ overlapped' \in BOOLEAN
  BY DEF RebuildRead, TypeOK
<1>2. PICK s \in RequestState :
         /\ req' = [req EXCEPT ![r] = s]
         /\ s.pc \notin {"idle", "done"} => \E i \in DOMAIN changes : s.after = changes[i].after
  <2>1. CASE changes = <<>>
    <3> DEFINE s == [req[r] EXCEPT !.pc = "done"]
    <3>1. s \in RequestState /\ s.pc = "done"
      BY DEF TypeOK, RequestState
    <3>2. req' = [req EXCEPT ![r] = s]
      BY <2>1 DEF RebuildRead, TypeOK
    <3> QED BY <3>1, <3>2
  <2>2. CASE changes # <<>>
    <3>1. PICK i \in DOMAIN changes :
             req' = [req EXCEPT ![r] = [pc |-> "find", after |-> BalanceOf(i)]]
      BY <2>2 DEF RebuildRead
    <3>2. changes[i] \in Change
      BY ChangesTyped, ElementOfSeq
    <3>3. changes[i].after \in Int
      BY <3>2 DEF Change
    <3> DEFINE s == [pc |-> "find", after |-> changes[i].after]
    <3>4. s \in RequestState /\ s.after = changes[i].after
      BY <3>3 DEF RequestState
    <3>5. req' = [req EXCEPT ![r] = s]
      BY <3>1 DEF BalanceOf
    <3> HIDE DEF s
    <3> QED BY <3>4, <3>5
  <2> QED BY <2>1, <2>2
<1>3. TypeOK'
  BY <1>1, <1>2 DEF TypeOK, RequestState
<1>4. ReadWasHeld'
  BY <1>1, <1>2 DEF ReadWasHeld, TypeOK, Served
<1> QED BY <1>1, <1>3, <1>4 DEF TxOK, BalanceWasHeld

(* First has found a row, or has failed.                                     *)
LEMMA RebuildFindInv ==
    ASSUME RebuildInv, NEW r \in Requests, RebuildFind(r)
    PROVE  RebuildInv'
<1> USE DEF RebuildInv
<1>1. UNCHANGED <<changes, balance, blank, con, overlapped>> /\ Served(r)
  BY DEF RebuildFind, Served
<1>2. PICK found \in {"own", "blank", "create"} : req' = [req EXCEPT ![r].pc = found]
  BY FirstTyped DEF RebuildFind
<1>3. req' \in [Requests -> RequestState]
      /\ \A q \in Requests : req'[q].after = req[q].after /\ (Served(q)' => Served(q))
  BY <1>1, <1>2 DEF TypeOK, RequestState, Served
<1>4. TypeOK'
  BY <1>1, <1>3 DEF TypeOK, RequestState
<1>5. ReadWasHeld'
  BY <1>1, <1>3 DEF ReadWasHeld
<1> QED BY <1>1, <1>4, <1>5 DEF TxOK, BalanceWasHeld

(* What a request writes, into either row, is what it has read.              *)
RebuildWrite(r) == RebuildUpdate(r) \/ RebuildCreate(r)

LEMMA WriteEffect ==
    ASSUME RebuildInv, NEW r \in Requests, RebuildWrite(r)
    PROVE  /\ UNCHANGED <<changes, con, overlapped>> /\ Served(r)
           /\ req' = [req EXCEPT ![r].pc = "done"]
           /\ blank' \in BlankState
           /\ balance' \in {balance, req[r].after}
           /\ blank'.balance \in {blank.balance, req[r].after}
           /\ Current' \in {Current, req[r].after}
<1>1. blank \in BlankState /\ req[r].after \in Int
  BY DEF RebuildInv, TypeOK, BlankState
<1>2. CASE RebuildUpdate(r)
  BY <1>1, <1>2 DEF RebuildUpdate, BlankState, Served, Current
<1>3. CASE RebuildCreate(r)
  <2>1. /\ UNCHANGED <<changes, con, overlapped>> /\ Served(r) /\ balance' = balance
        /\ req' = [req EXCEPT ![r].pc = "done"]
    BY <1>3 DEF RebuildCreate, Served
  <2>2. CASE blank' = [there |-> TRUE, balance |-> req[r].after]
    <3>1. blank' \in BlankState /\ blank'.balance = req[r].after /\ blank'.there
      BY <1>1, <2>2, Zenon DEF BlankState
    <3> QED BY <2>1, <3>1 DEF Current
  <2>3. CASE UNCHANGED blank
    BY <1>1, <2>1, <2>3 DEF Current
  <2> QED BY <1>3, <2>2, <2>3 DEF RebuildCreate
<1> QED BY <1>2, <1>3 DEF RebuildWrite

LEMMA RebuildWriteInv ==
    ASSUME RebuildInv, NEW r \in Requests, RebuildWrite(r)
    PROVE  RebuildInv'
<1> USE DEF RebuildInv
<1>1. /\ UNCHANGED <<changes, con, overlapped>> /\ Served(r)
      /\ req' = [req EXCEPT ![r].pc = "done"]
      /\ blank' \in BlankState
      /\ balance' \in {balance, req[r].after}
      /\ blank'.balance \in {blank.balance, req[r].after}
  BY WriteEffect
<1>2. req' \in [Requests -> RequestState]
      /\ \A q \in Requests : Served(q)' => Served(q) /\ req'[q] = req[q]
  BY <1>1 DEF TypeOK, RequestState, Served
<1>3. balance' \in Int
  BY <1>1 DEF TypeOK
<1>4. TypeOK'
  BY <1>1, <1>2, <1>3 DEF TypeOK, RequestState, BlankState
<1>5. BalanceWasHeld'
  BY <1>1 DEF BalanceWasHeld, ReadWasHeld
<1>6. ReadWasHeld'
  BY <1>1, <1>2 DEF ReadWasHeld
<1> QED BY <1>1, <1>4, <1>5, <1>6 DEF TxOK

(* The inductive invariant of the balance beside its rebuilds: what the      *)
(* consumer and RebuildUserBalance hold between their statements.            *)
THEOREM RebuildInvariant == Spec => []RebuildInv
<1>1. RebuildInv /\ [Next]_vars => RebuildInv'
  <2> SUFFICES ASSUME RebuildInv, [Next]_vars PROVE RebuildInv'
    OBVIOUS
  <2>1. CASE ConsumerRead
    BY <2>1, ReadInv
  <2>2. CASE ConsumerCommit
    BY <2>2, CommitInv
  <2>3. CASE ConsumerRollback
    BY <2>3, RollbackInv
  <2>4. ASSUME NEW r \in Requests, RebuildRead(r) PROVE RebuildInv'
    BY <2>4, RebuildReadInv
  <2>5. ASSUME NEW r \in Requests, RebuildFind(r) \/ RebuildWrite(r)
        PROVE  RebuildInv'
    BY <2>5, RebuildFindInv, RebuildWriteInv
  <2>6. CASE UNCHANGED vars
    BY <2>6 DEF vars, RebuildInv, TypeOK, TxOK, BalanceWasHeld, ReadWasHeld,
                Served
  <2> QED BY <2>1, <2>2, <2>3, <2>4, <2>5, <2>6
          DEF Next, Consumer, Rebuild, RebuildWrite
<1> QED BY InitInv, <1>1, PTL DEF Spec

(* The user's row, his changes, the transaction and the requests keep their  *)
(* types.                                                                    *)
THEOREM RebuildTypes == Spec => []TypeOK
<1>1. RebuildInv => TypeOK
  BY DEF RebuildInv
<1> QED BY <1>1, RebuildInvariant, PTL

(* However many rebuilds overlap with messages and with each other, and      *)
(* whichever of their lookups fail, every balance of the user in             *)
(* user_balances is 0 or one that a committed change holds.                  *)
THEOREM RebuiltBalanceWasHeld == Spec => []BalanceWasHeld
<1>1. RebuildInv => BalanceWasHeld
  BY DEF RebuildInv
<1> QED BY <1>1, RebuildInvariant, PTL

-----------------------------------------------------------------------------
(* Induction, as a fact about sets: every set of naturals has a least        *)
(* element.                                                                  *)
LEMMA LeastNatural ==
    ASSUME NEW T, T \subseteq Nat, T # {}
    PROVE  \E x \in T : \A y \in T : x <= y
<1> DEFINE R == {p \in Nat \X Nat : p[1] < p[2]}
<1>1. IsWellFoundedOn(R, Nat)
  BY NatLessThanWellFounded DEF OpToRel
<1> HIDE DEF R
<1>2. PICK x \in T : \A y \in T : <<y, x>> \notin R
  BY <1>1, WFMin, Zenon
<1>3. \A y \in T : ~(y < x)
  BY <1>2 DEF R
<1> QED BY <1>2, <1>3

LEMMA InductiveSet ==
    ASSUME NEW S, 0 \in S, \A n \in Nat : n \in S => n + 1 \in S
    PROVE  Nat \subseteq S
<1> SUFFICES ASSUME Nat \ S # {} PROVE FALSE
  OBVIOUS
<1>1. PICK x \in Nat \ S : \A y \in Nat \ S : x <= y
  BY LeastNatural
<1>2. x # 0 /\ x - 1 \in Nat
  BY <1>1
<1>3. x - 1 \in S
  BY <1>1, <1>2
<1> QED BY <1>1, <1>2, <1>3

(* The sum of the amounts: partial(n) is the sum of the first n.             *)
Summable(s) ==
    Len(s) \in Nat /\ \A n \in 1..Len(s) : s[n].amount \in Int

PartialSums(f, s, last) ==
    /\ f \in [0..last -> Int] /\ f[0] = 0
    /\ \A n \in 1..last : f[n] = f[n - 1] + s[n].amount

LEMMA SumsExist ==
    ASSUME NEW s, Summable(s)
    PROVE  \E f : PartialSums(f, s, Len(s))
<1> DEFINE P == {last \in Nat : last <= Len(s) => \E f : PartialSums(f, s, last)}
<1>1. 0 \in P
  <2>1. PartialSums([n \in 0..0 |-> 0], s, 0)
    BY DEF PartialSums
  <2> QED BY <2>1
<1>2. ASSUME NEW last \in Nat, last \in P PROVE last + 1 \in P
  <2> SUFFICES ASSUME last + 1 <= Len(s)
               PROVE  \E g : PartialSums(g, s, last + 1)
    OBVIOUS
  <2>1. PICK f : PartialSums(f, s, last)
    BY <1>2 DEF Summable
  <2> DEFINE g == [n \in 0..(last + 1) |->
                     IF n = last + 1 THEN f[last] + s[last + 1].amount ELSE f[n]]
  <2>2. s[last + 1].amount \in Int /\ f[last] \in Int
    BY <2>1 DEF Summable, PartialSums
  <2>3. g \in [0..(last + 1) -> Int] /\ g[0] = 0
    BY <2>1, <2>2 DEF PartialSums
  <2>4. ASSUME NEW n \in 1..(last + 1)
        PROVE  g[n] = g[n - 1] + s[n].amount
    BY <2>1, <2>2 DEF PartialSums
  <2>5. PartialSums(g, s, last + 1)
    BY <2>3, <2>4 DEF PartialSums
  <2> QED BY <2>5
<1> HIDE DEF P
<1>3. Nat \subseteq P
  BY <1>1, <1>2, InductiveSet
<1>4. Len(s) \in P
  BY <1>3 DEF Summable
<1> QED BY <1>4 DEF P, Summable

(* Sum, a recursive function, is the last of the partial sums.               *)
LEMMA SumIsLast ==
    ASSUME NEW s, Summable(s), NEW f, PartialSums(f, s, Len(s))
    PROVE  Sum(s) = f[Len(s)]
<1> DEFINE Next1(g) == [n \in 0..Len(s) |->
                          IF n = 0 THEN 0 ELSE g[n - 1] + s[n].amount]
           sum == CHOOSE g : g = Next1(g)
<1>1. Sum(s) = sum[Len(s)]
  BY DEF Sum
<1>2. f = Next1(f)
  <2>1. \A n \in 0..Len(s) : f[n] = Next1(f)[n]
    BY DEF PartialSums, Summable
  <2>2. f \in [0..Len(s) -> Int]
    BY DEF PartialSums
  <2> QED BY <2>1, <2>2
<1>3. sum = Next1(sum)
  BY <1>2
<1> HIDE DEF sum
<1> DEFINE P == {n \in Nat : n <= Len(s) => sum[n] = f[n]}
<1>4. 0 \in P
  BY <1>3 DEF PartialSums, Summable
<1>5. ASSUME NEW n \in Nat, n \in P PROVE n + 1 \in P
  <2> SUFFICES ASSUME n + 1 <= Len(s) PROVE sum[n + 1] = f[n + 1]
    OBVIOUS
  <2>1. sum[n] = f[n]
    BY <1>5 DEF Summable
  <2>2. sum[n + 1] = sum[n] + s[n + 1].amount
    BY <1>3 DEF Summable
  <2>3. f[n + 1] = f[n] + s[n + 1].amount
    BY DEF PartialSums, Summable
  <2> QED BY <2>1, <2>2, <2>3
<1> HIDE DEF P
<1>6. Nat \subseteq P
  BY <1>4, <1>5, InductiveSet
<1>7. Len(s) \in P
  BY <1>6 DEF Summable
<1> QED BY <1>1, <1>7 DEF P, Summable

LEMMA SumEmpty == Sum(<<>>) = 0
<1>1. Summable(<<>>)
  BY DEF Summable
<1>2. PartialSums([n \in 0..0 |-> 0], <<>>, 0)
  BY DEF PartialSums
<1> QED BY <1>1, <1>2, SumIsLast

LEMMA SumType ==
    ASSUME NEW s, Summable(s)
    PROVE  Sum(s) \in Int
<1>1. PICK f : PartialSums(f, s, Len(s))
  BY SumsExist
<1>2. Sum(s) = f[Len(s)]
  BY <1>1, SumIsLast
<1> QED BY <1>1, <1>2 DEF PartialSums, Summable

LEMMA SumAppend ==
    ASSUME NEW R, NEW s \in Seq(R), NEW c \in R, \A d \in R : d.amount \in Int
    PROVE  Sum(Append(s, c)) = Sum(s) + c.amount
<1> DEFINE t == Append(s, c)
<1>1. /\ Len(s) \in Nat /\ Len(t) = Len(s) + 1
      /\ \A n \in 1..Len(s) : t[n] = s[n] /\ s[n] \in R
      /\ t[Len(s) + 1] = c
  OBVIOUS
<1> HIDE DEF t
<1>2. Summable(s) /\ Summable(t)
  BY <1>1 DEF Summable
<1>3. PICK f : PartialSums(f, t, Len(t))
  BY <1>2, SumsExist
<1> DEFINE g == [n \in 0..Len(s) |-> f[n]]
<1>4. PartialSums(g, s, Len(s))
  BY <1>1, <1>3 DEF PartialSums
<1>5. Sum(s) = f[Len(s)] /\ Sum(t) = f[Len(s) + 1]
  BY <1>1, <1>2, <1>3, <1>4, SumIsLast
<1>6. f[Len(s) + 1] = f[Len(s)] + t[Len(s) + 1].amount
  BY <1>1, <1>3 DEF PartialSums
<1> QED BY <1>1, <1>5, <1>6 DEF t

-----------------------------------------------------------------------------
(* What makes BalanceIsLast inductive: while no request is served beside a   *)
(* message, nobody reads in between, so the balance, the last change and     *)
(* what a request is about to write are all the sum of the changes, and the  *)
(* row that the consumer has read is still the first.                        *)
NoneInTheWay ==
    ~overlapped => ~(con.pc = "tx" /\ \E r \in Requests : Served(r))

AllEqual ==
    /\ Current = Held
    /\ changes # <<>> => changes[Len(changes)].after = Held
    /\ con.pc = "tx" => con.before = Current /\ con.row = FirstRow
    /\ \A r \in Requests : Served(r) => req[r].after = Current

LastInv == RebuildInv /\ NoneInTheWay /\ (~overlapped /\ InTimeOrder => AllEqual)

LEMMA InitLast == Init => LastInv
<1> SUFFICES ASSUME Init PROVE LastInv
  OBVIOUS
<1>1. /\ changes = <<>> /\ Current = 0 /\ con.pc = "idle"
      /\ \A r \in Requests : ~Served(r)
  BY DEF Init, IdleConsumer, Current, Served
<1> QED BY <1>1, InitInv, SumEmpty DEF LastInv, NoneInTheWay, AllEqual, Held

(* The step of the requests and of the consumer that leave changes alone.    *)
LEMMA ReadLast ==
    ASSUME LastInv, ConsumerRead
    PROVE  LastInv'
<1>1. /\ UNCHANGED <<changes, balance, blank, req>>
      /\ con'.before = Current /\ con'.row = FirstRow
      /\ overlapped' = (overlapped \/ \E r \in Requests : Served(r))
  BY DEF ConsumerRead
<1>2. RebuildInv' /\ Held' = Held /\ (InTimeOrder' <=> InTimeOrder)
  BY <1>1, ReadInv DEF LastInv, Held, InTimeOrder
<1>3. /\ Current' = Current /\ FirstRow' = FirstRow
      /\ \A r \in Requests : Served(r)' <=> Served(r)
  BY <1>1 DEF Current, FirstRow, Served
<1>4. NoneInTheWay'
  BY <1>1, <1>3 DEF NoneInTheWay
<1>5. ~overlapped' /\ InTimeOrder' => AllEqual'
  BY <1>1, <1>2, <1>3 DEF LastInv, AllEqual
<1> QED BY <1>2, <1>4, <1>5 DEF LastInv

LEMMA CommitLast ==
    ASSUME LastInv, ConsumerCommit
    PROVE  LastInv'
<1> DEFINE c == [ts |-> con.ts, amount |-> con.amount,
                 after |-> con.before + con.amount]
<1>1. /\ changes' = Append(changes, c)
      /\ con.pc = "tx" /\ con'.pc = "idle" /\ UNCHANGED <<req, overlapped>>
  BY DEF ConsumerCommit, IdleConsumer
<1>2. RebuildInv' /\ RebuildInv
  BY CommitInv DEF LastInv
<1>3. changes \in Seq(Change) /\ c.amount = con.amount /\ c \in Change
  <2>1. con.before \in Int /\ con.ts \in 1..MaxTime /\ con.amount \in Amounts
    BY <1>1, <1>2 DEF RebuildInv, TxOK, TypeOK
  <2>2. con.amount \in Int
    BY <2>1, RebuildAssumption DEF RebuildAssumption
  <2>3. c \in Change
    BY <2>1, <2>2 DEF Change
  <2> QED BY <1>2, <2>3, ChangesTyped DEF RebuildInv
<1>4. c.after = con.before + c.amount
  OBVIOUS
<1>9. con.row = FirstRow => Current' = c.after
  BY <1>2 DEF ConsumerCommit, FirstRow, Current, RebuildInv, TypeOK
<1>10. \A r \in Requests : Served(r)' <=> Served(r)
  BY <1>1 DEF Served
<1> HIDE DEF c
<1>5. Held' = Held + c.amount
  <2>1. \A d \in Change : d.amount \in Int
    BY RebuildAssumption DEF Change, RebuildAssumption
  <2> QED BY <1>1, <1>3, <2>1, SumAppend DEF Held
<1>6. /\ Len(changes) \in Nat /\ changes'[Len(changes')] = c
      /\ Len(changes') = Len(changes) + 1
      /\ \A i \in DOMAIN changes : i \in DOMAIN changes' /\ changes'[i] = changes[i]
  BY <1>1, <1>3
<1>7. NoneInTheWay'
  BY <1>1 DEF NoneInTheWay
<1>8. ASSUME ~overlapped', InTimeOrder' PROVE AllEqual'
  <2>1. InTimeOrder
    <3> SUFFICES ASSUME NEW i \in DOMAIN changes, NEW j \in DOMAIN changes, i < j
                 PROVE  changes[i].ts < changes[j].ts
      BY DEF InTimeOrder
    <3>1. changes'[i].ts < changes'[j].ts
      BY <1>6, <1>8 DEF InTimeOrder
    <3> QED BY <1>6, <3>1
  <2>2. AllEqual /\ NoneInTheWay
    BY <1>1, <1>8, <2>1 DEF LastInv
  <2>3. con.before = Held /\ Current' = c.after
    BY <1>1, <1>9, <2>2 DEF AllEqual
  <2>4. \A r \in Requests : ~Served(r)'
    BY <1>1, <1>8, <1>10, <2>2 DEF NoneInTheWay
  <2>5. Held' = c.after
    BY <1>4, <1>5, <2>3
  <2> QED BY <1>1, <1>6, <2>3, <2>4, <2>5 DEF AllEqual
<1> QED BY <1>2, <1>7, <1>8 DEF LastInv

LEMMA RollbackLast ==
    ASSUME LastInv, ConsumerRollback
    PROVE  LastInv'
<1>1. UNCHANGED <<changes, balance, blank, req, overlapped>> /\ con'.pc = "idle"
  BY DEF ConsumerRollback, IdleConsumer
<1> QED BY <1>1, RollbackInv
        DEF LastInv, NoneInTheWay, AllEqual, Held, InTimeOrder, Current, Served

(* Of changes in the order of time, the last record is the last committed.   *)
LEMMA LastRecordIsLast ==
    ASSUME RebuildInv, InTimeOrder, NEW i \in DOMAIN changes, LastRecord(i)
    PROVE  i = Len(changes)
<1>1. changes \in Seq(Change) /\ Len(changes) \in Nat
  BY ChangesTyped DEF RebuildInv
<1>2. Len(changes) \in DOMAIN changes /\ i <= Len(changes)
  BY <1>1
<1>3. changes[i].ts \in Int /\ changes[Len(changes)].ts \in Int
  <2>1. changes[i] \in Change /\ changes[Len(changes)] \in Change
    BY <1>1, <1>2, ElementOfSeq
  <2> QED BY <2>1, RebuildAssumption DEF Change, RebuildAssumption
<1>4. changes[Len(changes)].ts <= changes[i].ts
  BY <1>2 DEF LastRecord
<1>5. i < Len(changes) => changes[i].ts < changes[Len(changes)].ts
  BY <1>2 DEF InTimeOrder
<1> QED BY <1>1, <1>2, <1>3, <1>4, <1>5

LEMMA RebuildReadLast ==
    ASSUME LastInv, NEW r \in Requests, RebuildRead(r)
    PROVE  LastInv'
<1>1. /\ UNCHANGED <<changes, balance, blank, con>>
      /\ overlapped' = (overlapped \/ con.pc = "tx")
  BY DEF RebuildRead
<1>2. RebuildInv /\ RebuildInv'
  BY RebuildReadInv DEF LastInv
<1>3. /\ Held' = Held /\ (InTimeOrder' <=> InTimeOrder)
      /\ Current' = Current /\ FirstRow' = FirstRow
  BY <1>1 DEF Held, InTimeOrder, Current, FirstRow
<1>4. NoneInTheWay'
  BY <1>1 DEF NoneInTheWay
<1>5. ASSUME ~overlapped', InTimeOrder' PROVE AllEqual'
  <2>1. AllEqual
    BY <1>1, <1>3, <1>5 DEF LastInv
  <2> SUFFICES ASSUME NEW q \in Requests, Served(q)'
               PROVE  req'[q].after = Current
    BY <1>1, <1>3, <2>1 DEF AllEqual
  <2>2. CASE changes = <<>>
    <3>1. req' = [req EXCEPT ![r].pc = "done"]
      BY <2>2 DEF RebuildRead
    <3>2. q # r /\ req'[q] = req[q]
      BY <1>2, <3>1 DEF RebuildInv, TypeOK, Served
    <3> QED BY <2>1, <3>2 DEF AllEqual, Served
  <2>3. CASE changes # <<>>
    <3>1. PICK i \in DOMAIN changes :
             /\ LastRecord(i)
             /\ req' = [req EXCEPT ![r] = [pc |-> "find", after |-> BalanceOf(i)]]
      BY <2>3 DEF RebuildRead
    <3>2. i = Len(changes)
      BY <1>2, <1>3, <1>5, <3>1, LastRecordIsLast
    <3>3. BalanceOf(i) = Current
      BY <2>1, <2>3, <3>2 DEF AllEqual, BalanceOf
    <3>4. q = r \/ req'[q] = req[q]
      BY <1>2, <3>1 DEF RebuildInv, TypeOK
    <3> QED BY <1>2, <2>1, <3>1, <3>3, <3>4 DEF AllEqual, RebuildInv, TypeOK, Served
  <2> QED BY <2>2, <2>3
<1> QED BY <1>2, <1>4, <1>5 DEF LastInv

LEMMA RebuildFindLast ==
    ASSUME LastInv, NEW r \in Requests, RebuildFind(r)
    PROVE  LastInv'
<1>1. UNCHANGED <<changes, balance, blank, con, overlapped>>
  BY DEF RebuildFind
<1>2. RebuildInv'
  BY RebuildFindInv DEF LastInv
<1>3. \A q \in Requests : Served(q)' => Served(q) /\ req'[q].after = req[q].after
  BY DEF RebuildFind, LastInv, RebuildInv, TypeOK, Served
<1>4. /\ Held' = Held /\ (InTimeOrder' <=> InTimeOrder)
      /\ Current' = Current /\ FirstRow' = FirstRow
  BY <1>1 DEF Held, InTimeOrder, Current, FirstRow
<1>5. NoneInTheWay'
  BY <1>1, <1>3 DEF LastInv, NoneInTheWay
<1>6. ~overlapped' /\ InTimeOrder' => AllEqual'
  BY <1>1, <1>3, <1>4 DEF LastInv, AllEqual
<1> QED BY <1>2, <1>5, <1>6 DEF LastInv

LEMMA RebuildWriteLast ==
    ASSUME LastInv, NEW r \in Requests, RebuildWrite(r)
    PROVE  LastInv'
<1>1. /\ UNCHANGED <<changes, con, overlapped>> /\ Served(r)
      /\ req' = [req EXCEPT ![r].pc = "done"]
      /\ Current' \in {Current, req[r].after}
  BY WriteEffect DEF LastInv
<1>2. RebuildInv /\ RebuildInv'
  BY RebuildWriteInv DEF LastInv
<1>3. \A q \in Requests : Served(q)' => Served(q) /\ req'[q] = req[q]
  BY <1>1, <1>2 DEF RebuildInv, TypeOK, Served
<1>4. Held' = Held /\ (InTimeOrder' <=> InTimeOrder)
  BY <1>1 DEF Held, InTimeOrder
<1>5. NoneInTheWay'
  BY <1>1, <1>3 DEF LastInv, NoneInTheWay
<1>6. ASSUME ~overlapped', InTimeOrder' PROVE AllEqual'
  <2>1. AllEqual /\ con.pc # "tx"
    BY <1>1, <1>4, <1>6 DEF LastInv, NoneInTheWay
  <2>2. Current' = Current
    BY <1>1, <2>1 DEF AllEqual
  <2> QED BY <1>1, <1>3, <1>4, <2>1, <2>2 DEF AllEqual
<1> QED BY <1>2, <1>5, <1>6 DEF LastInv

(* A rebuild "takes the balance of the last record"                          *)
(* (balance_controller.go:294) and that is the sum of all changes, for any   *)
(* number of rebuilds and messages, as long as none is served beside another *)
(* and the changes have different seconds, in the order of their commits: it *)
(* is then the balance of the row that First finds, be it one that a rebuild *)
(* has added because its lookup failed.                                      *)
THEOREM RebuiltBalanceIsLast == Spec => []BalanceIsLast
<1>1. LastInv /\ [Next]_vars => LastInv'
  <2> SUFFICES ASSUME LastInv, [Next]_vars PROVE LastInv'
    OBVIOUS
  <2>1. CASE ConsumerRead \/ ConsumerCommit \/ ConsumerRollback
    BY <2>1, ReadLast, CommitLast, RollbackLast
  <2>2. ASSUME NEW r \in Requests, RebuildRead(r) \/ RebuildFind(r) \/ RebuildWrite(r)
        PROVE  LastInv'
    BY <2>2, RebuildReadLast, RebuildFindLast, RebuildWriteLast
  <2>3. CASE UNCHANGED vars
    <3>1. RebuildInv'
      BY <2>3 DEF vars, LastInv, RebuildInv, TypeOK, TxOK, BalanceWasHeld,
                    ReadWasHeld, Served
    <3> QED BY <2>3, <3>1
            DEF vars, LastInv, NoneInTheWay, AllEqual, Held, InTimeOrder, Current,
                FirstRow, Served
  <2> QED BY <2>1, <2>2, <2>3 DEF Next, Consumer, Rebuild, RebuildWrite
<1>2. LastInv => BalanceIsLast
  BY DEF LastInv, AllEqual, BalanceIsLast
<1> QED BY <1>1, <1>2, InitLast, PTL DEF Spec
=============================================================================
