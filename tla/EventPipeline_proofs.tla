------------------------ MODULE EventPipeline_proofs ------------------------
(* Proofs about EventPipeline, for every set of transfers, every kind of     *)
(* fault and every number of them: PipelineInv is inductive, and with it the *)
(* type invariant, RowPostedIffProcessed and NoMessageLost; then the history *)
(* explains the balances; then the pipeline implements the ledger.           *)
EXTENDS EventPipeline, TLAPS

(* The pair of tables a transaction works on.                                *)
Tables == [balance : [Users -> Int], changes : Seq(BalanceChange)]

(* updateUserBalanceTx appends one change and keeps the tables well typed.   *)
LEMMA UpdateAppends ==
    ASSUME NEW s \in Tables, NEW id \in Nat \ {0}, NEW u \in Users,
           NEW a \in Int, NEW k \in Kinds,
           NEW t, t = UpdateUserBalance(s, id, u, a, k)
    PROVE  /\ t \in Tables
           /\ Len(t.changes) = Len(s.changes) + 1
           /\ \A i \in 1..Len(s.changes) : t.changes[i] = s.changes[i]
           /\ t.changes[Len(s.changes) + 1].event = id
           /\ t.changes[Len(s.changes) + 1].kind = k
<1> DEFINE after == s.balance[u] + a
           row == [event |-> id, user |-> u, amount |-> a,
                   before |-> s.balance[u], after |-> after, kind |-> k]
<1>1. s.balance \in [Users -> Int] /\ s.changes \in Seq(BalanceChange)
  BY DEF Tables
<1>2. s.balance[u] \in Int /\ after \in Int
  BY <1>1
<1>3. row \in BalanceChange
  BY <1>2 DEF BalanceChange
<1>4. t = [balance |-> [s.balance EXCEPT ![u] = after],
           changes |-> Append(s.changes, row)]
  BY DEF UpdateUserBalance
<1>5. t \in Tables
  BY <1>1, <1>2, <1>3, <1>4 DEF Tables
<1>6. t.changes = Append(s.changes, row)
  BY <1>4
<1>7. /\ Len(t.changes) = Len(s.changes) + 1
      /\ \A i \in 1..Len(s.changes) : t.changes[i] = s.changes[i]
      /\ t.changes[Len(s.changes) + 1] = row
  <2> HIDE DEF row
  <2> QED BY <1>1, <1>3, <1>6
<1> QED
  BY <1>5, <1>7

(* processBalanceChangesTx appends at least one change; what it appends      *)
(* carries the ID of the event row, with pairwise different kinds.           *)
LEMMA PostingAppends ==
    ASSUME TypeOK, NEW id \in Nat \ {0}, NEW e \in Transfers
    PROVE  LET p == ProcessBalanceChanges(id, e)
               n == Len(changes)
           IN  /\ p \in Tables
               /\ Len(p.changes) > n
               /\ \A i \in 1..n : p.changes[i] = changes[i]
               /\ \A i \in (n + 1)..Len(p.changes) : p.changes[i].event = id
               /\ \A i, j \in (n + 1)..Len(p.changes) :
                    p.changes[i].kind = p.changes[j].kind => i = j
<1> DEFINE s0 == [balance |-> balance, changes |-> changes]
           s1 == ProcessFrom(s0, id, e)
           p == ProcessBalanceChanges(id, e)
           n == Len(changes)
<1>1. s0 \in Tables /\ s0.changes = changes /\ n \in Nat
  BY DEF TypeOK, Tables
<1>2. /\ e.from \in Users \union {Zero} /\ e.to \in Users \union {Zero}
      /\ e.from # Zero \/ e.to # Zero
      /\ e.value \in Int /\ -e.value \in Int
  BY TransfersAssumption
<1>3. \A k \in {"mint", "burn", "transfer_in", "transfer_out"} : k \in Kinds
  BY DEF Kinds
<1>4. p = ProcessTo(s1, id, e)
  BY DEF ProcessBalanceChanges
<1>a. CASE e.from # Zero
  <2>1. s1 = UpdateUserBalance(s0, id, e.from, -e.value, "transfer_out")
    BY <1>a DEF ProcessFrom
  <2>2. /\ s1 \in Tables
        /\ Len(s1.changes) = n + 1
        /\ \A i \in 1..n : s1.changes[i] = changes[i]
        /\ s1.changes[n + 1].event = id
        /\ s1.changes[n + 1].kind = "transfer_out"
    <3> HIDE DEF s0, s1
    <3>1. e.from \in Users /\ "transfer_out" \in Kinds
      BY <1>2, <1>3, <1>a
    <3>2. /\ s1 \in Tables
          /\ Len(s1.changes) = Len(s0.changes) + 1
          /\ \A i \in 1..Len(s0.changes) : s1.changes[i] = s0.changes[i]
          /\ s1.changes[Len(s0.changes) + 1].event = id
          /\ s1.changes[Len(s0.changes) + 1].kind = "transfer_out"
      BY <1>1, <1>2, <2>1, <3>1, UpdateAppends
    <3> QED BY <1>1, <3>2
  <2>3. PICK u \in Users, a \in Int, k \in {"transfer_in", "burn"} :
            p = UpdateUserBalance(s1, id, u, a, k)
    <3> HIDE DEF s1
    <3>1. CASE e.to # Zero
      BY <1>2, <1>4, <1>a, <3>1 DEF ProcessTo
    <3>2. CASE e.to = Zero
      BY <1>2, <1>4, <1>a, <3>2 DEF ProcessTo
    <3> QED BY <3>1, <3>2
  <2>4. /\ p \in Tables
        /\ Len(p.changes) = n + 2
        /\ \A i \in 1..(n + 1) : p.changes[i] = s1.changes[i]
        /\ p.changes[n + 2].event = id
        /\ p.changes[n + 2].kind = k
    <3> HIDE DEF s1, p
    <3>1. n + 1 + 1 = n + 2 /\ k \in Kinds
      BY <1>1, <1>3
    <3>2. /\ p \in Tables
          /\ Len(p.changes) = Len(s1.changes) + 1
          /\ \A i \in 1..Len(s1.changes) : p.changes[i] = s1.changes[i]
          /\ p.changes[Len(s1.changes) + 1].event = id
          /\ p.changes[Len(s1.changes) + 1].kind = k
      BY <2>2, <2>3, <3>1, UpdateAppends
    <3> QED BY <2>2, <3>1, <3>2
  <2> HIDE DEF s0, s1, p, n
  <2>5. /\ \A i \in 1..n : p.changes[i] = changes[i]
        /\ p.changes[n + 1].event = id
        /\ p.changes[n + 1].kind = "transfer_out"
    BY <1>1, <2>2, <2>4
  <2>6. \A i \in (n + 1)..(n + 2) : i = n + 1 \/ i = n + 2
    BY <1>1
  <2>7. k # "transfer_out"
    BY <2>3
  <2>8. \A i, j \in (n + 1)..(n + 2) :
            p.changes[i].kind = p.changes[j].kind => i = j
    BY <2>4, <2>5, <2>6, <2>7
  <2>9. \A i \in (n + 1)..(n + 2) : p.changes[i].event = id
    BY <2>4, <2>5, <2>6
  <2>10. Len(p.changes) > n
    BY <1>1, <2>4
  <2> QED BY <2>4, <2>5, <2>8, <2>9, <2>10 DEF p, n
<1>b. CASE e.from = Zero
  <2>1. s1 = UpdateUserBalance(s0, id, e.to, e.value, "mint")
    BY <1>b DEF ProcessFrom
  <2>2. e.to # Zero /\ e.to \in Users
    BY <1>2, <1>b
  <2>3. p = s1
    <3> HIDE DEF s1
    <3> QED BY <1>4, <1>b, <2>2 DEF ProcessTo
  <2>4. /\ p \in Tables
        /\ Len(p.changes) = n + 1
        /\ \A i \in 1..n : p.changes[i] = changes[i]
        /\ p.changes[n + 1].event = id
    <3> HIDE DEF s0, s1, p
    <3>1. "mint" \in Kinds
      BY <1>3
    <3>2. /\ s1 \in Tables
          /\ Len(s1.changes) = Len(s0.changes) + 1
          /\ \A i \in 1..Len(s0.changes) : s1.changes[i] = s0.changes[i]
          /\ s1.changes[Len(s0.changes) + 1].event = id
      BY <1>1, <1>2, <2>1, <2>2, <3>1, UpdateAppends
    <3> QED BY <1>1, <2>3, <3>2
  <2> HIDE DEF s0, s1, p, n
  <2>5. \A i \in (n + 1)..(n + 1) : i = n + 1
    BY <1>1
  <2>6. Len(p.changes) > n
    BY <1>1, <2>4
  <2> QED BY <2>4, <2>5, <2>6 DEF p, n
<1> QED BY <1>a, <1>b

-----------------------------------------------------------------------------
(* The queue operations of the broker, in terms of what the queues hold.     *)

LEMMA InAppend ==
    ASSUME NEW T, NEW s \in Seq(T), NEW x \in T, NEW e
    PROVE  /\ Append(s, x) \in Seq(T)
           /\ IsIn(e, Append(s, x)) <=> IsIn(e, s) \/ e = x
           /\ Append(s, x) # <<>>
           /\ s # <<>> => Head(Append(s, x)) = Head(s)
<1>1. /\ Append(s, x) \in Seq(T)
      /\ Append(s, x) # <<>>
      /\ s # <<>> => Head(Append(s, x)) = Head(s)
  <2>1. Append(s, x) \in Seq(T) /\ Len(Append(s, x)) = Len(s) + 1 /\ Len(s) \in Nat
    OBVIOUS
  <2>2. Append(s, x) # <<>>
    BY <2>1
  <2>3. ASSUME s # <<>> PROVE Head(Append(s, x)) = Head(s)
    <3>1. Len(s) > 0 /\ Head(s) = s[1] /\ Append(s, x)[1] = s[1]
      BY <2>1, <2>3
    <3> QED BY <2>1, <2>2, <3>1
  <2> QED BY <2>1, <2>2, <2>3
<1>2. IsIn(e, s) => IsIn(e, Append(s, x))
  BY DEF IsIn
<1>3. e = x => IsIn(e, Append(s, x))
  <2>1. Len(s) + 1 \in DOMAIN Append(s, x) /\ Append(s, x)[Len(s) + 1] = x
    OBVIOUS
  <2> QED BY <2>1 DEF IsIn
<1>4. IsIn(e, Append(s, x)) => IsIn(e, s) \/ e = x
  BY DEF IsIn
<1> QED BY <1>1, <1>2, <1>3, <1>4

LEMMA InTail ==
    ASSUME NEW T, NEW s \in Seq(T), s # <<>>, NEW e
    PROVE  /\ Head(s) \in T
           /\ Tail(s) \in Seq(T)
           /\ IsIn(e, s) <=> e = Head(s) \/ IsIn(e, Tail(s))
<1>1. Head(s) \in T /\ Tail(s) \in Seq(T) /\ Len(s) \in Nat \ {0}
  OBVIOUS
<1>2. Head(s) = s[1] /\ 1 \in DOMAIN s
  BY <1>1
<1>3. /\ DOMAIN Tail(s) = 1..(Len(s) - 1)
      /\ \A i \in 1..(Len(s) - 1) : Tail(s)[i] = s[i + 1]
      /\ DOMAIN s = 1..Len(s)
  BY <1>1
<1>4. ASSUME NEW i \in DOMAIN s PROVE i = 1 \/ (s[i] = Tail(s)[i - 1] /\ i - 1 \in DOMAIN Tail(s))
  BY <1>1, <1>3
<1>5. ASSUME NEW i \in DOMAIN Tail(s) PROVE Tail(s)[i] = s[i + 1] /\ i + 1 \in DOMAIN s
  BY <1>1, <1>3
<1> QED BY <1>1, <1>2, <1>4, <1>5, Zenon DEF IsIn

LEMMA InConcat ==
    ASSUME NEW T, NEW s \in Seq(T), NEW t \in Seq(T), NEW e
    PROVE  /\ s \o t \in Seq(T)
           /\ IsIn(e, s \o t) <=> IsIn(e, s) \/ IsIn(e, t)
<1>1. s \o t \in Seq(T)
  OBVIOUS
<1>2. /\ DOMAIN (s \o t) = 1..(Len(s) + Len(t))
      /\ DOMAIN s = 1..Len(s) /\ DOMAIN t = 1..Len(t)
      /\ Len(s) \in Nat /\ Len(t) \in Nat
      /\ \A i \in 1..(Len(s) + Len(t)) :
            (s \o t)[i] = IF i <= Len(s) THEN s[i] ELSE t[i - Len(s)]
  OBVIOUS
<1>3. ASSUME NEW i \in DOMAIN s PROVE i \in DOMAIN (s \o t) /\ (s \o t)[i] = s[i]
  BY <1>2
<1>4. ASSUME NEW i \in DOMAIN t
      PROVE  Len(s) + i \in DOMAIN (s \o t) /\ (s \o t)[Len(s) + i] = t[i]
  BY <1>2
<1>5. ASSUME NEW i \in DOMAIN (s \o t)
      PROVE  \/ i \in DOMAIN s /\ (s \o t)[i] = s[i]
             \/ i - Len(s) \in DOMAIN t /\ (s \o t)[i] = t[i - Len(s)]
  BY <1>2
<1> QED BY <1>1, <1>3, <1>4, <1>5, Zenon DEF IsIn

LEMMA InCons ==
    ASSUME NEW T, NEW s \in Seq(T), NEW x \in T, NEW e
    PROVE  /\ <<x>> \o s \in Seq(T)
           /\ IsIn(e, <<x>> \o s) <=> e = x \/ IsIn(e, s)
<1>1. <<x>> \in Seq(T) /\ <<x>> # <<>> /\ Head(<<x>>) = x /\ Tail(<<x>>) = <<>>
  OBVIOUS
<1>2. ~IsIn(e, <<>>)
  BY DEF IsIn
<1>3. IsIn(e, <<x>>) <=> e = x
  BY <1>1, <1>2, InTail
<1> QED BY <1>1, <1>3, InConcat
-----------------------------------------------------------------------------
(* PipelineInv is inductive: the initial states, and one lemma per group of  *)
(* actions that leave the same tables alone.                                 *)

USE DEF PipelineInv

LEMMA InitInv == Init => PipelineInv
<1> SUFFICES ASSUME Init PROVE PipelineInv
  OBVIOUS
<1>1. TypeOK
  <2>1. conn \in BOOLEAN
    BY DEF Init, Connects
  <2> QED
    BY <2>1, FaultsAssumption DEF Init, TypeOK, IdleListener, IdleConsumer
<1>2. FreshIds
  BY DEF Init, FreshIds, IdleListener
<1>3. ConsumerHoldsItsRow
  BY DEF Init, ConsumerHoldsItsRow, IdleConsumer
<1>4. RowPostedIffProcessed
  BY DEF Init, RowPostedIffProcessed
<1>5. NoMessageLost
  BY DEF Init, NoMessageLost
<1> QED BY <1>1, <1>2, <1>3, <1>4, <1>5

(* A fault only counts.                                                      *)
LEMMA FaultType ==
    ASSUME TypeOK, NEW k, Fault(k) \/ NoFault
    PROVE  faults' \in Nat
BY DEF TypeOK, Fault, NoFault

(* The IDs in the tables are numbers.                                        *)
LEMMA IdTypes ==
    ASSUME TypeOK
    PROVE  /\ \A r \in events : r.id \in Nat \ {0}
           /\ \A i \in DOMAIN changes : changes[i].event \in Nat \ {0}
<1>1. \A r \in events : r.id \in Nat \ {0}
  BY DEF TypeOK, EventRow
<1>2. ASSUME NEW i \in DOMAIN changes PROVE changes[i].event \in Nat \ {0}
  <2>1. changes[i] \in BalanceChange
    <3>1. changes \in Seq(BalanceChange)
      BY DEF TypeOK
    <3> QED BY <3>1
  <2> QED BY <2>1 DEF BalanceChange
<1> QED BY <1>1, <1>2

(* The checks, the publish and the stamp of the listener change no table.    *)
LEMMA ListenerCheckInv ==
    ASSUME PipelineInv, NEW e \in Transfers, ListenerCheck(e)
    PROVE  PipelineInv'
<1> USE DEF ListenerCheck, dbVars, mqVars
<1>1. TypeOK'
  <2>1. faults' \in Nat
    BY FaultType
  <2>2. lst' = [pc |-> "publish", transfer |-> e, id |-> 0] /\ e # None
    BY TransfersAssumption
  <2>3. UNCHANGED <<events, changes, balance, clock, ready, unacked, conn, con, published>>
    OBVIOUS
  <2> HIDE DEF ListenerCheck
  <2> QED BY <2>1, <2>2, <2>3 DEF TypeOK
<1>2. FreshIds'
  BY DEF FreshIds
<1>3. ConsumerHoldsItsRow'
  BY DEF ConsumerHoldsItsRow, RowsOf, Applied
<1>4. RowPostedIffProcessed'
  BY DEF RowPostedIffProcessed
<1>5. NoMessageLost'
  BY DEF NoMessageLost, Applied, RowsOf, IsIn
<1> QED BY <1>1, <1>2, <1>3, <1>4, <1>5

LEMMA ListenerPublishInv ==
    ASSUME PipelineInv, ListenerPublish
    PROVE  PipelineInv'
<1>1. lst.transfer \in Transfers /\ lst.pc = "publish"
  BY DEF TypeOK, ListenerPublish
<1>2. \/ ready' = ready /\ published' = published
      \/ ready' = Append(ready, lst.transfer)
            /\ published' = published \union {lst.transfer}
  BY DEF ListenerPublish
<1>3. /\ UNCHANGED <<events, changes, balance, clock, unacked, conn, con>>
      /\ lst' = [lst EXCEPT !.pc = "stamp"]
  BY DEF ListenerPublish, dbVars
<1>4. ready \in Seq(Transfers) /\ published \subseteq Transfers
  BY DEF TypeOK
<1>5. /\ ready' \in Seq(Transfers)
      /\ \A e : IsIn(e, ready) => IsIn(e, ready')
      /\ \A e \in published' : e \in published \/ IsIn(e, ready')
  <2>1. CASE ready' = ready /\ published' = published
    BY <1>4, <2>1
  <2>2. CASE /\ ready' = Append(ready, lst.transfer)
             /\ published' = published \union {lst.transfer}
    <3>1. ready' \in Seq(Transfers)
          /\ \A e : IsIn(e, ready') <=> IsIn(e, ready) \/ e = lst.transfer
      BY <1>1, <1>4, <2>2, InAppend
    <3> QED BY <2>2, <3>1
  <2> QED BY <1>2, <2>1, <2>2
<1>6. TypeOK'
  <2>1. faults' \in Nat
    BY FaultType DEF NoFault, ListenerPublish
  <2>2. published' \subseteq Transfers
    BY <1>1, <1>2, <1>4
  <2>3. lst' \in [pc : {"idle", "publish", "stamp", "create"},
                 transfer : Transfers \union {None}, id : Nat]
        /\ lst'.transfer = lst.transfer
    BY <1>3 DEF TypeOK
  <2>4. lst'.transfer # None
    BY <1>1, <2>3, TransfersAssumption
  <2> QED BY <1>3, <1>5, <2>1, <2>2, <2>3, <2>4 DEF TypeOK
<1>7. FreshIds'
  BY <1>3 DEF FreshIds, TypeOK
<1>8. ConsumerHoldsItsRow'
  BY <1>3 DEF ConsumerHoldsItsRow, RowsOf, Applied
<1>9. RowPostedIffProcessed'
  BY <1>3 DEF RowPostedIffProcessed
<1>10. NoMessageLost'
  BY <1>3, <1>5 DEF NoMessageLost, Applied, RowsOf
<1> QED BY <1>6, <1>7, <1>8, <1>9, <1>10

LEMMA ListenerStampInv ==
    ASSUME PipelineInv, ListenerStamp
    PROVE  PipelineInv'
<1>1. /\ lst.pc = "stamp"
      /\ clock' = clock + 1
      /\ lst' = [lst EXCEPT !.pc = "create", !.id = clock + 1]
      /\ UNCHANGED <<events, changes, balance, ready, unacked, conn, con,
                     faults, published>>
  BY DEF ListenerStamp, dbVars, mqVars
<1>2. clock \in Nat /\ lst'.id = clock + 1 /\ lst'.transfer = lst.transfer
  BY <1>1 DEF TypeOK
<1>3. TypeOK'
  <2>1. lst' \in [pc : {"idle", "publish", "stamp", "create"},
                 transfer : Transfers \union {None}, id : Nat]
    <3>1. lst \in [pc : {"idle", "publish", "stamp", "create"},
                  transfer : Transfers \union {None}, id : Nat]
      BY DEF TypeOK
    <3>2. lst.transfer \in Transfers \union {None} /\ clock + 1 \in Nat
      BY <1>2, <3>1
    <3>3. lst' = [pc |-> "create", transfer |-> lst.transfer, id |-> clock + 1]
      BY <1>1, <3>1
    <3> QED BY <3>2, <3>3
  <2>2. lst'.transfer # None
    BY <1>1, <1>2 DEF TypeOK
  <2> QED BY <1>1, <1>2, <2>1, <2>2 DEF TypeOK
<1>4. FreshIds'
  BY <1>1, <1>2, IdTypes DEF FreshIds
<1>5. ConsumerHoldsItsRow'
  BY <1>1 DEF ConsumerHoldsItsRow, RowsOf, Applied
<1>6. RowPostedIffProcessed'
  BY <1>1 DEF RowPostedIffProcessed
<1>7. NoMessageLost'
  BY <1>1 DEF NoMessageLost, Applied, RowsOf, IsIn
<1> QED BY <1>3, <1>4, <1>5, <1>6, <1>7

(* The listener's row is new, unprocessed, and nothing is posted for it.     *)
LEMMA ListenerCreateInv ==
    ASSUME PipelineInv, ListenerCreate
    PROVE  PipelineInv'
<1> USE DEF ListenerCreate, mqVars
<1> DEFINE row == [id |-> lst.id, transfer |-> lst.transfer, processed |-> FALSE]
<1>1. lst.pc = "create" /\ lst' = IdleListener
  OBVIOUS
<1>2. /\ row \in EventRow
      /\ \A r \in events : r.id # lst.id
      /\ \A i \in DOMAIN changes : changes[i].event # lst.id
      /\ lst.id <= clock
  BY <1>1 DEF TypeOK, FreshIds, EventRow
<1>3. events' = events \/ events' = events \union {row}
  OBVIOUS
<1>4. row.id = lst.id /\ row.processed = FALSE /\ row.transfer = lst.transfer
  OBVIOUS
<1> HIDE DEF row
<1>5. TypeOK'
  <2>1. faults' \in Nat
    BY FaultType DEF NoFault
  <2>2. events' \subseteq EventRow
    BY <1>2, <1>3 DEF TypeOK
  <2> QED BY <2>1, <2>2 DEF TypeOK, IdleListener
<1>6. FreshIds'
  BY <1>1, <1>2, <1>3, <1>4 DEF FreshIds, IdleListener
<1>7. ConsumerHoldsItsRow'
  BY <1>3 DEF ConsumerHoldsItsRow, RowsOf, Applied
<1>8. RowPostedIffProcessed'
  BY <1>2, <1>3, <1>4 DEF RowPostedIffProcessed
<1>9. NoMessageLost'
  BY <1>3 DEF NoMessageLost, Applied, RowsOf, IsIn
<1> QED BY <1>5, <1>6, <1>7, <1>8, <1>9
(* What an action that leaves the tables, the clock and the listener alone   *)
(* has to show: types, the consumer's hold on its row, and the messages.     *)
LEMMA TablesUnchanged ==
    ASSUME PipelineInv, UNCHANGED <<events, changes, clock, lst>>
    PROVE  FreshIds' /\ RowPostedIffProcessed' /\ (\A e : Applied(e)' <=> Applied(e))
<1>1. FreshIds'
  BY DEF FreshIds
<1>2. RowPostedIffProcessed'
  BY DEF RowPostedIffProcessed
<1>3. \A e : Applied(e)' <=> Applied(e)
  BY DEF Applied, RowsOf
<1> QED BY <1>1, <1>2, <1>3

LEMMA ListenerUnchanged ==
    ASSUME TypeOK, lst' = lst
    PROVE  /\ lst' \in [pc : {"idle", "publish", "stamp", "create"},
                       transfer : Transfers \union {None}, id : Nat]
           /\ lst'.pc # "idle" => lst'.transfer # None
BY DEF TypeOK

LEMMA DeliverInv ==
    ASSUME PipelineInv, Deliver
    PROVE  PipelineInv'
<1>1. /\ conn /\ ready # <<>>
      /\ unacked' = Append(unacked, Head(ready))
      /\ ready' = Tail(ready)
      /\ UNCHANGED <<events, changes, balance, clock, conn, lst, con, faults,
                     published>>
  BY DEF Deliver, dbVars
<1>2. ready \in Seq(Transfers) /\ unacked \in Seq(Transfers)
  BY DEF TypeOK
<1>3. /\ Head(ready) \in Transfers /\ ready' \in Seq(Transfers)
      /\ \A e : IsIn(e, ready) <=> e = Head(ready) \/ IsIn(e, ready')
  BY <1>1, <1>2, InTail
<1>4. /\ unacked' \in Seq(Transfers)
      /\ \A e : IsIn(e, unacked') <=> IsIn(e, unacked) \/ e = Head(ready)
      /\ unacked # <<>> => unacked' # <<>> /\ Head(unacked') = Head(unacked)
  BY <1>1, <1>2, <1>3, InAppend
<1>5. FreshIds' /\ RowPostedIffProcessed' /\ (\A e : Applied(e)' <=> Applied(e))
  BY <1>1, TablesUnchanged
<1>6. TypeOK'
  BY <1>1, <1>3, <1>4 DEF TypeOK
<1>7. ConsumerHoldsItsRow'
  BY <1>1, <1>4, <1>5 DEF ConsumerHoldsItsRow, RowsOf
<1>8. NoMessageLost'
  BY <1>1, <1>3, <1>4, <1>5 DEF NoMessageLost
<1> QED BY <1>5, <1>6, <1>7, <1>8

(* A lost connection and a restart put the unacknowledged messages back.     *)
LEMMA ConnectionLostInv ==
    ASSUME PipelineInv, ConnectionLost
    PROVE  PipelineInv'
<1>1. /\ conn' = FALSE
      /\ ready' = unacked \o ready
      /\ unacked' = <<>>
      /\ UNCHANGED <<events, changes, balance, clock, lst, con, published>>
  BY DEF ConnectionLost, dbVars
<1>2. faults' \in Nat
  BY FaultType DEF ConnectionLost
<1>3. ready \in Seq(Transfers) /\ unacked \in Seq(Transfers)
  BY DEF TypeOK
<1>4. /\ ready' \in Seq(Transfers)
      /\ \A e : IsIn(e, ready') <=> IsIn(e, unacked) \/ IsIn(e, ready)
  BY <1>1, <1>3, InConcat
<1>5. FreshIds' /\ RowPostedIffProcessed' /\ (\A e : Applied(e)' <=> Applied(e))
  BY <1>1, TablesUnchanged
<1>6. TypeOK'
  <2>1. unacked' \in Seq(Transfers)
    <3>1. <<>> \in Seq(Transfers)
      OBVIOUS
    <3> QED BY <1>1, <3>1
  <2> QED BY <1>1, <1>2, <1>4, <2>1 DEF TypeOK
<1>7. ConsumerHoldsItsRow'
  BY <1>1, <1>5 DEF ConsumerHoldsItsRow, RowsOf
<1>8. NoMessageLost'
  BY <1>1, <1>4, <1>5 DEF NoMessageLost
<1> QED BY <1>5, <1>6, <1>7, <1>8

LEMMA RestartInv ==
    ASSUME PipelineInv, Restart
    PROVE  PipelineInv'
<1>1. /\ lst' = IdleListener /\ con' = IdleConsumer
      /\ conn' \in BOOLEAN
      /\ ready' = unacked \o ready
      /\ unacked' = <<>>
      /\ UNCHANGED <<events, changes, balance, clock, published>>
  BY DEF Restart, Connects, dbVars
<1>2. faults' \in Nat
  BY FaultType DEF Restart
<1>3. ready \in Seq(Transfers) /\ unacked \in Seq(Transfers)
  BY DEF TypeOK
<1>4. /\ ready' \in Seq(Transfers)
      /\ \A e : IsIn(e, ready') <=> IsIn(e, unacked) \/ IsIn(e, ready)
  BY <1>1, <1>3, InConcat
<1>5. \A e : Applied(e)' <=> Applied(e)
  BY <1>1 DEF Applied, RowsOf
<1>6. TypeOK'
  <2>1. /\ IdleListener \in [pc : {"idle", "publish", "stamp", "create"},
                             transfer : Transfers \union {None}, id : Nat]
        /\ IdleListener.pc = "idle"
    BY DEF IdleListener
  <2>2. /\ IdleConsumer \in [pc : {"idle", "tx", "ack"},
                             msg : Transfers \union {None}, row : Nat]
        /\ IdleConsumer.pc = "idle"
    BY DEF IdleConsumer
  <2> QED BY <1>1, <1>2, <1>4, <2>1, <2>2 DEF TypeOK
<1>7. FreshIds' /\ RowPostedIffProcessed'
  BY <1>1 DEF FreshIds, RowPostedIffProcessed, IdleListener
<1>8. ConsumerHoldsItsRow'
  BY <1>1 DEF ConsumerHoldsItsRow, IdleConsumer
<1>9. NoMessageLost'
  BY <1>1, <1>4, <1>5 DEF NoMessageLost
<1> QED BY <1>6, <1>7, <1>8, <1>9

(* A requeued message is still in the queue.                                 *)
LEMMA NackInv ==
    ASSUME PipelineInv, faults' \in Nat, NEW e \in Transfers, Nack(e),
           conn => unacked # <<>> /\ Head(unacked) = e
    PROVE  PipelineInv'
<1>1. /\ con' = IdleConsumer
      /\ UNCHANGED <<events, changes, balance, clock, conn, lst, published>>
      /\ \/ conn /\ unacked' = Tail(unacked) /\ ready' = <<e>> \o ready
         \/ unacked' = unacked /\ ready' = ready
  BY DEF Nack, dbVars
<1>2. ready \in Seq(Transfers) /\ unacked \in Seq(Transfers)
  BY DEF TypeOK
<1>3. /\ ready' \in Seq(Transfers) /\ unacked' \in Seq(Transfers)
      /\ \A f : IsIn(f, unacked) \/ IsIn(f, ready)
                => IsIn(f, unacked') \/ IsIn(f, ready')
  <2>1. CASE conn /\ unacked' = Tail(unacked) /\ ready' = <<e>> \o ready
    <3>1. /\ unacked' \in Seq(Transfers)
          /\ \A f : IsIn(f, unacked) <=> f = e \/ IsIn(f, unacked')
      BY <1>2, <2>1, InTail
    <3>2. /\ ready' \in Seq(Transfers)
          /\ \A f : IsIn(f, ready') <=> f = e \/ IsIn(f, ready)
      BY <1>2, <2>1, InCons
    <3> QED BY <3>1, <3>2
  <2>2. CASE unacked' = unacked /\ ready' = ready
    BY <1>2, <2>2
  <2> QED BY <1>1, <2>1, <2>2
<1>4. FreshIds' /\ RowPostedIffProcessed' /\ (\A f : Applied(f)' <=> Applied(f))
  BY <1>1, TablesUnchanged
<1>5. TypeOK'
  BY <1>1, <1>3 DEF TypeOK, IdleConsumer
<1>6. ConsumerHoldsItsRow'
  BY <1>1 DEF ConsumerHoldsItsRow, IdleConsumer
<1>7. NoMessageLost'
  BY <1>1, <1>3, <1>4 DEF NoMessageLost
<1> QED BY <1>4, <1>5, <1>6, <1>7
(* The consumer keeps its place at the head of the unacknowledged messages.  *)
LEMMA ConsumerCheckInv ==
    ASSUME PipelineInv, ConsumerCheck
    PROVE  PipelineInv'
<1> PICK e : e = Head(unacked)
  OBVIOUS
<1>1. con.pc = "idle" /\ conn /\ unacked # <<>>
  BY DEF ConsumerCheck
<1>2. e \in Transfers /\ e # None
  BY <1>1, InTail, TransfersAssumption DEF TypeOK
<1>3. faults' \in Nat
  BY FaultType DEF ConsumerCheck
<1>a. CASE /\ \/ con' = [pc |-> "tx", msg |-> e, row |-> 0]
              \/ \E r \in RowsOf(e) :
                    con' = [pc |-> IF r.processed THEN "ack" ELSE "tx",
                            msg |-> e, row |-> r.id]
           /\ UNCHANGED <<dbVars, clock, mqVars, lst, published>>
  <2>1. UNCHANGED <<events, changes, balance, clock, ready, unacked, conn, lst,
                    published>>
    BY <1>a DEF dbVars, mqVars
  <2> DEFINE Held(c) ==
        /\ c \in [pc : {"tx", "ack"}, msg : {e}, row : Nat]
        /\ c.pc = "tx" /\ c.row # 0 =>
              \E r \in RowsOf(e) : r.id = c.row /\ ~r.processed
        /\ c.pc = "ack" => Applied(e)
  <2>2. Held([pc |-> "tx", msg |-> e, row |-> 0])
    OBVIOUS
  <2>3. ASSUME NEW r \in RowsOf(e)
        PROVE  Held([pc |-> IF r.processed THEN "ack" ELSE "tx",
                     msg |-> e, row |-> r.id])
    <3>1. r \in events /\ r.id \in Nat /\ r.processed \in BOOLEAN
      BY DEF RowsOf, TypeOK, EventRow
    <3>2. CASE r.processed
      BY <3>1, <3>2 DEF Applied
    <3>3. CASE ~r.processed
      BY <3>1, <3>3
    <3> QED BY <3>2, <3>3
  <2>4. Held(con')
    BY <1>a, <2>2, <2>3
  <2>5. TypeOK'
    <3>1. con' \in [pc : {"idle", "tx", "ack"},
                   msg : Transfers \union {None}, row : Nat]
          /\ con'.msg # None
      BY <1>2, <2>4
    <3> QED BY <1>3, <2>1, <3>1 DEF TypeOK
  <2>6. FreshIds' /\ RowPostedIffProcessed' /\ (\A f : Applied(f)' <=> Applied(f))
    BY <2>1, TablesUnchanged
  <2>7. ConsumerHoldsItsRow'
    <3>1. con'.msg = e /\ con'.pc \in {"tx", "ack"}
      BY <2>4
    <3>2. unacked' = unacked /\ events' = events
      BY <2>1
    <3> QED BY <1>1, <2>4, <2>6, <3>1, <3>2 DEF ConsumerHoldsItsRow, RowsOf
  <2>8. NoMessageLost'
    BY <2>1, <2>6 DEF NoMessageLost, IsIn
  <2> QED BY <2>5, <2>6, <2>7, <2>8
<1>b. CASE Nack(e)
  BY <1>1, <1>2, <1>3, <1>b, NackInv
<1> QED BY <1>a, <1>b DEF ConsumerCheck
LEMMA ConsumerFailInv ==
    ASSUME PipelineInv, ConsumerFail
    PROVE  PipelineInv'
<1>1. con.pc = "tx" /\ Fault("tx") /\ Nack(con.msg)
  BY DEF ConsumerFail
<1>2. con.msg \in Transfers /\ faults' \in Nat
  BY <1>1, FaultType DEF TypeOK
<1>3. conn => unacked # <<>> /\ Head(unacked) = con.msg
  BY <1>1 DEF ConsumerHoldsItsRow
<1> QED BY <1>1, <1>2, <1>3, NackInv

(* The message that is acknowledged is applied.                              *)
LEMMA ConsumerAckInv ==
    ASSUME PipelineInv, ConsumerAck
    PROVE  PipelineInv'
<1>1. /\ con.pc = "ack" /\ con' = IdleConsumer
      /\ \/ conn /\ unacked' = Tail(unacked)
         \/ unacked' = unacked
      /\ UNCHANGED <<events, changes, balance, clock, ready, conn, lst, faults,
                     published>>
  BY DEF ConsumerAck, dbVars
<1>2. Applied(con.msg)
  BY <1>1 DEF ConsumerHoldsItsRow
<1>3. /\ unacked' \in Seq(Transfers)
      /\ \A e : IsIn(e, unacked) => e = con.msg \/ IsIn(e, unacked')
  <2>1. unacked \in Seq(Transfers)
    BY DEF TypeOK
  <2>2. CASE conn /\ unacked' = Tail(unacked)
    <3>1. unacked # <<>> /\ Head(unacked) = con.msg
      BY <1>1, <2>2 DEF ConsumerHoldsItsRow
    <3> QED BY <2>1, <2>2, <3>1, InTail
  <2>3. CASE unacked' = unacked
    BY <2>1, <2>3
  <2> QED BY <1>1, <2>2, <2>3
<1>4. FreshIds' /\ RowPostedIffProcessed' /\ (\A e : Applied(e)' <=> Applied(e))
  BY <1>1, TablesUnchanged
<1>5. TypeOK'
  BY <1>1, <1>3 DEF TypeOK, IdleConsumer
<1>6. ConsumerHoldsItsRow'
  BY <1>1 DEF ConsumerHoldsItsRow, IdleConsumer
<1>7. NoMessageLost'
  <2> SUFFICES ASSUME NEW e \in published
               PROVE  Applied(e) \/ IsIn(e, unacked') \/ IsIn(e, ready)
    BY <1>1, <1>4 DEF NoMessageLost
  <2> QED BY <1>2, <1>3 DEF NoMessageLost
<1> QED BY <1>4, <1>5, <1>6, <1>7

(* The transaction posts the one row it marks, and no row it had marked      *)
(* before.                                                                   *)
LEMMA ConsumerCommitInv ==
    ASSUME PipelineInv, ConsumerCommit
    PROVE  PipelineInv'
<1>1. /\ con.pc = "tx" /\ con' = [con EXCEPT !.pc = "ack"]
      /\ UNCHANGED <<ready, unacked, conn, lst, faults, published>>
  BY DEF ConsumerCommit, mqVars
<1>2. PICK e : e = con.msg
  OBVIOUS
<1>3. e \in Transfers /\ clock \in Nat /\ con.row \in Nat
  BY <1>1, <1>2 DEF TypeOK
<1>4. PICK id : id = IF con.row = 0 THEN clock + 1 ELSE con.row
  OBVIOUS
<1>5. id \in Nat \ {0}
  BY <1>3, <1>4
<1>6. PICK n : n = Len(changes)
  OBVIOUS
<1>7. /\ balance' \in [Users -> Int] /\ changes' \in Seq(BalanceChange)
      /\ n \in Nat /\ Len(changes') > n
      /\ DOMAIN changes = 1..n /\ DOMAIN changes' = 1..Len(changes')
      /\ \A i \in 1..n : changes'[i] = changes[i]
      /\ \A i \in (n + 1)..Len(changes') : changes'[i].event = id
      /\ \A i, j \in (n + 1)..Len(changes') :
            changes'[i].kind = changes'[j].kind => i = j
  <2>1. PICK p : p = ProcessBalanceChanges(id, e)
    OBVIOUS
  <2>2. balance' = p.balance /\ changes' = p.changes
    BY <1>2, <1>4, <2>1 DEF ConsumerCommit
  <2>3. /\ p \in Tables
        /\ Len(p.changes) > n
        /\ \A i \in 1..n : p.changes[i] = changes[i]
        /\ \A i \in (n + 1)..Len(p.changes) : p.changes[i].event = id
        /\ \A i, j \in (n + 1)..Len(p.changes) :
              p.changes[i].kind = p.changes[j].kind => i = j
    BY <1>3, <1>5, <1>6, <2>1, PostingAppends
  <2>4. balance' \in [Users -> Int] /\ changes' \in Seq(BalanceChange)
    BY <2>2, <2>3 DEF Tables
  <2>5. changes \in Seq(BalanceChange)
    BY DEF TypeOK
  <2>6. n \in Nat /\ DOMAIN changes = 1..n /\ DOMAIN changes' = 1..Len(changes')
    BY <1>6, <2>4, <2>5
  <2> QED BY <2>2, <2>3, <2>4, <2>6
<1>8. \A i \in DOMAIN changes : changes[i].event # id
  <2>1. CASE con.row = 0
    BY <1>3, <1>4, <2>1, IdTypes DEF FreshIds
  <2>2. CASE con.row # 0
    BY <1>1, <1>4, <2>2 DEF ConsumerHoldsItsRow, RowPostedIffProcessed, RowsOf
  <2> QED BY <2>1, <2>2
<1>9. /\ clock' \in Nat /\ clock <= clock' /\ id <= clock'
      /\ events' \subseteq EventRow
      /\ \A r \in events' : r.id <= clock'
      /\ \A r \in events' : r.id # id =>
            r \in events
      /\ \A r \in events' : r.id = id => r.processed /\ r.transfer = e
      /\ \E r \in events' : r.id = id
      /\ \A r, s \in events' : r.id = s.id => r = s
      /\ \A r \in events : r.id # id => r \in events'
      /\ \A r \in events : r.id = id => r.transfer = e
      /\ \A r \in events' : r.id # lst.id \/ lst.pc # "create"
      /\ id # lst.id \/ lst.pc # "create"
  <2>0. events \subseteq EventRow /\ lst.id \in Nat
    BY DEF TypeOK
  <2>1. CASE con.row = 0
    <3> DEFINE row == [id |-> id, transfer |-> e, processed |-> TRUE]
    <3>1. events' = events \union {row} /\ clock' = id /\ id = clock + 1
      BY <1>2, <1>4, <2>1 DEF ConsumerCommit
    <3>2. row \in EventRow /\ row.id = id /\ row.processed /\ row.transfer = e
      BY <1>3, <1>5 DEF EventRow
    <3>3. \A r \in events : r.id <= clock /\ r.id \in Nat /\ r.id # id
      BY <1>3, <3>1, IdTypes DEF FreshIds
    <3>4. lst.pc = "create" => lst.id # id /\ \A r \in events : r.id # lst.id
      BY <1>3, <2>0, <3>1 DEF FreshIds
    <3> HIDE DEF row
    <3>5. \A r, s \in events' : r.id = s.id => r = s
      BY <3>1, <3>2, <3>3 DEF FreshIds
    <3> QED BY <1>3, <2>0, <3>1, <3>2, <3>3, <3>4, <3>5
  <2>2. CASE con.row # 0
    <3>1. /\ events' = {IF r.id = id THEN [r EXCEPT !.processed = TRUE]
                                     ELSE r : r \in events}
          /\ clock' = clock /\ id = con.row
      BY <1>4, <2>2 DEF ConsumerCommit, MarkProcessed
    <3>2. PICK q \in events : q.id = id /\ q.transfer = e
      BY <1>1, <1>2, <2>2, <3>1 DEF ConsumerHoldsItsRow, RowsOf
    <3>3. \A r \in events : r.id = id => r = q
      BY <3>2 DEF FreshIds
    <3> DEFINE m == [q EXCEPT !.processed = TRUE]
    <3>4. m \in EventRow /\ m.id = id /\ m.transfer = e /\ m.processed
      BY <2>0, <3>2 DEF EventRow
    <3> HIDE DEF m
    <3>5. events' = (events \ {q}) \union {m}
      BY <3>1, <3>2, <3>3 DEF m
    <3>6. \A r \in events : r.id \in Nat /\ r.id <= clock
      BY IdTypes DEF FreshIds
    <3>7. lst.pc = "create" => \A r \in events : r.id # lst.id
      BY DEF FreshIds
    <3>8. \A r, s \in events' : r.id = s.id => r = s
      BY <3>2, <3>3, <3>4, <3>5 DEF FreshIds
    <3> QED BY <1>3, <2>0, <3>1, <3>2, <3>3, <3>4, <3>5, <3>6, <3>7, <3>8
  <2> QED BY <2>1, <2>2
<1>10. \A i \in DOMAIN changes' :
          \/ i \in DOMAIN changes /\ changes'[i] = changes[i]
          \/ i \in (n + 1)..Len(changes') /\ changes'[i].event = id
  BY <1>7
<1>11. TypeOK'
  <2>1. con' \in [pc : {"idle", "tx", "ack"},
                 msg : Transfers \union {None}, row : Nat]
        /\ con'.msg # None
    BY <1>1 DEF TypeOK
  <2> QED BY <1>1, <1>7, <1>9, <2>1 DEF TypeOK
<1>12. FreshIds'
  <2>1. \A i \in DOMAIN changes' : changes'[i].event <= clock'
    BY <1>3, <1>5, <1>9, <1>10, IdTypes DEF FreshIds
  <2>2. lst.pc = "create" =>
          /\ lst.id \in 1..clock'
          /\ \A i \in DOMAIN changes' : changes'[i].event # lst.id
    BY <1>3, <1>9, <1>10 DEF FreshIds
  <2> QED BY <1>1, <1>9, <2>1, <2>2 DEF FreshIds
<1>13. Applied(e)' /\ \A f : Applied(f) => Applied(f)'
  <2>1. PICK r \in events' : r.id = id /\ r.processed /\ r.transfer = e
    BY <1>9
  <2>2. ASSUME NEW f, NEW s \in events, s.transfer = f, s.processed
        PROVE  \E t \in events' : t.transfer = f /\ t.processed
    BY <1>9, <2>1, <2>2
  <2> QED BY <2>1, <2>2 DEF Applied, RowsOf
<1>14. ConsumerHoldsItsRow'
  <2>1. con'.pc = "ack" /\ con'.msg = e
    BY <1>1, <1>2 DEF TypeOK
  <2> QED BY <1>1, <1>2, <1>13, <2>1 DEF ConsumerHoldsItsRow, Applied, RowsOf
<1>15. RowPostedIffProcessed'
  <2>1. ASSUME NEW r \in events'
        PROVE  r.processed <=> \E i \in DOMAIN changes' : changes'[i].event = r.id
    <3>1. CASE r.id = id
      <4>1. n + 1 \in DOMAIN changes' /\ changes'[n + 1].event = id
        BY <1>7
      <4> QED BY <1>9, <3>1, <4>1
    <3>2. CASE r.id # id
      <4>1. r \in events /\ \A i \in DOMAIN changes : i \in DOMAIN changes'
        BY <1>7, <1>9, <3>2
      <4> QED BY <1>7, <1>10, <3>2, <4>1 DEF RowPostedIffProcessed
    <3> QED BY <3>1, <3>2
  <2>2. ASSUME NEW i \in DOMAIN changes', NEW j \in DOMAIN changes',
               changes'[i].event = changes'[j].event,
               changes'[i].kind = changes'[j].kind
        PROVE  i = j
    BY <1>7, <1>8, <1>10, <2>2 DEF RowPostedIffProcessed
  <2> QED BY <2>1, <2>2 DEF RowPostedIffProcessed
<1>16. NoMessageLost'
  BY <1>1, <1>13 DEF NoMessageLost, IsIn
<1> QED BY <1>11, <1>12, <1>14, <1>15, <1>16

LEMMA StutterInv == ASSUME PipelineInv, UNCHANGED vars PROVE PipelineInv'
BY DEF vars, dbVars, mqVars, TypeOK, FreshIds, ConsumerHoldsItsRow,
       RowPostedIffProcessed, NoMessageLost, Applied, RowsOf, IsIn

LEMMA NextInv == ASSUME PipelineInv, [Next]_vars PROVE PipelineInv'
<1>1. CASE \E e \in Transfers : ListenerCheck(e)
  BY <1>1, ListenerCheckInv
<1>2. CASE ListenerPublish
  BY <1>2, ListenerPublishInv
<1>3. CASE ListenerStamp
  BY <1>3, ListenerStampInv
<1>4. CASE ListenerCreate
  BY <1>4, ListenerCreateInv
<1>5. CASE Deliver
  BY <1>5, DeliverInv
<1>6. CASE ConsumerCheck
  BY <1>6, ConsumerCheckInv
<1>7. CASE ConsumerCommit
  BY <1>7, ConsumerCommitInv
<1>8. CASE ConsumerFail
  BY <1>8, ConsumerFailInv
<1>9. CASE ConsumerAck
  BY <1>9, ConsumerAckInv
<1>10. CASE ConnectionLost
  BY <1>10, ConnectionLostInv
<1>11. CASE Restart
  BY <1>11, RestartInv
<1>12. CASE UNCHANGED vars
  BY <1>12, StutterInv
<1> HIDE DEF PipelineInv
<1> QED BY <1>1, <1>2, <1>3, <1>4, <1>5, <1>6, <1>7, <1>8, <1>9, <1>10,
           <1>11, <1>12 DEF Next, Listener, Consumer

-----------------------------------------------------------------------------
(* The invariants hold in every state of every behaviour.                    *)
THEOREM PipelineInvariant == Spec => []PipelineInv
<1>1. PipelineInv /\ [Next]_vars => PipelineInv'
  BY NextInv
<1> HIDE DEF PipelineInv
<1> QED BY <1>1, InitInv, PTL DEF Spec

(* Every table, queue and goroutine of the pipeline keeps its type.          *)
THEOREM PipelineTypes == Spec => []TypeOK
<1>1. PipelineInv => TypeOK
  OBVIOUS
<1> HIDE DEF PipelineInv
<1> QED BY <1>1, PipelineInvariant, PTL

(* A row is processed exactly when its balance changes exist, and is posted  *)
(* only once, whatever fails and however often the process restarts.         *)
THEOREM RowsArePostedOnce == Spec => []RowPostedIffProcessed
<1>1. PipelineInv => RowPostedIffProcessed
  OBVIOUS
<1> HIDE DEF PipelineInv
<1> QED BY <1>1, PipelineInvariant, PTL

(* An event the broker accepted stays queued until it is applied.            *)
THEOREM MessagesAreNotLost == Spec => []NoMessageLost
<1>1. PipelineInv => NoMessageLost
  OBVIOUS
<1> HIDE DEF PipelineInv
<1> QED BY <1>1, PipelineInvariant, PTL

-----------------------------------------------------------------------------
(* Proofs about what the pipeline posts.  The history explains the balances  *)
(* (HistoryExplainsBalance), whatever fails and crashes.  And the pipeline   *)
(* implements the ledger that posts every transfer at most once, as long as  *)
(* the process does not restart, an existence check that fails is not taken  *)
(* for "new", and the listener's insert succeeds: with any of the three      *)
(* faults TLC finds a transfer that is applied twice.  A refused message, a  *)
(* rollback and a lost connection may still happen.                          *)

(* HistoryExplainsBalance, stated of any pair of tables ch and bal.          *)
LastIn(ch, u, i, n) ==
    /\ i \in 1..n /\ ch[i].user = u
    /\ \A k \in (i + 1)..n : ch[k].user # u

BalanceIn(ch, u, n) ==
    IF \E i \in 1..n : ch[i].user = u
    THEN ch[CHOOSE i \in 1..n : LastIn(ch, u, i, n)].after
    ELSE 0

Explains(ch, bal) ==
    /\ \A i \in DOMAIN ch :
        /\ ch[i].before = BalanceIn(ch, ch[i].user, i - 1)
        /\ ch[i].after = ch[i].before + ch[i].amount
    /\ \A u \in Users : bal[u] = BalanceIn(ch, u, Len(ch))

(* A user with a change has a last one, in every beginning of the history.   *)
HasLast(ch) ==
    \A u : \A n \in 0..Len(ch) :
        (\E i \in 1..n : ch[i].user = u) => \E i \in 1..n : LastIn(ch, u, i, n)

Sound(s) == HasLast(s.changes) /\ Explains(s.changes, s.balance)

LEMMA ExplainsIsHistory ==
    HistoryExplainsBalance <=> Explains(changes, balance)
BY Zenon DEF HistoryExplainsBalance, Explains, BalanceAt, BalanceIn, LastOf, LastIn

(* What the CHOOSE of BalanceIn finds is the last change.                    *)
LEMMA LastValue ==
    ASSUME NEW ch, NEW u, NEW n \in Nat, NEW i \in 1..n, LastIn(ch, u, i, n)
    PROVE  BalanceIn(ch, u, n) = ch[i].after
<1> DEFINE j == CHOOSE k \in 1..n : LastIn(ch, u, k, n)
<1>1. j \in 1..n /\ LastIn(ch, u, j, n)
  OBVIOUS
<1>2. \E k \in 1..n : ch[k].user = u
  BY DEF LastIn
<1>3. BalanceIn(ch, u, n) = ch[j].after
  BY <1>2 DEF BalanceIn
<1> HIDE DEF j
<1>4. j = i
  BY <1>1 DEF LastIn
<1> QED BY <1>3, <1>4

LEMMA NoValue ==
    ASSUME NEW ch, NEW u, NEW n, ~ \E i \in 1..n : ch[i].user = u
    PROVE  BalanceIn(ch, u, n) = 0
BY DEF BalanceIn

(* Two histories with the same beginning have the same balances in it.       *)
LEMMA SameBeginning ==
    ASSUME NEW ch, NEW ch2, HasLast(ch), Len(ch) \in Nat,
           \A i \in 1..Len(ch) : ch2[i] = ch[i],
           NEW u, NEW m \in 0..Len(ch)
    PROVE  BalanceIn(ch2, u, m) = BalanceIn(ch, u, m)
<1>1. m \in Nat /\ \A i \in 1..m : i \in 1..Len(ch) /\ ch2[i] = ch[i]
  OBVIOUS
<1>2. CASE \E i \in 1..m : ch[i].user = u
  <2>1. PICK i \in 1..m : LastIn(ch, u, i, m)
    BY <1>2 DEF HasLast
  <2>2. LastIn(ch2, u, i, m)
    BY <1>1, <2>1 DEF LastIn
  <2>3. ch2[i].after = ch[i].after
    BY <1>1
  <2> QED BY <1>1, <2>1, <2>2, <2>3, LastValue
<1>3. CASE ~ \E i \in 1..m : ch[i].user = u
  <2>1. ~ \E i \in 1..m : ch2[i].user = u
    BY <1>1, <1>3
  <2> QED BY <1>3, <2>1, NoValue
<1> QED BY <1>2, <1>3

(* updateUserBalanceTx keeps the history and the balances in step.           *)
LEMMA UpdateIsSound ==
    ASSUME NEW s \in Tables, Sound(s), NEW id \in Nat \ {0}, NEW u \in Users,
           NEW a \in Int, NEW k \in Kinds,
           NEW t, t = UpdateUserBalance(s, id, u, a, k)
    PROVE  /\ t \in Tables
           /\ Sound(t)
           /\ t.balance = [s.balance EXCEPT ![u] = s.balance[u] + a]
<1>1. PICK n \in Nat, row \in BalanceChange :
        /\ n = Len(s.changes)
        /\ t.changes = Append(s.changes, row)
        /\ row.user = u /\ row.amount = a /\ row.before = s.balance[u]
        /\ row.after = s.balance[u] + a
        /\ t.balance = [s.balance EXCEPT ![u] = s.balance[u] + a]
  <2> DEFINE r == [event |-> id, user |-> u, amount |-> a,
                   before |-> s.balance[u], after |-> s.balance[u] + a,
                   kind |-> k]
  <2>1. Len(s.changes) \in Nat
    BY DEF Tables
  <2>2. /\ t.changes = Append(s.changes, r)
        /\ t.balance = [s.balance EXCEPT ![u] = s.balance[u] + a]
    BY DEF UpdateUserBalance
  <2>3. /\ r.user = u /\ r.amount = a /\ r.before = s.balance[u]
        /\ r.after = s.balance[u] + a
    OBVIOUS
  <2>4. s.balance[u] \in Int /\ s.balance[u] + a \in Int
    BY DEF Tables
  <2>5. r \in BalanceChange
    BY <2>4 DEF BalanceChange
  <2> HIDE DEF r
  <2> QED BY <2>1, <2>2, <2>3, <2>5
<1>2. s.changes \in Seq(BalanceChange) /\ s.balance \in [Users -> Int]
  BY DEF Tables
<1>3. PICK ch, ch2 :
        /\ ch = s.changes /\ ch2 = t.changes
        /\ Len(ch) = n /\ Len(ch2) = n + 1
        /\ DOMAIN ch = 1..n /\ DOMAIN ch2 = 1..(n + 1)
        /\ \A i \in 1..n : ch2[i] = ch[i]
        /\ ch2[n + 1] = row
  <2>1. /\ Len(s.changes) = n /\ Len(t.changes) = n + 1
        /\ DOMAIN s.changes = 1..n /\ DOMAIN t.changes = 1..(n + 1)
        /\ \A i \in 1..n : t.changes[i] = s.changes[i]
        /\ t.changes[n + 1] = row
    BY <1>1, <1>2
  <2> QED BY <2>1
<1>4. HasLast(ch) /\ Explains(ch, s.balance)
  BY <1>3 DEF Sound
<1>a. ASSUME NEW v, \E i \in 1..n : ch[i].user = v
      PROVE  \E i \in 1..n : LastIn(ch, v, i, n)
  <2>1. n \in 0..Len(ch)
    BY <1>3
  <2> QED BY <1>4, <1>a, <2>1 DEF HasLast
<1>5. \A v : \A m \in 0..n : BalanceIn(ch2, v, m) = BalanceIn(ch, v, m)
  BY <1>3, <1>4, SameBeginning
<1>6. ASSUME NEW v, v # row.user, NEW i \in 1..n, LastIn(ch, v, i, n)
      PROVE  LastIn(ch2, v, i, n + 1)
  <2>1. i \in 1..(n + 1) /\ ch2[i].user = v
    BY <1>3, <1>6 DEF LastIn
  <2>2. ASSUME NEW j \in (i + 1)..(n + 1) PROVE ch2[j].user # v
    <3>1. j = n + 1 \/ j \in (i + 1)..n
      OBVIOUS
    <3>2. CASE j = n + 1
      BY <1>3, <1>6, <3>2
    <3>3. CASE j \in (i + 1)..n
      <4>1. j \in 1..n
        BY <3>3
      <4> QED BY <1>3, <1>6, <3>3, <4>1 DEF LastIn
    <3> QED BY <3>1, <3>2, <3>3
  <2> QED BY <2>1, <2>2 DEF LastIn
<1>7. LastIn(ch2, row.user, n + 1, n + 1)
  BY <1>3 DEF LastIn
<1>8. HasLast(ch2)
  <2> SUFFICES ASSUME NEW v, NEW m \in 0..(n + 1),
                      \E i \in 1..m : ch2[i].user = v
               PROVE  \E i \in 1..m : LastIn(ch2, v, i, m)
    BY <1>3 DEF HasLast
  <2>1. CASE m \in 0..n
    <3>1. \A i \in 1..m : i \in 1..n /\ ch2[i] = ch[i]
      BY <1>3, <2>1
    <3>2. \E i \in 1..m : ch[i].user = v
      BY <3>1
    <3>3. PICK i \in 1..m : LastIn(ch, v, i, m)
      BY <1>3, <1>4, <2>1, <3>2 DEF HasLast
    <3>4. LastIn(ch2, v, i, m)
      BY <3>1, <3>3, <2>1 DEF LastIn
    <3> QED BY <3>4
  <2>2. CASE m = n + 1 /\ v = row.user
    BY <1>7, <2>2
  <2>3. CASE m = n + 1 /\ v # row.user
    <3>1. \E i \in 1..n : ch[i].user = v
      <4>1. PICK i \in 1..(n + 1) : ch2[i].user = v
        BY <2>3
      <4>2. i # n + 1
        BY <1>3, <2>3, <4>1
      <4>3. i \in 1..n
        BY <4>2
      <4> QED BY <1>3, <4>1, <4>3
    <3>2. PICK i \in 1..n : LastIn(ch, v, i, n)
      BY <1>a, <3>1
    <3>3. LastIn(ch2, v, i, n + 1) /\ i \in 1..(n + 1)
      BY <1>6, <2>3, <3>2
    <3> QED BY <2>3, <3>3
  <2>4. m \in 0..n \/ m = n + 1
    OBVIOUS
  <2> QED BY <2>1, <2>2, <2>3, <2>4
<1>9. ASSUME NEW i \in 1..(n + 1)
      PROVE  /\ ch2[i].before = BalanceIn(ch2, ch2[i].user, i - 1)
             /\ ch2[i].after = ch2[i].before + ch2[i].amount
  <2>1. CASE i \in 1..n
    <3>1. i - 1 \in 0..n
      BY <2>1
    <3>2. /\ ch[i].before = BalanceIn(ch, ch[i].user, i - 1)
          /\ ch[i].after = ch[i].before + ch[i].amount
      BY <1>3, <1>4, <2>1 DEF Explains
    <3> QED BY <1>3, <1>5, <2>1, <3>1, <3>2
  <2>2. CASE i = n + 1
    <3>1. i - 1 = n /\ n \in 0..n
      BY <2>2
    <3>2. s.balance[u] = BalanceIn(ch, u, n)
      BY <1>3, <1>4 DEF Explains
    <3> QED BY <1>1, <1>3, <1>5, <2>2, <3>1, <3>2
  <2>3. i \in 1..n \/ i = n + 1
    OBVIOUS
  <2> QED BY <2>1, <2>2, <2>3
<1>10. ASSUME NEW v \in Users
       PROVE  t.balance[v] = BalanceIn(ch2, v, n + 1)
  <2>1. CASE v = u
    <3>1. BalanceIn(ch2, v, n + 1) = row.after
      <4>1. n + 1 \in Nat /\ n + 1 \in 1..(n + 1) /\ v = row.user
        BY <1>1, <2>1
      <4>2. BalanceIn(ch2, v, n + 1) = ch2[n + 1].after
        BY <1>7, <4>1, LastValue
      <4> QED BY <1>3, <4>2
    <3>2. t.balance[v] = s.balance[u] + a
      BY <1>1, <1>2, <2>1
    <3> QED BY <1>1, <3>1, <3>2
  <2>2. CASE v # u
    <3>1. t.balance[v] = BalanceIn(ch, v, n)
      BY <1>1, <1>2, <1>3, <1>4, <2>2 DEF Explains
    <3>2. CASE \E i \in 1..n : ch[i].user = v
      <4>1. PICK i \in 1..n : LastIn(ch, v, i, n)
        BY <1>a, <3>2
      <4>2. LastIn(ch2, v, i, n + 1) /\ i \in 1..(n + 1)
        BY <1>1, <1>6, <2>2, <4>1
      <4>3. BalanceIn(ch2, v, n + 1) = ch2[i].after
        BY <4>2, LastValue
      <4>4. BalanceIn(ch, v, n) = ch[i].after
        BY <4>1, LastValue
      <4> QED BY <1>3, <3>1, <4>3, <4>4
    <3>3. CASE ~ \E i \in 1..n : ch[i].user = v
      <4>1. ~ \E i \in 1..(n + 1) : ch2[i].user = v
        <5> SUFFICES ASSUME NEW i \in 1..(n + 1), ch2[i].user = v PROVE FALSE
          OBVIOUS
        <5>1. i # n + 1
          BY <1>1, <1>3, <2>2
        <5>2. i \in 1..n
          BY <5>1
        <5> QED BY <1>3, <3>3, <5>2
      <4> QED BY <3>1, <3>3, <4>1, NoValue
    <3> QED BY <3>2, <3>3
  <2> QED BY <2>1, <2>2
<1>11. Explains(ch2, t.balance)
  BY <1>3, <1>9, <1>10 DEF Explains
<1>12. t \in Tables
  BY UpdateAppends
<1> QED BY <1>1, <1>3, <1>8, <1>11, <1>12 DEF Sound

-----------------------------------------------------------------------------
(* processBalanceChangesTx, one or two updates.                              *)

(* The posting of an event is the ledger's, for a mint, a burn, a transfer,  *)
(* a transfer to oneself, and every amount; and it leaves the history sound. *)
LEMMA PostingIsSound ==
    ASSUME TypeOK, Sound([balance |-> balance, changes |-> changes]),
           NEW id \in Nat \ {0}, NEW e \in Transfers,
           NEW p, p = ProcessBalanceChanges(id, e)
    PROVE  /\ Sound(p)
           /\ p.balance = [u \in Users |-> balance[u] + PostedDelta(e, u)]
<1>1. PICK s \in Tables :
        /\ Sound(s) /\ s.balance = balance
        /\ p = ProcessTo(ProcessFrom(s, id, e), id, e)
  <2>1. [balance |-> balance, changes |-> changes] \in Tables
    BY DEF TypeOK, Tables
  <2> QED BY <2>1 DEF ProcessBalanceChanges
<1>2. /\ e.from \in Users \union {Zero} /\ e.to \in Users \union {Zero}
      /\ e.from # Zero \/ e.to # Zero
      /\ e.value \in Int /\ -e.value \in Int
      /\ Zero \notin Users
  BY TransfersAssumption
<1>3. {"mint", "burn", "transfer_in", "transfer_out"} \subseteq Kinds
  BY DEF Kinds
<1>4. balance \in [Users -> Int] /\ balance = s.balance
  BY <1>1 DEF TypeOK
<1>a. CASE e.from # Zero
  <2>1. PICK s1 : s1 = UpdateUserBalance(s, id, e.from, -e.value, "transfer_out")
    OBVIOUS
  <2>2. /\ s1 \in Tables /\ Sound(s1)
        /\ s1.balance = [s.balance EXCEPT ![e.from] = s.balance[e.from] + -e.value]
    <3>1. e.from \in Users /\ "transfer_out" \in Kinds
      BY <1>2, <1>3, <1>a
    <3> QED BY <1>1, <1>2, <2>1, <3>1, UpdateIsSound
  <2>3. p = ProcessTo(s1, id, e)
    BY <1>1, <1>a, <2>1 DEF ProcessFrom
  <2>4. CASE e.to # Zero
    <3>1. p = UpdateUserBalance(s1, id, e.to, e.value, "transfer_in")
      BY <1>a, <2>3, <2>4 DEF ProcessTo
    <3>2. e.to \in Users /\ e.from \in Users /\ "transfer_in" \in Kinds
      BY <1>2, <1>3, <1>a, <2>4
    <3>3. /\ Sound(p)
          /\ p.balance = [s1.balance EXCEPT ![e.to] = s1.balance[e.to] + e.value]
      BY <1>2, <2>2, <3>1, <3>2, UpdateIsSound
    <3>4. ASSUME NEW u \in Users
          PROVE  p.balance[u] = balance[u] + PostedDelta(e, u)
      <4>1. /\ s1.balance \in [Users -> Int]
            /\ balance[u] \in Int /\ balance[e.to] \in Int
            /\ balance[e.from] \in Int
        BY <1>2, <1>4, <2>2, <3>2
      <4>2. PostedDelta(e, u) = (IF u = e.to THEN e.value ELSE 0)
                                - (IF u = e.from THEN e.value ELSE 0)
        BY <1>2, <2>4, <3>2 DEF PostedDelta
      <4>3. s1.balance[u] = balance[u] - (IF u = e.from THEN e.value ELSE 0)
        BY <1>2, <1>4, <2>2, <3>2, <4>1
      <4>4. p.balance[u] = s1.balance[u] + (IF u = e.to THEN e.value ELSE 0)
        <5>1. s1.balance[u] \in Int
          BY <4>1
        <5>2. CASE u = e.to
          BY <3>3, <4>1, <5>2
        <5>3. CASE u # e.to
          BY <3>3, <4>1, <5>1, <5>3
        <5> QED BY <5>2, <5>3
      <4> QED BY <1>2, <4>1, <4>2, <4>3, <4>4
    <3>5. p.balance \in [Users -> Int]
      BY <1>2, <1>4, <2>2, <3>2, <3>3
    <3> QED BY <3>3, <3>4, <3>5
  <2>5. CASE e.to = Zero
    <3>1. p = UpdateUserBalance(s1, id, e.from, -e.value, "burn")
      BY <1>a, <2>3, <2>5 DEF ProcessTo
    <3>2. e.from \in Users /\ "burn" \in Kinds
      BY <1>2, <1>3, <1>a
    <3>3. /\ Sound(p)
          /\ p.balance = [s1.balance EXCEPT ![e.from] = s1.balance[e.from] + -e.value]
      BY <1>2, <2>2, <3>1, <3>2, UpdateIsSound
    <3>4. ASSUME NEW u \in Users
          PROVE  p.balance[u] = balance[u] + PostedDelta(e, u)
      BY <1>2, <1>4, <2>2, <2>5, <3>2, <3>3 DEF PostedDelta
    <3>5. p.balance \in [Users -> Int]
      BY <1>2, <1>4, <2>2, <3>2, <3>3
    <3> QED BY <3>3, <3>4, <3>5
  <2> QED BY <2>4, <2>5
<1>b. CASE e.from = Zero
  <2>1. e.to # Zero /\ e.to \in Users /\ "mint" \in Kinds
    BY <1>2, <1>3, <1>b
  <2>2. PICK s1 : s1 = UpdateUserBalance(s, id, e.to, e.value, "mint")
    OBVIOUS
  <2>3. p = s1
    BY <1>1, <1>b, <2>1, <2>2 DEF ProcessFrom, ProcessTo
  <2>4. /\ Sound(p)
        /\ p.balance = [s.balance EXCEPT ![e.to] = s.balance[e.to] + e.value]
    BY <1>1, <1>2, <2>1, <2>2, <2>3, UpdateIsSound
  <2>5. ASSUME NEW u \in Users
        PROVE  p.balance[u] = balance[u] + PostedDelta(e, u)
    BY <1>2, <1>4, <1>b, <2>1, <2>4 DEF PostedDelta
  <2>6. p.balance \in [Users -> Int]
    BY <1>2, <1>4, <2>1, <2>4
  <2> QED BY <2>4, <2>5, <2>6
<1> QED BY <1>a, <1>b

HistorySound == Sound([balance |-> balance, changes |-> changes])

LEMMA HistoryStep ==
    ASSUME PipelineInv, HistorySound, [Next]_vars
    PROVE  HistorySound'
<1>1. CASE UNCHANGED <<balance, changes>>
  BY <1>1 DEF HistorySound
<1>2. CASE ConsumerCommit
  <2>1. PICK id, p :
          /\ id \in Nat \ {0} /\ p = ProcessBalanceChanges(id, con.msg)
          /\ balance' = p.balance /\ changes' = p.changes
    <3>1. clock + 1 \in Nat \ {0} /\ (con.row # 0 => con.row \in Nat \ {0})
      BY DEF PipelineInv, TypeOK
    <3> QED BY <1>2, <3>1 DEF ConsumerCommit
  <2>2. con.msg \in Transfers /\ TypeOK
    BY <1>2 DEF PipelineInv, TypeOK, ConsumerCommit
  <2>3. Sound(p)
    BY <2>1, <2>2, PostingIsSound DEF HistorySound
  <2> QED BY <2>1, <2>3 DEF HistorySound, Sound
<1>3. Next => ConsumerCommit \/ UNCHANGED <<balance, changes>>
  BY DEF Next, Listener, Consumer, ListenerCheck, ListenerPublish,
         ListenerStamp, ListenerCreate, Deliver, ConsumerCheck, ConsumerFail,
         ConsumerAck, ConnectionLost, Restart, Nack, dbVars
<1>4. CASE UNCHANGED vars
  BY <1>1, <1>4 DEF vars, dbVars
<1> QED BY <1>1, <1>2, <1>3, <1>4

LEMMA HistoryStart == Init => HistorySound
<1> SUFFICES ASSUME Init PROVE HistorySound
  OBVIOUS
<1>1. changes = <<>> /\ Len(changes) = 0 /\ \A u \in Users : balance[u] = 0
  BY DEF Init
<1>2. 0..0 = {0} /\ 1..0 = {}
  OBVIOUS
<1> QED BY <1>1, <1>2 DEF HistorySound, Sound, HasLast, Explains, BalanceIn

(* The balance_changes of every user form an unbroken chain from 0 to the    *)
(* balance in user_balances, for any transfers, users, faults and restarts:  *)
(* what RebuildUserBalance and the points calculator read them for.          *)
THEOREM HistoryAlwaysExplains == Spec => []HistoryExplainsBalance
<1>1. PipelineInv /\ HistorySound /\ [Next]_vars => HistorySound'
  BY HistoryStep
<1>2. HistorySound => HistoryExplainsBalance
  BY ExplainsIsHistory DEF HistorySound, Sound
<1> HIDE DEF PipelineInv
<1> QED BY <1>1, <1>2, HistoryStart, PipelineInvariant, PTL DEF Spec

-----------------------------------------------------------------------------
(* Every transfer has at most one message, ...                               *)
Distinct(q) == \A i, j \in DOMAIN q : q[i] = q[j] => i = j
Queued(e) == IsIn(e, unacked) \/ IsIn(e, ready)

OneMessage ==
    /\ Distinct(unacked) /\ Distinct(ready)
    /\ \A e : ~(IsIn(e, unacked) /\ IsIn(e, ready))

(* ... since it is published before there is a row, once; then the row that  *)
(* is inserted, or about to be, keeps the listener from publishing it again. *)
PublishedOnce ==
    /\ \A e : Queued(e) => e \in published
    /\ con.pc # "idle" => con.msg \in published
    /\ \A e : Applied(e) => e \in published
    /\ lst.pc = "publish" => lst.transfer \notin published
    /\ \A e \in published :
        \/ RowsOf(e) # {}
        \/ lst.pc \in {"stamp", "create"} /\ lst.transfer = e

(* A transfer that is applied has no message left, but for the one that is   *)
(* about to be acknowledged, and one that a lost connection has put back.    *)
NothingAppliedWaits ==
    /\ \A e : Applied(e) /\ conn /\ Queued(e) => con.pc = "ack" /\ con.msg = e
    /\ con.pc = "tx" => ~Applied(con.msg)

OnceInv == OneMessage /\ PublishedOnce /\ NothingAppliedWaits /\ AppliedAtMostOnce

(* The faults that can make a transfer be published or inserted twice.       *)
ForgetfulFaults == {"query", "create", "crash"}

-----------------------------------------------------------------------------
(* Queue operations keep messages distinct.                                  *)

LEMMA DistinctAppend ==
    ASSUME NEW T, NEW s \in Seq(T), NEW x \in T, Distinct(s), ~IsIn(x, s)
    PROVE  Distinct(Append(s, x))
<1>1. /\ DOMAIN s = 1..Len(s) /\ Len(s) \in Nat
      /\ DOMAIN Append(s, x) = 1..(Len(s) + 1)
      /\ \A i \in 1..Len(s) : Append(s, x)[i] = s[i]
      /\ Append(s, x)[Len(s) + 1] = x
  OBVIOUS
<1>2. \A i \in 1..Len(s) : s[i] # x
  BY <1>1 DEF IsIn
<1>3. \A i \in 1..(Len(s) + 1) : i \in 1..Len(s) \/ i = Len(s) + 1
  BY <1>1
<1> QED BY <1>1, <1>2, <1>3 DEF Distinct

LEMMA DistinctTail ==
    ASSUME NEW T, NEW s \in Seq(T), s # <<>>, Distinct(s)
    PROVE  Distinct(Tail(s)) /\ ~IsIn(Head(s), Tail(s))
<1>1. /\ DOMAIN s = 1..Len(s) /\ Len(s) \in Nat \ {0} /\ Head(s) = s[1]
      /\ DOMAIN Tail(s) = 1..(Len(s) - 1)
      /\ \A i \in 1..(Len(s) - 1) : Tail(s)[i] = s[i + 1]
  OBVIOUS
<1>2. \A i \in 1..(Len(s) - 1) : i + 1 \in 1..Len(s) /\ i + 1 # 1 /\ 1 \in 1..Len(s)
  BY <1>1
<1> QED BY <1>1, <1>2 DEF Distinct, IsIn

LEMMA DistinctConcat ==
    ASSUME NEW T, NEW s \in Seq(T), NEW t \in Seq(T), Distinct(s), Distinct(t),
           \A e : ~(IsIn(e, s) /\ IsIn(e, t))
    PROVE  Distinct(s \o t)
<1>1. /\ DOMAIN (s \o t) = 1..(Len(s) + Len(t))
      /\ DOMAIN s = 1..Len(s) /\ DOMAIN t = 1..Len(t)
      /\ Len(s) \in Nat /\ Len(t) \in Nat
      /\ \A i \in 1..Len(s) : (s \o t)[i] = s[i]
      /\ \A i \in 1..Len(t) : (s \o t)[Len(s) + i] = t[i]
  OBVIOUS
<1>2. \A i \in DOMAIN s, j \in DOMAIN t : s[i] # t[j]
  BY DEF IsIn
<1>3. ASSUME NEW i \in DOMAIN (s \o t)
      PROVE  \/ i \in DOMAIN s /\ (s \o t)[i] = s[i]
             \/ i - Len(s) \in DOMAIN t /\ (s \o t)[i] = t[i - Len(s)]
  BY <1>1
<1> SUFFICES ASSUME NEW i \in DOMAIN (s \o t), NEW j \in DOMAIN (s \o t),
                    (s \o t)[i] = (s \o t)[j]
             PROVE  i = j
  BY DEF Distinct
<1>4. CASE i \in DOMAIN s /\ (s \o t)[i] = s[i] /\ j \in DOMAIN s /\ (s \o t)[j] = s[j]
  BY <1>4 DEF Distinct
<1>5. CASE /\ i - Len(s) \in DOMAIN t /\ (s \o t)[i] = t[i - Len(s)]
           /\ j - Len(s) \in DOMAIN t /\ (s \o t)[j] = t[j - Len(s)]
  <2>1. i - Len(s) = j - Len(s)
    BY <1>5 DEF Distinct
  <2> QED BY <1>1, <2>1
<1> QED BY <1>2, <1>3, <1>4, <1>5

LEMMA DistinctCons ==
    ASSUME NEW T, NEW s \in Seq(T), NEW x \in T, Distinct(s), ~IsIn(x, s)
    PROVE  Distinct(<<x>> \o s)
<1>1. <<x>> \in Seq(T) /\ DOMAIN <<x>> = {1} /\ <<x>>[1] = x
  OBVIOUS
<1>2. Distinct(<<x>>)
  BY <1>1 DEF Distinct
<1>3. \A e : ~(IsIn(e, <<x>>) /\ IsIn(e, s))
  BY <1>1 DEF IsIn
<1> QED BY <1>1, <1>2, <1>3, DistinctConcat

-----------------------------------------------------------------------------
(* OnceInv is inductive, one lemma per action.                               *)

(* What a step that leaves the tables and published alone has to show.       *)
LEMMA RowsUnchanged ==
    ASSUME events' = events
    PROVE  /\ \A e : Applied(e)' <=> Applied(e)
           /\ \A e : RowsOf(e)' = RowsOf(e)
           /\ AppliedAtMostOnce' <=> AppliedAtMostOnce
BY DEF Applied, RowsOf, AppliedAtMostOnce

LEMMA StartOnce == Init => OnceInv
<1> SUFFICES ASSUME Init PROVE OnceInv
  OBVIOUS
<1>1. /\ events = {} /\ ready = <<>> /\ unacked = <<>> /\ published = {}
      /\ lst.pc = "idle" /\ con.pc = "idle"
  BY DEF Init, IdleListener, IdleConsumer
<1>2. \A e : ~Applied(e) /\ ~IsIn(e, ready) /\ ~IsIn(e, unacked)
  BY <1>1 DEF Applied, RowsOf, IsIn
<1>3. Distinct(ready) /\ Distinct(unacked)
  BY <1>1 DEF Distinct
<1> QED
  BY <1>1, <1>2, <1>3 DEF OnceInv, OneMessage, PublishedOnce,
     NothingAppliedWaits, AppliedAtMostOnce, Queued

(* A transfer without a row has never been published: its row is the first   *)
(* thing that happens after its message.                                     *)
LEMMA CheckOnce ==
    ASSUME PipelineInv, OnceInv, "query" \notin FaultKinds,
           NEW e \in Transfers, ListenerCheck(e)
    PROVE  OnceInv'
<1>1. /\ RowsOf(e) = {} /\ lst.pc = "idle"
      /\ lst' = [pc |-> "publish", transfer |-> e, id |-> 0]
      /\ UNCHANGED <<events, ready, unacked, conn, con, published>>
  BY DEF ListenerCheck, Fault, dbVars, mqVars
<1>2. e \notin published
  BY <1>1 DEF OnceInv, PublishedOnce
<1>3. \A d \in published : RowsOf(d) # {}
  BY <1>1 DEF OnceInv, PublishedOnce
<1> QED
  BY <1>1, <1>2, <1>3, RowsUnchanged DEF OnceInv, OneMessage, PublishedOnce,
     NothingAppliedWaits, Queued, IsIn, Distinct

LEMMA PublishOnce ==
    ASSUME PipelineInv, OnceInv, ListenerPublish
    PROVE  OnceInv'
<1>1. /\ lst.pc = "publish" /\ lst'.pc = "stamp" /\ lst'.transfer = lst.transfer
      /\ UNCHANGED <<events, unacked, conn, con>>
  BY DEF ListenerPublish, PipelineInv, TypeOK, dbVars
<1>2. PICK e \in Transfers : e = lst.transfer
  BY <1>1 DEF PipelineInv, TypeOK
<1>3. e \notin published /\ \A d \in published : RowsOf(d) # {}
  BY <1>1, <1>2 DEF OnceInv, PublishedOnce
<1>4. ~Applied(e) /\ ~IsIn(e, unacked) /\ ~IsIn(e, ready)
      /\ (con.pc # "idle" => con.msg # e)
  BY <1>3 DEF OnceInv, PublishedOnce, Queued
<1>5. ready \in Seq(Transfers)
  BY DEF PipelineInv, TypeOK
<1>6. CASE ready' = Append(ready, e) /\ published' = published \union {e}
  <2>1. Distinct(ready') /\ \A d : IsIn(d, ready') <=> IsIn(d, ready) \/ d = e
    BY <1>4, <1>5, <1>6, InAppend, DistinctAppend DEF OnceInv, OneMessage
  <2>2. Distinct(unacked)' /\ \A d : IsIn(d, unacked)' <=> IsIn(d, unacked)
    BY <1>1 DEF OnceInv, OneMessage, Distinct, IsIn
  <2>3. OneMessage' /\ \A d : Queued(d)' <=> Queued(d) \/ d = e
    BY <1>4, <2>1, <2>2 DEF OnceInv, OneMessage, Queued
  <2>4. PublishedOnce'
    BY <1>1, <1>2, <1>3, <1>6, <2>3, RowsUnchanged DEF OnceInv, PublishedOnce
  <2>5. NothingAppliedWaits'
    BY <1>1, <1>4, <2>3, RowsUnchanged DEF OnceInv, NothingAppliedWaits
  <2> QED BY <1>1, <2>3, <2>4, <2>5, RowsUnchanged DEF OnceInv
<1>7. CASE ready' = ready /\ published' = published
  <2>1. OneMessage' /\ \A d : Queued(d)' <=> Queued(d)
    BY <1>1, <1>7 DEF OnceInv, OneMessage, Queued, IsIn, Distinct
  <2>2. PublishedOnce'
    BY <1>1, <1>3, <1>7, <2>1, RowsUnchanged DEF OnceInv, PublishedOnce
  <2>3. NothingAppliedWaits'
    BY <1>1, <2>1, RowsUnchanged DEF OnceInv, NothingAppliedWaits
  <2> QED BY <1>1, <2>1, <2>2, <2>3, RowsUnchanged DEF OnceInv
<1> QED BY <1>2, <1>6, <1>7 DEF ListenerPublish

LEMMA StampOnce ==
    ASSUME PipelineInv, OnceInv, ListenerStamp
    PROVE  OnceInv'
<1>1. /\ lst.pc = "stamp" /\ lst'.pc = "create" /\ lst'.transfer = lst.transfer
      /\ UNCHANGED <<events, ready, unacked, conn, con, published>>
  BY DEF ListenerStamp, PipelineInv, TypeOK, dbVars, mqVars
<1> QED
  BY <1>1, RowsUnchanged DEF OnceInv, OneMessage, PublishedOnce,
     NothingAppliedWaits, Queued, IsIn, Distinct

LEMMA CreateOnce ==
    ASSUME PipelineInv, OnceInv, "create" \notin FaultKinds, ListenerCreate
    PROVE  OnceInv'
<1> DEFINE row == [id |-> lst.id, transfer |-> lst.transfer, processed |-> FALSE]
<1>1. /\ lst.pc = "create" /\ lst'.pc = "idle"
      /\ events' = events \union {row}
      /\ UNCHANGED <<ready, unacked, conn, con, published>>
  BY DEF ListenerCreate, Fault, IdleListener, mqVars
<1>2. PICK e : e = lst.transfer
  OBVIOUS
<1>3. row.transfer = e /\ row.processed = FALSE
  BY <1>2
<1> HIDE DEF row
<1>4. /\ \A d : Applied(d)' <=> Applied(d)
      /\ \A d : RowsOf(d) \subseteq RowsOf(d)'
      /\ RowsOf(e)' # {}
      /\ AppliedAtMostOnce'
  BY <1>1, <1>3 DEF OnceInv, AppliedAtMostOnce, Applied, RowsOf
<1>5. \A d \in published' : RowsOf(d)' # {}
  <2>1. \A d \in published : RowsOf(d) # {} \/ d = e
    BY <1>1, <1>2 DEF OnceInv, PublishedOnce
  <2> QED BY <1>1, <1>4, <2>1
<1>6. OneMessage' /\ (\A d : Queued(d)' <=> Queued(d))
  BY <1>1 DEF OnceInv, OneMessage, Queued, IsIn, Distinct
<1> QED
  BY <1>1, <1>4, <1>5, <1>6 DEF OnceInv, PublishedOnce, NothingAppliedWaits

(* What the broker and the client do with the messages, when the tables, the *)
(* listener and published stay.                                              *)
LEMMA QueuesMove ==
    ASSUME OnceInv, UNCHANGED <<events, lst, published>>,
           OneMessage', NothingAppliedWaits',
           \A e : Queued(e)' => Queued(e),
           con'.pc # "idle" => con'.msg \in published
    PROVE  OnceInv'
<1>1. (\A e : Applied(e)' <=> Applied(e)) /\ AppliedAtMostOnce'
      /\ (\A e : RowsOf(e)' = RowsOf(e))
  BY RowsUnchanged DEF OnceInv
<1>2. PublishedOnce'
  BY <1>1 DEF OnceInv, PublishedOnce
<1> QED BY <1>1, <1>2 DEF OnceInv

LEMMA DeliverOnce ==
    ASSUME PipelineInv, OnceInv, Deliver
    PROVE  OnceInv'
<1>1. /\ ready # <<>>
      /\ unacked' = Append(unacked, Head(ready)) /\ ready' = Tail(ready)
      /\ UNCHANGED <<events, conn, lst, con, published>>
  BY DEF Deliver, dbVars
<1>2. ready \in Seq(Transfers) /\ unacked \in Seq(Transfers)
  BY DEF PipelineInv, TypeOK
<1>3. PICK e \in Transfers :
        /\ e = Head(ready)
        /\ \A d : IsIn(d, ready) <=> d = e \/ IsIn(d, ready')
        /\ Distinct(ready') /\ ~IsIn(e, ready')
  <2>1. Distinct(Tail(ready)) /\ ~IsIn(Head(ready), Tail(ready))
    BY <1>1, <1>2, DistinctTail DEF OnceInv, OneMessage
  <2>2. Head(ready) \in Transfers
    BY <1>1, <1>2, InTail
  <2>3. \A d : IsIn(d, ready) <=> d = Head(ready) \/ IsIn(d, Tail(ready))
    BY <1>1, <1>2, InTail
  <2> QED BY <1>1, <2>1, <2>2, <2>3
<1>4. ~IsIn(e, unacked)
  BY <1>3 DEF OnceInv, OneMessage
<1>5. Distinct(unacked') /\ \A d : IsIn(d, unacked') <=> IsIn(d, unacked) \/ d = e
  BY <1>1, <1>2, <1>3, <1>4, DistinctAppend, InAppend DEF OnceInv, OneMessage
<1>6. OneMessage' /\ (\A d : Queued(d)' <=> Queued(d))
  BY <1>3, <1>4, <1>5 DEF OnceInv, OneMessage, Queued
<1>7. NothingAppliedWaits'
  BY <1>1, <1>6, RowsUnchanged DEF OnceInv, NothingAppliedWaits
<1>8. con'.pc # "idle" => con'.msg \in published
  BY <1>1 DEF OnceInv, PublishedOnce
<1> QED BY <1>1, <1>6, <1>7, <1>8, QueuesMove

(* After a lost connection messages of applied transfers may wait, but there *)
(* is no consumer any more.                                                  *)
LEMMA LostOnce ==
    ASSUME PipelineInv, OnceInv, ConnectionLost
    PROVE  OnceInv'
<1>1. /\ ~conn' /\ ready' = unacked \o ready /\ unacked' = <<>>
      /\ UNCHANGED <<events, lst, con, published>>
  BY DEF ConnectionLost, dbVars
<1>2. ready \in Seq(Transfers) /\ unacked \in Seq(Transfers)
  BY DEF PipelineInv, TypeOK
<1>3. Distinct(ready') /\ Distinct(unacked')
  <2>1. Distinct(<<>>)
    BY DEF Distinct
  <2>2. Distinct(unacked \o ready)
    BY <1>2, DistinctConcat DEF OnceInv, OneMessage
  <2> QED BY <1>1, <2>1, <2>2
<1>4. \A e : ~IsIn(e, unacked') /\ (IsIn(e, ready') <=> IsIn(e, unacked) \/ IsIn(e, ready))
  <2>1. \A e : ~IsIn(e, <<>>)
    BY DEF IsIn
  <2> QED BY <1>1, <1>2, <2>1, InConcat
<1>5. OneMessage' /\ (\A e : Queued(e)' => Queued(e))
  BY <1>3, <1>4 DEF OneMessage, Queued
<1>6. NothingAppliedWaits'
  BY <1>1, RowsUnchanged DEF OnceInv, NothingAppliedWaits
<1>7. con'.pc # "idle" => con'.msg \in published
  BY <1>1 DEF OnceInv, PublishedOnce
<1> QED BY <1>1, <1>5, <1>6, <1>7, QueuesMove

(* A requeued message is one that waits, of a transfer not yet applied.      *)
LEMMA NackOnce ==
    ASSUME PipelineInv, OnceInv, NEW e \in Transfers, Nack(e),
           conn => unacked # <<>> /\ Head(unacked) = e,
           con.pc \in {"idle", "tx"}
    PROVE  OnceInv'
<1>1. /\ con'.pc = "idle"
      /\ UNCHANGED <<events, conn, lst, published>>
      /\ \/ conn /\ unacked' = Tail(unacked) /\ ready' = <<e>> \o ready
         \/ unacked' = unacked /\ ready' = ready
  BY DEF Nack, IdleConsumer, dbVars
<1>2. ready \in Seq(Transfers) /\ unacked \in Seq(Transfers)
  BY DEF PipelineInv, TypeOK
<1>3. OneMessage' /\ (\A d : Queued(d)' => Queued(d))
  <2>1. CASE conn /\ unacked' = Tail(unacked) /\ ready' = <<e>> \o ready
    <3>1. unacked # <<>> /\ Head(unacked) = e
      BY <2>1
    <3>2. /\ Distinct(unacked') /\ ~IsIn(e, unacked')
          /\ \A d : IsIn(d, unacked) <=> d = e \/ IsIn(d, unacked')
      BY <1>2, <2>1, <3>1, DistinctTail, InTail DEF OnceInv, OneMessage
    <3>3. ~IsIn(e, ready)
      BY <3>2 DEF OnceInv, OneMessage
    <3>4. /\ Distinct(ready')
          /\ \A d : IsIn(d, ready') <=> d = e \/ IsIn(d, ready)
      BY <1>2, <2>1, <3>3, DistinctCons, InCons DEF OnceInv, OneMessage
    <3> QED BY <3>2, <3>3, <3>4 DEF OnceInv, OneMessage, Queued
  <2>2. CASE unacked' = unacked /\ ready' = ready
    BY <2>2 DEF OnceInv, OneMessage, Queued, IsIn, Distinct
  <2> QED BY <1>1, <2>1, <2>2
<1>4. NothingAppliedWaits'
  BY <1>1, <1>3, RowsUnchanged DEF OnceInv, NothingAppliedWaits
<1> QED BY <1>1, <1>3, <1>4, QueuesMove

(* The first unacknowledged message is of a transfer that is not applied, so *)
(* the consumer never finds a processed row.                                 *)
LEMMA ConsumerCheckOnce ==
    ASSUME PipelineInv, OnceInv, "query" \notin FaultKinds, ConsumerCheck
    PROVE  OnceInv'
<1> PICK e : e = Head(unacked)
  OBVIOUS
<1>1. con.pc = "idle" /\ conn /\ unacked # <<>> /\ unacked \in Seq(Transfers)
  BY DEF ConsumerCheck, PipelineInv, TypeOK
<1>2. e \in Transfers /\ IsIn(e, unacked)
  BY <1>1, InTail
<1>3. e \in published /\ ~Applied(e)
  BY <1>1, <1>2 DEF OnceInv, PublishedOnce, NothingAppliedWaits, Queued
<1>a. CASE /\ con'.pc \in {"tx", "ack"} /\ con'.msg = e
           /\ con'.pc = "ack" => Applied(e)
           /\ UNCHANGED <<events, ready, unacked, conn, lst, published>>
  <2>1. OneMessage' /\ (\A d : Queued(d)' <=> Queued(d))
    BY <1>a DEF OnceInv, OneMessage, Queued, IsIn, Distinct
  <2>2. NothingAppliedWaits'
    BY <1>1, <1>3, <1>a, <2>1, RowsUnchanged DEF OnceInv, NothingAppliedWaits
  <2> QED BY <1>3, <1>a, <2>1, <2>2, QueuesMove
<1>b. CASE Nack(e)
  BY <1>1, <1>2, <1>b, NackOnce
<1>c. CASE \E r \in RowsOf(e) :
             /\ con' = [pc |-> IF r.processed THEN "ack" ELSE "tx",
                        msg |-> e, row |-> r.id]
             /\ UNCHANGED <<dbVars, clock, mqVars, lst, published>>
  BY <1>a, <1>c DEF Applied, dbVars, mqVars
<1>d. CASE /\ con' = [pc |-> "tx", msg |-> e, row |-> 0]
           /\ UNCHANGED <<dbVars, clock, mqVars, lst, published>>
  BY <1>a, <1>d DEF dbVars, mqVars
<1> QED BY <1>b, <1>c, <1>d DEF ConsumerCheck

LEMMA ConsumerFailOnce ==
    ASSUME PipelineInv, OnceInv, ConsumerFail
    PROVE  OnceInv'
<1>1. con.pc = "tx" /\ Nack(con.msg)
  BY DEF ConsumerFail
<1>2. con.msg \in Transfers
  BY <1>1 DEF PipelineInv, TypeOK
<1>3. conn => unacked # <<>> /\ Head(unacked) = con.msg
  BY <1>1 DEF PipelineInv, ConsumerHoldsItsRow
<1> QED BY <1>1, <1>2, <1>3, NackOnce

LEMMA ConsumerAckOnce ==
    ASSUME PipelineInv, OnceInv, ConsumerAck
    PROVE  OnceInv'
<1>1. /\ con.pc = "ack" /\ con'.pc = "idle"
      /\ unacked' = IF conn THEN Tail(unacked) ELSE unacked
      /\ UNCHANGED <<events, ready, conn, lst, published>>
  BY DEF ConsumerAck, IdleConsumer, dbVars
<1>2. unacked \in Seq(Transfers)
  BY DEF PipelineInv, TypeOK
<1>3. CASE conn
  <2>1. unacked # <<>> /\ Head(unacked) = con.msg /\ unacked' = Tail(unacked)
    BY <1>1, <1>3 DEF PipelineInv, ConsumerHoldsItsRow
  <2>2. /\ Distinct(unacked') /\ ~IsIn(con.msg, unacked')
        /\ \A d : IsIn(d, unacked) <=> d = con.msg \/ IsIn(d, unacked')
    BY <1>2, <2>1, DistinctTail, InTail DEF OnceInv, OneMessage
  <2>3. ~IsIn(con.msg, ready)
    BY <2>2 DEF OnceInv, OneMessage
  <2>4. OneMessage' /\ (\A d : Queued(d)' => Queued(d) /\ d # con.msg)
    BY <1>1, <2>2, <2>3 DEF OnceInv, OneMessage, Queued, IsIn, Distinct
  <2>5. NothingAppliedWaits'
    BY <1>1, <2>4, RowsUnchanged DEF OnceInv, NothingAppliedWaits
  <2> QED BY <1>1, <2>4, <2>5, QueuesMove
<1>4. CASE ~conn
  <2>1. OneMessage' /\ (\A d : Queued(d)' => Queued(d))
    BY <1>1, <1>4 DEF OnceInv, OneMessage, Queued, IsIn, Distinct
  <2>2. NothingAppliedWaits'
    BY <1>1, <1>4 DEF NothingAppliedWaits
  <2> QED BY <1>1, <2>1, <2>2, QueuesMove
<1> QED BY <1>3, <1>4

(* The commit makes the one transfer of its message applied, which was not.  *)
LEMMA CommitApplies ==
    ASSUME PipelineInv, OnceInv, ConsumerCommit,
           NEW e, e = con.msg
    PROVE  /\ ~Applied(e) /\ e \in Transfers
           /\ \A d : Applied(d)' <=> Applied(d) \/ d = e
           /\ \A d : RowsOf(d) # {} => RowsOf(d)' # {}
           /\ AppliedAtMostOnce'
<1>1. con.pc = "tx" /\ ~Applied(e) /\ e \in Transfers
  BY DEF ConsumerCommit, OnceInv, NothingAppliedWaits, PipelineInv, TypeOK
<1>2. \A r \in events : r.processed => r.transfer # e
  BY <1>1 DEF Applied, RowsOf
<1>3. CASE con.row = 0
  <2> DEFINE row == [id |-> clock + 1, transfer |-> e, processed |-> TRUE]
  <2>1. /\ events' = events \union {row}
        /\ row.transfer = e /\ row.processed
    BY <1>3 DEF ConsumerCommit
  <2> HIDE DEF row
  <2> QED BY <1>1, <1>2, <2>1 DEF OnceInv, AppliedAtMostOnce, Applied, RowsOf
<1>4. CASE con.row # 0
  <2>1. PICK old \in events : old.id = con.row /\ old.transfer = e
    BY <1>1, <1>4 DEF PipelineInv, ConsumerHoldsItsRow, RowsOf
  <2>2. PICK new : new = [old EXCEPT !.processed = TRUE]
    OBVIOUS
  <2>3. new.transfer = e /\ new.processed
    BY <2>1, <2>2 DEF PipelineInv, TypeOK, EventRow
  <2>4. \A r \in events : r.id = con.row => r = old
    BY <2>1 DEF PipelineInv, FreshIds
  <2>5. events' = (events \ {old}) \union {new}
    BY <1>4, <2>1, <2>2, <2>4 DEF ConsumerCommit, MarkProcessed
  <2>6. \A d : Applied(d)' <=> Applied(d) \/ d = e
    BY <1>1, <2>1, <2>3, <2>5 DEF Applied, RowsOf
  <2>7. \A d : RowsOf(d) # {} => RowsOf(d)' # {}
    BY <2>1, <2>3, <2>5 DEF RowsOf
  <2>8. AppliedAtMostOnce'
    BY <1>2, <2>1, <2>3, <2>5 DEF OnceInv, AppliedAtMostOnce
  <2> QED BY <1>1, <2>6, <2>7, <2>8
<1> QED BY <1>3, <1>4

LEMMA ConsumerCommitOnce ==
    ASSUME PipelineInv, OnceInv, ConsumerCommit
    PROVE  OnceInv'
<1> PICK e : e = con.msg
  OBVIOUS
<1>1. /\ con.pc = "tx" /\ con'.pc = "ack" /\ con'.msg = e
      /\ UNCHANGED <<ready, unacked, conn, lst, published>>
  BY DEF ConsumerCommit, mqVars, PipelineInv, TypeOK
<1>2. /\ \A d : Applied(d)' <=> Applied(d) \/ d = e
      /\ \A d : RowsOf(d) # {} => RowsOf(d)' # {}
      /\ AppliedAtMostOnce'
  BY CommitApplies
<1>3. OneMessage' /\ (\A d : Queued(d)' <=> Queued(d))
  BY <1>1 DEF OnceInv, OneMessage, Queued, IsIn, Distinct
<1>4. PublishedOnce'
  BY <1>1, <1>2, <1>3 DEF OnceInv, PublishedOnce
<1>5. NothingAppliedWaits'
  BY <1>1, <1>2, <1>3 DEF OnceInv, NothingAppliedWaits
<1> QED BY <1>2, <1>3, <1>4, <1>5 DEF OnceInv

(* Every step but a restart.                                                 *)
RunStep == Listener \/ Consumer \/ Deliver \/ ConnectionLost \/ UNCHANGED vars

LEMMA RunOnce ==
    ASSUME "query" \notin FaultKinds, "create" \notin FaultKinds,
           PipelineInv, OnceInv, RunStep
    PROVE  OnceInv'
<1>1. CASE Listener
  BY <1>1, CheckOnce, PublishOnce, StampOnce, CreateOnce DEF Listener
<1>2. CASE Consumer
  BY <1>2, ConsumerCheckOnce, ConsumerCommitOnce, ConsumerFailOnce,
     ConsumerAckOnce DEF Consumer
<1>3. CASE Deliver \/ ConnectionLost
  BY <1>3, DeliverOnce, LostOnce
<1>4. CASE UNCHANGED vars
  <2>1. UNCHANGED <<events, ready, unacked, conn, lst, con, published>>
    BY <1>4 DEF vars, dbVars, mqVars
  <2>2. OneMessage' /\ (\A d : Queued(d)' <=> Queued(d))
    BY <2>1 DEF OnceInv, OneMessage, Queued, IsIn, Distinct
  <2>3. NothingAppliedWaits'
    BY <2>1, <2>2, RowsUnchanged DEF OnceInv, NothingAppliedWaits
  <2>4. con'.pc # "idle" => con'.msg \in published
    BY <2>1 DEF OnceInv, PublishedOnce
  <2> QED BY <2>1, <2>2, <2>3, <2>4, QueuesMove
<1> QED BY <1>1, <1>2, <1>3, <1>4 DEF RunStep

LEMMA NextOnce ==
    ASSUME FaultKinds \intersect ForgetfulFaults = {},
           PipelineInv, OnceInv, [Next]_vars
    PROVE  RunStep /\ OnceInv'
<1>1. /\ "query" \notin FaultKinds /\ "create" \notin FaultKinds
      /\ "crash" \notin FaultKinds
  BY DEF ForgetfulFaults
<1>2. RunStep
  BY <1>1 DEF RunStep, Next, Restart, Fault
<1> QED BY <1>1, <1>2, RunOnce

(* A call that fails elsewhere in the process, and uses up a fault.          *)
LEMMA FaultElsewhere ==
    ASSUME UNCHANGED <<dbVars, clock, mqVars, lst, con, published>>, faults' \in Nat
    PROVE  /\ PipelineInv => PipelineInv'
           /\ HistorySound => HistorySound'
           /\ OnceInv => OnceInv'
<1>1. UNCHANGED <<events, changes, balance, clock, ready, unacked, conn, lst,
                  con, published>>
  BY DEF dbVars, mqVars
<1>2. (\A e : Applied(e)' <=> Applied(e)) /\ (\A e : RowsOf(e)' = RowsOf(e))
      /\ (\A e : Queued(e)' <=> Queued(e))
  BY <1>1 DEF Applied, RowsOf, Queued, IsIn
<1>3. PipelineInv => PipelineInv'
  <2>1. TypeOK => TypeOK'
    BY <1>1 DEF TypeOK
  <2>2. (FreshIds => FreshIds') /\ (RowPostedIffProcessed => RowPostedIffProcessed')
    BY <1>1 DEF FreshIds, RowPostedIffProcessed
  <2>3. /\ ConsumerHoldsItsRow => ConsumerHoldsItsRow'
        /\ NoMessageLost => NoMessageLost'
    BY <1>1, <1>2 DEF ConsumerHoldsItsRow, NoMessageLost, IsIn
  <2> QED BY <2>1, <2>2, <2>3 DEF PipelineInv
<1>4. HistorySound => HistorySound'
  BY <1>1 DEF HistorySound
<1>5. OnceInv => OnceInv'
  BY <1>1, <1>2 DEF OnceInv, OneMessage, PublishedOnce, NothingAppliedWaits,
     AppliedAtMostOnce, IsIn, Distinct
<1> QED BY <1>3, <1>4, <1>5

(* One transfer is applied once (event_consumer.go:97), for any transfers    *)
(* and users, through refused messages, rollbacks and a lost connection, as  *)
(* long as no fault makes the listener forget what it has published.         *)
THEOREM TransfersAreAppliedOnce ==
    ASSUME FaultKinds \intersect ForgetfulFaults = {}
    PROVE  Spec => []AppliedAtMostOnce
<1>1. PipelineInv /\ OnceInv /\ [Next]_vars => OnceInv'
  BY NextOnce
<1>2. OnceInv => AppliedAtMostOnce
  BY DEF OnceInv
<1> HIDE DEF PipelineInv
<1> QED BY <1>1, <1>2, StartOnce, PipelineInvariant, PTL DEF Spec

-----------------------------------------------------------------------------
(* The refinement.                                                           *)

LEMMA LedgerStart == Init => PostedLedger!Init
<1> SUFFICES ASSUME Init PROVE PostedLedger!Init
  OBVIOUS
<1>1. \A e : ~Applied(e)
  BY DEF Init, Applied, RowsOf
<1> QED BY <1>1 DEF Init, PostedLedger!Init

(* Every step of the pipeline is a posting of the ledger, or none of its     *)
(* business.                                                                 *)
LEMMA LedgerStep ==
    ASSUME PipelineInv, OnceInv, HistorySound, RunStep
    PROVE  [PostedLedger!Next]_<<{e \in Transfers : Applied(e)}, balance>>
<1>1. CASE ConsumerCommit
  <2> PICK e : e = con.msg
    OBVIOUS
  <2>1. ~Applied(e) /\ e \in Transfers /\ \A d : Applied(d)' <=> Applied(d) \/ d = e
    BY <1>1, CommitApplies
  <2>2. balance' = [u \in Users |-> balance[u] + PostedDelta(e, u)]
    <3>1. PICK id, p :
            /\ id \in Nat \ {0}
            /\ p = ProcessBalanceChanges(id, e) /\ balance' = p.balance
      <4>1. clock + 1 \in Nat \ {0} /\ (con.row # 0 => con.row \in Nat \ {0})
        BY DEF PipelineInv, TypeOK
      <4> QED BY <1>1, <4>1 DEF ConsumerCommit
    <3> QED BY <2>1, <3>1, PostingIsSound DEF HistorySound, PipelineInv
  <2>3. {d \in Transfers : Applied(d)}' = {d \in Transfers : Applied(d)} \union {e}
    BY <2>1
  <2> QED BY <2>1, <2>2, <2>3 DEF PostedLedger!Next, PostedLedger!Apply
<1>2. CASE ~ConsumerCommit
  <2>1. balance' = balance
    BY <1>2 DEF RunStep, Listener, Consumer, ListenerCheck, ListenerPublish,
       ListenerStamp, ListenerCreate, Deliver, ConsumerCheck, ConsumerFail,
       ConsumerAck, ConnectionLost, Nack, dbVars, vars
  <2>2. \A e : Applied(e)' <=> Applied(e)
    <3>1. CASE ListenerCreate
      <4> DEFINE new == [id |-> lst.id, transfer |-> lst.transfer,
                         processed |-> FALSE]
      <4>1. ~new.processed /\ (events' = events \/ events' = events \union {new})
        BY <3>1 DEF ListenerCreate
      <4> HIDE DEF new
      <4> QED BY <4>1 DEF Applied, RowsOf
    <3>2. CASE ~ListenerCreate
      <4>1. events' = events
        BY <1>2, <3>2 DEF RunStep, Listener, Consumer, ListenerCheck,
           ListenerPublish, ListenerStamp, Deliver, ConsumerCheck, ConsumerFail,
           ConsumerAck, ConnectionLost, Nack, dbVars, vars
      <4> QED BY <4>1, RowsUnchanged
    <3> QED BY <3>1, <3>2
  <2> QED BY <2>1, <2>2
<1> QED BY <1>1, <1>2

(* The pipeline implements the abstract ledger: the balances come about by   *)
(* posting each transfer at most once, atomically, with the amounts that     *)
(* processBalanceChangesTx posts (event_consumer.go:153-196).                *)
THEOREM PipelineImplementsLedger ==
    ASSUME FaultKinds \intersect ForgetfulFaults = {}
    PROVE  Spec => LedgerSpec
<1>1. PipelineInv /\ OnceInv /\ [Next]_vars => OnceInv'
  BY NextOnce
<1>2. PipelineInv /\ HistorySound /\ [Next]_vars => HistorySound'
  BY HistoryStep
<1>3. PipelineInv /\ OnceInv /\ HistorySound /\ [Next]_vars
        => [PostedLedger!Next]_<<{e \in Transfers : Applied(e)}, balance>>
  BY NextOnce, LedgerStep
<1> HIDE DEF PipelineInv
<1> QED
  BY <1>1, <1>2, <1>3, StartOnce, HistoryStart, LedgerStart, PipelineInvariant, PTL
  DEF Spec, LedgerSpec, PostedLedger!Spec
=============================================================================
