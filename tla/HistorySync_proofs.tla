------------------------- MODULE HistorySync_proofs -------------------------
(* Proof that the history sync skips no block, for any number of callers and *)
(* any configuration, faults and requests.                                   *)
EXTENDS HistorySync, TLAPS

(* What a caller's record is, and the one way to change it.                  *)
CallerState ==
    [pc : {"idle", "head", "create", "mark", "query", "unmark", "process"},
     own : BOOLEAN, busy : BOOLEAN, from : Int, to : Int]

(* SyncInv, stated for one caller's record s.                                *)
CallerOK(s) ==
    /\ s \in CallerState
    /\ s.own /\ ~misplaced => s.from >= 0
    /\ s.pc = "idle" => ~s.own
    /\ s.own => row.made
    /\ s.own /\ ~misplaced => \A b \in owed : b >= s.from
    /\ s.pc \in {"mark", "query", "process"} => s.from <= s.to + 1
    /\ s.pc = "process" => s.from >= 0

RowOK ==
    /\ row \in [made : BOOLEAN, last : Int, syncing : BOOLEAN]
    /\ row.made /\ ~misplaced => row.last >= -1
    /\ row.made /\ ~misplaced => \A b \in owed : b > row.last

RestOK ==
    /\ head \in 0..MaxHeight
    /\ recorded \subseteq Nat
    /\ req \in {"idle", "insert", "update"}
    /\ faults \in Nat /\ resets \in Nat
    /\ owed \subseteq Nat
    /\ misplaced \in BOOLEAN /\ orphaned \in BOOLEAN
    /\ sync \in [Callers -> CallerState]

SyncParts == RowOK /\ RestOK /\ \A c \in Callers : CallerOK(sync[c])

LEMMA SyncInvParts == SyncInv <=> SyncParts
<1>1. ASSUME SyncInv
      PROVE  RowOK /\ RestOK /\ \A c \in Callers : CallerOK(sync[c])
  BY <1>1 DEF SyncInv, TypeOK, NoBlockSkipped, BatchCoversOwed, RowOK, RestOK,
              CallerOK, CallerState
<1>2. ASSUME RowOK, RestOK, \A c \in Callers : CallerOK(sync[c])
      PROVE  SyncInv
  BY <1>2 DEF SyncInv, TypeOK, NoBlockSkipped, BatchCoversOwed, RowOK, RestOK,
              CallerOK, CallerState
<1> QED BY <1>1, <1>2 DEF SyncParts

LEMMA FaultsStay ==
    ASSUME faults \in Nat, NEW k, Fault(k) \/ NoFault
    PROVE  faults' \in Nat
<1>1. CASE NoFault
  BY <1>1 DEF NoFault
<1>2. CASE Fault(k)
  BY <1>2 DEF Fault
<1> QED BY <1>1, <1>2

(* A step of caller c that changes only its record, to s, keeps the rest.    *)
LEMMA OneCaller ==
    ASSUME RowOK, RestOK, \A d \in Callers : CallerOK(sync[d]),
           NEW c \in Callers, NEW s, CallerOK(s),
           sync' = [sync EXCEPT ![c] = s],
           UNCHANGED <<row, owed, misplaced>>
    PROVE  /\ sync' \in [Callers -> CallerState]
           /\ \A d \in Callers : CallerOK(sync[d])'
           /\ RowOK'
<1>1. s \in CallerState
  BY DEF CallerOK
<1>2. sync' \in [Callers -> CallerState]
  BY <1>1 DEF RestOK
<1>3. ASSUME NEW d \in Callers PROVE CallerOK(sync[d])'
  <2>1. sync'[d] = IF d = c THEN s ELSE sync[d]
    BY DEF RestOK
  <2>2. CallerOK(sync'[d])
    BY <2>1, <1>3
  <2> QED BY <2>2 DEF CallerOK
<1>4. RowOK'
  BY DEF RowOK
<1> QED BY <1>2, <1>3, <1>4

(* An idle caller's record is in order, whatever the table holds.            *)
LEMMA IdleOK == CallerOK(Idle)
BY DEF CallerOK, CallerState, Idle

LEMMA InitSync == Init => SyncInv
<1> SUFFICES ASSUME Init PROVE RowOK /\ RestOK /\ \A c \in Callers : CallerOK(sync[c])
  BY SyncInvParts DEF SyncParts
<1>1. RowOK
  BY DEF Init, RowOK
<1>2. Idle \in CallerState
  BY DEF Idle, CallerState
<1>3. RestOK
  <2>1. sync = [c \in Callers |-> Idle]
    BY DEF Init
  <2>2. sync \in [Callers -> CallerState]
    BY <1>2, <2>1
  <2>3. /\ head = 0 /\ recorded = {} /\ owed = {} /\ req = "idle"
        /\ faults = MaxFaults /\ resets = MaxResets
        /\ misplaced = FALSE /\ orphaned = FALSE
    BY DEF Init
  <2>5. 0 \in 0..MaxHeight /\ MaxFaults \in Nat /\ MaxResets \in Nat
    BY SyncAssumption
  <2> QED BY <2>2, <2>3, <2>5 DEF RestOK
<1>4. ASSUME NEW c \in Callers PROVE CallerOK(sync[c])
  BY <1>4, IdleOK DEF Init
<1> QED BY <1>1, <1>3, <1>4

(* A record that has moved on to p, field by field.                          *)
LEMMA Moved ==
    ASSUME NEW r \in CallerState, NEW p
    PROVE  [r EXCEPT !.pc = p] = [pc |-> p, own |-> r.own, busy |-> r.busy,
                                  from |-> r.from, to |-> r.to]
BY DEF CallerState

(* The steps of a call that leave the table and the history alone.           *)
LEMMA ReadStateStep ==
    ASSUME RowOK, RestOK, \A d \in Callers : CallerOK(sync[d]),
           NEW c \in Callers, ReadState(c)
    PROVE  (RowOK /\ RestOK /\ \A d \in Callers : CallerOK(sync[d]))'
<1>1. faults' \in Nat
  BY FaultsStay DEF ReadState, RestOK
<1> DEFINE found == [pc |-> "head", own |-> TRUE, busy |-> row.syncing,
                     from |-> NextBlock, to |-> 0]
           missing == [pc |-> "head", own |-> FALSE, busy |-> FALSE,
                       from |-> 0, to |-> 0]
<1>2. CASE row.made /\ sync' = [sync EXCEPT ![c] = found]
  <2>1. NextBlock \in Int /\ (~misplaced => NextBlock >= 0)
    BY <1>2 DEF NextBlock, RowOK
  <2>2. ~misplaced => \A b \in owed : b >= NextBlock
    BY <1>2 DEF NextBlock, RowOK, RestOK
  <2>3. CallerOK(found)
    BY <1>2, <2>1, <2>2 DEF CallerOK, CallerState, RowOK
  <2> QED BY <1>1, <1>2, <2>3, OneCaller DEF ReadState, RestOK
<1>3. CASE sync' = [sync EXCEPT ![c] = missing]
  <2>1. CallerOK(missing)
    BY DEF CallerOK, CallerState
  <2> QED BY <1>1, <1>3, <2>1, OneCaller DEF ReadState, RestOK
<1> QED BY <1>2, <1>3 DEF ReadState

LEMMA ReadHeadStep ==
    ASSUME RowOK, RestOK, \A d \in Callers : CallerOK(sync[d]),
           NEW c \in Callers, ReadHead(c)
    PROVE  (RowOK /\ RestOK /\ \A d \in Callers : CallerOK(sync[d]))'
<1>1. faults' \in Nat
  BY FaultsStay DEF ReadHead, RestOK
<1>2. CallerOK(sync[c]) /\ SafeBlock \in Int
  BY SyncAssumption DEF SafeBlock, RestOK
<1> DEFINE create == [pc |-> "create", own |-> FALSE, busy |-> FALSE,
                      from |-> 0, to |-> SafeBlock]
           mark == [pc |-> "mark", own |-> TRUE, busy |-> FALSE,
                    from |-> sync[c].from, to |-> SafeBlock]
<1>3. CASE sync' = [sync EXCEPT ![c] = Idle]
  BY <1>1, <1>3, IdleOK, OneCaller DEF ReadHead, RestOK
<1>4. CASE sync' = [sync EXCEPT ![c] = create]
  <2>1. CallerOK(create)
    BY <1>2 DEF CallerOK, CallerState
  <2> QED BY <1>1, <1>4, <2>1, OneCaller DEF ReadHead, RestOK
<1>5. CASE /\ sync[c].own /\ ~NothingNew(sync[c].from, SafeBlock)
           /\ sync' = [sync EXCEPT ![c] = mark]
  <2>1. sync[c].from <= SafeBlock
    BY <1>2, <1>5 DEF NothingNew, CallerOK, CallerState
  <2>2. CallerOK(mark)
    BY <1>2, <1>5, <2>1 DEF CallerOK, CallerState
  <2> QED BY <1>1, <1>5, <2>2, OneCaller DEF ReadHead, RestOK
<1> QED BY <1>3, <1>4, <1>5 DEF ReadHead

(* After a query a call has its range to go through, from where the node     *)
(* answered, or has the flag to clear.                                       *)
Queried(r, s) ==
    /\ s \in CallerState /\ s.own = r.own /\ s.to = r.to
    /\ \/ s.pc = "unmark" /\ s.from = r.from
       \/ s.pc = "process" /\ s.from = r.from /\ r.from >= 0
       \/ s.pc = "process" /\ r.from < 0 /\ s.from >= 0 /\ s.from <= r.to + 1

LEMMA QueryRecord ==
    ASSUME sync \in [Callers -> CallerState], NEW c \in Callers, Query(c)
    PROVE  \E s : sync' = [sync EXCEPT ![c] = s] /\ Queried(sync[c], s)
<1>1. sync[c] \in CallerState
  OBVIOUS
<1>2. CASE sync' = [sync EXCEPT ![c].pc = "unmark"]
  <2> DEFINE s == [sync[c] EXCEPT !.pc = "unmark"]
  <2>1. Queried(sync[c], s)
    BY <1>1, Moved DEF Queried, CallerState
  <2> QED BY <1>2, <2>1
<1>3. CASE sync[c].from >= 0 /\ sync' = [sync EXCEPT ![c].pc = "process"]
  <2> DEFINE s == [sync[c] EXCEPT !.pc = "process"]
  <2>1. Queried(sync[c], s)
    BY <1>1, <1>3, Moved DEF Queried, CallerState
  <2> QED BY <1>3, <2>1
<1>4. CASE /\ sync[c].from < 0
           /\ \E first \in 0..(sync[c].to + 1) :
                sync' = [sync EXCEPT ![c] =
                    [pc |-> "process", own |-> sync[c].own, busy |-> FALSE,
                     from |-> first, to |-> sync[c].to]]
  <2> DEFINE answer(first) ==
                [pc |-> "process", own |-> sync[c].own, busy |-> FALSE,
                 from |-> first, to |-> sync[c].to]
  <2>1. PICK first \in 0..(sync[c].to + 1) :
            sync' = [sync EXCEPT ![c] = answer(first)]
    BY <1>4
  <2>2. Queried(sync[c], answer(first))
    BY <1>1, <1>4, <2>1 DEF Queried, CallerState
  <2> HIDE DEF answer
  <2> QED BY <2>1, <2>2
<1>5. Answered(c) \/ sync' = [sync EXCEPT ![c].pc = "unmark"]
  BY DEF Query
<1> QED BY <1>2, <1>3, <1>4, <1>5 DEF Answered

LEMMA QueryStep ==
    ASSUME RowOK, RestOK, \A d \in Callers : CallerOK(sync[d]),
           NEW c \in Callers, Query(c)
    PROVE  (RowOK /\ RestOK /\ \A d \in Callers : CallerOK(sync[d]))'
<1>1. faults' \in Nat
  <2>1. Fault("node") \/ NoFault
    BY DEF Query, Answered, Unanswered
  <2> QED BY <2>1, FaultsStay DEF RestOK
<1>2. CallerOK(sync[c]) /\ sync[c].pc = "query"
  BY DEF Query
<1>3. PICK s : sync' = [sync EXCEPT ![c] = s] /\ Queried(sync[c], s)
  BY QueryRecord DEF RestOK
<1>4. CallerOK(s)
  BY <1>2, <1>3 DEF CallerOK, CallerState, Queried
<1> QED BY <1>1, <1>3, <1>4, OneCaller DEF Query, RestOK

LEMMA ProcessEventStep ==
    ASSUME RowOK, RestOK, \A d \in Callers : CallerOK(sync[d]),
           NEW c \in Callers, ProcessEvent(c)
    PROVE  (RowOK /\ RestOK /\ \A d \in Callers : CallerOK(sync[d]))'
<1>1. faults' \in Nat
  BY FaultsStay DEF ProcessEvent, RestOK
<1>2. /\ CallerOK(sync[c]) /\ sync[c].pc = "process"
      /\ sync[c].from <= sync[c].to
      /\ owed' = owed \ {sync[c].from}
      /\ UNCHANGED <<head, row, req, resets, misplaced, orphaned>>
  BY DEF ProcessEvent
<1> DEFINE next == [pc |-> "process", own |-> sync[c].own,
                    busy |-> sync[c].busy, from |-> sync[c].from + 1,
                    to |-> sync[c].to]
<1>3. sync' = [sync EXCEPT ![c] = next]
  <2>1. sync[c] \in CallerState
    BY <1>2 DEF CallerOK
  <2>2. [sync[c] EXCEPT !.from = @ + 1] = next
    BY <1>2, <2>1 DEF CallerState
  <2> QED BY <2>2 DEF ProcessEvent
<1>4. recorded' \subseteq Nat
  <2>1. sync[c].from \in Nat
    BY <1>2 DEF CallerOK, CallerState
  <2> QED BY <2>1 DEF ProcessEvent, RestOK
<1>5. PICK s : /\ sync' = [sync EXCEPT ![c] = s]
               /\ s = [pc |-> "process", own |-> sync[c].own,
                       busy |-> sync[c].busy, from |-> sync[c].from + 1,
                       to |-> sync[c].to]
  BY <1>3
<1>6. s \in CallerState
  BY <1>2, <1>5 DEF CallerOK, CallerState
<1>7. CallerOK(s)'
  <2>1. s.own /\ ~misplaced => \A b \in owed' : b >= s.from
    BY <1>2, <1>5 DEF CallerOK, CallerState, RestOK
  <2> QED BY <1>2, <1>5, <1>6, <2>1 DEF CallerOK, CallerState
<1>8. ASSUME NEW d \in Callers PROVE CallerOK(sync[d])'
  <2>1. sync'[d] = IF d = c THEN s ELSE sync[d]
    BY <1>5 DEF RestOK
  <2>2. CASE d = c
    BY <1>7, <2>1, <2>2 DEF CallerOK
  <2>3. CASE d # c
    BY <1>2, <2>1, <2>3 DEF CallerOK
  <2> QED BY <2>2, <2>3
<1>9. sync' \in [Callers -> CallerState]
  BY <1>5, <1>6 DEF RestOK
<1>10. RowOK'
  BY <1>2 DEF RowOK
<1> QED BY <1>1, <1>2, <1>4, <1>8, <1>9, <1>10 DEF RestOK

(* The steps of a call that change the row.                                  *)
LEMMA MarkStep ==
    ASSUME RowOK, RestOK, \A d \in Callers : CallerOK(sync[d]),
           NEW c \in Callers, Mark(c)
    PROVE  (RowOK /\ RestOK /\ \A d \in Callers : CallerOK(sync[d]))'
<1>1. faults' \in Nat
  BY FaultsStay DEF Mark, RestOK
<1>2. CallerOK(sync[c]) /\ sync[c].pc = "mark"
  BY DEF Mark
<1> DEFINE end == BatchEnd(sync[c].from, sync[c].to)
           query == [pc |-> "query", own |-> sync[c].own, busy |-> FALSE,
                     from |-> sync[c].from, to |-> end]
<1>3. sync' = [sync EXCEPT ![c] = query]
  BY DEF Mark
<1>4. end \in Int /\ sync[c].from <= end + 1
  BY <1>2, SyncAssumption DEF BatchEnd, CallerOK, CallerState
<1>5. CallerOK(query)
  <2> HIDE DEF end
  <2> QED BY <1>2, <1>4 DEF CallerOK, CallerState
<1>6. /\ row'.made = row.made /\ row'.last = row.last
      /\ row' \in [made : BOOLEAN, last : Int, syncing : BOOLEAN]
  <2>1. sync[c].own \in BOOLEAN
    BY <1>2 DEF CallerOK, CallerState
  <2> QED BY <2>1 DEF Mark, RowOK
<1> HIDE DEF query
<1>7. ASSUME NEW d \in Callers PROVE CallerOK(sync[d])'
  <2>1. sync'[d] = IF d = c THEN query ELSE sync[d]
    BY <1>3 DEF RestOK
  <2>2. CallerOK(sync'[d])
    BY <1>5, <2>1
  <2> QED BY <1>6, <2>2 DEF CallerOK, Mark
<1>8. sync' \in [Callers -> CallerState]
  BY <1>3, <1>5 DEF RestOK, CallerOK
<1>9. RowOK'
  BY <1>6 DEF RowOK, Mark
<1> QED BY <1>1, <1>7, <1>8, <1>9 DEF RestOK, Mark

(* A call that ends, leaving row.made and the history as they are.           *)
LEMMA CallEnds ==
    ASSUME RowOK, RestOK, \A d \in Callers : CallerOK(sync[d]),
           NEW c \in Callers, sync' = [sync EXCEPT ![c] = Idle],
           row'.made = row.made, UNCHANGED <<owed, misplaced>>
    PROVE  /\ sync' \in [Callers -> CallerState]
           /\ \A d \in Callers : CallerOK(sync[d])'
<1>1. CallerOK(Idle)
  BY IdleOK
<1>2. sync' \in [Callers -> CallerState]
  BY <1>1 DEF RestOK, CallerOK
<1>3. ASSUME NEW d \in Callers PROVE CallerOK(sync[d])'
  <2>1. sync'[d] = IF d = c THEN Idle ELSE sync[d]
    BY DEF RestOK
  <2>2. CallerOK(sync'[d])
    BY <1>1, <2>1
  <2> QED BY <2>2 DEF CallerOK
<1> QED BY <1>2, <1>3

LEMMA UnmarkStep ==
    ASSUME RowOK, RestOK, \A d \in Callers : CallerOK(sync[d]),
           NEW c \in Callers, Unmark(c)
    PROVE  (RowOK /\ RestOK /\ \A d \in Callers : CallerOK(sync[d]))'
<1>1. faults' \in Nat
  BY FaultsStay DEF Unmark, RestOK
<1>2. orphaned' \in BOOLEAN
  BY DEF Unmark, RestOK
<1>3. sync[c].own \in BOOLEAN
  BY DEF CallerOK, CallerState
<1>4. /\ row'.made = row.made /\ row'.last = row.last
      /\ row' \in [made : BOOLEAN, last : Int, syncing : BOOLEAN]
  BY <1>3 DEF Unmark, RowOK
<1>5. /\ sync' \in [Callers -> CallerState]
      /\ \A d \in Callers : CallerOK(sync[d])'
  BY <1>4, CallEnds DEF Unmark
<1>6. RowOK'
  BY <1>4 DEF RowOK, Unmark
<1> QED BY <1>1, <1>2, <1>5, <1>6 DEF RestOK, Unmark

LEMMA FinishStep ==
    ASSUME RowOK, RestOK, \A d \in Callers : CallerOK(sync[d]),
           NEW c \in Callers, Finish(c)
    PROVE  (RowOK /\ RestOK /\ \A d \in Callers : CallerOK(sync[d]))'
<1>1. faults' \in Nat
  BY FaultsStay DEF Finish, RestOK
<1>2. orphaned' \in BOOLEAN
  BY DEF Finish, RestOK
<1>3. /\ CallerOK(sync[c]) /\ sync[c].pc = "process"
      /\ sync[c].from > sync[c].to
  BY DEF Finish
<1>4. sync[c].to \in Int /\ sync[c].to >= -1
  BY <1>3 DEF CallerOK, CallerState
<1>5. sync[c].own /\ ~misplaced => \A b \in owed : b > sync[c].to
  BY <1>3 DEF CallerOK, CallerState, RestOK
<1>6. \/ row' = row
      \/ /\ sync[c].own
         /\ row' = [row EXCEPT !.last = sync[c].to, !.syncing = FALSE]
  BY DEF Finish
<1>7. row'.made = row.made /\ RowOK'
  <2>1. CASE row' = row
    BY <2>1 DEF Finish, RowOK
  <2>2. CASE /\ sync[c].own
             /\ row' = [row EXCEPT !.last = sync[c].to, !.syncing = FALSE]
    <3>1. row' = [made |-> row.made, last |-> sync[c].to, syncing |-> FALSE]
      BY <2>2 DEF RowOK
    <3> QED BY <1>4, <1>5, <2>2, <3>1 DEF Finish, RowOK
  <2> QED BY <1>6, <2>1, <2>2
<1>8. /\ sync' \in [Callers -> CallerState]
      /\ \A d \in Callers : CallerOK(sync[d])'
  BY <1>7, CallEnds DEF Finish
<1> QED BY <1>1, <1>2, <1>7, <1>8 DEF RestOK, Finish

(* The first sync: while there is no row, no caller holds it, so the history *)
(* may begin anew under the others.                                          *)
LEMMA CreateStateStep ==
    ASSUME RowOK, RestOK, \A d \in Callers : CallerOK(sync[d]),
           NEW c \in Callers, CreateState(c)
    PROVE  (RowOK /\ RestOK /\ \A d \in Callers : CallerOK(sync[d]))'
<1>1. PICK first \in FirstBlocks :
        /\ \/ /\ ~row.made /\ NoFault
              /\ row' = [made |-> TRUE, last |-> MarkBefore(first),
                         syncing |-> FALSE]
              /\ owed' = first..MaxHeight
           \/ /\ \/ row.made /\ NoFault
                 \/ ~row.made /\ Fault("write")
              /\ UNCHANGED <<row, owed>>
        /\ sync' = [sync EXCEPT ![c] =
              IF NothingNew(first, sync[c].to) THEN Idle
              ELSE [pc |-> "mark", own |-> row'.made /\ ~row.made,
                    busy |-> FALSE, from |-> first, to |-> sync[c].to]]
  BY DEF CreateState
<1>2. first \in Nat
  BY SyncAssumption DEF FirstBlocks
<1>3. faults' \in Nat
  BY <1>1, FaultsStay DEF RestOK
<1>4. UNCHANGED <<head, recorded, req, resets, misplaced, orphaned>>
  BY DEF CreateState
<1>5. /\ RowOK' /\ owed' \subseteq Nat
      /\ row'.made \in BOOLEAN
      /\ \/ ~row.made /\ owed' = first..MaxHeight
         \/ row'.made = row.made /\ owed' = owed
  <2>1. CASE /\ ~row.made
             /\ row' = [made |-> TRUE, last |-> MarkBefore(first),
                        syncing |-> FALSE]
             /\ owed' = first..MaxHeight
    <3>1. /\ row'.made = TRUE /\ row'.last = first - 1
          /\ row' \in [made : BOOLEAN, last : Int, syncing : BOOLEAN]
      BY <1>2, <2>1 DEF MarkBefore
    <3>2. \A b \in owed' : b \in Nat /\ b > row'.last
      BY <1>2, <2>1, <3>1, SyncAssumption
    <3>3. row'.last >= -1
      BY <1>2, <3>1
    <3>4. RowOK'
      BY <3>1, <3>2, <3>3 DEF RowOK
    <3>5. owed' \subseteq Nat /\ row'.made \in BOOLEAN
      BY <3>1, <3>2
    <3> QED BY <2>1, <3>4, <3>5
  <2>2. CASE UNCHANGED <<row, owed>>
    BY <1>4, <2>2 DEF RowOK, RestOK
  <2> QED BY <1>1, <2>1, <2>2
<1>6. PICK s : /\ sync' = [sync EXCEPT ![c] = s]
               /\ \/ s = Idle
                  \/ /\ first <= sync[c].to
                     /\ s = [pc |-> "mark", own |-> row'.made /\ ~row.made,
                             busy |-> FALSE, from |-> first, to |-> sync[c].to]
  <2>1. sync[c].to \in Int
    BY DEF CallerOK, CallerState
  <2>2. NothingNew(first, sync[c].to) \/ first <= sync[c].to
    BY <1>2, <2>1 DEF NothingNew
  <2> QED BY <1>1, <2>2
<1>7. s \in CallerState /\ CallerOK(s)'
  <2>1. CASE s = Idle
    <3>1. /\ s \in CallerState /\ s.from = 0 /\ s.own = FALSE
          /\ s.pc = "idle"
      BY <2>1 DEF Idle, CallerState
    <3> QED BY <3>1 DEF CallerOK
  <2>2. CASE /\ first <= sync[c].to
             /\ s = [pc |-> "mark", own |-> row'.made /\ ~row.made,
                     busy |-> FALSE, from |-> first, to |-> sync[c].to]
    <3>1. sync[c].to \in Int /\ row.made \in BOOLEAN
      BY DEF CallerOK, CallerState, RowOK
    <3>2. s.own => row'.made /\ owed' = first..MaxHeight
      BY <1>5, <2>2
    <3>3. /\ s \in CallerState /\ s.from = first /\ s.to = sync[c].to
          /\ s.pc = "mark"
      BY <1>2, <1>5, <2>2, <3>1 DEF CallerState
    <3>4. s.own => \A b \in owed' : b >= s.from
      BY <1>2, <3>2, <3>3, SyncAssumption
    <3>5. s.from >= 0 /\ s.from <= s.to + 1
      BY <1>2, <2>2, <3>1, <3>3
    <3> QED BY <3>2, <3>3, <3>4, <3>5 DEF CallerOK
  <2> QED BY <1>6, <2>1, <2>2
<1>8. ASSUME NEW d \in Callers PROVE CallerOK(sync[d])'
  <2>1. sync'[d] = IF d = c THEN s ELSE sync[d]
    BY <1>6 DEF RestOK
  <2>2. CASE d = c
    BY <1>7, <2>1, <2>2 DEF CallerOK
  <2>3. CASE d # c
    BY <1>4, <1>5, <2>1, <2>3 DEF CallerOK
  <2> QED BY <2>2, <2>3
<1>9. sync' \in [Callers -> CallerState]
  BY <1>6, <1>7 DEF RestOK
<1> QED BY <1>3, <1>4, <1>5, <1>8, <1>9 DEF RestOK

(* What is owed from block b on lies after the mark before it.               *)
LEMMA FromIsLater ==
    ASSUME NEW b \in Int
    PROVE  From(b) \subseteq Nat /\ \A n \in From(b) : n > b - 1
BY SyncAssumption DEF From

(* A reset that finds no batch under way makes the history begin anew; one   *)
(* that finds a batch is the case NoBlockSkipped leaves out.                 *)
LEMMA ResetUpdateStep ==
    ASSUME RowOK, RestOK, \A d \in Callers : CallerOK(sync[d]),
           NEW b \in ResetBlocks, ResetUpdate(b)
    PROVE  (RowOK /\ RestOK /\ \A d \in Callers : CallerOK(sync[d]))'
<1>1. faults' \in Nat
  BY FaultsStay DEF ResetUpdate, RestOK
<1>2. b \in Int /\ req' = "idle"
  BY SyncAssumption DEF ResetUpdate
<1>3. UNCHANGED <<head, sync, recorded, resets>>
  BY DEF ResetUpdate
<1>4. CASE /\ row' = [row EXCEPT !.last = MarkBefore(b), !.syncing = FALSE]
           /\ owed' = From(b)
           /\ misplaced' = (b < 0 \/ \E c \in Callers : sync[c].pc # "idle")
           /\ orphaned' = FALSE
  <2>1. row' = [made |-> row.made, last |-> b - 1, syncing |-> FALSE]
    BY <1>4 DEF RowOK, MarkBefore
  <2>2. owed' \subseteq Nat /\ \A n \in owed' : n > b - 1
    BY <1>2, <1>4, FromIsLater
  <2>3. RowOK'
    <3>1. row' \in [made : BOOLEAN, last : Int, syncing : BOOLEAN]
      BY <1>2, <2>1 DEF RowOK
    <3>2. row'.last = b - 1
      BY <2>1
    <3>3. ~misplaced' => b >= 0
      <4>1. b < 0 => misplaced'
        BY <1>4, Zenon
      <4> QED BY <1>2, <4>1
    <3> QED BY <1>2, <2>2, <3>1, <3>2, <3>3 DEF RowOK
  <2>4. ASSUME NEW d \in Callers PROVE CallerOK(sync[d])'
    <3>1. CallerOK(sync[d]) /\ sync'[d] = sync[d] /\ row'.made = row.made
      BY <1>3, <2>1
    <3>2. ~misplaced' => ~sync[d].own
      BY <1>4, <2>4, <3>1 DEF CallerOK
    <3> QED BY <3>1, <3>2 DEF CallerOK
  <2>5. misplaced' \in BOOLEAN
    BY <1>4
  <2> QED BY <1>1, <1>2, <1>3, <1>4, <2>2, <2>3, <2>4, <2>5 DEF RestOK
<1>5. CASE UNCHANGED <<row, owed, misplaced, orphaned>>
  BY <1>1, <1>2, <1>3, <1>5 DEF RestOK, RowOK, CallerOK
<1> QED BY <1>4, <1>5 DEF ResetUpdate

(* A reset that makes the row: no caller holds one while there is none.      *)
LEMMA ResetInsertStep ==
    ASSUME RowOK, RestOK, \A d \in Callers : CallerOK(sync[d]),
           NEW b \in ResetBlocks, ResetInsert(b)
    PROVE  (RowOK /\ RestOK /\ \A d \in Callers : CallerOK(sync[d]))'
<1>1. b \in Int /\ req' = "idle"
  BY SyncAssumption DEF ResetInsert
<1>2. UNCHANGED <<head, sync, recorded, faults, resets, orphaned>>
  BY DEF ResetInsert
<1>3. CASE /\ ~row.made
           /\ row' = [made |-> TRUE, last |-> MarkBefore(b), syncing |-> FALSE]
           /\ owed' = From(b)
           /\ misplaced' = (b < 0)
  <2>1. row' = [made |-> TRUE, last |-> b - 1, syncing |-> FALSE]
    BY <1>3 DEF MarkBefore
  <2>2. owed' \subseteq Nat /\ \A n \in owed' : n > b - 1
    BY <1>1, <1>3, FromIsLater
  <2>3. RowOK'
    <3>1. row' \in [made : BOOLEAN, last : Int, syncing : BOOLEAN]
      BY <1>1, <2>1 DEF RowOK
    <3>2. row'.last = b - 1
      BY <2>1
    <3>3. ~misplaced' => b >= 0
      <4>1. b < 0 => misplaced'
        BY <1>3, Zenon
      <4> QED BY <1>1, <4>1
    <3> QED BY <1>1, <2>2, <3>1, <3>2, <3>3 DEF RowOK
  <2>4. ASSUME NEW d \in Callers PROVE CallerOK(sync[d])'
    <3>1. CallerOK(sync[d]) /\ sync'[d] = sync[d] /\ ~sync[d].own
      BY <1>2, <1>3 DEF CallerOK
    <3> QED BY <3>1 DEF CallerOK
  <2>5. misplaced' \in BOOLEAN
    BY <1>3
  <2> QED BY <1>1, <1>2, <2>2, <2>3, <2>4, <2>5 DEF RestOK
<1>4. CASE UNCHANGED <<row, owed, misplaced>>
  BY <1>1, <1>2, <1>4 DEF RestOK, RowOK, CallerOK
<1> QED BY <1>3, <1>4 DEF ResetInsert

LEMMA RequestStep ==
    ASSUME RowOK, RestOK, \A d \in Callers : CallerOK(sync[d]), RequestReset
    PROVE  (RowOK /\ RestOK /\ \A d \in Callers : CallerOK(sync[d]))'
<1>1. faults' \in Nat
  BY FaultsStay DEF RequestReset, RestOK
<1>2. req' \in {"insert", "update"} /\ resets' \in Nat
  BY DEF RequestReset, RestOK
<1>3. UNCHANGED <<head, row, sync, recorded, owed, misplaced, orphaned>>
  BY DEF RequestReset
<1> QED BY <1>1, <1>2, <1>3 DEF RestOK, RowOK, CallerOK

LEMMA OtherSteps ==
    ASSUME RowOK, RestOK, \A d \in Callers : CallerOK(sync[d]),
           Mine \/ Crash \/ UNCHANGED vars
    PROVE  (RowOK /\ RestOK /\ \A d \in Callers : CallerOK(sync[d]))'
<1>1. CASE Mine
  <2>1. head' \in 0..MaxHeight
    BY <1>1, SyncAssumption DEF Mine, RestOK
  <2> QED BY <1>1, <2>1 DEF Mine, RestOK, RowOK, CallerOK
<1>3. CASE Crash
  <2>1. faults' \in Nat
    BY <1>3, FaultsStay DEF Crash, RestOK
  <2>2. req' = "idle"
    BY <1>3 DEF Crash
  <2>3. orphaned' \in BOOLEAN
    BY <1>3 DEF Crash, RestOK, RowOK
  <2>4. UNCHANGED <<head, row, recorded, resets, owed, misplaced>>
    BY <1>3 DEF Crash
  <2>5. sync' = [c \in Callers |-> Idle]
    BY <1>3 DEF Crash
  <2>6. CallerOK(Idle)
    BY IdleOK
  <2>7. sync' \in [Callers -> CallerState]
    BY <2>5, <2>6 DEF CallerOK
  <2>8. ASSUME NEW d \in Callers PROVE CallerOK(sync[d])'
    <3>1. CallerOK(sync'[d])
      BY <2>5, <2>6
    <3> QED BY <2>4, <3>1 DEF CallerOK
  <2> QED BY <2>1, <2>2, <2>3, <2>4, <2>7, <2>8 DEF RestOK, RowOK
<1>4. CASE UNCHANGED vars
  BY <1>4 DEF vars, RestOK, RowOK, CallerOK
<1> QED BY <1>1, <1>3, <1>4

LEMMA StepParts == SyncParts /\ [Next]_vars => SyncParts'
<1> SUFFICES ASSUME SyncParts, [Next]_vars PROVE SyncParts'
  OBVIOUS
<1>1. RowOK /\ RestOK /\ \A d \in Callers : CallerOK(sync[d])
  BY DEF SyncParts
<1>2. ASSUME NEW c \in Callers, ReadState(c) \/ Continue(c) PROVE SyncParts'
  <2>1. CASE ReadState(c)
    BY <1>1, <2>1, ReadStateStep DEF SyncParts
  <2>2. CASE ReadHead(c)
    BY <1>1, <2>2, ReadHeadStep DEF SyncParts
  <2>3. CASE CreateState(c)
    BY <1>1, <2>3, CreateStateStep DEF SyncParts
  <2>4. CASE Mark(c)
    BY <1>1, <2>4, MarkStep DEF SyncParts
  <2>5. CASE Query(c)
    BY <1>1, <2>5, QueryStep DEF SyncParts
  <2>6. CASE Unmark(c)
    BY <1>1, <2>6, UnmarkStep DEF SyncParts
  <2>7. CASE ProcessEvent(c)
    BY <1>1, <2>7, ProcessEventStep DEF SyncParts
  <2>8. CASE Finish(c)
    BY <1>1, <2>8, FinishStep DEF SyncParts
  <2> QED BY <1>2, <2>1, <2>2, <2>3, <2>4, <2>5, <2>6, <2>7, <2>8 DEF Continue
<1>3. CASE SyncChain
  <2>1. CASE RequestReset
    BY <1>1, <2>1, RequestStep DEF SyncParts
  <2>2. ASSUME NEW b \in ResetBlocks, ResetUpdate(b) PROVE SyncParts'
    BY <1>1, <2>2, ResetUpdateStep DEF SyncParts
  <2>3. ASSUME NEW b \in ResetBlocks, ResetInsert(b) PROVE SyncParts'
    BY <1>1, <2>3, ResetInsertStep DEF SyncParts
  <2> QED BY <1>3, <2>1, <2>2, <2>3 DEF SyncChain
<1>4. CASE Mine \/ Crash \/ UNCHANGED vars
  BY <1>1, <1>4, OtherSteps DEF SyncParts
<1> QED BY <1>2, <1>3, <1>4 DEF Next

(* The table, the callers and the requests keep their types, the mark never  *)
(* passes a block that is owed, and every batch of the row covers what is    *)
(* owed before it (processChainEvents, event_listener.go:202-296).           *)
THEOREM SyncInvariant == Spec => []SyncInv
<1>1. Init => SyncInv
  BY InitSync
<1>2. SyncInv /\ [Next]_vars => SyncInv'
  BY SyncInvParts, StepParts, PTL
<1> QED BY <1>1, <1>2, PTL DEF Spec

(* What the mark in the table never claims: a block whose event has not been *)
(* offered, for any number of callers, size of batch and faults              *)
(* (event_listener.go:289).                                                  *)
THEOREM BlocksAreNotSkipped == Spec => []NoBlockSkipped
<1>1. SyncInv => NoBlockSkipped
  BY DEF SyncInv
<1> QED BY <1>1, SyncInvariant, PTL

(* The sync's tables, callers and requests keep their types.                 *)
THEOREM SyncTypes == Spec => []TypeOK
<1>1. SyncInv => TypeOK
  BY DEF SyncInv
<1> QED BY <1>1, SyncInvariant, PTL

-----------------------------------------------------------------------------
(* What is offered has its confirmations.                                    *)

(* The end of a batch under way is a block that was safe when it was read.   *)
EndOK(s) ==
    s.pc \in {"create", "mark", "query", "process"} => s.to + Confirmations <= head

EndsAreSafe == \A c \in Callers : EndOK(sync[c])

LEMMA EndStep ==
    ASSUME TypeOK, EndsAreSafe, NEW c \in Callers, NEW s,
           sync' = [sync EXCEPT ![c] = s], head' = head, EndOK(s)
    PROVE  EndsAreSafe'
<1> SUFFICES ASSUME NEW d \in Callers PROVE EndOK(sync[d])'
  BY DEF EndsAreSafe
<1>1. sync'[d] = IF d = c THEN s ELSE sync[d]
  BY DEF TypeOK
<1>2. EndOK(sync'[d])
  BY <1>1 DEF EndsAreSafe
<1> QED BY <1>2 DEF EndOK

LEMMA EndsStaySafe ==
    ASSUME SyncInv, EndsAreSafe, [Next]_vars
    PROVE  EndsAreSafe'
<1>1. /\ TypeOK /\ head \in Int
      /\ \A c \in Callers : sync[c].from \in Int /\ sync[c].to \in Int
  BY DEF SyncInv, TypeOK
<1>a. ASSUME NEW c \in Callers, ReadState(c) \/ Continue(c)
      PROVE  EndsAreSafe'
  <2>1. sync[c].pc \in {"create", "mark", "query", "process"}
            => sync[c].to + Confirmations <= head
    BY DEF EndsAreSafe, EndOK
  <2>2. EndOK(Idle)
    BY DEF EndOK, Idle
  <2>3. CASE ReadState(c)
    <3>1. PICK s : sync' = [sync EXCEPT ![c] = s] /\ s.pc = "head" /\ head' = head
      BY <2>3 DEF ReadState
    <3> QED BY <1>1, <3>1, EndStep DEF EndOK
  <2>4. CASE ReadHead(c)
    <3>1. SafeBlock + Confirmations <= head
      BY <1>1, SyncAssumption DEF SafeBlock
    <3>2. PICK s : /\ sync' = [sync EXCEPT ![c] = s] /\ head' = head
                   /\ s = Idle \/ s.to = SafeBlock
      BY <2>4 DEF ReadHead
    <3>3. EndOK(s)
      BY <2>2, <3>1, <3>2 DEF EndOK
    <3> QED BY <1>1, <3>2, <3>3, EndStep
  <2>5. CASE CreateState(c)
    <3>1. sync[c].to + Confirmations <= head
      BY <2>1, <2>5 DEF CreateState
    <3>2. PICK s : /\ sync' = [sync EXCEPT ![c] = s] /\ head' = head
                   /\ s = Idle \/ s.to = sync[c].to
      BY <2>5 DEF CreateState
    <3>3. EndOK(s)
      BY <2>2, <3>1, <3>2 DEF EndOK
    <3> QED BY <1>1, <3>2, <3>3, EndStep
  <2>6. CASE Mark(c)
    <3>1. sync[c].to + Confirmations <= head
      BY <2>1, <2>6 DEF Mark
    <3>2. BatchEnd(sync[c].from, sync[c].to) + Confirmations <= head
      BY <1>1, <3>1, SyncAssumption DEF BatchEnd
    <3> DEFINE s == [pc |-> "query", own |-> sync[c].own, busy |-> FALSE,
                     from |-> sync[c].from,
                     to |-> BatchEnd(sync[c].from, sync[c].to)]
    <3>3. sync' = [sync EXCEPT ![c] = s] /\ head' = head
      BY <2>6 DEF Mark
    <3>4. EndOK(s)
      BY <3>2 DEF EndOK
    <3> HIDE DEF s
    <3> QED BY <1>1, <3>3, <3>4, EndStep
  <2>7. CASE Query(c) \/ ProcessEvent(c)
    <3>1. sync[c].to + Confirmations <= head
      BY <2>1, <2>7 DEF Query, ProcessEvent
    <3>2. PICK s : /\ sync' = [sync EXCEPT ![c] = s] /\ head' = head
                   /\ s.to = sync[c].to
      <4>1. sync[c] \in [pc : {"idle", "head", "create", "mark", "query",
                              "unmark", "process"},
                         own : BOOLEAN, busy : BOOLEAN, from : Int, to : Int]
        BY DEF SyncInv, TypeOK
      <4>2. CASE Query(c)
        <5>1. sync \in [Callers -> CallerState]
          BY DEF SyncInv, TypeOK, CallerState
        <5> QED BY <4>2, <5>1, QueryRecord DEF Query, Queried
      <4>3. CASE ProcessEvent(c)
        <5> DEFINE t == [sync[c] EXCEPT !.from = @ + 1]
        <5>1. sync' = [sync EXCEPT ![c] = t] /\ head' = head
          BY <4>3 DEF ProcessEvent
        <5>2. t.to = sync[c].to
          BY <4>1
        <5> HIDE DEF t
        <5> QED BY <5>1, <5>2
      <4> QED BY <2>7, <4>2, <4>3
    <3>3. EndOK(s)
      BY <3>1, <3>2 DEF EndOK
    <3> QED BY <1>1, <3>2, <3>3, EndStep
  <2>8. CASE Unmark(c) \/ Finish(c)
    BY <1>1, <2>2, <2>8, EndStep DEF Unmark, Finish
  <2> QED BY <1>a, <2>3, <2>4, <2>5, <2>6, <2>7, <2>8 DEF Continue
<1>b. CASE Mine
  BY <1>1, <1>b, SyncAssumption DEF Mine, EndsAreSafe, EndOK
<1>c. CASE SyncChain \/ UNCHANGED vars
  BY <1>c DEF SyncChain, RequestReset, ResetUpdate, ResetInsert, vars,
     EndsAreSafe, EndOK
<1>d. CASE Crash
  BY <1>d DEF Crash, EndsAreSafe, EndOK, Idle
<1> QED BY <1>a, <1>b, <1>c, <1>d DEF Next

LEMMA OfferedStep ==
    ASSUME SyncInv, EndsAreSafe, OfferedIsConfirmed, [Next]_vars
    PROVE  OfferedIsConfirmed'
<1>1. head \in Int /\ head' \in Int /\ head' >= head /\ recorded \subseteq Nat
  <2>1. head \in Int /\ recorded \subseteq Nat
    BY DEF SyncInv, TypeOK
  <2>2. head' = head + 1 \/ head' = head
    BY DEF Next, Mine, SyncChain, RequestReset, ResetUpdate, ResetInsert, Crash,
       ReadState, Continue, ReadHead, CreateState, Mark, Query, Unmark,
       ProcessEvent, Finish, vars
  <2> QED BY <2>1, <2>2
<1>2. CASE \E c \in Callers : ProcessEvent(c)
  <2>1. PICK c \in Callers : ProcessEvent(c)
    BY <1>2
  <2>2. /\ sync[c].from \in Int /\ sync[c].to \in Int
        /\ sync[c].from <= sync[c].to
        /\ sync[c].to + Confirmations <= head
    BY <2>1 DEF ProcessEvent, EndsAreSafe, EndOK, SyncInv, TypeOK
  <2>3. recorded' \subseteq recorded \union {sync[c].from} /\ head' = head
    BY <2>1 DEF ProcessEvent
  <2> QED BY <1>1, <2>2, <2>3, SyncAssumption DEF OfferedIsConfirmed
<1>3. CASE UNCHANGED recorded
  BY <1>1, <1>3, SyncAssumption DEF OfferedIsConfirmed
<1>4. UNCHANGED recorded \/ \E c \in Callers : ProcessEvent(c)
  BY DEF Next, Mine, SyncChain, RequestReset, ResetUpdate,
     ResetInsert, Crash, ReadState, Continue, ReadHead, CreateState, Mark,
     Query, Unmark, Finish, vars
<1> QED BY <1>2, <1>3, <1>4

(* No block is offered before it has its confirmations (event_listener.go:   *)
(* 220, 267), whenever the height was read and however long the batch takes. *)
THEOREM OfferedBlocksAreConfirmed == Spec => []OfferedIsConfirmed
<1>1. SyncInv /\ EndsAreSafe /\ [Next]_vars => EndsAreSafe'
  BY EndsStaySafe
<1>2. SyncInv /\ EndsAreSafe /\ OfferedIsConfirmed /\ [Next]_vars
        => OfferedIsConfirmed'
  BY OfferedStep
<1>3. Init => EndsAreSafe /\ OfferedIsConfirmed
  BY DEF Init, EndsAreSafe, EndOK, OfferedIsConfirmed, Idle
<1> QED BY <1>1, <1>2, <1>3, SyncInvariant, PTL DEF Spec
=============================================================================
