--------------------------- MODULE BalanceRebuild ---------------------------
(* POST /api/balances/:address/rebuild (RebuildUserBalance in                *)
(* controllers/balance_controller.go) beside the event consumer: both write  *)
(* the user's row of user_balances.  One user on one chain; the consumer     *)
(* handles one message at a time, in a transaction, the request runs outside *)
(* of any.                                                                   *)
(*                                                                           *)
(* The user's row is the one the consumer has created, or a second one: a    *)
(* request whose lookup fails creates it, with an empty ID.  First, which    *)
(* orders by the primary key, finds that one ever after.                     *)
EXTENDS Integers, Sequences

CONSTANTS
    Requests,      \* the requests, each served by a goroutine
    Amounts,       \* amounts of the user's balance changes
    MaxChanges,    \* bound on the balance changes
    MaxTime        \* bound on the timestamps (seconds: time.Unix)

ASSUME RebuildAssumption ==
    /\ Amounts \subseteq Int
    /\ MaxChanges \in Nat /\ MaxTime \in Nat

VARIABLES
    changes,   \* balance_changes of the user, as committed: [ts, amount, after]
    balance,   \* in the user's own row of user_balances; no row is a 0
    blank,     \* the row with the empty ID: [there, balance]
    con,       \* the consumer's transaction: [pc, ts, amount, before, row]
    req,       \* each request: [pc, after]
    overlapped \* history: a request and a message were served together

vars == <<changes, balance, blank, con, req, overlapped>>

IdleConsumer ==
    [pc |-> "idle", ts |-> 0, amount |-> 0, before |-> 0, row |-> "own"]

TypeOK ==
    /\ changes \in Seq([ts : 1..MaxTime, amount : Amounts, after : Int])
    /\ Len(changes) <= MaxChanges
    /\ balance \in Int
    /\ blank \in [there : BOOLEAN, balance : Int]
    /\ con \in [pc : {"idle", "tx"}, ts : 0..MaxTime,
                amount : Amounts \union {0}, before : Int, row : {"own", "blank"}]
    /\ req \in [Requests ->
                [pc : {"idle", "find", "create", "own", "blank", "done"},
                 after : Int]]
    /\ overlapped \in BOOLEAN

Init ==
    /\ changes = <<>> /\ balance = 0
    /\ blank = [there |-> FALSE, balance |-> 0]
    /\ con = IdleConsumer
    /\ req = [r \in Requests |-> [pc |-> "idle", after |-> 0]]
    /\ overlapped = FALSE

(* First: the row with the empty ID comes before every other.                *)
FirstRow == IF blank.there THEN "blank" ELSE "own"
Current == IF blank.there THEN blank.balance ELSE balance

Served(r) == req[r].pc \notin {"idle", "done"}

(* What the user holds according to the events.                              *)
Sum(s) ==
    LET sum[n \in 0..Len(s)] == IF n = 0 THEN 0 ELSE sum[n - 1] + s[n].amount
    IN  sum[Len(s)]

Held == Sum(changes)

-----------------------------------------------------------------------------
(* Faulty variant: the time of the event does not get into the change.       *)
ConsumerReadUntimed ==
    /\ con.pc = "idle" /\ Len(changes) < MaxChanges
    /\ \E a \in Amounts :
        con' = [pc |-> "tx", ts |-> 0, amount |-> a, before |-> Current,
                row |-> FirstRow]
    /\ UNCHANGED <<changes, balance, blank, req, overlapped>>

(* updateUserBalanceTx: the balance is read without a lock ...               *)
ConsumerRead ==
    /\ con.pc = "idle" /\ Len(changes) < MaxChanges
    /\ \E ts \in 1..MaxTime, a \in Amounts :
        con' = [pc |-> "tx", ts |-> ts, amount |-> a, before |-> Current,
                row |-> FirstRow]
    /\ overlapped' = (overlapped \/ \E r \in Requests : Served(r))
    /\ UNCHANGED <<changes, balance, blank, req>>

(* ... and the change and the new balance are committed, in the row that was *)
(* read.  gorm refuses to update a row whose key is empty, and then only     *)
(* ConsumerRollback is left; what is said of the balance does not rest on it.*)
ConsumerCommit ==
    /\ con.pc = "tx"
    /\ LET after == con.before + con.amount IN
       /\ changes' = Append(changes,
                [ts |-> con.ts, amount |-> con.amount, after |-> after])
       /\ IF con.row = "own"
          THEN balance' = after /\ UNCHANGED blank
          ELSE blank' = [blank EXCEPT !.balance = after] /\ UNCHANGED balance
    /\ con' = IdleConsumer
    /\ UNCHANGED <<req, overlapped>>

(* A statement fails, or the process stops: the transaction rolls back.      *)
ConsumerRollback ==
    /\ con.pc = "tx"
    /\ con' = IdleConsumer
    /\ UNCHANGED <<changes, balance, blank, req, overlapped>>

-----------------------------------------------------------------------------
(* Faulty variants: the first record is taken; the change's amount is taken. *)
FirstRecord(i) == \A j \in DOMAIN changes : changes[i].ts <= changes[j].ts

AmountOf(i) == changes[i].amount

(* "ORDER BY timestamp ASC", and the last record: of equal timestamps the    *)
(* database may return any last.                                             *)
LastRecord(i) == \A j \in DOMAIN changes : changes[j].ts <= changes[i].ts

BalanceOf(i) == changes[i].after

(* The request reads the changes; without any it has nothing to do.          *)
RebuildRead(r) ==
    /\ req[r].pc = "idle"
    /\ overlapped' = (overlapped \/ con.pc = "tx")
    /\ IF changes = <<>>
       THEN req' = [req EXCEPT ![r].pc = "done"]
       ELSE \E i \in DOMAIN changes :
              /\ LastRecord(i)
              /\ req' = [req EXCEPT ![r] =
                    [pc |-> "find", after |-> BalanceOf(i)]]
    /\ UNCHANGED <<changes, balance, blank, con>>

(* A row is there, for the transaction that committed the changes wrote it;  *)
(* First finds it, or fails, which counts as "no row".                       *)
RebuildFind(r) ==
    /\ req[r].pc = "find"
    /\ \E found \in {FirstRow, "create"} : req' = [req EXCEPT ![r].pc = found]
    /\ UNCHANGED <<changes, balance, blank, con, overlapped>>

(* The row is overwritten, or stays: nobody looks at the error of the update,*)
(* and gorm refuses the one of a row whose key is empty.                     *)
RebuildUpdate(r) ==
    /\ req[r].pc \in {"own", "blank"}
    /\ \/ req[r].pc = "own" /\ balance' = req[r].after /\ UNCHANGED blank
       \/ /\ req[r].pc = "blank"
          /\ blank' = [blank EXCEPT !.balance = req[r].after]
          /\ UNCHANGED balance
       \/ UNCHANGED <<balance, blank>>
    /\ req' = [req EXCEPT ![r].pc = "done"]
    /\ UNCHANGED <<changes, con, overlapped>>

(* The row with ID "" is created, if there is none in the table, of this     *)
(* user or of another, and nothing else fails; nobody looks at the error.    *)
RebuildCreate(r) ==
    /\ req[r].pc = "create"
    /\ \/ ~blank.there /\ blank' = [there |-> TRUE, balance |-> req[r].after]
       \/ UNCHANGED blank
    /\ req' = [req EXCEPT ![r].pc = "done"]
    /\ UNCHANGED <<changes, balance, con, overlapped>>

Consumer == ConsumerRead \/ ConsumerCommit \/ ConsumerRollback
Rebuild(r) ==
    RebuildRead(r) \/ RebuildFind(r) \/ RebuildUpdate(r) \/ RebuildCreate(r)

Next == Consumer \/ \E r \in Requests : Rebuild(r)

Spec == Init /\ [][Next]_vars

-----------------------------------------------------------------------------
(* Properties                                                                *)

(* The balance of each row is always one that the history of the user holds, *)
(* also when requests overlap with messages and with each other: a rebuild   *)
(* can bring back an old balance, never one that never was.                  *)
BalanceWasHeld ==
    {balance, blank.balance} \subseteq
        {0} \union {changes[i].after : i \in DOMAIN changes}

(* A request takes "the balance of the last record"                          *)
(* (balance_controller.go:294).  It does, and the balance that the service   *)
(* finds is the sum of all changes, if no request was served beside a message*)
(* and every change came in a later second than the one before: neither is   *)
(* sure, and a rebuild then loses changes.  It is also the balance of the    *)
(* user's own row, unless a request has put a second one before it: the own  *)
(* row then stays as it is.                                                  *)
InTimeOrder ==
    \A i, j \in DOMAIN changes : i < j => changes[i].ts < changes[j].ts

BalanceIsLast == ~overlapped /\ InTimeOrder => Current = Held
=============================================================================
