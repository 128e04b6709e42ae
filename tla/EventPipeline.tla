---------------------------- MODULE EventPipeline ----------------------------
(* From a confirmed Transfer event to the balances: the listener's           *)
(* processEvent (services/event_listener.go) publishes the event to RabbitMQ *)
(* and then inserts a row in the events table; the consumer's processMessage *)
(* (services/event_consumer.go) takes the message, looks for that row and    *)
(* posts the balance changes in one database transaction; the client         *)
(* (rabbitmq/rabbitmq.go) acknowledges or requeues the message.              *)
(*                                                                           *)
(* One chain is modelled: rows, changes and balances of two chains share no  *)
(* key.  The database and the broker are durable; what a process restart     *)
(* clears is lst and con.  A listener whose existence check finds a row      *)
(* returns without a step, so events may be offered again at any time (the   *)
(* HTTP poller offers the blocks of its window at every tick).               *)
EXTENDS Integers, Sequences, FiniteSets, FiniteSetsExt

CONSTANTS
    Transfers,     \* Transfer events: [key, from, to, value]
    Users,         \* addresses other than the zero address
    Zero,          \* the zero address, "from" of a mint and "to" of a burn
    None,          \* no event at hand
    FaultKinds,    \* which of the faults below may happen
    MaxFaults      \* how many of them, in total

AllFaults ==
    { "publish",   \* the broker refuses, or loses, a published message
      "query",     \* the SELECT of the idempotency check fails
      "create",    \* the listener's INSERT of the event row fails
      "tx",        \* the consumer fails to load the chain, or rolls back
      "mq",        \* the AMQP connection is lost, or is down at start
      "crash" }    \* the process stops anywhere and is started again

ASSUME TransfersAssumption ==
    /\ Zero \notin Users
    /\ None \notin Transfers
    /\ \A e \in Transfers :
        /\ e.from \in Users \union {Zero}
        /\ e.to \in Users \union {Zero}
        /\ e.from # Zero \/ e.to # Zero      \* OpenZeppelin's _update
        /\ e.value \in Nat

ASSUME FaultsAssumption == FaultKinds \subseteq AllFaults /\ MaxFaults \in Nat

VARIABLES
    events,        \* events table: rows [id, transfer, processed]
    changes,       \* balance_changes table, in insertion order
    balance,       \* user_balances table; a missing row is a balance of 0
    clock,         \* the last ID given out: GenerateID starts with the time
    ready,         \* the queue in the broker: messages not yet delivered
    unacked,       \* messages delivered to the consumer, not acknowledged
    conn,          \* the AMQP channel is open, with its consumer
    lst,           \* the listener goroutine: [pc, transfer, id]
    con,           \* the consumer goroutine: [pc, msg, row]
    faults,        \* faults that may still happen
    published      \* history: the events the broker has accepted

dbVars == <<events, changes, balance>>
mqVars == <<ready, unacked, conn>>
vars == <<dbVars, clock, mqVars, lst, con, faults, published>>

Kinds == {"mint", "burn", "transfer_in", "transfer_out"}

EventRow == [id : Nat \ {0}, transfer : Transfers, processed : BOOLEAN]
BalanceChange == [event : Nat \ {0}, user : Users, amount : Int,
                  before : Int, after : Int, kind : Kinds]

TypeOK ==
    /\ events \subseteq EventRow
    /\ changes \in Seq(BalanceChange)
    /\ balance \in [Users -> Int]
    /\ clock \in Nat
    /\ ready \in Seq(Transfers)
    /\ unacked \in Seq(Transfers)
    /\ conn \in BOOLEAN
    /\ lst \in [pc : {"idle", "publish", "stamp", "create"},
                transfer : Transfers \union {None}, id : Nat]
    /\ lst.pc # "idle" => lst.transfer # None
    /\ con \in [pc : {"idle", "tx", "ack"},
                msg : Transfers \union {None}, row : Nat]
    /\ con.pc # "idle" => con.msg # None
    /\ faults \in Nat
    /\ published \subseteq Transfers

IdleListener == [pc |-> "idle", transfer |-> None, id |-> 0]
IdleConsumer == [pc |-> "idle", msg |-> None, row |-> 0]

(* NewClient connects once, declares the exchange and the queue, and gives   *)
(* up; without it main starts no consumer and the listener publishes nothing.*)
Connects == IF "mq" \in FaultKinds THEN BOOLEAN ELSE {TRUE}

Init ==
    /\ events = {}
    /\ changes = <<>>
    /\ balance = [u \in Users |-> 0]
    /\ clock = 0
    /\ ready = <<>>
    /\ unacked = <<>>
    /\ conn \in Connects
    /\ lst = IdleListener
    /\ con = IdleConsumer
    /\ faults = MaxFaults
    /\ published = {}

(* The faults: each one uses up the budget.                                  *)
Fault(kind) ==
    /\ kind \in FaultKinds
    /\ faults > 0
    /\ faults' = faults - 1

NoFault == UNCHANGED faults

RowsOf(e) == {r \in events : r.transfer = e}

(* ".First(&existingEvent)" orders the rows by their primary key.            *)
IsFirstRow(r, e) == r \in RowsOf(e) /\ \A s \in RowsOf(e) : r.id <= s.id

-----------------------------------------------------------------------------
(* The listener: processEvent                                                *)

(* Faulty variant: every event is published, whether it has a row or not.    *)
ListenerCheckNothing(e) ==
    /\ lst.pc = "idle"
    /\ lst' = [pc |-> "publish", transfer |-> e, id |-> 0]
    /\ UNCHANGED <<dbVars, clock, mqVars, con, published, faults>>

(* The idempotency check reads the events table.  Any error, and not only    *)
(* "record not found", is taken for a new event.                             *)
ListenerCheck(e) ==
    /\ lst.pc = "idle"
    /\ \/ RowsOf(e) = {} /\ NoFault
       \/ RowsOf(e) # {} /\ Fault("query")
    /\ lst' = [pc |-> "publish", transfer |-> e, id |-> 0]
    /\ UNCHANGED <<dbVars, clock, mqVars, con, published>>

(* PublishEvent: no publisher confirm, a failure is logged and ignored.      *)
ListenerPublish ==
    /\ lst.pc = "publish"
    /\ \/ /\ conn
          /\ ready' = Append(ready, lst.transfer)
          /\ published' = published \union {lst.transfer}
          /\ NoFault
       \/ /\ ~conn
          /\ UNCHANGED <<ready, published, faults>>
       \/ /\ conn /\ Fault("publish")
          /\ UNCHANGED <<ready, published>>
    /\ lst' = [lst EXCEPT !.pc = "stamp"]
    /\ UNCHANGED <<dbVars, clock, unacked, conn, con>>

(* Faulty variant: the ID is generated but not stored in the row.            *)
ListenerStampNoId ==
    /\ lst.pc = "stamp"
    /\ clock' = clock + 1
    /\ lst' = [lst EXCEPT !.pc = "create"]
    /\ UNCHANGED <<dbVars, mqVars, con, faults, published>>

(* utils.GenerateID for the row the listener is about to insert.             *)
ListenerStamp ==
    /\ lst.pc = "stamp"
    /\ clock' = clock + 1
    /\ lst' = [lst EXCEPT !.pc = "create", !.id = clock + 1]
    /\ UNCHANGED <<dbVars, mqVars, con, faults, published>>

(* database.DB.Create: the table has no unique index on the event's key.     *)
ListenerCreate ==
    /\ lst.pc = "create"
    /\ \/ /\ events' = events \union
                 {[id |-> lst.id, transfer |-> lst.transfer, processed |-> FALSE]}
          /\ NoFault
       \/ Fault("create") /\ UNCHANGED events
    /\ lst' = IdleListener
    /\ UNCHANGED <<changes, balance, clock, mqVars, con, published>>

-----------------------------------------------------------------------------
(* The broker and the AMQP client                                            *)

(* Without a prefetch limit the broker pushes every ready message.           *)
Deliver ==
    /\ conn /\ ready # <<>>
    /\ unacked' = Append(unacked, Head(ready))
    /\ ready' = Tail(ready)
    /\ UNCHANGED <<dbVars, clock, conn, lst, con, faults, published>>

(* Faulty variant: msg.Nack(false, false), which drops the message.          *)
NackDrop(msg) ==
    /\ con' = IdleConsumer
    /\ unacked' = IF conn THEN Tail(unacked) ELSE unacked
    /\ UNCHANGED <<dbVars, clock, ready, conn, lst, published>>

(* msg.Nack(false, true): back to its place in the queue, which is ahead of  *)
(* what is still ready and behind what has been delivered in the meantime.   *)
Nack(msg) ==
    /\ con' = IdleConsumer
    /\ IF conn
       THEN unacked' = Tail(unacked) /\ ready' = <<msg>> \o ready
       ELSE UNCHANGED <<unacked, ready>>
    /\ UNCHANGED <<dbVars, clock, conn, lst, published>>

(* The channel closes: unacknowledged messages return to the queue.  Nothing *)
(* reconnects; a handler that is running goes on, but cannot acknowledge.    *)
ConnectionLost ==
    /\ conn /\ Fault("mq")
    /\ conn' = FALSE
    /\ ready' = unacked \o ready
    /\ unacked' = <<>>
    /\ UNCHANGED <<dbVars, clock, lst, con, published>>

(* Faulty variant: with automatic acknowledgement a crash loses what has     *)
(* been delivered.                                                           *)
RestartAutoAck ==
    /\ Fault("crash")
    /\ lst' = IdleListener /\ con' = IdleConsumer
    /\ conn' \in Connects
    /\ unacked' = <<>>
    /\ UNCHANGED <<dbVars, clock, ready, published>>

(* The process stops between any two steps and is started again: by a crash, *)
(* or by main's shutdown, which closes the connection and exits while a      *)
(* handler may still be running.                                             *)
Restart ==
    /\ Fault("crash")
    /\ lst' = IdleListener
    /\ con' = IdleConsumer
    /\ conn' \in Connects
    /\ ready' = unacked \o ready
    /\ unacked' = <<>>
    /\ UNCHANGED <<dbVars, clock, published>>

-----------------------------------------------------------------------------
(* The consumer: processMessage and processBalanceChangesTx                  *)

(* The check for an event that is already processed, outside the             *)
(* transaction.  con.row is the row it found, 0 if it found none.            *)
ConsumerCheck ==
    /\ con.pc = "idle" /\ conn /\ unacked # <<>>
    /\ LET e == Head(unacked) IN
        \/ /\ RowsOf(e) = {} /\ NoFault
           /\ con' = [pc |-> "tx", msg |-> e, row |-> 0]
           /\ UNCHANGED <<dbVars, clock, mqVars, lst, published>>
        \/ /\ NoFault
           /\ \E r \in RowsOf(e) :
                /\ IsFirstRow(r, e)
                /\ con' = [pc |-> IF r.processed THEN "ack" ELSE "tx",
                           msg |-> e, row |-> r.id]
           /\ UNCHANGED <<dbVars, clock, mqVars, lst, published>>
        \/ /\ RowsOf(e) # {} /\ Fault("query")
           /\ con' = [pc |-> "tx", msg |-> e, row |-> 0]
           /\ UNCHANGED <<dbVars, clock, mqVars, lst, published>>
        \/ Fault("tx") /\ Nack(e)

(* Faulty variants: the sum is computed in place, over balanceBefore; the    *)
(* balance is read outside the transaction.                                  *)
UpdateInPlace(s, event, user, amount, kind) ==
    LET after == s.balance[user] + amount IN
    [balance |-> [s.balance EXCEPT ![user] = after],
     changes |-> Append(s.changes,
        [event |-> event, user |-> user, amount |-> amount,
         before |-> after, after |-> after, kind |-> kind])]

UpdateOutsideTx(s, event, user, amount, kind) ==
    LET after == balance[user] + amount IN
    [balance |-> [s.balance EXCEPT ![user] = after],
     changes |-> Append(s.changes,
        [event |-> event, user |-> user, amount |-> amount,
         before |-> balance[user], after |-> after, kind |-> kind])]

(* updateUserBalanceTx: one balance_changes row, and the user's balance.     *)
(* s is the pair of tables as the transaction sees them.                     *)
UpdateUserBalance(s, event, user, amount, kind) ==
    LET after == s.balance[user] + amount IN
    [balance |-> [s.balance EXCEPT ![user] = after],
     changes |-> Append(s.changes,
        [event |-> event, user |-> user, amount |-> amount,
         before |-> s.balance[user], after |-> after, kind |-> kind])]

(* The giving side, or the receiver of a mint, first; then the receiving     *)
(* side, or the burner.                                                      *)
ProcessFrom(s, event, e) ==
    IF e.from # Zero
    THEN UpdateUserBalance(s, event, e.from, -e.value, "transfer_out")
    ELSE UpdateUserBalance(s, event, e.to, e.value, "mint")

ProcessTo(s, event, e) ==
    CASE e.to # Zero /\ e.from # Zero ->
            UpdateUserBalance(s, event, e.to, e.value, "transfer_in")
      [] e.to = Zero ->
            UpdateUserBalance(s, event, e.from, -e.value, "burn")
      [] OTHER -> s

ProcessBalanceChanges(event, e) ==
    ProcessTo(ProcessFrom([balance |-> balance, changes |-> changes], event, e),
              event, e)

(* Faulty variant: the row is left unprocessed.                              *)
MarkNothing(id) == events

(* Update("is_processed", true) on the row the check found.                  *)
MarkProcessed(id) ==
    {IF r.id = id THEN [r EXCEPT !.processed = TRUE] ELSE r : r \in events}

(* The transaction: insert a processed row, or flip the one the check found, *)
(* and post the balance changes.                                             *)
ConsumerCommit ==
    /\ con.pc = "tx"
    /\ LET id == IF con.row = 0 THEN clock + 1 ELSE con.row
           post == ProcessBalanceChanges(id, con.msg)
       IN  /\ IF con.row = 0
              THEN /\ events' = events \union
                        {[id |-> id, transfer |-> con.msg, processed |-> TRUE]}
                   /\ clock' = id
              ELSE /\ events' = MarkProcessed(id)
                   /\ UNCHANGED clock
           /\ balance' = post.balance
           /\ changes' = post.changes
    /\ con' = [con EXCEPT !.pc = "ack"]
    /\ UNCHANGED <<mqVars, lst, faults, published>>

(* The transaction rolls back and the message is requeued.                   *)
ConsumerFail ==
    /\ con.pc = "tx" /\ Fault("tx")
    /\ Nack(con.msg)

(* msg.Ack: without the channel it fails, and its error is not looked at.    *)
ConsumerAck ==
    /\ con.pc = "ack"
    /\ unacked' = IF conn THEN Tail(unacked) ELSE unacked
    /\ con' = IdleConsumer
    /\ UNCHANGED <<dbVars, clock, ready, conn, lst, faults, published>>

-----------------------------------------------------------------------------
Listener == \/ \E e \in Transfers : ListenerCheck(e)
            \/ ListenerPublish \/ ListenerStamp \/ ListenerCreate
Consumer == ConsumerCheck \/ ConsumerCommit \/ ConsumerFail \/ ConsumerAck

Next == Listener \/ Deliver \/ Consumer \/ ConnectionLost \/ Restart

Spec == Init /\ [][Next]_vars

(* Goroutines are scheduled and the broker delivers.  Nothing makes the      *)
(* chain offer an event, and nothing makes a fault happen.                   *)
Fairness ==
    /\ WF_vars(ListenerPublish \/ ListenerStamp \/ ListenerCreate)
    /\ WF_vars(Deliver)
    /\ WF_vars(Consumer)

FairSpec == Spec /\ Fairness

-----------------------------------------------------------------------------
(* Properties                                                                *)

Applied(e) == \E r \in RowsOf(e) : r.processed

(* A row of the events table is marked processed exactly when its balance    *)
(* changes are in the table, and no row is ever posted twice, whatever       *)
(* fails between the check of processMessage and its transaction.            *)
RowPostedIffProcessed ==
    /\ \A r \in events :
        r.processed <=> \E i \in DOMAIN changes : changes[i].event = r.id
    /\ \A i, j \in DOMAIN changes :
        changes[i].event = changes[j].event /\ changes[i].kind = changes[j].kind
            => i = j

(* The balance_changes of a user form an unbroken chain from 0 to the        *)
(* balance in user_balances, though messages are redelivered and reordered:  *)
(* what RebuildUserBalance and the points calculator rely on.                *)
LastOf(u, i, n) ==
    /\ i \in 1..n /\ changes[i].user = u
    /\ \A k \in (i + 1)..n : changes[k].user # u

BalanceAt(u, n) ==
    IF \E i \in 1..n : changes[i].user = u
    THEN changes[CHOOSE i \in 1..n : LastOf(u, i, n)].after
    ELSE 0

HistoryExplainsBalance ==
    /\ \A i \in DOMAIN changes :
        /\ changes[i].before = BalanceAt(changes[i].user, i - 1)
        /\ changes[i].after = changes[i].before + changes[i].amount
    /\ \A u \in Users : balance[u] = BalanceAt(u, Len(changes))

(* An event the broker has accepted is applied, or its message is still in   *)
(* the queue or unacknowledged: acknowledging after the commit loses         *)
(* nothing, whatever is lost, refused or restarted.                          *)
IsIn(e, queue) == \E i \in DOMAIN queue : queue[i] = e

NoMessageLost ==
    \A e \in published : Applied(e) \/ IsIn(e, unacked) \/ IsIn(e, ready)

(* What makes the three invariants above inductive: IDs are never given out  *)
(* twice, the row the consumer is about to flip is still unprocessed, and    *)
(* the message it is about to acknowledge is the first unacknowledged one.   *)
FreshIds ==
    /\ \A r, s \in events : r.id = s.id => r = s
    /\ \A r \in events : r.id <= clock
    /\ \A i \in DOMAIN changes : changes[i].event <= clock
    /\ lst.pc = "create" =>
        /\ lst.id \in 1..clock
        /\ \A r \in events : r.id # lst.id
        /\ \A i \in DOMAIN changes : changes[i].event # lst.id

ConsumerHoldsItsRow ==
    /\ con.pc = "tx" /\ con.row # 0 =>
        \E r \in RowsOf(con.msg) : r.id = con.row /\ ~r.processed
    /\ con.pc = "ack" => Applied(con.msg)
    /\ con.pc # "idle" /\ conn => unacked # <<>> /\ Head(unacked) = con.msg

PipelineInv ==
    TypeOK /\ FreshIds /\ ConsumerHoldsItsRow
    /\ RowPostedIffProcessed /\ NoMessageLost

(* processMessage checks "whether the event is already processed             *)
(* (idempotency)", event_consumer.go:97: one transfer is applied once.       *)
AppliedAtMostOnce ==
    \A r, s \in events :
        r.processed /\ s.processed /\ r.transfer = s.transfer => r = s

(* The pipeline implements the ledger that posts every event at most once,   *)
(* atomically, with the postings processBalanceChangesTx makes.              *)
PostedDelta(e, u) ==
      (IF u = e.from THEN -e.value ELSE 0)
    + (IF u = e.to THEN e.value ELSE 0)
    + (IF e.to = Zero /\ u = e.from THEN -e.value ELSE 0)

PostedLedger == INSTANCE Ledger WITH
    Delta <- PostedDelta, applied <- {e \in Transfers : Applied(e)}

LedgerSpec == PostedLedger!Spec

(* The balances are those of the ERC-20 contract after the applied events:   *)
(* burn(x) takes x from the caller, as test_MyToken_new.ts:113-121 expects.  *)
ContractDelta(e, u) ==
    (IF u = e.from THEN -e.value ELSE 0) + (IF u = e.to THEN e.value ELSE 0)

BalanceMirrorsContract ==
    \A u \in Users :
        balance[u] = MapThenSumSet(LAMBDA e : ContractDelta(e, u),
                                   {e \in Transfers : Applied(e)})

(* An event the broker accepted is applied in the end, through crashes,      *)
(* failed queries and rolled back transactions, if the last connection made  *)
(* stays: nothing but a restart makes another.                               *)
PublishedIsApplied ==
    []<>conn => \A e \in Transfers : e \in published ~> Applied(e)
=============================================================================
