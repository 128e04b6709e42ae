----------------------------- MODULE HistorySync -----------------------------
(* The catch-up over old blocks: processChainEvents                          *)
(* (services/event_listener.go) takes one batch of blocks after the last     *)
(* synced one, offers their events to processEvent and moves the mark in the *)
(* sync_states table; the request SyncChain (controllers/chain_controller.go)*)
(* sets the mark back.  Nothing in the repository calls processChainEvents   *)
(* at this commit: Callers are goroutines that may call it at any time, as   *)
(* a ticker per chain would, and nothing makes them do so.                   *)
(*                                                                           *)
(* One chain; every block holds one event, named by the block.  The event's  *)
(* way through processEvent is EventPipeline; here it is recorded or fails.  *)
EXTENDS Integers

CONSTANTS
    Callers,        \* goroutines that run processChainEvents
    MaxHeight,      \* bound: the chain stops growing here
    Confirmations,  \* BlockConfirmations of the chain's configuration
    BatchSize,      \* of the listener's configuration
    ContractBlock,  \* of the chain's configuration, 0 if it is not given
    Deployment,     \* the block the Etherscan API names, if it answers
    ResetBlocks,    \* the values of from_block in requests, below 0 too
    FaultKinds,     \* which of the faults below may happen
    MaxFaults,      \* bound: how many of them, in total
    MaxResets       \* bound: requests to SyncChain

AllFaults ==
    { "query",      \* a SELECT of sync_states fails
      "write",      \* an INSERT or UPDATE of sync_states fails
      "node",       \* the node does not answer
      "event",      \* processEvent returns an error
      "crash" }     \* the process stops anywhere and is started again

ASSUME SyncAssumption ==
    /\ MaxHeight \in Nat /\ Confirmations \in Nat /\ BatchSize \in Nat
    /\ ContractBlock \in Nat /\ Deployment \in Nat
    /\ ResetBlocks \subseteq Int
    /\ FaultKinds \subseteq AllFaults
    /\ MaxFaults \in Nat /\ MaxResets \in Nat

VARIABLES
    head,        \* the chain's current block
    row,         \* the chain's row in sync_states: [made, last, syncing]
    sync,        \* per caller: [pc, own, busy, from, to], see below
    recorded,    \* blocks whose event is in the events table
    req,         \* what a SyncChain request is about to do
    faults,      \* faults that may still happen
    resets,      \* requests that may still come
    owed,        \* history: blocks to offer since the mark was last set
    misplaced,   \* history: it was last set amid a batch, or below block 0
    orphaned     \* history: a batch ended without a write that clears the flag

vars == <<head, row, sync, recorded, req, faults, resets, owed, misplaced,
          orphaned>>

(* own: syncState is the row of the table, so that updates through it find   *)
(* it; busy: its is_syncing as it was read; from: the next block; to: the    *)
(* safe block, and from the mark on the last block of the batch.             *)
TypeOK ==
    /\ head \in 0..MaxHeight
    /\ row \in [made : BOOLEAN, last : Int, syncing : BOOLEAN]
    /\ row.made /\ ~misplaced => row.last >= -1
    /\ sync \in [Callers ->
          [pc : {"idle", "head", "create", "mark", "query", "unmark", "process"},
           own : BOOLEAN, busy : BOOLEAN, from : Int, to : Int]]
    /\ \A c \in Callers : sync[c].own /\ ~misplaced => sync[c].from >= 0
    /\ recorded \subseteq Nat
    /\ req \in {"idle", "insert", "update"}
    /\ faults \in Nat /\ resets \in Nat
    /\ owed \subseteq Nat
    /\ misplaced \in BOOLEAN /\ orphaned \in BOOLEAN

Idle == [pc |-> "idle", own |-> FALSE, busy |-> FALSE, from |-> 0, to |-> 0]

Init ==
    /\ head = 0
    /\ row = [made |-> FALSE, last |-> 0, syncing |-> FALSE]
    /\ sync = [c \in Callers |-> Idle]
    /\ recorded = {}
    /\ req = "idle"
    /\ faults = MaxFaults /\ resets = MaxResets
    /\ owed = {}
    /\ misplaced = FALSE /\ orphaned = FALSE

Fault(kind) ==
    /\ kind \in FaultKinds
    /\ faults > 0
    /\ faults' = faults - 1

NoFault == UNCHANGED faults

Mine ==
    /\ head < MaxHeight
    /\ head' = head + 1
    /\ UNCHANGED <<row, sync, recorded, req, faults, resets, owed, misplaced,
                   orphaned>>

-----------------------------------------------------------------------------
(* processChainEvents                                                        *)

(* Faulty variant: the block after the last synced one is left out.          *)
NextBlockButOne == row.last + 2

NextBlock == row.last + 1

(* The row is read before the node is asked.  A query that fails, for        *)
(* whatever reason, means "first sync".                                      *)
ReadState(c) ==
    /\ sync[c].pc = "idle"
    /\ \/ /\ row.made /\ NoFault
          /\ sync' = [sync EXCEPT ![c] =
                [pc |-> "head", own |-> TRUE, busy |-> row.syncing,
                 from |-> NextBlock, to |-> 0]]
       \/ /\ \/ ~row.made /\ NoFault
             \/ row.made /\ Fault("query")
          /\ sync' = [sync EXCEPT ![c] =
                [pc |-> "head", own |-> FALSE, busy |-> FALSE,
                 from |-> 0, to |-> 0]]
    /\ UNCHANGED <<head, row, recorded, req, resets, owed, misplaced, orphaned>>

(* Faulty variant: the newest safe block is taken for synced.                *)
NothingNewNorLast(from, safe) == from >= safe

NothingNew(from, safe) == from > safe

SafeBlock == head - Confirmations

(* GetCurrentBlockNumber, and for a row that was found the decision whether  *)
(* there is anything to do.                                                  *)
ReadHead(c) ==
    /\ sync[c].pc = "head"
    /\ \/ /\ Fault("node")
          /\ sync' = [sync EXCEPT ![c] = Idle]
       \/ /\ ~sync[c].own /\ NoFault
          /\ sync' = [sync EXCEPT ![c] =
                [pc |-> "create", own |-> FALSE, busy |-> FALSE,
                 from |-> 0, to |-> SafeBlock]]
       \/ /\ sync[c].own /\ NoFault
          /\ sync' = [sync EXCEPT ![c] =
                IF NothingNew(sync[c].from, SafeBlock) \/ sync[c].busy
                THEN Idle
                ELSE [pc |-> "mark", own |-> TRUE, busy |-> FALSE,
                      from |-> sync[c].from, to |-> SafeBlock]]
    /\ UNCHANGED <<head, row, recorded, req, resets, owed, misplaced, orphaned>>

(* The configured block, or what GetContractDeploymentBlock finds, or 0.     *)
FirstBlocks == IF ContractBlock > 0 THEN {ContractBlock} ELSE {0, Deployment}

(* Faulty variant: one block too far back, below the first one there is.     *)
MarkTwoBefore(b) == b - 2

(* The mark that makes b the next block.                                     *)
MarkBefore(b) == b - 1

(* The first sync inserts the row.  The index on chain_id refuses a second   *)
(* one; the error is ignored, and the batch runs without a row of its own.   *)
CreateState(c) ==
    /\ sync[c].pc = "create"
    /\ \E first \in FirstBlocks :
        /\ \/ /\ ~row.made /\ NoFault
              /\ row' = [made |-> TRUE, last |-> MarkBefore(first), syncing |-> FALSE]
              /\ owed' = first..MaxHeight
           \/ /\ \/ row.made /\ NoFault
                 \/ ~row.made /\ Fault("write")
              /\ UNCHANGED <<row, owed>>
        /\ sync' = [sync EXCEPT ![c] =
              IF NothingNew(first, sync[c].to) THEN Idle
              ELSE [pc |-> "mark", own |-> row'.made /\ ~row.made,
                    busy |-> FALSE, from |-> first, to |-> sync[c].to]]
    /\ UNCHANGED <<head, recorded, req, resets, misplaced, orphaned>>

(* Faulty variant: the batch is not cut off at the safe block.               *)
UncutBatchEnd(from, safe) == from + BatchSize

(* BatchSize + 1 blocks at most, and no unsafe one.                          *)
BatchEnd(from, safe) == IF from + BatchSize > safe THEN safe ELSE from + BatchSize

(* is_syncing is set by what was read before, not by a conditional update.   *)
Mark(c) ==
    /\ sync[c].pc = "mark"
    /\ \/ row' = [row EXCEPT !.syncing = @ \/ sync[c].own] /\ NoFault
       \/ UNCHANGED row /\ Fault("write")
    /\ sync' = [sync EXCEPT ![c] =
          [pc |-> "query", own |-> sync[c].own, busy |-> FALSE,
           from |-> sync[c].from, to |-> BatchEnd(sync[c].from, sync[c].to)]]
    /\ UNCHANGED <<head, recorded, req, resets, owed, misplaced, orphaned>>

(* GetTransferEvents over the batch, all or nothing.  The node takes a start *)
(* below 0 for the name of a block (-5 is "earliest", -2 "latest"), so that  *)
(* the answer begins anywhere, or it refuses the number.                     *)
Answered(c) ==
    /\ NoFault
    /\ \/ /\ sync[c].from >= 0
          /\ sync' = [sync EXCEPT ![c].pc = "process"]
       \/ /\ sync[c].from < 0
          /\ \E first \in 0..(sync[c].to + 1) :
                sync' = [sync EXCEPT ![c] =
                    [pc |-> "process", own |-> sync[c].own, busy |-> FALSE,
                     from |-> first, to |-> sync[c].to]]

Unanswered(c) == (sync[c].from < 0 /\ NoFault) \/ Fault("node")

(* Faulty variant: an early return without clearing is_syncing.              *)
QueryReturns(c) ==
    /\ sync[c].pc = "query"
    /\ Answered(c) \/ (Unanswered(c) /\ sync' = [sync EXCEPT ![c] = Idle])
    /\ UNCHANGED <<head, row, recorded, req, resets, owed, misplaced, orphaned>>

Query(c) ==
    /\ sync[c].pc = "query"
    /\ \/ Answered(c)
       \/ Unanswered(c) /\ sync' = [sync EXCEPT ![c].pc = "unmark"]
    /\ UNCHANGED <<head, row, recorded, req, resets, owed, misplaced, orphaned>>

(* After a failed query the flag is cleared and the mark stays.              *)
Unmark(c) ==
    /\ sync[c].pc = "unmark"
    /\ \/ /\ row' = [row EXCEPT !.syncing = @ /\ ~sync[c].own]
          /\ NoFault /\ UNCHANGED orphaned
       \/ Fault("write") /\ orphaned' = TRUE /\ UNCHANGED row
    /\ sync' = [sync EXCEPT ![c] = Idle]
    /\ UNCHANGED <<head, recorded, req, resets, owed, misplaced>>

(* processEvent for the next block; an error is logged and passed over.      *)
ProcessEvent(c) ==
    /\ sync[c].pc = "process" /\ sync[c].from <= sync[c].to
    /\ \/ recorded' = recorded \union {sync[c].from} /\ NoFault
       \/ UNCHANGED recorded /\ Fault("event")
    /\ owed' = owed \ {sync[c].from}
    /\ sync' = [sync EXCEPT ![c].from = @ + 1]
    /\ UNCHANGED <<head, row, req, resets, misplaced, orphaned>>

(* The mark moves and the flag is cleared, in one UPDATE of the row.         *)
Finish(c) ==
    /\ sync[c].pc = "process" /\ sync[c].from > sync[c].to
    /\ \/ /\ row' = IF sync[c].own
                    THEN [row EXCEPT !.last = sync[c].to, !.syncing = FALSE]
                    ELSE row
          /\ NoFault /\ UNCHANGED orphaned
       \/ Fault("write") /\ orphaned' = TRUE /\ UNCHANGED row
    /\ sync' = [sync EXCEPT ![c] = Idle]
    /\ UNCHANGED <<head, recorded, req, resets, owed, misplaced>>

-----------------------------------------------------------------------------
(* SyncChain                                                                 *)

(* The blocks that a mark before block b leaves to be offered.               *)
From(b) == {n \in 0..MaxHeight : n >= b}

(* The request looks for the row first; an error means there is none.        *)
RequestReset ==
    /\ req = "idle" /\ resets > 0
    /\ resets' = resets - 1
    /\ \/ row.made /\ NoFault /\ req' = "update"
       \/ /\ \/ ~row.made /\ NoFault
             \/ row.made /\ Fault("query")
          /\ req' = "insert"
    /\ UNCHANGED <<head, row, sync, recorded, owed, misplaced, orphaned>>

(* Nobody is asked whether a batch is under way, and nothing keeps           *)
(* from_block (b) from being negative.  The answer is a success, whatever    *)
(* became of the update.                                                     *)
ResetUpdate(b) ==
    /\ req = "update"
    /\ \/ /\ row' = [row EXCEPT !.last = MarkBefore(b), !.syncing = FALSE]
          /\ owed' = From(b)
          /\ misplaced' = (b < 0 \/ \E c \in Callers : sync[c].pc # "idle")
          /\ orphaned' = FALSE
          /\ NoFault
       \/ Fault("write") /\ UNCHANGED <<row, owed, misplaced, orphaned>>
    /\ req' = "idle"
    /\ UNCHANGED <<head, sync, recorded, resets>>

(* The row's ID is the chain's ID with "_sync" behind it: 40 characters for  *)
(* a generated one (19 digits of time, 16 of chance), in a column of 36.     *)
(* PostgreSQL refuses the row, the SQLite fallback takes it, and an error is *)
(* ignored.                                                                  *)
ResetInsert(b) ==
    /\ req = "insert"
    /\ \/ /\ ~row.made
          /\ row' = [made |-> TRUE, last |-> MarkBefore(b), syncing |-> FALSE]
          /\ owed' = From(b)
          /\ misplaced' = (b < 0)
       \/ UNCHANGED <<row, owed, misplaced>>
    /\ req' = "idle"
    /\ UNCHANGED <<head, sync, recorded, faults, resets, orphaned>>

(* The process stops between any two steps and starts again; the table       *)
(* keeps is_syncing as it is, and nothing clears it at the start.            *)
Crash ==
    /\ Fault("crash")
    /\ sync' = [c \in Callers |-> Idle]
    /\ req' = "idle"
    /\ orphaned' = (orphaned \/ row.syncing)
    /\ UNCHANGED <<head, row, recorded, resets, owed, misplaced>>

-----------------------------------------------------------------------------
(* What a call does once it has begun.                                       *)
Continue(c) ==
    \/ ReadHead(c) \/ CreateState(c) \/ Mark(c) \/ Query(c) \/ Unmark(c)
    \/ ProcessEvent(c) \/ Finish(c)

SyncChain ==
    RequestReset \/ \E b \in ResetBlocks : ResetUpdate(b) \/ ResetInsert(b)

Next ==
    \/ Mine \/ SyncChain \/ Crash
    \/ \E c \in Callers : ReadState(c) \/ Continue(c)

Spec == Init /\ [][Next]_vars

(* A call that has begun goes on; no call, request or block has to come.     *)
Fairness == \A c \in Callers : WF_vars(Continue(c))

FairSpec == Spec /\ Fairness

-----------------------------------------------------------------------------
(* Properties                                                                *)

(* The mark never passes a block whose event has not been offered since the  *)
(* mark was set: batches leave no gap, also with callers that overtake each  *)
(* other, across crashes, failed queries and failed updates, and after a     *)
(* SyncChain (chain_controller.go:166), unless that came in the middle of a  *)
(* batch, whose end then overwrites it, or named a block below 0, from where *)
(* the node may answer a batch with nothing.                                 *)
NoBlockSkipped ==
    row.made /\ ~misplaced => \A b \in owed : b > row.last

(* What makes NoBlockSkipped inductive: a batch of the row has before it     *)
(* every block that is owed, ends after the block before it, none runs       *)
(* before the row is made, and what is offered are blocks of the chain.      *)
BatchCoversOwed ==
    \A c \in Callers :
        /\ sync[c].pc = "idle" => ~sync[c].own
        /\ sync[c].own => row.made
        /\ sync[c].own /\ ~misplaced => \A b \in owed : b >= sync[c].from
        /\ sync[c].pc \in {"mark", "query", "process"} =>
                sync[c].from <= sync[c].to + 1
        /\ sync[c].pc = "process" => sync[c].from >= 0

SyncInv == TypeOK /\ NoBlockSkipped /\ BatchCoversOwed

(* Only blocks that have their confirmations are offered: the safe block is  *)
(* computed from a height read before the batch, and the chain only grows.   *)
OfferedIsConfirmed == \A b \in recorded : b + Confirmations <= head

(* is_syncing does not stay set (event_listener.go:262), whatever fails in   *)
(* the batch, unless a crash or a failed update took away the one who would  *)
(* have cleared it.                                                          *)
FlagIsCleared == []~orphaned => (row.syncing ~> ~row.syncing)

(* A safe block that is owed is offered in the end, through failed calls,    *)
(* crashes and resets, if processChainEvents is called again and again, the  *)
(* flag does not stay set, and the last reset did not come in the middle of  *)
(* a batch and named a block of the chain.                                   *)
CalledForEver == []<>(\E c \in Callers : sync[c].pc = "head")

SafeBlocksAreOffered ==
    CalledForEver /\ []<>~row.syncing /\ <>[]~misplaced =>
        \A b \in 0..(MaxHeight - Confirmations) :
            b \in owed /\ b + Confirmations <= head ~> b \notin owed
=============================================================================
