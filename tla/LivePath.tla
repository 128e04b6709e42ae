------------------------------- MODULE LivePath -------------------------------
(* The way of a transfer from the chain to the balances: DualModeClient, as  *)
(* it polls, and EventPipeline, composed.  They meet in listenChain: its     *)
(* goroutine takes an event out of eventChan, looks at the confirmations     *)
(* (processRealtimeEvent) and goes through processEvent before it takes the  *)
(* next one; so the channel fills up while the listener publishes, and what  *)
(* is offered again is decided by the poller's window.                       *)
(*                                                                           *)
(* A subscription is left out (UseWebSocket is FALSE): wsVars keep their     *)
(* first values.                                                             *)
EXTENDS Naturals, Sequences

CONSTANTS
    Transfers, Users, Zero, None, FaultKinds,     \* as in EventPipeline
    EventBlocks, MaxHeight, BlockConfirmations,   \* as in DualModeClient
    Window, Capacity, MayStop,
    MaxFaults,      \* bound: faults of either component, together
    Mined           \* the transfer in each of EventBlocks

ASSUME PathAssumption ==
    /\ Mined \in [EventBlocks -> Transfers]
    /\ \A a, b \in EventBlocks : Mined[a] = Mined[b] => a = b

VARIABLES
    height, isRunning, stopChan, wsSubActive, currentMode, sub, logs, handler,
    poller, timer, eventChan, reader, stop, handled, skipped,
    events, changes, balance, clock, ready, unacked, conn, lst, con, published,
    faults,         \* shared: the faults that may still happen
    crashed         \* history: the process has crashed before

pipeVars == <<events, changes, balance, clock, ready, unacked, conn, lst, con,
              published>>
wsVars == <<wsSubActive, currentMode, sub, logs, handler, timer>>
sourceVars == <<height, isRunning, stopChan, wsVars, poller, eventChan, reader,
                stop, handled, skipped>>
vars == <<sourceVars, pipeVars, faults, crashed>>

Source == INSTANCE DualModeClient WITH UseWebSocket <- FALSE

ASSUME SourceAssumption == Source!DualModeAssumption

Pipe == INSTANCE EventPipeline

ASSUME PipelineAssumption ==
    Pipe!TransfersAssumption /\ Pipe!FaultsAssumption

Init == Source!Init /\ Pipe!Init /\ crashed = FALSE

-----------------------------------------------------------------------------
(* listenChain, in its goroutine                                             *)

(* processEvent has returned.                                                *)
Free == lst.pc = "idle"

(* A confirmed event is handed to processEvent, which returns at once if it  *)
(* has a row and the query for it works.                                     *)
Offer ==
    /\ Free
    /\ Source!Accept
    /\ \E b \in EventBlocks :
        /\ reader.event = b
        /\ \/ Pipe!ListenerCheck(Mined[b])
           \/ Pipe!RowsOf(Mined[b]) # {} /\ UNCHANGED <<pipeVars, faults>>
    /\ UNCHANGED crashed

ListenChain ==
    /\ Free
    /\ Source!ReaderStart \/ Source!ReaderReceive \/ Source!ReaderSkip
    /\ UNCHANGED <<pipeVars, crashed>>

ListenChainStop == Free /\ Source!ReaderStop /\ UNCHANGED <<pipeVars, crashed>>

ProcessEvent ==
    /\ Pipe!ListenerPublish \/ Pipe!ListenerStamp \/ Pipe!ListenerCreate
    /\ UNCHANGED <<sourceVars, crashed>>

-----------------------------------------------------------------------------
(* The other goroutines, the chain and the broker                            *)

Mine == Source!Mine /\ UNCHANGED <<pipeVars, crashed>>
Poll == Source!Poller /\ UNCHANGED <<pipeVars, crashed>>
PollStop == Source!PollerStop /\ UNCHANGED <<pipeVars, crashed>>
StopRequest == Source!StopListener /\ UNCHANGED <<pipeVars, crashed>>

StopGoesOn ==
    /\ Source!StopClient \/ Source!StopWaited \/ Source!StopClose
    /\ UNCHANGED <<pipeVars, crashed>>

Deliver == Pipe!Deliver /\ UNCHANGED <<sourceVars, crashed>>
Consume == Pipe!Consumer /\ UNCHANGED <<sourceVars, crashed>>
ConnectionLost == Pipe!ConnectionLost /\ UNCHANGED <<sourceVars, crashed>>

(* The process stops and starts again: what the client and the channel held  *)
(* is gone, and nothing says how far the last poll had come.                 *)
Crash ==
    /\ Pipe!Restart
    /\ crashed' = TRUE
    /\ isRunning' = FALSE /\ stopChan' = FALSE
    /\ poller' = [pc |-> "off", todo |-> {}]
    /\ eventChan' = <<>>
    /\ reader' = [pc |-> "start", event |-> 0]
    /\ stop' = "no"
    /\ UNCHANGED <<height, wsVars, handled, skipped>>

Next ==
    \/ Mine \/ Poll
    \/ Offer \/ ListenChain \/ ListenChainStop \/ ProcessEvent
    \/ StopRequest \/ StopGoesOn
    \/ Deliver \/ Consume \/ ConnectionLost \/ Crash

Spec == Init /\ [][Next]_vars

(* The fairness of the two components.                                       *)
Fairness ==
    /\ WF_vars(Poll) /\ SF_vars(PollStop)
    /\ WF_vars(Offer \/ ListenChain \/ ListenChainStop \/ ProcessEvent)
    /\ SF_vars(ListenChainStop)
    /\ WF_vars(StopGoesOn)
    /\ WF_vars(Deliver)
    /\ WF_vars(Consume)

FairSpec == Spec /\ Fairness

-----------------------------------------------------------------------------
(* Properties                                                                *)

(* A transfer is applied once, though every poll of its window offers it     *)
(* again and its message is on the way meanwhile, until the first crash.     *)
AppliedAtMostOnce == ~crashed => Pipe!AppliedAtMostOnce

(* What the poller offers is still deep enough when listenChain looks at the *)
(* chain, however long the channel has held it (event_listener.go:187).      *)
PolledIsConfirmed == skipped = {}

(* Until the first crash the balances come about as the abstract ledger's    *)
(* do: each transfer at most once, atomically, in any order.                 *)
Posted == {e \in Transfers : Pipe!Applied(e)}

LedgerSpec ==
    /\ Pipe!PostedLedger!Init
    /\ [][crashed \/ Pipe!PostedLedger!Next]_<<balance, Posted>>

(* "Graceful shutdown" (main.go:89): a Stop comes to its end, also with a    *)
(* full channel and in the middle of processEvent, unless a crash comes      *)
(* first.                                                                    *)
StopTerminates == stop = "listener" ~> stop \in {"done", "no"}

(* A transfer that lies in the poller's window for good is in the balances   *)
(* in the end: through failed calls and transactions, a lost connection, a   *)
(* full channel and a crash, if the last connection made stays and nobody    *)
(* stops the service.  The one exception is an event whose publish failed:   *)
(* it is recorded all the same and never offered again                       *)
(* (event_listener.go:328).                                                  *)
RecordedUnpublished(e) == Pipe!RowsOf(e) # {} /\ e \notin published

ConfirmedIsApplied ==
    []<>conn =>
        \A b \in Source!LastWindow :
            height = MaxHeight ~>
                \/ Pipe!Applied(Mined[b])
                \/ stop # "no"
                \/ RecordedUnpublished(Mined[b])
=============================================================================
