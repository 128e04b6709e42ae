--------------------------- MODULE DualModeClient ---------------------------
(* Where the events of one chain come from: the DualModeClient               *)
(* (ethereum/dual_mode_client.go), which reads them from a WebSocket         *)
(* subscription and falls back to polling over HTTP, the channel it fills,   *)
(* the listenChain goroutine that empties it (services/event_listener.go),   *)
(* and the Stop of both.  An event is the block it was mined in; what        *)
(* processEvent then does with it is EventPipeline; LivePath composes them.  *)
(*                                                                           *)
(* The goroutines are the WebSocket handler, the poller, the reconnect timer,*)
(* listenChain and the one that shuts the service down.  The reconnect delay *)
(* (reconnectBackoff) is left out: it decides when the timer fires, and any  *)
(* time is allowed.                                                          *)
EXTENDS Integers, Sequences

CONSTANTS
    EventBlocks,         \* the blocks that hold a Transfer event
    MaxHeight,           \* bound: the chain stops growing here
    BlockConfirmations,  \* blocks on top of an event that make it final
    Window,              \* pollEvents looks this far back (10 in the code)
    Capacity,            \* of eventChan (100 in the code)
    UseWebSocket,        \* configuration: try the subscription first
    MaxFaults,           \* bound: failed calls and broken subscriptions
    MayStop              \* whether the service is shut down at some point

ASSUME DualModeAssumption ==
    /\ MaxHeight \in Nat
    /\ EventBlocks \subseteq 1..MaxHeight
    /\ BlockConfirmations \in Nat
    /\ Window \in Nat
    /\ Capacity \in Nat \ {0}
    /\ UseWebSocket \in BOOLEAN
    /\ MaxFaults \in Nat
    /\ MayStop \in BOOLEAN

VARIABLES
    height,        \* the chain's current block
    isRunning,     \* isRunning of the client
    stopChan,      \* the client's stopChan is closed
    wsSubActive,   \* what the poller looks at
    currentMode,   \* ModeHTTP or ModeWS
    sub,           \* the subscription: "none", "open" or "broken"
    logs,          \* the events the node has pushed through it
    handler,       \* handleWebSocketLogs: [pc, event]
    poller,        \* httpPollingLoop: [pc, todo]
    timer,         \* attemptWSReconnect's timer: "off", "armed", "fired"
    eventChan,     \* the events on their way to listenChain
    reader,        \* listenChain: [pc, event]
    stop,          \* how far EventListener.Stop has come
    handled,       \* history: events handed to processEvent
    skipped,       \* history: events dropped for want of confirmations
    faults         \* calls that may still fail

vars == <<height, isRunning, stopChan, wsSubActive, currentMode, sub, logs,
          handler, poller, timer, eventChan, reader, stop, handled, skipped,
          faults>>

clientVars == <<isRunning, wsSubActive, currentMode, sub, logs, handler,
                poller, timer>>

NoEvent == 0

TypeOK ==
    /\ height \in 0..MaxHeight
    /\ isRunning \in BOOLEAN /\ stopChan \in BOOLEAN /\ wsSubActive \in BOOLEAN
    /\ currentMode \in {"http", "ws"}
    /\ sub \in {"none", "open", "broken"}
    /\ logs \in Seq(EventBlocks)
    /\ handler \in [pc : {"off", "select", "send"},
                    event : EventBlocks \union {NoEvent}]
    /\ poller \in [pc : {"off", "select", "send"}, todo : SUBSET EventBlocks]
    /\ timer \in {"off", "armed", "fired"}
    /\ eventChan \in Seq(EventBlocks) /\ Len(eventChan) <= Capacity
    /\ reader \in [pc : {"start", "select", "handle", "off"},
                   event : EventBlocks \union {NoEvent}]
    /\ stop \in {"no", "listener", "client", "closing", "done"}
    /\ handled \subseteq EventBlocks /\ skipped \subseteq EventBlocks
    /\ faults \in 0..MaxFaults

Init ==
    /\ height = 0
    /\ isRunning = FALSE /\ stopChan = FALSE /\ wsSubActive = FALSE
    /\ currentMode = "http"
    /\ sub = "none" /\ logs = <<>>
    /\ handler = [pc |-> "off", event |-> NoEvent]
    /\ poller = [pc |-> "off", todo |-> {}]
    /\ timer = "off"
    /\ eventChan = <<>>
    /\ reader = [pc |-> "start", event |-> NoEvent]
    /\ stop = "no"
    /\ handled = {} /\ skipped = {}
    /\ faults = MaxFaults

Fault == faults > 0 /\ faults' = faults - 1

(* The chain grows; an open subscription pushes the new event.               *)
Mine ==
    /\ height < MaxHeight
    /\ height' = height + 1
    /\ logs' = IF sub = "open" /\ height' \in EventBlocks
               THEN Append(logs, height') ELSE logs
    /\ UNCHANGED <<isRunning, stopChan, wsSubActive, currentMode, sub, handler,
                   poller, timer, eventChan, reader, stop, handled, skipped,
                   faults>>

-----------------------------------------------------------------------------
(* startWebSocketListener and startHTTPPoller                                *)

Subscribe ==
    /\ sub' = "open" /\ logs' = <<>>
    /\ wsSubActive' = TRUE
    /\ currentMode' = "ws"
    /\ handler' = [pc |-> "select", event |-> NoEvent]
    /\ UNCHANGED <<poller, faults>>

(* Dialling or subscribing fails; the old subscription is left as it was.    *)
StartHTTPPoller ==
    /\ currentMode' = "http"
    /\ poller' = [pc |-> "select", todo |-> {}]
    /\ UNCHANGED <<wsSubActive, sub, logs, handler>>

(* listenChain starts the client.                                            *)
ReaderStart ==
    /\ reader.pc = "start"
    /\ reader' = [pc |-> "select", event |-> NoEvent]
    /\ isRunning' = TRUE
    /\ \/ UseWebSocket /\ Subscribe
       \/ UseWebSocket /\ Fault /\ StartHTTPPoller
       \/ ~UseWebSocket /\ StartHTTPPoller /\ UNCHANGED faults
    /\ UNCHANGED <<height, stopChan, timer, eventChan, stop, handled, skipped>>

-----------------------------------------------------------------------------
(* handleWebSocketLogs and attemptWSReconnect                                *)

SubscriptionBreaks ==
    /\ sub = "open" /\ Fault
    /\ sub' = "broken"
    /\ UNCHANGED <<height, isRunning, stopChan, wsSubActive, currentMode, logs,
                   handler, poller, timer, eventChan, reader, stop, handled,
                   skipped>>

(* Faulty variant: it falls back to polling, and reconnects as well.         *)
HandlerErrorPoll ==
    /\ handler.pc = "select" /\ sub = "broken"
    /\ wsSubActive' = FALSE /\ logs' = <<>>
    /\ handler' = [pc |-> "off", event |-> NoEvent]
    /\ timer' = "armed"
    /\ poller' = [pc |-> "select", todo |-> {}]
    /\ UNCHANGED <<height, isRunning, stopChan, currentMode, sub, eventChan,
                   reader, stop, handled, skipped, faults>>

(* The handler arms the timer and ends; what was pushed but not read is lost.*)
HandlerError ==
    /\ handler.pc = "select" /\ sub = "broken"
    /\ wsSubActive' = FALSE
    /\ logs' = <<>>
    /\ handler' = [pc |-> "off", event |-> NoEvent]
    /\ timer' = "armed"
    /\ UNCHANGED <<height, isRunning, stopChan, currentMode, sub, poller,
                   eventChan, reader, stop, handled, skipped, faults>>

(* Faulty variant: a log that cannot be parsed is sent on all the same.      *)
HandlerReceiveUnparsed ==
    /\ handler.pc = "select" /\ logs # <<>>
    /\ handler' = [pc |-> "send", event |-> NoEvent]
    /\ logs' = Tail(logs)
    /\ UNCHANGED <<height, isRunning, stopChan, wsSubActive, currentMode, sub,
                   poller, timer, eventChan, reader, stop, handled, skipped,
                   faults>>

HandlerReceive ==
    /\ handler.pc = "select" /\ logs # <<>>
    /\ handler' = [pc |-> "send", event |-> Head(logs)]
    /\ logs' = Tail(logs)
    /\ UNCHANGED <<height, isRunning, stopChan, wsSubActive, currentMode, sub,
                   poller, timer, eventChan, reader, stop, handled, skipped,
                   faults>>

(* "c.eventChan <- event": it waits for room, and for nothing else.          *)
HandlerSend ==
    /\ handler.pc = "send" /\ Len(eventChan) < Capacity
    /\ eventChan' = Append(eventChan, handler.event)
    /\ handler' = [pc |-> "select", event |-> NoEvent]
    /\ UNCHANGED <<height, isRunning, stopChan, wsSubActive, currentMode, sub,
                   logs, poller, timer, reader, stop, handled, skipped, faults>>

(* Faulty variant: no case for stopChan.                                     *)
HandlerNeverStops == FALSE

HandlerStop ==
    /\ handler.pc = "select" /\ stopChan
    /\ handler' = [pc |-> "off", event |-> NoEvent]
    /\ UNCHANGED <<height, isRunning, stopChan, wsSubActive, currentMode, sub,
                   logs, poller, timer, eventChan, reader, stop, handled,
                   skipped, faults>>

(* The timer looks at isRunning and then connects, in two steps: a Stop may  *)
(* come between them.                                                        *)
TimerFires ==
    /\ timer = "armed"
    /\ timer' = IF isRunning THEN "fired" ELSE "off"
    /\ UNCHANGED <<height, isRunning, stopChan, wsSubActive, currentMode, sub,
                   logs, handler, poller, eventChan, reader, stop, handled,
                   skipped, faults>>

TimerReconnect ==
    /\ timer = "fired"
    /\ timer' = "off"
    /\ \/ Subscribe
       \/ Fault /\ StartHTTPPoller
    /\ UNCHANGED <<height, isRunning, stopChan, eventChan, reader, stop,
                   handled, skipped>>

-----------------------------------------------------------------------------
(* httpPollingLoop and pollEvents                                            *)

AtLeastZero(n) == IF n < 0 THEN 0 ELSE n

(* Faulty variants: no confirmations are waited for; the last block is left  *)
(* out.                                                                      *)
LatestBlock == height

PolledBelow(safe) == AtLeastZero(safe - Window)..(safe - 1)

SafeBlock == AtLeastZero(height - BlockConfirmations)

Polled(safe) == AtLeastZero(safe - Window)..safe

(* A tick: skipped while a subscription is active, or when a call fails.     *)
PollerTick ==
    /\ poller.pc = "select" /\ ~wsSubActive
    /\ LET todo == EventBlocks \intersect Polled(SafeBlock) IN
       /\ todo # {}
       /\ poller' = [pc |-> "send", todo |-> todo]
    /\ UNCHANGED <<height, isRunning, stopChan, wsSubActive, currentMode, sub,
                   logs, handler, timer, eventChan, reader, stop, handled,
                   skipped, faults>>

(* The node returns the logs in the order of their blocks.                   *)
PollerSend ==
    /\ poller.pc = "send" /\ Len(eventChan) < Capacity
    /\ \E b \in poller.todo :
        /\ \A c \in poller.todo : b <= c
        /\ eventChan' = Append(eventChan, b)
        /\ poller' = [pc |-> IF poller.todo = {b} THEN "select" ELSE "send",
                      todo |-> poller.todo \ {b}]
    /\ UNCHANGED <<height, isRunning, stopChan, wsSubActive, currentMode, sub,
                   logs, handler, timer, reader, stop, handled, skipped, faults>>

(* Faulty variant: the send waits for room only.                             *)
PollerNeverGivesUp == FALSE

(* stopChan is closed: the send gives up, and the loop ends.                 *)
PollerGiveUp ==
    /\ poller.pc = "send" /\ stopChan
    /\ poller' = [pc |-> "select", todo |-> {}]
    /\ UNCHANGED <<height, isRunning, stopChan, wsSubActive, currentMode, sub,
                   logs, handler, timer, eventChan, reader, stop, handled,
                   skipped, faults>>

PollerStop ==
    /\ poller.pc = "select" /\ stopChan
    /\ poller' = [pc |-> "off", todo |-> {}]
    /\ UNCHANGED <<height, isRunning, stopChan, wsSubActive, currentMode, sub,
                   logs, handler, timer, eventChan, reader, stop, handled,
                   skipped, faults>>

-----------------------------------------------------------------------------
(* listenChain and processRealtimeEvent                                      *)

ReaderReceive ==
    /\ reader.pc = "select" /\ eventChan # <<>>
    /\ reader' = [pc |-> "handle", event |-> Head(eventChan)]
    /\ eventChan' = Tail(eventChan)
    /\ UNCHANGED <<height, clientVars, stopChan, stop, handled, skipped, faults>>

(* The current block is read now, not when the event was pushed.             *)
Accept ==
    /\ reader.pc = "handle" /\ height - reader.event >= BlockConfirmations
    /\ handled' = handled \union {reader.event}
    /\ reader' = [pc |-> "select", event |-> NoEvent]
    /\ UNCHANGED <<height, clientVars, stopChan, eventChan, stop, skipped>>

(* processEvent, which follows, is EventPipeline's: its faults are its own.  *)
ReaderAccept == Accept /\ UNCHANGED faults

(* An event with too few confirmations is skipped for good; so is one for    *)
(* which the database or the node cannot be asked.                           *)
ReaderSkip ==
    /\ reader.pc = "handle"
    /\ \/ /\ height - reader.event < BlockConfirmations
          /\ skipped' = skipped \union {reader.event}
          /\ UNCHANGED faults
       \/ Fault /\ UNCHANGED skipped
    /\ reader' = [pc |-> "select", event |-> NoEvent]
    /\ UNCHANGED <<height, clientVars, stopChan, eventChan, stop, handled>>

ReaderStop ==
    /\ reader.pc = "select" /\ stop # "no"
    /\ reader' = [pc |-> "off", event |-> NoEvent]
    /\ UNCHANGED <<height, clientVars, stopChan, eventChan, stop, handled,
                   skipped, faults>>

-----------------------------------------------------------------------------
(* EventListener.Stop, then DualModeClient.Stop                              *)

StopListener ==
    /\ MayStop /\ stop = "no"
    /\ stop' = "listener"
    /\ UNCHANGED <<height, clientVars, stopChan, eventChan, reader, handled,
                   skipped, faults>>

StopClient ==
    /\ stop = "listener" /\ reader.pc = "off"
    /\ stopChan' = TRUE
    /\ stop' = "client"
    /\ UNCHANGED <<height, clientVars, eventChan, reader, handled, skipped,
                   faults>>

(* c.wg.Wait: the handler and the poller are counted, the timer is not.      *)
StopWaited ==
    /\ stop = "client" /\ handler.pc = "off" /\ poller.pc = "off"
    /\ stop' = "closing"
    /\ UNCHANGED <<height, clientVars, stopChan, eventChan, reader, handled,
                   skipped, faults>>

StopClose ==
    /\ stop = "closing"
    /\ sub' = IF sub = "open" THEN "broken" ELSE sub
    /\ isRunning' = FALSE
    /\ stop' = "done"
    /\ UNCHANGED <<height, stopChan, wsSubActive, currentMode, logs, handler,
                   poller, timer, eventChan, reader, handled, skipped, faults>>

-----------------------------------------------------------------------------
Handler == HandlerError \/ HandlerReceive \/ HandlerSend \/ HandlerStop
Timer == TimerFires \/ TimerReconnect
Poller == PollerTick \/ PollerSend \/ PollerGiveUp \/ PollerStop
Reader ==
    ReaderStart \/ ReaderReceive \/ ReaderAccept \/ ReaderSkip \/ ReaderStop
Stop == StopListener \/ StopClient \/ StopWaited \/ StopClose

Next == Mine \/ SubscriptionBreaks \/ Handler \/ Timer \/ Poller \/ Reader \/ Stop

Spec == Init /\ [][Next]_vars

(* Goroutines run, the timer fires, and a select whose cases stay ready      *)
(* takes each of them in the end, for Go chooses among them at random.       *)
Fairness ==
    /\ WF_vars(Handler) /\ SF_vars(HandlerStop)
    /\ WF_vars(Timer)
    /\ WF_vars(Poller) /\ SF_vars(PollerStop)
    /\ WF_vars(Reader) /\ SF_vars(ReaderStop)
    /\ WF_vars(StopClient \/ StopWaited \/ StopClose)

FairSpec == Spec /\ Fairness

-----------------------------------------------------------------------------
(* Properties                                                                *)

(* A running client has exactly one source of events: the WebSocket handler, *)
(* the timer that will restart it, or the poller.  The code keeps no count;  *)
(* it follows from who starts whom.  The mode it reports is that source's,   *)
(* and the poller never meets an active subscription.                        *)
Sources ==
    {s \in {"handler", "timer", "poller"} :
        \/ s = "handler" /\ handler.pc # "off"
        \/ s = "timer" /\ timer # "off"
        \/ s = "poller" /\ poller.pc # "off"}

OneSource ==
    /\ isRunning /\ ~stopChan =>
        \E s \in {"handler", "timer", "poller"} : Sources = {s}
    /\ handler.pc # "off" \/ timer # "off" => poller.pc = "off"
    /\ poller.pc # "off" => currentMode = "http" /\ ~wsSubActive
    /\ isRunning /\ poller.pc = "off" /\ ~stopChan => currentMode = "ws"

(* What makes OneSource inductive: each source excludes the others also      *)
(* after Stop, and nothing runs before listenChain starts the client.        *)
SourceInv ==
    /\ OneSource
    /\ isRunning \in BOOLEAN /\ stopChan \in BOOLEAN /\ wsSubActive \in BOOLEAN
    /\ handler.pc # "off" => timer = "off"
    /\ timer # "off" => ~wsSubActive
    /\ reader.pc = "start" =>
        /\ Sources = {} /\ ~isRunning /\ ~wsSubActive
        /\ stop \in {"no", "listener"}
    /\ stopChan <=> stop \in {"client", "closing", "done"}
    /\ reader.pc # "start" => (isRunning <=> stop # "done")

(* A handler that waits for room in a channel nobody empties any more.       *)
Stranded ==
    /\ Sources = {"handler"} /\ handler.pc = "send"
    /\ Len(eventChan) = Capacity /\ reader.pc = "off"

(* After Stop has returned every goroutine of the client ends, also one that *)
(* a reconnect already on its way starts behind Stop's back (wg does not     *)
(* count the timer), unless that one takes an event while the channel is     *)
(* full: HandlerSend looks at nothing but the channel.                       *)
LeavesNothingRunning == stop = "done" ~> [](Sources = {} \/ Stranded)

(* "Graceful shutdown" (main.go:89): a Stop comes to its end.                *)
StopTerminates == stop = "listener" ~> stop = "done"

(* The events that lie in the poller's window for good, see LivePath.        *)
LastWindow ==
    {b \in EventBlocks : LET depth == MaxHeight - BlockConfirmations - b
                         IN  0 <= depth /\ depth <= Window}
=============================================================================
