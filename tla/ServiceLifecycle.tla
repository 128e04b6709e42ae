-------------------------- MODULE ServiceLifecycle --------------------------
(* The service from main's first line to its exit (main.go): which           *)
(* goroutines main starts, what they wait for, and the order in which        *)
(* setupGracefulShutdown stops them.  What an event, a message or a          *)
(* calculation does is left to the other modules; here each is one unit of   *)
(* work that takes some time.                                                *)
(*                                                                           *)
(* The DualModeClient of the listener is one goroutine here, which takes     *)
(* each event from a subscription or from a poll and sends it to listenChain *)
(* in its own way; how the client goes from one source to the other is       *)
(* DualModeClient.                                                           *)
EXTENDS Integers, FiniteSets

CONSTANTS
    MaxEvents,     \* bound: events the chain will still offer
    Capacity,      \* of eventChan (100 in the code)
    FaultKinds,    \* which of the faults below may happen
    MaxFaults,     \* bound on their number
    MayStop        \* whether a signal arrives at some point

AllFaults ==
    { "fatal",     \* the database, its migration or the HTTP port fails
      "mq",        \* NewClient fails
      "chain",     \* the chain's client or record cannot be set up
      "consume",   \* the channel refuses the consumer
      "conn",      \* the AMQP connection is lost
      "handler" }  \* processMessage returns an error

ASSUME LifecycleAssumption ==
    /\ MaxEvents \in Nat /\ MaxFaults \in Nat /\ Capacity \in Nat \ {0}
    /\ FaultKinds \subseteq AllFaults
    /\ MayStop \in BOOLEAN

VARIABLES
    main,        \* how far main has come
    signal,      \* SIGINT or SIGTERM has arrived
    shutdown,    \* how far the shutdown goroutine has come
    stopped,     \* whose stopChan is closed
    mq,          \* the client: "none", "running" or "closed"
    conn,        \* its connection is open
    queue,       \* messages in the broker, not with the handler
    consume,     \* EventConsumer.consume
    handler,     \* the goroutine of Client.Consume
    client,      \* the goroutine of DualModeClient that has the source
    channel,     \* events in eventChan
    listener,    \* listenChain
    ticker,      \* the goroutine of PointsCalculator.Start
    immediate,   \* "go pc.calculateAllPoints()"
    events,      \* events the chain has yet to offer
    faults

vars == <<main, signal, shutdown, stopped, mq, conn, queue, consume, handler,
          client, channel, listener, ticker, immediate, events, faults>>

Loop == {"off", "select", "busy"}

TypeOK ==
    /\ main \in {"start", "mq", "listener", "consumer", "points", "install",
                 "serve", "exited"}
    /\ signal \in BOOLEAN /\ conn \in BOOLEAN
    /\ shutdown \in {"off", "wait", "consumer", "listener", "client", "points",
                     "mq", "done"}
    /\ stopped \subseteq {"consumer", "listener", "client", "points", "mq"}
    /\ mq \in {"none", "running", "closed"} /\ (conn => mq = "running")
    /\ queue \in 0..MaxEvents /\ events \in 0..MaxEvents
    /\ consume \in {"off", "calling", "waiting"}
    /\ client \in {"off", "select", "push", "poll"} /\ channel \in 0..MaxEvents
    /\ channel <= Capacity
    /\ handler \in Loop /\ listener \in Loop /\ ticker \in Loop
    /\ immediate \in {"off", "busy"}
    /\ faults \in 0..MaxFaults

Init ==
    /\ main = "start" /\ signal = FALSE /\ shutdown = "off" /\ stopped = {}
    /\ mq = "none" /\ conn = FALSE /\ queue = 0
    /\ consume = "off" /\ handler = "off" /\ listener = "off"
    /\ client = "off" /\ channel = 0
    /\ ticker = "off" /\ immediate = "off"
    /\ events = MaxEvents /\ faults = MaxFaults

Fault(kind) == kind \in FaultKinds /\ faults > 0 /\ faults' = faults - 1
NoFault == UNCHANGED faults

source == <<client, channel, events>>
goroutines == <<consume, handler, listener, ticker, immediate>>
broker == <<mq, conn, queue>>

-----------------------------------------------------------------------------
(* main                                                                      *)

StartDatabase ==
    /\ main = "start"
    /\ \/ main' = "mq" /\ NoFault
       \/ main' = "exited" /\ Fault("fatal")
    /\ UNCHANGED <<signal, shutdown, stopped, broker, goroutines, source>>

StartMQ ==
    /\ main = "mq" /\ main' = "listener"
    /\ \/ mq' = "running" /\ conn' = TRUE /\ NoFault
       \/ Fault("mq") /\ UNCHANGED <<mq, conn>>
    /\ UNCHANGED <<signal, shutdown, stopped, queue, goroutines, source>>

StartListener ==
    /\ main = "listener" /\ main' = "consumer"
    /\ \/ listener' = "select" /\ client' = "select" /\ NoFault
       \/ Fault("chain") /\ UNCHANGED <<listener, client>>
    /\ UNCHANGED <<signal, shutdown, stopped, broker, consume, handler, ticker,
                   immediate, channel, events>>

(* Start asks IsRunning, which a lost connection leaves TRUE.                *)
StartConsumer ==
    /\ main = "consumer" /\ main' = "points"
    /\ consume' = IF mq = "running" THEN "calling" ELSE "off"
    /\ UNCHANGED <<signal, shutdown, stopped, broker, handler, listener, ticker,
                   immediate, source, faults>>

StartPoints ==
    /\ main = "points" /\ main' = "install"
    /\ ticker' = "select" /\ immediate' = "busy"
    /\ UNCHANGED <<signal, shutdown, stopped, broker, consume, handler, listener,
                   source, faults>>

InstallShutdown ==
    /\ main = "install" /\ main' = "serve"
    /\ shutdown' = "wait"
    /\ UNCHANGED <<signal, stopped, broker, goroutines, source, faults>>

ServeFails ==
    /\ main = "serve" /\ Fault("fatal")
    /\ main' = "exited"
    /\ UNCHANGED <<signal, shutdown, stopped, broker, goroutines, source>>

(* Before signal.Notify a signal ends the process.                           *)
Signal ==
    /\ MayStop /\ ~signal
    /\ signal' = TRUE
    /\ main' = IF shutdown = "off" THEN "exited" ELSE main
    /\ UNCHANGED <<shutdown, stopped, broker, goroutines, source, faults>>

-----------------------------------------------------------------------------
(* EventConsumer.consume and the goroutine of Client.Consume                 *)

(* A refused consumer is logged; consume then waits to be stopped.           *)
Consume ==
    /\ consume = "calling" /\ consume' = "waiting"
    /\ \/ conn /\ handler' = "select" /\ NoFault
       \/ ~conn /\ UNCHANGED <<handler, faults>>
       \/ conn /\ Fault("consume") /\ UNCHANGED handler
    /\ UNCHANGED <<main, signal, shutdown, stopped, broker, listener, ticker,
                   immediate, source>>

ConsumeStop ==
    /\ consume = "waiting" /\ "consumer" \in stopped
    /\ consume' = "off"
    /\ UNCHANGED <<main, signal, shutdown, stopped, broker, handler, listener,
                   ticker, immediate, source, faults>>

HandlerReceive ==
    /\ handler = "select" /\ conn /\ queue > 0
    /\ handler' = "busy" /\ queue' = queue - 1
    /\ UNCHANGED <<main, signal, shutdown, stopped, mq, conn, consume, listener,
                   ticker, immediate, source, faults>>

(* Faulty variant: an error ends the loop ("return" for "continue").         *)
HandlerDoneOrReturn ==
    /\ handler = "busy"
    /\ \/ handler' = "select" /\ NoFault /\ UNCHANGED queue
       \/ handler' = "off" /\ Fault("handler")
          /\ queue' = IF conn THEN queue + 1 ELSE queue
    /\ UNCHANGED <<main, signal, shutdown, stopped, mq, conn, consume, listener,
                   ticker, immediate, source>>

(* The message is acknowledged, or requeued.                                 *)
HandlerDone ==
    /\ handler = "busy" /\ handler' = "select"
    /\ \/ NoFault /\ UNCHANGED queue
       \/ Fault("handler") /\ queue' = IF conn THEN queue + 1 ELSE queue
    /\ UNCHANGED <<main, signal, shutdown, stopped, mq, conn, consume, listener,
                   ticker, immediate, source>>

(* The deliveries' channel is closed, or the client's stopChan is.           *)
HandlerStop ==
    /\ handler = "select" /\ ~conn
    /\ handler' = "off"
    /\ UNCHANGED <<main, signal, shutdown, stopped, broker, consume, listener,
                   ticker, immediate, source, faults>>

(* The broker takes back what the handler has not acknowledged.              *)
TakenBack == IF handler = "busy" /\ conn THEN queue + 1 ELSE queue

ConnectionLost ==
    /\ conn /\ Fault("conn")
    /\ conn' = FALSE /\ queue' = TakenBack
    /\ UNCHANGED <<main, signal, shutdown, stopped, mq, goroutines, source>>

-----------------------------------------------------------------------------
(* The source of the events                                                  *)

(* A log from the subscription ("push") or from a poll ("poll").             *)
ClientReceive ==
    /\ client = "select" /\ events > 0
    /\ client' \in {"push", "poll"} /\ events' = events - 1
    /\ UNCHANGED <<main, signal, shutdown, stopped, broker, goroutines, channel,
                   faults>>

ClientSend ==
    /\ client \in {"push", "poll"} /\ channel < Capacity
    /\ client' = "select" /\ channel' = channel + 1
    /\ UNCHANGED <<main, signal, shutdown, stopped, broker, goroutines, events,
                   faults>>

(* handleWebSocketLogs has no case for stopChan where it sends an event;     *)
(* pollEvents has, and drops the event.                                      *)
ClientStop ==
    /\ client \in {"select", "poll"} /\ "client" \in stopped
    /\ client' = "off"
    /\ UNCHANGED <<main, signal, shutdown, stopped, broker, goroutines, channel,
                   events, faults>>

-----------------------------------------------------------------------------
(* listenChain and the points calculator's goroutines                        *)

ListenerReceive ==
    /\ listener = "select" /\ channel > 0
    /\ listener' = "busy" /\ channel' = channel - 1
    /\ UNCHANGED <<main, signal, shutdown, stopped, broker, consume, handler,
                   client, ticker, immediate, events, faults>>

(* processEvent publishes a new event, if the client runs.                   *)
ListenerDone ==
    /\ listener = "busy" /\ listener' = "select"
    /\ \/ mq = "running" /\ conn /\ queue' = queue + 1
       \/ UNCHANGED queue
    /\ UNCHANGED <<main, signal, shutdown, stopped, mq, conn, consume, handler,
                   ticker, immediate, source, faults>>

ListenerStop ==
    /\ listener = "select" /\ "listener" \in stopped
    /\ listener' = "off"
    /\ UNCHANGED <<main, signal, shutdown, stopped, broker, consume, handler,
                   ticker, immediate, source, faults>>

TickerWorks ==
    /\ \/ ticker = "select" /\ ticker' = "busy"
       \/ ticker = "busy" /\ ticker' = "select"
    /\ UNCHANGED <<main, signal, shutdown, stopped, broker, consume, handler,
                   listener, immediate, source, faults>>

(* Faulty variant: no case for stopChan.                                     *)
TickerNeverStops == FALSE

TickerStop ==
    /\ ticker = "select" /\ "points" \in stopped
    /\ ticker' = "off"
    /\ UNCHANGED <<main, signal, shutdown, stopped, broker, consume, handler,
                   listener, immediate, source, faults>>

ImmediateDone ==
    /\ immediate = "busy" /\ immediate' = "off"
    /\ UNCHANGED <<main, signal, shutdown, stopped, broker, consume, handler,
                   listener, ticker, source, faults>>

-----------------------------------------------------------------------------
(* setupGracefulShutdown: each Stop closes a stopChan, waits for the         *)
(* goroutines that are counted, and the next one begins.                     *)

StopConsumer ==
    /\ shutdown = "wait" /\ signal
    /\ shutdown' = "consumer"
    /\ stopped' = stopped \union {"consumer"}
    /\ UNCHANGED <<main, signal, broker, goroutines, source, faults>>

StopListener ==
    /\ shutdown = "consumer" /\ consume = "off"
    /\ shutdown' = "listener"
    /\ stopped' = stopped \union {"listener"}
    /\ UNCHANGED <<main, signal, broker, goroutines, source, faults>>

(* Faulty variant: Stop does not wait for listenChain.                       *)
StopClientAtOnce ==
    /\ shutdown = "listener"
    /\ shutdown' = "client"
    /\ stopped' = stopped \union {"client"}
    /\ UNCHANGED <<main, signal, broker, goroutines, source, faults>>

(* EventListener.Stop, once listenChain has returned: CloseAll.              *)
StopClient ==
    /\ shutdown = "listener" /\ listener = "off"
    /\ shutdown' = "client"
    /\ stopped' = stopped \union {"client"}
    /\ UNCHANGED <<main, signal, broker, goroutines, source, faults>>

StopPoints ==
    /\ shutdown = "client" /\ client = "off"
    /\ shutdown' = "points"
    /\ stopped' = stopped \union {"points"}
    /\ UNCHANGED <<main, signal, broker, goroutines, source, faults>>

(* Faulty variant: Close leaves the channel open.                            *)
CloseMQOnly ==
    /\ shutdown = "points" /\ ticker = "off"
    /\ shutdown' = "mq"
    /\ mq' = IF mq = "running" THEN "closed" ELSE mq
    /\ stopped' = stopped \union {"mq"}
    /\ UNCHANGED <<main, signal, conn, queue, goroutines, source, faults>>

CloseMQ ==
    /\ shutdown = "points" /\ ticker = "off"
    /\ shutdown' = "mq"
    /\ IF mq = "running"
       THEN /\ mq' = "closed" /\ conn' = FALSE /\ queue' = TakenBack
            /\ stopped' = stopped \union {"mq"}
       ELSE UNCHANGED <<broker, stopped>>
    /\ UNCHANGED <<main, signal, goroutines, source, faults>>

Exit ==
    /\ shutdown = "mq"
    /\ shutdown' = "done" /\ main' = "exited"
    /\ UNCHANGED <<signal, stopped, broker, goroutines, source, faults>>

-----------------------------------------------------------------------------
Main == \/ StartDatabase \/ StartMQ \/ StartListener \/ StartConsumer
        \/ StartPoints \/ InstallShutdown
Handler == HandlerReceive \/ HandlerDone \/ HandlerStop
Client == ClientReceive \/ ClientSend \/ ClientStop
Listener == ListenerReceive \/ ListenerDone \/ ListenerStop
Ticker == TickerWorks \/ TickerStop
Shutdown == \/ StopConsumer \/ StopListener \/ StopClient \/ StopPoints
            \/ CloseMQ \/ Exit

Next ==
    /\ main # "exited"
    /\ \/ Main \/ ServeFails \/ Signal \/ Consume \/ ConsumeStop \/ Handler
       \/ ConnectionLost \/ Client \/ Listener \/ Ticker \/ ImmediateDone
       \/ Shutdown

Spec == Init /\ [][Next]_vars

(* Goroutines run; a select whose stopChan is closed takes that case in the  *)
(* end, for Go chooses at random among the cases that are ready.             *)
Alive(A) == main # "exited" /\ A

Fairness ==
    /\ WF_vars(Alive(Main)) /\ WF_vars(Alive(Shutdown))
    /\ WF_vars(Alive(Consume)) /\ WF_vars(Alive(ConsumeStop))
    /\ WF_vars(Alive(Handler)) /\ WF_vars(Alive(Client))
    /\ WF_vars(Alive(Listener)) /\ WF_vars(Alive(Ticker))
    /\ SF_vars(Alive(TickerStop))

FairSpec == Spec /\ Fairness

-----------------------------------------------------------------------------
(* Properties                                                                *)

(* main stops the listener before it closes the client: no event is recorded *)
(* without a message because the service is going down: processEvent finds   *)
(* its row ever after and never publishes it (event_listener.go:305).        *)
ShutdownLosesNoMessage ==
    [][listener = "busy" /\ listener' = "select" => mq # "closed"]_vars

(* The client's handler holds an event, eventChan is full and listenChain is *)
(* gone: nothing will take it, and DualModeClient.Stop waits for the handler *)
(* for ever (the run DualShutdown shows how this comes about).               *)
Blocked == client = "push" /\ channel = Capacity /\ listener = "off"

(* "Graceful shutdown" (main.go:89): a signal ends the service, whatever     *)
(* failed before and whatever its goroutines are doing, with the one         *)
(* exception of the handler that is Blocked when the listener stops.         *)
SignalEndsService == signal ~> main = "exited" \/ Blocked

(* Once there is a consumer the queue is emptied in the end, though messages *)
(* are requeued and services stop around it, until the connection goes.      *)
QueueIsServed ==
    queue > 0 /\ handler # "off" ~> queue = 0 \/ ~conn \/ main = "exited"
=============================================================================
