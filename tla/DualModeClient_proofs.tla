------------------------ MODULE DualModeClient_proofs ------------------------
(* Proofs that a running client has exactly one source of events, and that   *)
(* nothing but events of the chain gets into the channel and to the          *)
(* listener, for every length of the chain, capacity of the channel and      *)
(* number of faults.                                                         *)
EXTENDS DualModeClient, TLAPS

(* "handler", "timer" and "poller" as the states of the three goroutines.    *)
LEMMA SourcesByCase ==
    /\ "handler" \in Sources <=> handler.pc # "off"
    /\ "timer" \in Sources <=> timer # "off"
    /\ "poller" \in Sources <=> poller.pc # "off"
    /\ \A s \in Sources : s \in {"handler", "timer", "poller"}
BY DEF Sources

(* SourceInv without sets: what the step lemmas work with.                   *)
Alone(h, t, p) ==
    \/ h /\ ~t /\ ~p
    \/ ~h /\ t /\ ~p
    \/ ~h /\ ~t /\ p

SourceCases ==
    /\ isRunning \in BOOLEAN /\ stopChan \in BOOLEAN /\ wsSubActive \in BOOLEAN
    /\ isRunning /\ ~stopChan =>
        Alone(handler.pc # "off", timer # "off", poller.pc # "off")
    /\ handler.pc # "off" \/ timer # "off" => poller.pc = "off"
    /\ handler.pc # "off" => timer = "off"
    /\ poller.pc # "off" => currentMode = "http" /\ ~wsSubActive
    /\ isRunning /\ poller.pc = "off" /\ ~stopChan => currentMode = "ws"
    /\ timer # "off" => ~wsSubActive
    /\ reader.pc = "start" =>
        /\ handler.pc = "off" /\ timer = "off" /\ poller.pc = "off"
        /\ ~isRunning /\ ~wsSubActive /\ stop \in {"no", "listener"}
    /\ stopChan <=> stop \in {"client", "closing", "done"}
    /\ reader.pc # "start" => (isRunning <=> stop # "done")

LEMMA SourceInvByCase == SourceInv <=> SourceCases
<1>1. (\E s \in {"handler", "timer", "poller"} : Sources = {s})
        <=> Alone(handler.pc # "off", timer # "off", poller.pc # "off")
  BY SourcesByCase DEF Alone
<1>2. Sources = {} <=> handler.pc = "off" /\ timer = "off" /\ poller.pc = "off"
  BY SourcesByCase
<1> QED BY <1>1, <1>2 DEF SourceInv, OneSource, SourceCases

LEMMA InitSource == Init => SourceCases
<1> SUFFICES ASSUME Init PROVE SourceCases
  OBVIOUS
<1>1. /\ handler.pc = "off" /\ poller.pc = "off" /\ reader.pc = "start"
      /\ timer = "off" /\ stop = "no"
      /\ isRunning = FALSE /\ stopChan = FALSE /\ wsSubActive = FALSE
  BY DEF Init
<1> QED BY <1>1 DEF SourceCases

(* Starting the client, and the end of the reconnect timer, put one source   *)
(* in the place of none, or of the timer.                                    *)
LEMMA StartSource ==
    ASSUME SourceCases, ReaderStart \/ TimerReconnect
    PROVE  SourceCases'
<1>1. /\ handler.pc = "off" /\ poller.pc = "off" /\ ~wsSubActive /\ timer' = "off"
      /\ stopChan' = stopChan /\ stop' = stop
      /\ reader'.pc # "start" /\ isRunning' = (stop # "done")
      /\ ~stopChan => stop # "done"
  <2>1. CASE ReaderStart
    BY <2>1 DEF ReaderStart, Subscribe, StartHTTPPoller, SourceCases
  <2>2. CASE TimerReconnect
    <3>1. reader.pc # "start" /\ timer # "off"
      BY <2>2 DEF TimerReconnect, SourceCases
    <3> QED BY <2>2, <3>1 DEF TimerReconnect, SourceCases
  <2> QED BY <2>1, <2>2
<1>2. \/ /\ handler'.pc = "select" /\ poller' = poller
         /\ currentMode' = "ws" /\ wsSubActive' = TRUE
      \/ /\ poller'.pc = "select" /\ handler' = handler
         /\ currentMode' = "http" /\ wsSubActive' = wsSubActive
  BY DEF ReaderStart, TimerReconnect, Subscribe, StartHTTPPoller
<1>3. /\ stopChan' \in BOOLEAN /\ isRunning' \in BOOLEAN /\ wsSubActive' \in BOOLEAN
      /\ stopChan' <=> stop' \in {"client", "closing", "done"}
  BY <1>1, <1>2 DEF SourceCases
<1> QED BY <1>1, <1>2, <1>3 DEF SourceCases, Alone

(* The handler ends by arming the timer, or because of stopChan.             *)
LEMMA HandlerSource ==
    ASSUME SourceCases, Handler \/ TimerFires
    PROVE  SourceCases'
<1>1. CASE HandlerError
  BY <1>1 DEF SourceCases, HandlerError, Alone
<1>2. CASE HandlerReceive
  BY <1>2 DEF SourceCases, HandlerReceive, Alone
<1>3. CASE HandlerSend
  BY <1>3 DEF SourceCases, HandlerSend, Alone
<1>4. CASE HandlerStop
  BY <1>4 DEF SourceCases, HandlerStop, Alone
<1>5. CASE TimerFires
  BY <1>5 DEF SourceCases, TimerFires, Alone
<1> QED BY <1>1, <1>2, <1>3, <1>4, <1>5 DEF Handler

LEMMA PollerSource ==
    ASSUME SourceCases, Poller
    PROVE  SourceCases'
<1>1. CASE PollerTick
  BY <1>1 DEF SourceCases, PollerTick, Alone
<1>2. CASE PollerSend
  BY <1>2 DEF SourceCases, PollerSend, Alone
<1>3. CASE PollerGiveUp
  BY <1>3 DEF SourceCases, PollerGiveUp, Alone
<1>4. CASE PollerStop
  BY <1>4 DEF SourceCases, PollerStop, Alone
<1> QED BY <1>1, <1>2, <1>3, <1>4 DEF Poller

LEMMA ReaderSource ==
    ASSUME SourceCases, ReaderReceive \/ Accept \/ ReaderSkip \/ ReaderStop
    PROVE  SourceCases'
<1>1. /\ reader.pc # "start" /\ reader'.pc # "start"
      /\ UNCHANGED <<isRunning, stopChan, wsSubActive, currentMode, handler,
                     poller, timer, stop>>
  BY DEF ReaderReceive, Accept, ReaderSkip, ReaderStop, clientVars
<1> QED BY <1>1 DEF SourceCases, Alone

LEMMA StopSource ==
    ASSUME SourceCases, Stop
    PROVE  SourceCases'
<1>1. CASE StopListener
  BY <1>1 DEF SourceCases, StopListener, clientVars, Alone
<1>2. CASE StopClient
  BY <1>2 DEF SourceCases, StopClient, clientVars, Alone
<1>3. CASE StopWaited
  BY <1>3 DEF SourceCases, StopWaited, clientVars, Alone
<1>4. CASE StopClose
  BY <1>4 DEF SourceCases, StopClose, Alone
<1> QED BY <1>1, <1>2, <1>3, <1>4 DEF Stop

LEMMA OtherSource ==
    ASSUME SourceCases, Mine \/ SubscriptionBreaks \/ UNCHANGED vars
    PROVE  SourceCases'
BY DEF SourceCases, Mine, SubscriptionBreaks, vars, Alone

LEMMA SourceStep ==
    ASSUME SourceCases, [Next]_vars
    PROVE  SourceCases'
BY StartSource, HandlerSource, PollerSource, ReaderSource, StopSource, OtherSource
DEF Next, Timer, Reader, ReaderAccept

LEMMA SourceFollows == SourceCases => OneSource
BY SourceInvByCase DEF SourceInv

(* While the client runs it has exactly one source of events, and the mode   *)
(* it reports is that source's: a reconnect never leaves it with none, with  *)
(* two pollers, or with a poller that an active subscription silences.       *)
THEOREM ClientHasOneSource == Spec => []OneSource
<1>1. SourceCases /\ [Next]_vars => SourceCases'
  BY SourceStep
<1> QED BY <1>1, SourceFollows, InitSource, PTL DEF Spec

-----------------------------------------------------------------------------
(* What TypeOK needs to be inductive: whoever is about to hand an event on   *)
(* has one.                                                                  *)
TypeInv ==
    /\ TypeOK
    /\ handler.pc = "send" => handler.event \in EventBlocks
    /\ reader.pc = "handle" => reader.event \in EventBlocks

LEMMA InitType == Init => TypeInv
<1> SUFFICES ASSUME Init PROVE TypeInv
  OBVIOUS
<1> USE DualModeAssumption DEF DualModeAssumption, Init
<1>1. height \in 0..MaxHeight /\ faults \in 0..MaxFaults
  OBVIOUS
<1>2. isRunning \in BOOLEAN /\ stopChan \in BOOLEAN /\ wsSubActive \in BOOLEAN
  OBVIOUS
<1>3. logs \in Seq(EventBlocks) /\ eventChan \in Seq(EventBlocks)
  OBVIOUS
<1>4. Len(eventChan) <= Capacity
  OBVIOUS
<1>5. /\ handler \in [pc : {"off", "select", "send"}, event : EventBlocks \union {NoEvent}]
      /\ handler.pc = "off"
  OBVIOUS
<1>6. poller \in [pc : {"off", "select", "send"}, todo : SUBSET EventBlocks]
  OBVIOUS
<1>7. /\ reader \in [pc : {"start", "select", "handle", "off"},
                     event : EventBlocks \union {NoEvent}]
      /\ reader.pc = "start"
  OBVIOUS
<1>8. /\ currentMode = "http" /\ sub = "none" /\ timer = "off" /\ stop = "no"
      /\ handled = {} /\ skipped = {}
  OBVIOUS
<1> QED BY <1>1, <1>2, <1>3, <1>4, <1>5, <1>6, <1>7, <1>8 DEF TypeInv, TypeOK

LEMMA FaultType ==
    ASSUME faults \in 0..MaxFaults, Fault
    PROVE  faults' \in 0..MaxFaults
BY DualModeAssumption DEF DualModeAssumption, Fault

(* The chain and the subscription.                                           *)
LEMMA ChainType ==
    ASSUME TypeInv, Mine \/ SubscriptionBreaks
    PROVE  TypeInv'
<1>1. CASE Mine
  <2>1. height' \in 0..MaxHeight
    BY <1>1, DualModeAssumption DEF DualModeAssumption, Mine, TypeInv, TypeOK
  <2>2. logs' \in Seq(EventBlocks)
    BY <1>1 DEF Mine, TypeInv, TypeOK
  <2> QED BY <1>1, <2>1, <2>2 DEF Mine, TypeInv, TypeOK
<1>2. CASE SubscriptionBreaks
  BY <1>2, FaultType DEF SubscriptionBreaks, TypeInv, TypeOK
<1> QED BY <1>1, <1>2

(* Who starts a source, starts it with an empty hand.                        *)
LEMMA StartType ==
    ASSUME TypeInv, ReaderStart \/ TimerReconnect
    PROVE  TypeInv'
<1>1. /\ faults' \in 0..MaxFaults
      /\ Subscribe \/ StartHTTPPoller
      /\ UNCHANGED <<height, stopChan, eventChan, stop, handled, skipped>>
  BY FaultType DEF ReaderStart, TimerReconnect, Subscribe, TypeInv, TypeOK
<1>2. /\ timer' \in {"off", "armed", "fired"} /\ isRunning' \in BOOLEAN
      /\ reader' = reader \/ reader' = [pc |-> "select", event |-> NoEvent]
  BY DEF ReaderStart, TimerReconnect, Subscribe, StartHTTPPoller, TypeInv, TypeOK
<1>3. CASE Subscribe
  BY <1>1, <1>2, <1>3 DEF Subscribe, TypeInv, TypeOK
<1>4. CASE StartHTTPPoller
  BY <1>1, <1>2, <1>4 DEF StartHTTPPoller, TypeInv, TypeOK
<1> QED BY <1>1, <1>3, <1>4

LEMMA HandlerType ==
    ASSUME TypeInv, Handler \/ TimerFires
    PROVE  TypeInv'
<1>1. CASE HandlerError
  <2>1. wsSubActive' \in BOOLEAN
    BY <1>1 DEF HandlerError
  <2>2. /\ logs' \in Seq(EventBlocks)
        /\ handler' = [pc |-> "off", event |-> NoEvent] /\ timer' = "armed"
        /\ UNCHANGED <<height, isRunning, stopChan, currentMode, sub, poller,
                       eventChan, reader, stop, handled, skipped, faults>>
    BY <1>1 DEF HandlerError
  <2> QED BY <2>1, <2>2 DEF TypeInv, TypeOK
<1>2. CASE HandlerReceive
  <2>1. Head(logs) \in EventBlocks /\ Tail(logs) \in Seq(EventBlocks)
    BY <1>2 DEF TypeInv, TypeOK, HandlerReceive
  <2> QED BY <1>2, <2>1 DEF TypeInv, TypeOK, HandlerReceive
<1>3. CASE HandlerSend
  <2>1. eventChan' \in Seq(EventBlocks) /\ Len(eventChan') <= Capacity
    BY <1>3, DualModeAssumption
    DEF DualModeAssumption, TypeInv, TypeOK, HandlerSend
  <2> QED BY <1>3, <2>1 DEF TypeInv, TypeOK, HandlerSend
<1>4. CASE HandlerStop
  BY <1>4 DEF TypeInv, TypeOK, HandlerStop
<1>5. CASE TimerFires
  BY <1>5 DEF TypeInv, TypeOK, TimerFires
<1> QED BY <1>1, <1>2, <1>3, <1>4, <1>5 DEF Handler

LEMMA PollerType ==
    ASSUME TypeInv, Poller
    PROVE  TypeInv'
<1>1. CASE PollerTick
  BY <1>1 DEF TypeInv, TypeOK, PollerTick
<1>2. CASE PollerSend
  <2>1. PICK b \in poller.todo :
          /\ eventChan' = Append(eventChan, b)
          /\ poller' = [pc |-> IF poller.todo = {b} THEN "select" ELSE "send",
                        todo |-> poller.todo \ {b}]
    BY <1>2 DEF PollerSend
  <2>2. b \in EventBlocks
    BY DEF TypeInv, TypeOK
  <2>3. eventChan' \in Seq(EventBlocks) /\ Len(eventChan') <= Capacity
    BY <1>2, <2>1, <2>2, DualModeAssumption
    DEF DualModeAssumption, TypeInv, TypeOK, PollerSend
  <2>4. poller' \in [pc : {"off", "select", "send"}, todo : SUBSET EventBlocks]
    BY <2>1 DEF TypeInv, TypeOK
  <2> QED BY <1>2, <2>3, <2>4 DEF TypeInv, TypeOK, PollerSend
<1>3. CASE PollerGiveUp
  BY <1>3 DEF TypeInv, TypeOK, PollerGiveUp
<1>4. CASE PollerStop
  BY <1>4 DEF TypeInv, TypeOK, PollerStop
<1> QED BY <1>1, <1>2, <1>3, <1>4 DEF Poller

(* An accepted event, whatever processEvent makes of the faults.             *)
LEMMA AcceptType ==
    ASSUME TypeInv, Accept, faults' \in 0..MaxFaults
    PROVE  TypeInv'
BY DEF TypeInv, TypeOK, Accept, clientVars

LEMMA ReaderType ==
    ASSUME TypeInv, ReaderReceive \/ ReaderAccept \/ ReaderSkip \/ ReaderStop
    PROVE  TypeInv'
<1>1. CASE ReaderReceive
  <2>1. /\ Head(eventChan) \in EventBlocks /\ Tail(eventChan) \in Seq(EventBlocks)
        /\ Len(Tail(eventChan)) <= Capacity
    BY <1>1, DualModeAssumption
    DEF DualModeAssumption, TypeInv, TypeOK, ReaderReceive
  <2> QED BY <1>1, <2>1 DEF TypeInv, TypeOK, ReaderReceive, clientVars
<1>2. CASE ReaderAccept
  <2>1. Accept /\ faults' \in 0..MaxFaults
    BY <1>2 DEF TypeInv, TypeOK, ReaderAccept
  <2> QED BY <2>1, AcceptType
<1>3. CASE ReaderSkip
  <2>1. faults' \in 0..MaxFaults /\ skipped' \subseteq EventBlocks
    BY <1>3, FaultType DEF TypeInv, TypeOK, ReaderSkip
  <2> QED BY <1>3, <2>1 DEF TypeInv, TypeOK, ReaderSkip, clientVars
<1>4. CASE ReaderStop
  BY <1>4 DEF TypeInv, TypeOK, ReaderStop, clientVars
<1> QED BY <1>1, <1>2, <1>3, <1>4

LEMMA StopType ==
    ASSUME TypeInv, Stop \/ UNCHANGED vars
    PROVE  TypeInv'
<1>1. CASE StopListener \/ StopClient \/ StopWaited
  <2>1. /\ stopChan' \in BOOLEAN
        /\ stop' \in {"listener", "client", "closing"}
        /\ UNCHANGED <<height, clientVars, eventChan, reader, handled, skipped,
                       faults>>
    BY <1>1 DEF TypeInv, TypeOK, StopListener, StopClient, StopWaited
  <2> QED BY <2>1 DEF TypeInv, TypeOK, clientVars
<1>2. CASE StopClose
  <2>1. /\ isRunning' \in BOOLEAN /\ sub' \in {"none", "open", "broken"}
        /\ stop' = "done"
        /\ UNCHANGED <<height, stopChan, wsSubActive, currentMode, logs, handler,
                       poller, timer, eventChan, reader, handled, skipped, faults>>
    BY <1>2 DEF TypeInv, TypeOK, StopClose
  <2> QED BY <2>1 DEF TypeInv, TypeOK
<1>3. CASE UNCHANGED vars
  BY <1>3 DEF TypeInv, TypeOK, vars
<1> QED BY <1>1, <1>2, <1>3 DEF Stop

LEMMA TypeStep ==
    ASSUME TypeInv, [Next]_vars
    PROVE  TypeInv'
BY ChainType, StartType, HandlerType, PollerType, ReaderType, StopType
DEF Next, Timer, Reader

(* Only events of the chain go through the channel and are handed to         *)
(* processEvent, also those that were under way when the subscription broke  *)
(* or the service was stopped, and the channel never holds more than it has  *)
(* room for.                                                                 *)
THEOREM ClientTypes == Spec => []TypeOK
<1>1. TypeInv /\ [Next]_vars => TypeInv'
  BY TypeStep
<1>2. TypeInv => TypeOK
  BY DEF TypeInv
<1> QED BY <1>1, <1>2, InitType, PTL DEF Spec
=============================================================================
