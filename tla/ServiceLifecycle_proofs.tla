---------------------- MODULE ServiceLifecycle_proofs ----------------------
(* Proof that a shutdown loses no message: main's order of stopping, for any *)
(* number of events and any faults.                                          *)
EXTENDS ServiceLifecycle, TLAPS

(* How far main has come before the signal is asked for.                     *)
Starting == {"start", "mq", "listener", "consumer", "points", "install"}

(* Every component is started before its shutdown can begin ...              *)
StartedBefore == main \in Starting => shutdown = "off"

(* ... the listener is stopped before the next component is ...              *)
ListenerGone ==
    shutdown \in {"client", "points", "mq", "done"} => listener = "off"

(* ... and the client is closed last, and by the shutdown alone.             *)
ClosedLast == mq = "closed" => shutdown \in {"mq", "done"}

(* ... and messages are taken only from a client that main has made.         *)
NoneTakenYet == main \in {"start", "mq"} => handler = "off" /\ consume = "off"

(* Messages and events are the same events: what is in the broker, with a    *)
(* handler, the listener or its client, and what the chain has yet to offer. *)
Count(busy) == IF busy THEN 1 ELSE 0
Room ==
    queue + channel + events + Count(client \in {"push", "poll"})
        + Count(listener = "busy") + Count(conn /\ handler = "busy") <= MaxEvents

LifecycleInv ==
    TypeOK /\ StartedBefore /\ ListenerGone /\ ClosedLast /\ NoneTakenYet /\ Room

LEMMA InitInv == Init => LifecycleInv
<1> SUFFICES ASSUME Init PROVE LifecycleInv
  OBVIOUS
<1>1. signal \in BOOLEAN /\ conn \in BOOLEAN /\ (conn => mq = "running")
  BY Zenon DEF Init
<1>2. /\ queue \in 0..MaxEvents /\ events \in 0..MaxEvents /\ faults \in 0..MaxFaults
      /\ channel \in 0..MaxEvents /\ channel <= Capacity
  BY LifecycleAssumption DEF LifecycleAssumption, Init
<1>3. TypeOK
  BY <1>1, <1>2 DEF Init, TypeOK, Loop
<1>4. StartedBefore /\ ListenerGone /\ ClosedLast /\ NoneTakenYet
  BY DEF Init, StartedBefore, ListenerGone, ClosedLast, NoneTakenYet
<1>5. Room
  BY LifecycleAssumption DEF LifecycleAssumption, Init, Room, Count
<1> QED BY <1>3, <1>4, <1>5 DEF LifecycleInv

(* Where a fault may happen, it does or it does not.                         *)
LEMMA FaultsStay ==
    ASSUME LifecycleInv, NEW k, Fault(k) \/ NoFault
    PROVE  faults' \in 0..MaxFaults
  BY LifecycleAssumption
  DEF LifecycleAssumption, LifecycleInv, TypeOK, Fault, NoFault

(* The steps of main, up to the last line it runs.                           *)
LEMMA MainInv ==
    ASSUME LifecycleInv,
           StartDatabase \/ StartMQ \/ StartListener \/ StartConsumer
           \/ StartPoints \/ InstallShutdown \/ ServeFails \/ Signal
    PROVE  LifecycleInv'
<1> USE LifecycleAssumption
    DEF LifecycleAssumption, LifecycleInv, TypeOK, StartedBefore, ListenerGone,
        ClosedLast, NoneTakenYet, Room, Count, Starting, Loop, broker, goroutines,
        source, NoFault
<1>1. CASE StartDatabase
  BY <1>1, FaultsStay DEF StartDatabase
<1>2. CASE StartMQ
  <2>1. mq' \in {"none", "running"} /\ conn' \in BOOLEAN /\ (conn' => mq' = "running")
    <3>1. CASE mq' = "running" /\ conn' = TRUE
      BY <3>1, Zenon
    <3>2. CASE UNCHANGED <<mq, conn>>
      BY <1>2, <3>2 DEF StartMQ
    <3> QED BY <1>2, <3>1, <3>2 DEF StartMQ
  <2>2. faults' \in 0..MaxFaults
    BY <1>2, FaultsStay DEF StartMQ
  <2>3. TypeOK'
    BY <1>2, <2>1, <2>2 DEF StartMQ
  <2>4. Room'
    BY <1>2 DEF StartMQ
  <2> QED BY <1>2, <2>1, <2>3, <2>4 DEF StartMQ
<1>3. CASE StartListener
  BY <1>3, FaultsStay DEF StartListener
<1>4. CASE StartConsumer
  BY <1>4 DEF StartConsumer
<1>5. CASE StartPoints
  BY <1>5 DEF StartPoints
<1>6. CASE InstallShutdown
  BY <1>6 DEF InstallShutdown
<1>7. CASE ServeFails
  BY <1>7, FaultsStay DEF ServeFails
<1>8. CASE Signal
  BY <1>8 DEF Signal
<1> QED BY <1>1, <1>2, <1>3, <1>4, <1>5, <1>6, <1>7, <1>8

(* The consumer, its handler and the broker behind them.                     *)
LEMMA ConsumerInv ==
    ASSUME LifecycleInv,
           Consume \/ ConsumeStop \/ HandlerReceive \/ HandlerDone
           \/ HandlerStop \/ ConnectionLost
    PROVE  LifecycleInv'
<1> USE LifecycleAssumption
    DEF LifecycleAssumption, LifecycleInv, TypeOK, StartedBefore, ListenerGone,
        ClosedLast, NoneTakenYet, Room, Count, Starting, Loop, broker, goroutines,
        source, NoFault
<1>1. CASE Consume
  BY <1>1, FaultsStay DEF Consume
<1>2. CASE ConsumeStop
  BY <1>2 DEF ConsumeStop
<1>3. CASE HandlerReceive
  BY <1>3 DEF HandlerReceive
<1>4. CASE HandlerDone
  BY <1>4, FaultsStay DEF HandlerDone
<1>5. CASE HandlerStop
  BY <1>5 DEF HandlerStop
<1>6. CASE ConnectionLost
  <2>1. faults' \in 0..MaxFaults
    BY <1>6, FaultsStay DEF ConnectionLost
  <2>2. conn' \in BOOLEAN /\ ~conn' /\ conn
    BY <1>6, Zenon DEF ConnectionLost
  <2>3. Room' /\ queue' \in Nat
    BY <1>6, <2>2 DEF ConnectionLost, TakenBack
  <2>4. queue' \in 0..MaxEvents
    BY <1>6, <2>2, <2>3 DEF ConnectionLost
  <2>5. TypeOK'
    BY <1>6, <2>1, <2>2, <2>4 DEF ConnectionLost
  <2> QED BY <1>6, <2>3, <2>5 DEF ConnectionLost
<1> QED BY <1>1, <1>2, <1>3, <1>4, <1>5, <1>6

(* The source of the events and its channel.                                 *)
LEMMA ClientInv ==
    ASSUME LifecycleInv, ClientReceive \/ ClientSend \/ ClientStop
    PROVE  LifecycleInv'
<1> USE LifecycleAssumption
    DEF LifecycleAssumption, LifecycleInv, TypeOK, StartedBefore, ListenerGone,
        ClosedLast, NoneTakenYet, Room, Count, Starting, Loop, broker, goroutines
<1>1. CASE ClientReceive
  BY <1>1 DEF ClientReceive
<1>2. CASE ClientSend
  BY <1>2 DEF ClientSend
<1>3. CASE ClientStop
  BY <1>3 DEF ClientStop
<1> QED BY <1>1, <1>2, <1>3

(* The listener and the points calculator.                                   *)
LEMMA ListenerInv ==
    ASSUME LifecycleInv,
           ListenerReceive \/ ListenerDone \/ ListenerStop \/ TickerWorks
           \/ TickerStop \/ ImmediateDone
    PROVE  LifecycleInv'
<1> USE LifecycleAssumption
    DEF LifecycleAssumption, LifecycleInv, TypeOK, StartedBefore, ListenerGone,
        ClosedLast, NoneTakenYet, Room, Count, Starting, Loop, broker, goroutines,
        source, NoFault
<1>1. CASE ListenerReceive
  BY <1>1 DEF ListenerReceive
<1>2. CASE ListenerDone
  BY <1>2 DEF ListenerDone
<1>3. CASE ListenerStop
  BY <1>3 DEF ListenerStop
<1>4. CASE TickerWorks
  BY <1>4 DEF TickerWorks
<1>5. CASE TickerStop
  BY <1>5 DEF TickerStop
<1>6. CASE ImmediateDone
  BY <1>6 DEF ImmediateDone
<1> QED BY <1>1, <1>2, <1>3, <1>4, <1>5, <1>6

(* The shutdown, component by component.                                     *)
LEMMA ShutdownInv ==
    ASSUME LifecycleInv,
           StopConsumer \/ StopListener \/ StopClient \/ StopPoints \/ CloseMQ
           \/ Exit
    PROVE  LifecycleInv'
<1> USE LifecycleAssumption
    DEF LifecycleAssumption, LifecycleInv, TypeOK, StartedBefore, ListenerGone,
        ClosedLast, NoneTakenYet, Room, Count, Starting, Loop, broker, goroutines,
        source, NoFault
<1>1. CASE StopConsumer
  BY <1>1 DEF StopConsumer
<1>2. CASE StopListener
  BY <1>2 DEF StopListener
<1>3. CASE StopPoints
  BY <1>3 DEF StopPoints
<1>6. CASE StopClient
  BY <1>6 DEF StopClient
<1>4. CASE CloseMQ
  <2>1. CASE mq # "running"
    BY <1>4, <2>1 DEF CloseMQ
  <2>2. CASE mq = "running"
    <3>1. conn' \in BOOLEAN /\ ~conn'
      BY <1>4, <2>2, Zenon DEF CloseMQ
    <3>2. Room' /\ queue' \in Nat
      BY <1>4, <2>2, <3>1 DEF CloseMQ, TakenBack
    <3>3. queue' \in 0..MaxEvents
      BY <1>4, <2>2, <3>1, <3>2 DEF CloseMQ
    <3>4. TypeOK'
      BY <1>4, <2>2, <3>1, <3>3 DEF CloseMQ
    <3> QED BY <1>4, <2>2, <3>2, <3>4 DEF CloseMQ
  <2> QED BY <2>1, <2>2
<1>5. CASE Exit
  BY <1>5 DEF Exit
<1> QED BY <1>1, <1>2, <1>3, <1>4, <1>5, <1>6

(* The inductive invariant of the service from its start to its exit: what   *)
(* main and setupGracefulShutdown have started and stopped so far.           *)
THEOREM LifecycleInvariant == Spec => []LifecycleInv
<1>1. LifecycleInv /\ [Next]_vars => LifecycleInv'
  <2> SUFFICES ASSUME LifecycleInv, [Next]_vars PROVE LifecycleInv'
    OBVIOUS
  <2>1. CASE UNCHANGED vars
    BY <2>1 DEF vars, LifecycleInv, TypeOK, StartedBefore, ListenerGone, ClosedLast,
                NoneTakenYet, Room, Count, Starting
  <2>2. CASE Next
    BY <2>2, MainInv, ConsumerInv, ClientInv, ListenerInv, ShutdownInv
    DEF Next, Main, Handler, Client, Listener, Ticker, Shutdown
  <2> QED BY <2>1, <2>2
<1> QED BY InitInv, <1>1, PTL DEF Spec

(* The state of the goroutines, the broker and the shutdown keeps its types. *)
THEOREM LifecycleTypes == Spec => []TypeOK
<1>1. LifecycleInv => TypeOK
  BY DEF LifecycleInv
<1> QED BY <1>1, LifecycleInvariant, PTL

(* An event that listenChain still handles when the service stops finds the  *)
(* client open: setupGracefulShutdown closes it after the listener is gone.  *)
THEOREM ShutdownWaitsForListener == Spec => ShutdownLosesNoMessage
<1>1. LifecycleInv /\ [Next]_vars =>
        [listener = "busy" /\ listener' = "select" => mq # "closed"]_vars
  BY DEF LifecycleInv, ListenerGone, ClosedLast
<1> QED BY <1>1, LifecycleInvariant, PTL DEF Spec, ShutdownLosesNoMessage
=============================================================================
