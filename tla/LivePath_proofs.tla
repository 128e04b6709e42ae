--------------------------- MODULE LivePath_proofs ---------------------------
(* Proofs about the whole path from the poller to the balances.  It keeps    *)
(* what the pipeline keeps by itself: Proved is the pipeline with its        *)
(* theorems, and a step of LivePath is one of its steps, or none of its      *)
(* business.  The client keeps what it keeps alone, also through crashes;    *)
(* and what the poller offers stays confirmed on its way.                    *)
EXTENDS LivePath, Integers, SequenceTheorems, TLAPS

Proved == INSTANCE EventPipeline_proofs

LEMMA ProvedAssumptions ==
    Proved!TransfersAssumption /\ Proved!FaultsAssumption
BY PipelineAssumption
DEF Pipe!TransfersAssumption, Pipe!FaultsAssumption, Pipe!AllFaults,
    Proved!TransfersAssumption, Proved!FaultsAssumption, Proved!AllFaults

(* Pipe and Proved are instances of one module, under two names.             *)
USE DEF Pipe!dbVars, Proved!dbVars, Pipe!mqVars, Proved!mqVars,
        Pipe!Fault, Proved!Fault, Pipe!NoFault, Proved!NoFault,
        Pipe!RowsOf, Proved!RowsOf, Pipe!IdleListener, Proved!IdleListener,
        Pipe!IdleConsumer, Proved!IdleConsumer, Pipe!Nack, Proved!Nack

LEMMA SameListener ==
    /\ \A e : Pipe!ListenerCheck(e) <=> Proved!ListenerCheck(e)
    /\ Pipe!ListenerPublish <=> Proved!ListenerPublish
    /\ Pipe!ListenerStamp <=> Proved!ListenerStamp
    /\ Pipe!ListenerCreate <=> Proved!ListenerCreate
BY DEF Pipe!ListenerCheck, Proved!ListenerCheck,
       Pipe!ListenerPublish, Proved!ListenerPublish,
       Pipe!ListenerStamp, Proved!ListenerStamp,
       Pipe!ListenerCreate, Proved!ListenerCreate

LEMMA SameBroker ==
    /\ Pipe!Deliver <=> Proved!Deliver
    /\ Pipe!ConnectionLost <=> Proved!ConnectionLost
    /\ Pipe!Restart <=> Proved!Restart
BY DEF Pipe!Deliver, Proved!Deliver, Pipe!ConnectionLost,
       Proved!ConnectionLost, Pipe!Restart, Proved!Restart,
       Pipe!Connects, Proved!Connects

LEMMA SameConsumer == Pipe!Consumer <=> Proved!Consumer
<1>1. Pipe!ConsumerCheck <=> Proved!ConsumerCheck
  BY DEF Pipe!ConsumerCheck, Proved!ConsumerCheck, Pipe!IsFirstRow,
         Proved!IsFirstRow
<1>2. Pipe!ConsumerCommit <=> Proved!ConsumerCommit
  BY DEF Pipe!ConsumerCommit, Proved!ConsumerCommit,
         Pipe!MarkProcessed, Proved!MarkProcessed,
         Pipe!ProcessBalanceChanges, Proved!ProcessBalanceChanges,
         Pipe!ProcessFrom, Proved!ProcessFrom, Pipe!ProcessTo, Proved!ProcessTo,
         Pipe!UpdateUserBalance, Proved!UpdateUserBalance
<1>3. Pipe!ConsumerFail <=> Proved!ConsumerFail
  BY DEF Pipe!ConsumerFail, Proved!ConsumerFail
<1>4. Pipe!ConsumerAck <=> Proved!ConsumerAck
  BY DEF Pipe!ConsumerAck, Proved!ConsumerAck
<1> QED BY <1>1, <1>2, <1>3, <1>4 DEF Pipe!Consumer, Proved!Consumer

LEMMA SameStart == Pipe!Init <=> Proved!Init
BY DEF Pipe!Init, Proved!Init, Pipe!Connects, Proved!Connects

LEMMA SameLedger ==
    /\ \A e : Pipe!Applied(e) <=> Proved!Applied(e)
    /\ Pipe!AppliedAtMostOnce <=> Proved!AppliedAtMostOnce
    /\ Pipe!PostedLedger!Next <=> Proved!PostedLedger!Next
    /\ Pipe!PostedLedger!Init <=> Proved!PostedLedger!Init
BY DEF Pipe!Applied, Proved!Applied, Pipe!AppliedAtMostOnce,
       Proved!AppliedAtMostOnce, Pipe!PostedLedger!Next,
       Proved!PostedLedger!Next, Pipe!PostedLedger!Apply,
       Proved!PostedLedger!Apply, Pipe!PostedDelta, Proved!PostedDelta,
       Pipe!PostedLedger!Init, Proved!PostedLedger!Init

-----------------------------------------------------------------------------
(* What a step of the path is to the pipeline.                               *)

Elsewhere == UNCHANGED pipeVars /\ faults' \in Nat

(* A step of the poller, the reader or Stop.                                 *)
LEMMA SourceFault ==
    ASSUME faults \in Nat
    PROVE  /\ Source!Fault => faults' \in Nat
           /\ UNCHANGED faults => faults' \in Nat
BY DEF Source!Fault

LEMMA PathStep ==
    ASSUME faults \in Nat, [Next]_vars
    PROVE  \/ Proved!RunStep /\ UNCHANGED crashed
           \/ Proved!Restart /\ crashed'
           \/ Elsewhere /\ UNCHANGED crashed
<1>1. CASE Offer
  <2>1. PICK b \in EventBlocks :
          Pipe!ListenerCheck(Mined[b]) \/ UNCHANGED <<pipeVars, faults>>
    BY <1>1 DEF Offer
  <2>2. Mined[b] \in Transfers
    BY PathAssumption
  <2>3. CASE Pipe!ListenerCheck(Mined[b])
    BY <1>1, <2>2, <2>3, SameListener DEF Offer, Proved!RunStep, Proved!Listener
  <2>4. CASE UNCHANGED <<pipeVars, faults>>
    BY <1>1, <2>4 DEF Offer, Elsewhere
  <2> QED BY <2>1, <2>3, <2>4
<1>2. CASE ListenChain
  BY <1>2, SourceFault DEF ListenChain, Elsewhere, Source!ReaderStart,
     Source!ReaderReceive, Source!ReaderSkip
<1>3. CASE ListenChainStop \/ Mine \/ Poll \/ StopRequest \/ StopGoesOn
  BY <1>3 DEF ListenChainStop, Mine, Poll, StopRequest, StopGoesOn, Elsewhere,
     Source!ReaderStop, Source!Mine, Source!Poller, Source!PollerTick,
     Source!PollerSend, Source!PollerGiveUp, Source!PollerStop,
     Source!StopListener, Source!StopClient, Source!StopWaited, Source!StopClose
<1>4. CASE ProcessEvent
  BY <1>4, SameListener DEF ProcessEvent, Proved!RunStep, Proved!Listener
<1>5. CASE Deliver \/ Consume \/ ConnectionLost
  BY <1>5, SameBroker, SameConsumer DEF Deliver, Consume, ConnectionLost,
     Proved!RunStep
<1>6. CASE Crash
  BY <1>6, SameBroker DEF Crash
<1>7. CASE UNCHANGED vars
  BY <1>7 DEF vars, Elsewhere, pipeVars
<1> QED BY <1>1, <1>2, <1>3, <1>4, <1>5, <1>6, <1>7 DEF Next

-----------------------------------------------------------------------------
(* The invariant of the path: the pipeline's, and the one that a crash ends. *)

PathAlways == Proved!PipelineInv /\ Proved!HistorySound

PathInv == PathAlways /\ (~crashed => Proved!OnceInv)

LEMMA PathStart == Init => PathInv
BY ProvedAssumptions, SameStart, Proved!InitInv, Proved!HistoryStart,
   Proved!StartOnce
DEF Init, PathInv, PathAlways, Proved!TransfersAssumption, Proved!FaultsAssumption

LEMMA ElsewhereKeeps ==
    ASSUME Elsewhere
    PROVE  /\ Proved!PipelineInv => Proved!PipelineInv'
           /\ Proved!HistorySound => Proved!HistorySound'
           /\ Proved!OnceInv => Proved!OnceInv'
<1>1. UNCHANGED <<Proved!dbVars, clock, Proved!mqVars, lst, con, published>>
  BY DEF Elsewhere, pipeVars
<1>2. faults' \in Nat
  BY DEF Elsewhere
<1> QED BY <1>1, <1>2, ProvedAssumptions, Proved!FaultElsewhere
        DEF Proved!TransfersAssumption, Proved!FaultsAssumption

LEMMA PathKeepsAlways ==
    ASSUME PathAlways, [Next]_vars
    PROVE  PathAlways'
<1>1. Proved!PipelineInv /\ Proved!HistorySound
  BY DEF PathAlways
<1>2. faults \in Nat
  BY <1>1 DEF Proved!PipelineInv, Proved!TypeOK
<1>3. CASE Proved!RunStep \/ Proved!Restart
  <2>1. [Proved!Next]_Proved!vars
    BY <1>3 DEF Proved!RunStep, Proved!Next
  <2> QED
    BY <1>1, <2>1, ProvedAssumptions, Proved!NextInv, Proved!HistoryStep
    DEF PathAlways, Proved!TransfersAssumption, Proved!FaultsAssumption
<1>4. CASE Elsewhere
  BY <1>1, <1>4, ElsewhereKeeps DEF PathAlways
<1> QED BY <1>2, <1>3, <1>4, PathStep

LEMMA PathKeeps ==
    ASSUME "query" \notin FaultKinds, "create" \notin FaultKinds,
           PathInv, [Next]_vars
    PROVE  PathInv'
<1>1. Proved!PipelineInv /\ (~crashed => Proved!OnceInv) /\ PathAlways'
  BY PathKeepsAlways DEF PathInv, PathAlways
<1>2. faults \in Nat
  BY <1>1 DEF Proved!PipelineInv, Proved!TypeOK
<1>3. CASE Proved!RunStep /\ UNCHANGED crashed
  <2>1. ~crashed => Proved!OnceInv'
    BY <1>1, <1>3, ProvedAssumptions, Proved!RunOnce
    DEF Proved!TransfersAssumption, Proved!FaultsAssumption
  <2> QED BY <1>1, <1>3, <2>1 DEF PathInv
<1>4. CASE Proved!Restart /\ crashed'
  BY <1>1, <1>4 DEF PathInv
<1>5. CASE Elsewhere /\ UNCHANGED crashed
  BY <1>1, <1>5, ElsewhereKeeps DEF PathInv
<1> QED BY <1>2, <1>3, <1>4, <1>5, PathStep

(* Nothing that listenChain, the poller or Stop does breaks what the         *)
(* pipeline keeps by itself, whatever fails and crashes: no accepted message *)
(* is lost, no row is posted twice, the history explains the balances.       *)
THEOREM PathKeepsPipeline ==
    Spec => [](/\ Proved!NoMessageLost /\ Proved!RowPostedIffProcessed
               /\ Proved!HistoryExplainsBalance)
<1>1. PathAlways /\ [Next]_vars => PathAlways'
  BY PathKeepsAlways
<1>2. Init => PathAlways
  BY PathStart DEF PathInv
<1>3. PathAlways => /\ Proved!NoMessageLost /\ Proved!RowPostedIffProcessed
                    /\ Proved!HistoryExplainsBalance
  BY ProvedAssumptions, Proved!ExplainsIsHistory
  DEF PathAlways, Proved!PipelineInv, Proved!HistorySound, Proved!Sound,
      Proved!TransfersAssumption, Proved!FaultsAssumption
<1> QED BY <1>1, <1>2, <1>3, PTL DEF Spec

(* Whatever the poller offers again, a transfer is applied once until the    *)
(* first crash (event_consumer.go:97): for every chain, window, capacity and *)
(* number of faults, if existence checks and the listener's insert work.     *)
THEOREM PathAppliesOnce ==
    ASSUME "query" \notin FaultKinds, "create" \notin FaultKinds
    PROVE  Spec => []AppliedAtMostOnce
<1>1. PathInv /\ [Next]_vars => PathInv'
  BY PathKeeps
<1>2. PathInv => AppliedAtMostOnce
  BY SameLedger DEF PathInv, AppliedAtMostOnce, Proved!OnceInv
<1> QED BY <1>1, <1>2, PathStart, PTL DEF Spec

-----------------------------------------------------------------------------
(* A step of the path is a posting of the ledger, or leaves it alone, until  *)
(* the first crash, which leaves it alone itself.                            *)
LEMMA PathLedgerStep ==
    ASSUME PathInv, [Next]_vars
    PROVE  [crashed \/ Pipe!PostedLedger!Next]_<<balance, Posted>>
<1>1. faults \in Nat
  BY DEF PathInv, PathAlways, Proved!PipelineInv, Proved!TypeOK
<1>2. CASE crashed
  BY <1>2
<1>3. CASE ~crashed /\ Proved!RunStep
  <2>1. [Proved!PostedLedger!Next]_<<{e \in Transfers : Proved!Applied(e)}, balance>>
    BY <1>3, ProvedAssumptions, Proved!LedgerStep
    DEF PathInv, PathAlways, Proved!TransfersAssumption, Proved!FaultsAssumption
  <2>2. /\ {e \in Transfers : Proved!Applied(e)} = Posted
        /\ {e \in Transfers : Proved!Applied(e)}' = Posted'
    BY DEF Posted, Pipe!Applied, Proved!Applied
  <2> QED BY <2>1, <2>2, SameLedger
<1>4. CASE Proved!Restart \/ Elsewhere
  <2>1. events' = events /\ balance' = balance
    BY <1>4 DEF Proved!Restart, Elsewhere, pipeVars
  <2>2. Posted' = Posted
    BY <2>1 DEF Posted, Pipe!Applied
  <2> QED BY <2>1, <2>2
<1> QED BY <1>1, <1>2, <1>3, <1>4, PathStep

(* The path from the poller to the balances implements the abstract ledger   *)
(* until the first crash: every transfer is posted at most once, atomically, *)
(* with the amounts of processBalanceChangesTx (event_consumer.go:153-196).  *)
THEOREM PathImplementsLedger ==
    ASSUME "query" \notin FaultKinds, "create" \notin FaultKinds
    PROVE  Spec => LedgerSpec
<1>1. PathInv /\ [Next]_vars => PathInv'
  BY PathKeeps
<1>2. PathInv /\ [Next]_vars
        => [crashed \/ Pipe!PostedLedger!Next]_<<balance, Posted>>
  BY PathLedgerStep
<1>3. Init => Pipe!PostedLedger!Init
  BY ProvedAssumptions, SameStart, SameLedger, Proved!LedgerStart
  DEF Init, Proved!TransfersAssumption, Proved!FaultsAssumption
<1> QED BY <1>1, <1>2, <1>3, PathStart, PTL DEF Spec, LedgerSpec

-----------------------------------------------------------------------------
(* What the poller has read is deep enough, wherever on its way it is: in    *)
(* the poller's hands, in the channel, or in listenChain's.                  *)
Deep(b) == b \in EventBlocks /\ b + BlockConfirmations <= height

DeepInv ==
    /\ height \in Nat
    /\ handler.pc = "off" /\ timer = "off"
    /\ \A b \in poller.todo : Deep(b)
    /\ eventChan \in Seq(EventBlocks)
    /\ \A i \in DOMAIN eventChan : Deep(eventChan[i])
    /\ reader.pc = "handle" => Deep(reader.event)
    /\ PolledIsConfirmed

LEMMA BlocksAreNat ==
    /\ EventBlocks \subseteq Nat \ {0}
    /\ BlockConfirmations \in Nat /\ Window \in Nat
BY SourceAssumption DEF Source!DualModeAssumption

LEMMA DeepStart == Init => DeepInv
<1> SUFFICES ASSUME Source!Init PROVE DeepInv
  BY DEF Init
<1>1. /\ height = 0 /\ handler.pc = "off" /\ timer = "off" /\ poller.todo = {}
      /\ eventChan = <<>> /\ reader.pc = "start" /\ skipped = {}
  BY DEF Source!Init
<1> QED BY <1>1 DEF DeepInv, PolledIsConfirmed

(* A block does not lose confirmations: the chain only grows.                *)
LEMMA DeepStays ==
    ASSUME height \in Nat, height' \in Nat, height <= height',
           NEW b, Deep(b)
    PROVE  Deep(b)'
BY BlocksAreNat DEF Deep

LEMMA MineDeep ==
    ASSUME DeepInv, Source!Mine
    PROVE  DeepInv'
<1>1. /\ height' = height + 1 /\ height \in Nat
      /\ UNCHANGED <<handler, timer, poller, eventChan, reader, skipped>>
  BY DEF Source!Mine, DeepInv
<1>2. height' \in Nat /\ height <= height'
  BY <1>1
<1>3. /\ \A b \in poller.todo : Deep(b)'
      /\ \A i \in DOMAIN eventChan : Deep(eventChan[i])'
      /\ reader.pc = "handle" => Deep(reader.event)'
  BY <1>1, <1>2, DeepStays DEF DeepInv
<1> QED BY <1>1, <1>2, <1>3 DEF DeepInv, PolledIsConfirmed

(* The poller asks for blocks up to SafeBlock only.                          *)
LEMMA PolledDeep ==
    ASSUME height \in Nat, NEW b \in EventBlocks,
           b \in Source!Polled(Source!SafeBlock)
    PROVE  Deep(b)
BY BlocksAreNat DEF Source!Polled, Source!SafeBlock, Source!AtLeastZero, Deep

LEMMA PollDeep ==
    ASSUME DeepInv, Source!Poller
    PROVE  DeepInv'
<1>1. UNCHANGED <<height, handler, timer, reader, skipped>>
  BY DEF Source!Poller, Source!PollerTick, Source!PollerSend,
         Source!PollerGiveUp, Source!PollerStop
<1>2. CASE Source!PollerTick
  <2>1. /\ poller'.todo = EventBlocks \intersect Source!Polled(Source!SafeBlock)
        /\ eventChan' = eventChan
    BY <1>2 DEF Source!PollerTick
  <2>2. \A b \in poller'.todo : Deep(b)
    BY <2>1, PolledDeep DEF DeepInv
  <2> QED BY <1>1, <2>1, <2>2 DEF DeepInv, Deep, PolledIsConfirmed
<1>3. CASE Source!PollerSend
  <2>1. PICK b \in poller.todo :
          /\ eventChan' = Append(eventChan, b)
          /\ poller'.todo = poller.todo \ {b}
    BY <1>3 DEF Source!PollerSend
  <2>2. Deep(b) /\ b \in EventBlocks
    BY DEF DeepInv, Deep
  <2>3. /\ eventChan' \in Seq(EventBlocks)
        /\ \A i \in DOMAIN eventChan' :
            \/ i \in DOMAIN eventChan /\ eventChan'[i] = eventChan[i]
            \/ eventChan'[i] = b
    BY <2>1, <2>2 DEF DeepInv
  <2> QED BY <1>1, <2>1, <2>2, <2>3 DEF DeepInv, Deep, PolledIsConfirmed
<1>4. CASE Source!PollerGiveUp \/ Source!PollerStop
  <2>1. poller'.todo = {} /\ eventChan' = eventChan
    BY <1>4 DEF Source!PollerGiveUp, Source!PollerStop
  <2> QED BY <1>1, <2>1 DEF DeepInv, Deep, PolledIsConfirmed
<1> QED BY <1>2, <1>3, <1>4 DEF Source!Poller

(* listenChain finds what it takes out of the channel confirmed.             *)
LEMMA ListenDeep ==
    ASSUME DeepInv, Offer \/ ListenChain \/ ListenChainStop
    PROVE  DeepInv'
<1>1. CASE Source!ReaderStart
  <2>1. /\ UNCHANGED <<height, handler, timer, eventChan, skipped>>
        /\ reader'.pc = "select" /\ poller'.todo = {}
    BY <1>1 DEF Source!ReaderStart, Source!StartHTTPPoller
  <2> QED BY <2>1 DEF DeepInv, Deep, PolledIsConfirmed
<1>2. CASE Source!ReaderReceive
  <2>1. /\ UNCHANGED <<height, handler, timer, poller, skipped>>
        /\ eventChan # <<>> /\ eventChan' = Tail(eventChan)
        /\ reader'.event = Head(eventChan)
    BY <1>2 DEF Source!ReaderReceive, Source!clientVars
  <2>2. /\ eventChan' \in Seq(EventBlocks)
        /\ \A i \in DOMAIN eventChan' :
            i + 1 \in DOMAIN eventChan /\ eventChan'[i] = eventChan[i + 1]
        /\ 1 \in DOMAIN eventChan /\ Head(eventChan) = eventChan[1]
    BY <2>1 DEF DeepInv
  <2> QED BY <2>1, <2>2 DEF DeepInv, Deep, PolledIsConfirmed
<1>3. CASE Source!Accept \/ Source!ReaderStop
  <2>1. /\ UNCHANGED <<height, handler, timer, poller, eventChan, skipped>>
        /\ reader'.pc # "handle"
    BY <1>3 DEF Source!Accept, Source!ReaderStop, Source!clientVars
  <2> QED BY <2>1 DEF DeepInv, Deep, PolledIsConfirmed
<1>4. CASE Source!ReaderSkip
  <2>1. /\ reader.event \in Nat /\ height \in Nat /\ BlockConfirmations \in Nat
        /\ reader.event + BlockConfirmations <= height
    BY <1>4, BlocksAreNat DEF Source!ReaderSkip, DeepInv, Deep
  <2>2. ~(height - reader.event < BlockConfirmations)
    BY <2>1
  <2>3. /\ UNCHANGED <<height, handler, timer, poller, eventChan, skipped>>
        /\ reader'.pc # "handle"
    BY <1>4, <2>2 DEF Source!ReaderSkip, Source!clientVars
  <2> QED BY <2>3 DEF DeepInv, Deep, PolledIsConfirmed
<1> QED BY <1>1, <1>2, <1>3, <1>4 DEF Offer, ListenChain, ListenChainStop

LEMMA ElsewhereDeep ==
    ASSUME DeepInv,
           \/ ProcessEvent \/ StopRequest \/ StopGoesOn \/ Deliver \/ Consume
           \/ ConnectionLost \/ Crash \/ UNCHANGED vars
    PROVE  DeepInv'
<1>1. CASE Crash
  <2>1. /\ UNCHANGED <<height, handler, timer, skipped>>
        /\ poller'.todo = {} /\ eventChan' = <<>> /\ reader'.pc = "start"
    BY <1>1 DEF Crash, wsVars
  <2> QED BY <2>1 DEF DeepInv, Deep, PolledIsConfirmed
<1>2. CASE ~Crash
  <2>1. UNCHANGED <<height, handler, timer, poller, eventChan, reader, skipped>>
    BY <1>2 DEF ProcessEvent, StopRequest, StopGoesOn, Deliver, Consume,
       ConnectionLost, vars, sourceVars, wsVars, Source!StopListener,
       Source!StopClient, Source!StopWaited, Source!StopClose, Source!clientVars
  <2> QED BY <2>1 DEF DeepInv, Deep, PolledIsConfirmed
<1> QED BY <1>1, <1>2

(* Whatever the poller has read, listenChain never turns it away for want of *)
(* confirmations (event_listener.go:187), however long the channel and the   *)
(* listener have kept it and whatever stops or crashes meanwhile: an event   *)
(* that is turned away would be looked for again only while its block lies   *)
(* in the poller's window.                                                   *)
THEOREM PathTurnsNothingAway == Spec => []PolledIsConfirmed
<1>1. DeepInv /\ [Next]_vars => DeepInv'
  BY MineDeep, PollDeep, ListenDeep, ElsewhereDeep DEF Next, Mine, Poll
<1>2. DeepInv => PolledIsConfirmed
  BY DEF DeepInv
<1> QED BY <1>1, <1>2, DeepStart, PTL DEF Spec

-----------------------------------------------------------------------------
(* The client of the path is the client alone, as it polls, between two      *)
(* crashes; and after a crash it is as it was before its start.              *)
Client == INSTANCE DualModeClient_proofs WITH UseWebSocket <- FALSE

LEMMA ClientAssumptions == Client!DualModeAssumption
BY SourceAssumption DEF Source!DualModeAssumption, Client!DualModeAssumption

USE DEF Source!Fault, Client!Fault, Source!Subscribe, Client!Subscribe,
        Source!StartHTTPPoller, Client!StartHTTPPoller,
        Source!clientVars, Client!clientVars, Source!NoEvent, Client!NoEvent

LEMMA SameReader ==
    /\ Source!ReaderStart => Client!ReaderStart
    /\ Source!ReaderReceive => Client!ReaderReceive
    /\ Source!Accept => Client!Accept
    /\ Source!ReaderSkip => Client!ReaderSkip
    /\ Source!ReaderStop => Client!ReaderStop
BY DEF Source!ReaderStart, Client!ReaderStart, Source!ReaderReceive,
       Client!ReaderReceive, Source!Accept, Client!Accept,
       Source!ReaderSkip, Client!ReaderSkip, Source!ReaderStop, Client!ReaderStop

LEMMA SamePoller == Source!Poller => Client!Poller
<1>1. Source!PollerTick => Client!PollerTick
  BY DEF Source!PollerTick, Client!PollerTick, Source!Polled, Client!Polled,
         Source!SafeBlock, Client!SafeBlock, Source!AtLeastZero, Client!AtLeastZero
<1>2. Source!PollerSend => Client!PollerSend
  BY DEF Source!PollerSend, Client!PollerSend
<1>3. Source!PollerGiveUp \/ Source!PollerStop => Client!PollerGiveUp \/ Client!PollerStop
  BY DEF Source!PollerGiveUp, Client!PollerGiveUp, Source!PollerStop, Client!PollerStop
<1> QED BY <1>1, <1>2, <1>3 DEF Source!Poller, Client!Poller

LEMMA SameStop ==
    Source!StopListener \/ Source!StopClient \/ Source!StopWaited \/ Source!StopClose
        => Client!Stop
BY DEF Source!StopListener, Client!StopListener, Source!StopClient,
       Client!StopClient, Source!StopWaited, Client!StopWaited,
       Source!StopClose, Client!StopClose, Client!Stop

LEMMA SameMine == Source!Mine => Client!Mine
BY DEF Source!Mine, Client!Mine

LEMMA ClientStep ==
    ASSUME [Next]_vars
    PROVE  Client!Next \/ Client!Accept \/ Crash \/ UNCHANGED sourceVars
<1>1. CASE Offer \/ ListenChain \/ ListenChainStop
  BY <1>1, SameReader
  DEF Offer, ListenChain, ListenChainStop, Client!Next, Client!Reader
<1>2. CASE Mine
  BY <1>2, SameMine DEF Mine, Client!Next
<1>3. CASE Poll \/ PollStop
  BY <1>3, SamePoller DEF Poll, PollStop, Source!Poller, Client!Next
<1>4. CASE StopRequest \/ StopGoesOn
  BY <1>4, SameStop DEF StopRequest, StopGoesOn, Client!Next
<1>5. CASE ProcessEvent \/ Deliver \/ Consume \/ ConnectionLost
  BY <1>5 DEF ProcessEvent, Deliver, Consume, ConnectionLost
<1>6. CASE UNCHANGED vars
  BY <1>6 DEF vars
<1> QED BY <1>1, <1>2, <1>3, <1>4, <1>5, <1>6 DEF Next

(* The faults of both components come out of one budget, which only shrinks. *)
LEMMA FaultsShrink ==
    ASSUME [Next]_vars, faults \in 0..MaxFaults
    PROVE  faults' \in 0..MaxFaults
<1>0. MaxFaults \in Nat
  BY ClientAssumptions DEF Client!DualModeAssumption
<1>1. ASSUME faults' = faults \/ (faults > 0 /\ faults' = faults - 1)
      PROVE  faults' \in 0..MaxFaults
  BY <1>0, <1>1
<1>2. CASE Offer
  <2>1. faults' = faults \/ (faults > 0 /\ faults' = faults - 1)
    BY <1>2 DEF Offer, Pipe!ListenerCheck
  <2> QED BY <1>1, <2>1
<1>3. CASE ListenChain
  <2>1. faults' = faults \/ (faults > 0 /\ faults' = faults - 1)
    BY <1>3 DEF ListenChain, Source!ReaderStart, Source!ReaderReceive, Source!ReaderSkip
  <2> QED BY <1>1, <2>1
<1>4. CASE ListenChainStop \/ Mine \/ Poll \/ StopRequest \/ StopGoesOn
  <2>1. faults' = faults
    BY <1>4 DEF ListenChainStop, Mine, Poll, StopRequest, StopGoesOn,
       Source!ReaderStop, Source!Mine, Source!Poller, Source!PollerTick,
       Source!PollerSend, Source!PollerGiveUp, Source!PollerStop,
       Source!StopListener, Source!StopClient, Source!StopWaited, Source!StopClose
  <2> QED BY <1>1, <2>1
<1>5. CASE ProcessEvent
  <2>1. faults' = faults \/ (faults > 0 /\ faults' = faults - 1)
    BY <1>5 DEF ProcessEvent, Pipe!ListenerPublish, Pipe!ListenerStamp,
       Pipe!ListenerCreate
  <2> QED BY <1>1, <2>1
<1>6. CASE Deliver \/ ConnectionLost \/ Crash
  <2>1. faults' = faults \/ (faults > 0 /\ faults' = faults - 1)
    BY <1>6 DEF Deliver, ConnectionLost, Crash, Pipe!Deliver, Pipe!ConnectionLost,
       Pipe!Restart
  <2> QED BY <1>1, <2>1
<1>7. CASE Consume
  <2>1. faults' = faults \/ (faults > 0 /\ faults' = faults - 1)
    BY <1>7 DEF Consume, Pipe!Consumer, Pipe!ConsumerCheck, Pipe!ConsumerCommit,
       Pipe!ConsumerFail, Pipe!ConsumerAck
  <2> QED BY <1>1, <2>1
<1>8. CASE UNCHANGED vars
  BY <1>1, <1>8 DEF vars
<1> QED BY <1>2, <1>3, <1>4, <1>5, <1>6, <1>7, <1>8 DEF Next

(* There is no subscription, no handler and no timer on this path.           *)
NoSubscription == handler.pc = "off" /\ timer = "off" /\ ~wsSubActive

LEMMA NothingSubscribed ==
    ASSUME [Next]_vars
    PROVE  UNCHANGED <<handler, timer, wsSubActive>>
<1>1. CASE Offer \/ ListenChain \/ ListenChainStop
  BY <1>1
  DEF Offer, ListenChain, ListenChainStop, Source!Accept,
      Source!ReaderStart, Source!ReaderReceive, Source!ReaderSkip, Source!ReaderStop
<1>2. CASE Mine \/ Poll
  BY <1>2
  DEF Mine, Poll, Source!Mine, Source!Poller, Source!PollerTick,
      Source!PollerSend, Source!PollerGiveUp, Source!PollerStop
<1>3. CASE StopRequest \/ StopGoesOn
  BY <1>3
  DEF StopRequest, StopGoesOn, Source!StopListener, Source!StopClient,
      Source!StopWaited, Source!StopClose
<1>4. CASE ProcessEvent \/ Deliver \/ Consume \/ ConnectionLost \/ Crash
  BY <1>4
  DEF ProcessEvent, Deliver, Consume, ConnectionLost, Crash, sourceVars, wsVars
<1>5. CASE UNCHANGED vars
  BY <1>5 DEF vars, sourceVars, wsVars
<1> QED BY <1>1, <1>2, <1>3, <1>4, <1>5 DEF Next

ClientInv == Client!TypeInv /\ Client!SourceCases /\ NoSubscription

LEMMA ClientStart == Init => ClientInv
<1> SUFFICES ASSUME Source!Init PROVE ClientInv
  BY DEF Init
<1>1. Client!Init
  BY DEF Source!Init, Client!Init
<1>2. Client!TypeInv
  BY <1>1, ClientAssumptions, Client!InitType DEF Client!DualModeAssumption
<1>3. Client!SourceCases
  BY <1>1, ClientAssumptions, Client!InitSource DEF Client!DualModeAssumption
<1>4. NoSubscription
  BY DEF Source!Init, NoSubscription
<1> QED BY <1>2, <1>3, <1>4 DEF ClientInv

LEMMA ClientKeeps ==
    ASSUME ClientInv, [Next]_vars
    PROVE  ClientInv'
<1>1. faults' \in 0..MaxFaults
  BY FaultsShrink DEF ClientInv, Client!TypeInv, Client!TypeOK
<1>2. NoSubscription'
  BY NothingSubscribed DEF ClientInv, NoSubscription
<1>3. CASE Client!Next
  <2>1. [Client!Next]_Client!vars
    BY <1>3
  <2>2. Client!TypeInv'
    BY <2>1, ClientAssumptions, Client!TypeStep
    DEF ClientInv, Client!DualModeAssumption
  <2>3. Client!SourceCases'
    BY <2>1, ClientAssumptions, Client!SourceStep
    DEF ClientInv, Client!DualModeAssumption
  <2> QED BY <1>2, <2>2, <2>3 DEF ClientInv
<1>4. CASE Crash
  <2>1. /\ isRunning' = FALSE /\ stopChan' = FALSE
        /\ poller' = [pc |-> "off", todo |-> {}]
        /\ eventChan' = <<>>
        /\ reader' = [pc |-> "start", event |-> 0]
        /\ stop' = "no"
        /\ UNCHANGED <<height, wsSubActive, currentMode, sub, logs, handler, timer,
                        handled, skipped>>
    BY <1>4 DEF Crash, wsVars
  <2>2. Client!TypeInv'
    <3>1. eventChan' \in Seq(EventBlocks) /\ Len(eventChan') <= Capacity
      BY <2>1, ClientAssumptions DEF Client!DualModeAssumption
    <3>2. /\ reader' \in [pc : {"start", "select", "handle", "off"},
                           event : EventBlocks \union {0}]
          /\ reader'.pc = "start"
      BY <2>1
    <3>3. poller' \in [pc : {"off", "select", "send"}, todo : SUBSET EventBlocks]
      BY <2>1
    <3> QED
      BY <1>1, <2>1, <3>1, <3>2, <3>3 DEF ClientInv, Client!TypeInv, Client!TypeOK
  <2>3. Client!SourceCases'
    BY <2>1, <1>2 DEF ClientInv, NoSubscription, Client!SourceCases, Client!Alone
  <2> QED BY <1>2, <2>2, <2>3 DEF ClientInv
<1>5. CASE UNCHANGED sourceVars
  <2>1. UNCHANGED <<height, isRunning, stopChan, wsSubActive, currentMode, sub, logs,
                    handler, poller, timer, eventChan, reader, stop, handled, skipped>>
    BY <1>5 DEF sourceVars, wsVars
  <2>2. Client!TypeInv'
    BY <1>1, <2>1 DEF ClientInv, Client!TypeInv, Client!TypeOK
  <2>3. Client!SourceCases'
    BY <2>1 DEF ClientInv, Client!SourceCases, Client!Alone
  <2> QED BY <1>2, <2>2, <2>3 DEF ClientInv
<1>6. CASE Client!Accept
  <2>1. Client!TypeInv'
    BY <1>1, <1>6, ClientAssumptions, Client!AcceptType
    DEF ClientInv, Client!DualModeAssumption
  <2>2. Client!SourceCases'
    BY <1>6, ClientAssumptions, Client!ReaderSource
    DEF ClientInv, Client!DualModeAssumption
  <2> QED BY <1>2, <2>1, <2>2 DEF ClientInv
<1> QED BY <1>3, <1>4, <1>5, <1>6, ClientStep

(* Also as part of the path, through crashes and with what is behind it      *)
(* slow or failing, the client polls in one goroutine at most, in exactly    *)
(* one while it runs, and its channel keeps its bound.                       *)
THEOREM PathKeepsClient == Spec => [](Source!TypeOK /\ Source!OneSource)
<1>1. ClientInv /\ [Next]_vars => ClientInv'
  BY ClientKeeps
<1>2. ClientInv => Source!TypeOK
  BY DEF ClientInv, Client!TypeInv, Client!TypeOK, Source!TypeOK
<1>3. ClientInv => Source!OneSource
  <2>1. Client!SourceCases => Client!OneSource
    BY ClientAssumptions, Client!SourceFollows DEF Client!DualModeAssumption
  <2>2. Client!OneSource => Source!OneSource
    BY DEF Client!OneSource, Source!OneSource, Client!Sources, Source!Sources
  <2> QED BY <2>1, <2>2 DEF ClientInv
<1> QED BY <1>1, <1>2, <1>3, ClientStart, PTL DEF Spec
=============================================================================
