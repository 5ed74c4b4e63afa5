------------------------ MODULE ClientThreadsProofs ------------------------
(***************************************************************************)
(* Proofs about ClientThreads, for any number of packets and updates and   *)
(* whatever sendPacket is seen to return.                                  *)
(***************************************************************************)
EXTENDS ClientThreads, SequenceTheorems, TLAPS

-----------------------------------------------------------------------------
(* The inductive invariant.                                                *)

\* Who holds clientUpdatesMutex, and who must.
LockHeld ==
  /\ clientUpdatesMutex = "main" <=> mPc = "push"
  /\ uPc \in {"drain", "send", "join"} => clientUpdatesMutex = "update"
  /\ mPc \in {"lock", "push"} => pushed < MaxUpdates

\* Only the update thread stops the handler; a stopped handler has not ended,
\* so a thread that joins it waits for as long as it is stopped.
StoppedInUpdate ==
  /\ suspended => uPc \in {"lock", "drain", "send", "join", "resume",
                           "crashed"}
  /\ suspended => hPc # "ended"

\* How far the destructor has got.
Joined == /\ mPc \in {"joinHandler", "joinUpdater", "freed"} => internClosed
          /\ mPc \in {"joinUpdater", "freed"} => hPc = "ended"
          /\ mPc = "freed" => uPc = "ended"

IInv == TypeOK /\ LockHeld /\ StoppedInUpdate /\ Joined

LEMMA InitIInv == Init => IInv
<1> SUFFICES ASSUME Init PROVE IInv
  OBVIOUS
<1>1. TypeOK
  <2>1. clientUpdates \in Seq(1..MaxUpdates) /\ sent \in Seq(1..MaxUpdates)
    BY DEF Init
  <2>2. packets \in 0..MaxPackets /\ pushed \in 0..MaxUpdates
    BY ClientThreadsAssumption DEF Init
  <2> QED
    BY <2>1, <2>2 DEF Init, TypeOK, HandlerPc, UpdatePc, MainPc, Thread
<1>2. LockHeld /\ StoppedInUpdate /\ Joined
  BY DEF Init, LockHeld, StoppedInUpdate, Joined
<1> QED BY <1>1, <1>2 DEF IInv

LEMMA NextIInv == IInv /\ [Next]_vars => IInv'
<1> SUFFICES ASSUME IInv, [Next]_vars PROVE IInv'
  OBVIOUS
<1> USE ClientThreadsAssumption
        DEF IInv, TypeOK, LockHeld, StoppedInUpdate, Joined, queueVars,
            dataVars, flags, sharedVars, handlerFrame, updaterFrame, mainFrame,
            HandlerPc, UpdatePc, MainPc, Thread, Handler, Update, Main, Alive
<1>1. CASE HandlerStep
  <2>1. CASE TestOpen
    <3>1. /\ hPc = "loop" /\ hPc' \in {"ended", "length"}
          /\ ~suspended /\ suspended' = suspended
      BY <2>1 DEF TestOpen
    <3>2. UNCHANGED <<uPc, mPc, hasPacket, internClosed, queueVars, dataVars>>
      BY <2>1 DEF TestOpen
    <3> QED BY <3>1, <3>2
  <2>2. CASE MarkPacket
    BY <2>2 DEF MarkPacket
  <2>3. CASE ClearPacket
    <3>1. hPc' = "loop" /\ hasPacket' \in BOOLEAN /\ ~suspended
      BY <2>3 DEF ClearPacket
    <3>2. UNCHANGED <<uPc, mPc, internClosed, suspended, queueVars, dataVars>>
      BY <2>3 DEF ClearPacket
    <3>3. TypeOK'
      <4>1. hPc' \in HandlerPc /\ hasPacket' \in BOOLEAN
        BY <3>1
      <4>2. /\ internClosed' \in BOOLEAN /\ suspended' \in BOOLEAN
            /\ hasClientUpdates' \in BOOLEAN /\ player' \in BOOLEAN
        BY <3>2
      <4>3. /\ uPc' \in UpdatePc /\ mPc' \in MainPc
            /\ clientUpdates' \in Seq(1..MaxUpdates)
            /\ clientUpdatesMutex' \in Thread
            /\ packets' \in 0..MaxPackets /\ pushed' \in 0..MaxUpdates
            /\ sent' \in Seq(1..MaxUpdates)
        BY <3>2
      <4> QED BY <4>1, <4>2, <4>3
    <3>4. LockHeld'
      BY <3>2
    <3>5. StoppedInUpdate'
      BY <3>1, <3>2
    <3>6. Joined'
      <4>1. hPc # "ended" /\ UNCHANGED <<uPc, mPc, internClosed>>
        BY <2>3 DEF ClearPacket
      <4> QED BY <4>1
    <3> QED BY <3>3, <3>4, <3>5, <3>6
  <2>4. CASE ShutSocket
    BY <2>4 DEF ShutSocket
  <2>5. CASE RaiseClosed
    BY <2>5 DEF RaiseClosed
  <2>6. CASE NotifyClosed
    BY <2>6 DEF NotifyClosed, Notify
  <2>7. CASE Unregister
    BY <2>7 DEF Unregister
  <2> QED
    BY <1>1, <2>1, <2>2, <2>3, <2>4, <2>5, <2>6, <2>7 DEF HandlerStep
<1>2. CASE PeerStep
  <2>1. CASE ReadLength
    BY <2>1 DEF ReadLength
  <2>2. CASE BeginWrite \/ EndWrite
    BY <2>2 DEF BeginWrite, EndWrite
  <2>3. CASE CreatePlayer
    BY <2>3 DEF CreatePlayer
  <2>4. CASE EndPacket
    BY <2>4 DEF EndPacket
  <2> QED BY <1>2, <2>1, <2>2, <2>3, <2>4 DEF PeerStep
<1>3. CASE UpdaterStep \/ LockQueue \/ SendReturns \/ SpuriousWake
  <2>1. CASE TestRunning \/ TestPredicate
    BY <2>1 DEF TestRunning, TestPredicate
  <2>2. CASE FallAsleep \/ SpuriousWake
    BY <2>2 DEF FallAsleep, SpuriousWake
  <2>3. CASE CheckClosed \/ LeaveSpin
    BY <2>3 DEF CheckClosed, LeaveSpin
  <2>4. CASE Suspend
    <3>1. suspended' = FALSE \/ suspended' = (hPc # "ended")
      BY <2>4 DEF Suspend
    <3>2. suspended' \in BOOLEAN /\ (suspended' => hPc # "ended")
      BY <3>1
    <3>3. uPc' = "lock" /\ hPc' = hPc /\ mPc' = mPc
      BY <2>4 DEF Suspend
    <3>4. TypeOK' /\ LockHeld'
      BY <2>4, <3>2, <3>3 DEF Suspend
    <3>5. StoppedInUpdate' /\ Joined'
      BY <2>4, <3>2, <3>3 DEF Suspend
    <3> QED BY <3>4, <3>5
  <2>5. CASE LockQueue
    BY <2>5 DEF LockQueue
  <2>6. CASE SendUpdate
    <3>1. /\ Head(clientUpdates) \in 1..MaxUpdates
          /\ clientUpdates' \in Seq(1..MaxUpdates)
      BY <2>6, HeadTailProperties DEF SendUpdate
    <3>2. Append(sent, Head(clientUpdates)) \in Seq(1..MaxUpdates)
      BY <3>1, AppendProperties
    <3>3. sent' \in Seq(1..MaxUpdates)
      BY <2>6, <3>2 DEF SendUpdate
    <3> QED BY <2>6, <3>1, <3>3 DEF SendUpdate
  <2>7. CASE ResponseNone
    BY <2>7 DEF ResponseNone
  <2>8. CASE ResponseClose
    BY <2>8 DEF ResponseClose
  <2>9. CASE JoinAndReturn
    BY <2>9 DEF JoinAndReturn
  <2>10. CASE UnlockQueue
    BY <2>10 DEF UnlockQueue
  <2>11. CASE Resume
    <3>1. suspended' = FALSE /\ uPc = "resume" /\ uPc' = "loop"
      BY <2>11 DEF Resume
    <3>2. UNCHANGED <<hPc, mPc, hasPacket, internClosed, queueVars, dataVars>>
      BY <2>11 DEF Resume
    <3>3. TypeOK'
      <4>1. suspended' \in BOOLEAN /\ uPc' \in UpdatePc
        BY <3>1
      <4> QED BY <3>2, <4>1
    <3>4. LockHeld' /\ StoppedInUpdate' /\ Joined'
      BY <3>1, <3>2
    <3> QED BY <3>3, <3>4
  <2> QED
    BY <1>3, <2>1, <2>2, <2>3, <2>4, <2>5, <2>6, <2>7, <2>8, <2>9, <2>10,
       <2>11 DEF UpdaterStep, SendReturns
<1>4. CASE MainStep
  <2>1. CASE CheckSafety \/ SkipUpdates \/ WantQueue
    BY <2>1 DEF CheckSafety, SkipUpdates, WantQueue
  <2>2. CASE LockForPush
    BY <2>2 DEF LockForPush
  <2>3. CASE PushUpdate
    <3>1. pushed + 1 \in 1..MaxUpdates
      BY <2>3 DEF PushUpdate
    <3>2. clientUpdates' \in Seq(1..MaxUpdates)
      BY <2>3, <3>1, AppendProperties DEF PushUpdate
    <3> QED BY <2>3, <3>1, <3>2 DEF PushUpdate
  <2>4. CASE RaiseUpdates
    BY <2>4 DEF RaiseUpdates
  <2>5. CASE NotifyUpdates
    BY <2>5 DEF NotifyUpdates, Notify
  <2>6. CASE JoinHandler \/ JoinTwice \/ JoinUpdater
    BY <2>6 DEF JoinHandler, JoinTwice, JoinUpdater
  <2> QED
    BY <1>4, <2>1, <2>2, <2>3, <2>4, <2>5, <2>6 DEF MainStep, PushStep
<1>5. CASE UNCHANGED vars
  BY <1>5 DEF vars
<1> QED BY <1>1, <1>2, <1>3, <1>4, <1>5 DEF Next

LEMMA AlwaysIInv == Spec => []IInv
  BY InitIInv, NextIInv, PTL DEF Spec

\* The state always has its type.
THEOREM TypeCorrect == Spec => []TypeOK
<1>1. IInv => TypeOK
  BY DEF IInv
<1> QED BY <1>1, AlwaysIInv, PTL

\* The main loop and the update thread are never inside the update queue at
\* once, even when the update thread returns with its mutex held.
THEOREM QueueNeverShared == Spec => []QueueNotShared
<1>1. IInv => QueueNotShared
  BY DEF IInv, LockHeld, QueueNotShared
<1> QED BY <1>1, AlwaysIInv, PTL

\* No thread of a client outlives the client.
THEOREM ThreadsJoinedFirst == Spec => []JoinedBeforeFreed
<1>1. IInv => JoinedBeforeFreed
  BY DEF IInv, Joined, JoinedBeforeFreed
<1> QED BY <1>1, AlwaysIInv, PTL

\* The handler is stopped only while the update thread is in its update.
THEOREM StoppedOnlyInUpdate == Spec => []SuspendedOnlyDuringUpdate
<1>1. IInv => SuspendedOnlyDuringUpdate
  BY DEF IInv, StoppedInUpdate, SuspendedOnlyDuringUpdate
<1> QED BY <1>1, AlwaysIInv, PTL

-----------------------------------------------------------------------------
(* The order of updates.                                                   *)

Numbered(n) == [i \in 1..n |-> i]

LEMMA NextUpdatesInOrder ==
  IInv /\ UpdatesInOrder /\ [Next]_vars => UpdatesInOrder'
<1> SUFFICES ASSUME IInv, UpdatesInOrder, [Next]_vars, Alive'
             PROVE  sent' \o clientUpdates' = Numbered(pushed')
  BY DEF UpdatesInOrder, Numbered
<1> DEFINE U == 1..MaxUpdates
<1>1. sent \in Seq(U) /\ clientUpdates \in Seq(U)
  BY DEF IInv, TypeOK
<1>2. CASE SendUpdate
  <2>1. /\ clientUpdates # <<>> /\ clientUpdates' = Tail(clientUpdates)
        /\ sent' = Append(sent, Head(clientUpdates)) /\ pushed' = pushed
    BY <1>2 DEF SendUpdate, Update, Alive, flags
  <2>2. Head(clientUpdates) \in U /\ Tail(clientUpdates) \in Seq(U)
    BY <1>1, <2>1, HeadTailProperties
  <2>3. sent' = sent \o <<Head(clientUpdates)>>
    BY <1>1, <2>1, <2>2, AppendIsConcat
  <2>4. clientUpdates = <<Head(clientUpdates)>> \o clientUpdates'
    BY <1>1, <2>1, <2>2
  <2>5. <<Head(clientUpdates)>> \in Seq(U)
    BY <2>2
  <2>6. sent' \o clientUpdates' = sent \o clientUpdates
    BY <1>1, <2>1, <2>2, <2>3, <2>4, <2>5, ConcatAssociative
  <2>7. Alive
    BY <1>2 DEF SendUpdate, Update, Alive
  <2> QED BY <2>1, <2>6, <2>7 DEF UpdatesInOrder, Numbered
<1>3. CASE PushUpdate
  <2>1. /\ clientUpdates' = Append(clientUpdates, pushed + 1)
        /\ pushed' = pushed + 1 /\ sent' = sent /\ Alive
    BY <1>3 DEF PushUpdate, Main, dataVars
  <2>2. pushed \in Nat /\ pushed + 1 \in U
    BY <1>3, ClientThreadsAssumption
       DEF PushUpdate, Main, IInv, TypeOK, LockHeld
  <2>3. clientUpdates' = clientUpdates \o <<pushed + 1>>
    BY <1>1, <2>1, <2>2, AppendIsConcat
  <2>4. <<pushed + 1>> \in Seq(U)
    BY <2>2
  <2>5. sent' \o clientUpdates' = (sent \o clientUpdates) \o <<pushed + 1>>
    BY <1>1, <2>1, <2>3, <2>4, ConcatAssociative
  <2>6. sent \o clientUpdates = Numbered(pushed)
    BY <2>1 DEF UpdatesInOrder, Numbered
  <2>7. Numbered(pushed) \o <<pushed + 1>> = Numbered(pushed + 1)
    BY <2>2 DEF Numbered
  <2> QED BY <2>1, <2>5, <2>6, <2>7
<1>4. CASE /\ sent' = sent /\ clientUpdates' = clientUpdates
           /\ pushed' = pushed /\ (Alive' => Alive)
  BY <1>4 DEF UpdatesInOrder, Numbered
<1>5. SendUpdate \/ PushUpdate \/ (/\ sent' = sent
                                   /\ clientUpdates' = clientUpdates
                                   /\ pushed' = pushed
                                   /\ (Alive' => Alive))
  <2> USE DEF Handler, Update, Main, Alive, Notify, queueVars, dataVars, flags,
             sharedVars, handlerFrame, updaterFrame, mainFrame
  <2>1. CASE HandlerStep \/ PeerStep
    BY <2>1 DEF HandlerStep, PeerStep, TestOpen, MarkPacket, EndWrite,
       ClearPacket, ShutSocket, RaiseClosed, NotifyClosed, Unregister,
       ReadLength, BeginWrite, CreatePlayer, EndPacket
  <2>2. CASE UpdaterStep \/ LockQueue \/ SendReturns \/ SpuriousWake
    BY <2>2 DEF UpdaterStep, SendReturns, SpuriousWake, TestRunning,
       TestPredicate, FallAsleep, CheckClosed, LeaveSpin, Suspend, LockQueue,
       ResponseNone, ResponseClose, JoinAndReturn, UnlockQueue, Resume
  <2>3. CASE MainStep
    BY <2>3 DEF MainStep, PushStep, CheckSafety, SkipUpdates, WantQueue,
       LockForPush, RaiseUpdates, NotifyUpdates, JoinHandler, JoinTwice, JoinUpdater
  <2>4. CASE UNCHANGED vars
    BY <2>4 DEF vars
  <2> QED BY <2>1, <2>2, <2>3, <2>4 DEF Next
<1> QED BY <1>2, <1>3, <1>4, <1>5

\* Updates are sent once each and in the order the main loop queued them.
THEOREM SentInOrder == Spec => []UpdatesInOrder
<1>1. Init => UpdatesInOrder
  <2> SUFFICES ASSUME Init PROVE sent \o clientUpdates = [i \in 1..pushed |-> i]
    BY DEF UpdatesInOrder
  <2>1. sent = <<>> /\ clientUpdates = <<>> /\ pushed = 0
    BY DEF Init
  <2> QED BY <2>1
<1> QED BY <1>1, NextUpdatesInOrder, AlwaysIInv, PTL DEF Spec

-----------------------------------------------------------------------------
(* The client implements its outbox.                                       *)

LEMMA NextIsOutbox ==
  IInv /\ [Next]_vars => [Outbox!OutboxNext]_Outbox!outboxVars
<1> SUFFICES ASSUME IInv, [Next]_vars
             PROVE  [Outbox!OutboxNext]_Outbox!outboxVars
  OBVIOUS
<1> USE DEF OutboxState, OutboxWaiting, Alive, Handler, Update, Main,
            queueVars, dataVars, flags, sharedVars, handlerFrame,
            updaterFrame, mainFrame
<1>1. CASE PushUpdate
  <2>1. pushed + 1 \in 1..MaxUpdates
    BY <1>1, ClientThreadsAssumption DEF PushUpdate, IInv, TypeOK, LockHeld
  <2>2. Alive /\ Alive'
    BY <1>1 DEF PushUpdate
  <2>3. OutboxWaiting' = Append(OutboxWaiting, pushed + 1) /\ sent' = sent
    BY <1>1, <2>2 DEF PushUpdate
  <2>4. OutboxState' = OutboxState /\ OutboxState \in {"open", "closed"}
    BY <1>1, <2>2 DEF PushUpdate
  <2>5. Outbox!Queue
    BY <2>1, <2>3, <2>4 DEF Outbox!Queue, Outbox!Running
  <2> QED BY <2>5 DEF Outbox!OutboxNext
<1>2. CASE SendUpdate
  <2>1. mPc # "freed" /\ Alive
    BY <1>2 DEF SendUpdate, IInv, Joined
  <2>2. OutboxState \in {"open", "closed"} /\ OutboxWaiting = clientUpdates
    BY <2>1
  <2>3. CASE player
    <3>1. OutboxState' = OutboxState /\ OutboxWaiting' = Tail(OutboxWaiting)
      BY <1>2, <2>1, <2>3 DEF SendUpdate
    <3>2. OutboxWaiting # <<>> /\ sent' = Append(sent, Head(OutboxWaiting))
      BY <1>2, <2>2, <2>3 DEF SendUpdate
    <3>3. Outbox!Deliver
      BY <2>2, <3>1, <3>2 DEF Outbox!Deliver, Outbox!Running
    <3> QED BY <3>3 DEF Outbox!OutboxNext
  <2>4. CASE ~player
    <3>1. OutboxState' = "crashed" /\ OutboxWaiting' = <<>> /\ sent' = sent
      BY <1>2, <2>4 DEF SendUpdate
    <3>2. Outbox!Crash
      BY <2>2, <3>1 DEF Outbox!Crash, Outbox!Running
    <3> QED BY <3>2 DEF Outbox!OutboxNext
  <2> QED BY <2>3, <2>4
<1>3. CASE RaiseClosed \/ ResponseClose
  <2>1. /\ Alive /\ Alive' /\ mPc' = mPc /\ internClosed'
        /\ clientUpdates' = clientUpdates /\ sent' = sent
    BY <1>3 DEF RaiseClosed, ResponseClose
  <2>2. mPc # "freed" \/ internClosed
    BY DEF IInv, Joined
  <2>3. UNCHANGED <<OutboxWaiting, sent>>
    BY <2>1
  <2>4. OutboxState' = OutboxState
           \/ (OutboxState = "open" /\ OutboxState' = "closed")
    BY <2>1, <2>2
  <2>5. Outbox!Close \/ UNCHANGED Outbox!outboxVars
    BY <2>3, <2>4 DEF Outbox!Close, Outbox!Move, Outbox!outboxVars
  <2> QED BY <2>5 DEF Outbox!OutboxNext
<1>4. CASE JoinUpdater
  <2>1. OutboxState = "closed" /\ OutboxState' = "freed"
    BY <1>4 DEF JoinUpdater, IInv, TypeOK, Joined
  <2>2. UNCHANGED <<OutboxWaiting, sent>>
    BY <1>4 DEF JoinUpdater
  <2>3. Outbox!Free
    BY <2>1, <2>2 DEF Outbox!Free, Outbox!Move
  <2> QED BY <2>3 DEF Outbox!OutboxNext
<1>5. CASE JoinTwice
  <2>1. OutboxState \in {"open", "closed"} /\ OutboxState' = "crashed"
    BY <1>5 DEF JoinTwice
  <2>2. OutboxWaiting' = <<>> /\ sent' = sent
    BY <1>5 DEF JoinTwice
  <2>3. Outbox!Crash
    BY <2>1, <2>2 DEF Outbox!Crash, Outbox!Running
  <2> QED BY <2>3 DEF Outbox!OutboxNext
<1>6. CASE /\ (Alive' <=> Alive) /\ (mPc' = "freed" <=> mPc = "freed")
           /\ UNCHANGED <<internClosed, clientUpdates, sent>>
  <2>1. UNCHANGED <<OutboxState, OutboxWaiting, sent>>
    BY <1>6
  <2> QED BY <2>1 DEF Outbox!outboxVars
<1>7. \/ PushUpdate \/ SendUpdate \/ RaiseClosed \/ ResponseClose
      \/ JoinUpdater \/ JoinTwice
      \/ (/\ (Alive' <=> Alive) /\ (mPc' = "freed" <=> mPc = "freed")
          /\ UNCHANGED <<internClosed, clientUpdates, sent>>)
  <2>1. CASE HandlerStep \/ PeerStep
    BY <2>1 DEF HandlerStep, PeerStep, TestOpen, MarkPacket, EndWrite,
       ClearPacket, ShutSocket, NotifyClosed, Notify, Unregister, ReadLength,
       BeginWrite, CreatePlayer, EndPacket
  <2>2. CASE UpdaterStep \/ LockQueue \/ SendReturns \/ SpuriousWake
    BY <2>2 DEF UpdaterStep, SendReturns, SpuriousWake, TestRunning,
       TestPredicate, FallAsleep, CheckClosed, LeaveSpin, Suspend, LockQueue,
       ResponseNone, JoinAndReturn, UnlockQueue, Resume
  <2>3. CASE MainStep
    BY <2>3 DEF MainStep, PushStep, CheckSafety, SkipUpdates, WantQueue,
       LockForPush, RaiseUpdates, NotifyUpdates, Notify, JoinHandler
  <2>4. CASE UNCHANGED vars
    BY <2>4 DEF vars
  <2> QED BY <2>1, <2>2, <2>3, <2>4 DEF Next
<1> QED BY <1>1, <1>2, <1>3, <1>4, <1>5, <1>6, <1>7

\* The three threads of a client together are the outbox the main loop
\* relies on.
THEOREM ImplementsOutbox == Spec => IsOutbox
<1>1. Init => Outbox!OutboxInit
  BY DEF Init, Outbox!OutboxInit, OutboxState, OutboxWaiting, Alive
<1> QED
  BY <1>1, NextIsOutbox, AlwaysIInv, PTL DEF Spec, IsOutbox, Outbox!OutboxSpec
=============================================================================
