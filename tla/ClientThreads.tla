--------------------------- MODULE ClientThreads ---------------------------
(***************************************************************************)
(* One connected client and the three threads that work on its Client      *)
(* object (Network/Client.cpp):                                            *)
(*   - its handler thread (Client::handle) reads packets and answers them; *)
(*   - its update thread (Client::handleUpdate) sleeps on a condition      *)
(*     variable until the main loop queued an update for the client, then  *)
(*     suspends the handler thread and sends the update itself;            *)
(*   - the main thread queues updates (NetworkHandler::handleUpdates) and  *)
(*     destroys the object once it is closed (handleSafety, ~Client).      *)
(*                                                                         *)
(* What keeps them apart is only what the code has: hasPacket, polled by   *)
(* the update thread before it suspends the handler; clientUpdatesMutex    *)
(* around the queue; and notify_one, called without updateHandlerMutex.    *)
(* updateHandlerMutex itself is taken by the update thread alone, so it    *)
(* excludes nobody and is not a variable here.                             *)
(*                                                                         *)
(* Abstracted: what a packet says (a packet is any number of partial       *)
(* writes, perhaps createPlayer, and a result), what an update says (its   *)
(* number), the handler's return value of sendPacket, which has no return  *)
(* statement (packetHandler.cpp:366-381): any member of Responses.         *)
(***************************************************************************)
EXTENDS Naturals, Sequences

CONSTANTS
  MaxPackets,     \* bound: packets the peer sends
  MaxUpdates,     \* bound: updates the main loop queues for this client
  Responses       \* what sendPacket may be seen to return

ASSUME ClientThreadsAssumption ==
  /\ MaxPackets \in Nat
  /\ MaxUpdates \in Nat
  /\ Responses \subseteq {"NONE", "CLOSE"}
  /\ Responses # {}

VARIABLES
  hPc,                  \* where the handler thread is in handle()
  uPc,                  \* where the update thread is in handleUpdate()
  mPc,                  \* what the main thread is doing to this client
  hasPacket,            \* Client::hasPacket
  internClosed,         \* Client::internClosed
  suspended,            \* the handler thread is suspended by the system
  hasClientUpdates,     \* Client::hasClientUpdates
  clientUpdates,        \* Client::clientUpdates, as update numbers
  clientUpdatesMutex,   \* its holder: "none", "main" or "update"
  player,               \* Client::player is set
  packets,              \* packets read so far
  pushed,               \* updates queued so far
  sent                  \* the updates sent, in the order of sending

vars == <<hPc, uPc, mPc, hasPacket, internClosed, suspended, hasClientUpdates,
          clientUpdates, clientUpdatesMutex, player, packets, pushed, sent>>

queueVars == <<hasClientUpdates, clientUpdates, clientUpdatesMutex, pushed>>
dataVars == <<player, packets, sent>>
flags == <<hasPacket, internClosed, suspended>>
sharedVars == <<flags, queueVars, dataVars>>

\* What a step of a thread that moves nothing but itself leaves alone.
handlerFrame == <<uPc, mPc, sharedVars>>
updaterFrame == <<hPc, mPc, sharedVars>>
mainFrame == <<hPc, uPc, sharedVars>>

HandlerPc == {"loop", "length", "mark", "packet", "writing", "clear",
              "shut", "flag", "notify", "unregister", "ended"}

UpdatePc == {"loop", "test", "doze", "asleep", "check", "spin", "suspend",
             "lock", "drain", "send", "join", "resume", "ended", "crashed"}

MainPc == {"safety", "updates", "lock", "push", "raise", "notify",
           "joinHandler", "joinUpdater", "freed", "crashed"}

Init == /\ hPc = "loop"
        /\ uPc = "loop"
        /\ mPc = "safety"
        /\ hasPacket = FALSE
        /\ internClosed = FALSE
        /\ suspended = FALSE
        /\ hasClientUpdates = FALSE
        /\ clientUpdates = <<>>
        /\ clientUpdatesMutex = "none"
        /\ player = FALSE
        /\ packets = 0
        /\ pushed = 0
        /\ sent = <<>>

\* No thread has crashed the process; once one has, none takes a step.
Alive == uPc # "crashed" /\ mPc # "crashed"

\* notify_one reaches the update thread only if it is already blocked.
Notify == uPc' = IF uPc = "asleep" THEN "test" ELSE uPc

-----------------------------------------------------------------------------
(* The handler thread.  A suspended thread takes no step.                  *)

Handler(from, to) == Alive /\ ~suspended /\ hPc = from /\ hPc' = to

TestOpen ==
  /\ Handler("loop", IF internClosed THEN "ended" ELSE "length")
  /\ UNCHANGED handlerFrame

\* The length of the next packet arrives, or reading it throws: the peer has
\* closed the connection, or the VarInt is too long.
ReadLength ==
  /\ \/ /\ packets < MaxPackets
        /\ Handler("length", "mark")
        /\ packets' = packets + 1
     \/ /\ Handler("length", "shut")
        /\ UNCHANGED packets
  /\ UNCHANGED <<uPc, mPc, flags, queueVars, player, sent>>

MarkPacket ==
  /\ Handler("mark", "packet")
  /\ hasPacket' = TRUE
  /\ UNCHANGED <<uPc, mPc, internClosed, suspended, queueVars, dataVars>>

\* handlePacket writes many of its packets in several sends.
BeginWrite == Handler("packet", "writing") /\ UNCHANGED handlerFrame

EndWrite == Handler("writing", "packet") /\ UNCHANGED handlerFrame

CreatePlayer ==
  /\ Handler("packet", "packet")
  /\ ~player
  /\ player' = TRUE
  /\ UNCHANGED <<uPc, mPc, flags, queueVars, packets, sent>>

\* handlePacket returns NONE, or it returns CLOSE or throws.
EndPacket ==
  /\ Handler("packet", "clear") \/ Handler("packet", "shut")
  /\ UNCHANGED handlerFrame

ClearPacket ==
  /\ Handler("clear", "loop")
  /\ hasPacket' = FALSE
  /\ UNCHANGED <<uPc, mPc, internClosed, suspended, queueVars, dataVars>>

\* _closeIntern, after shutdown and closesocket: hasPacket is left as it is.
ShutSocket == Handler("shut", "flag") /\ UNCHANGED handlerFrame

RaiseClosed ==
  /\ Handler("flag", "notify")
  /\ internClosed' = TRUE
  /\ UNCHANGED <<uPc, mPc, hasPacket, suspended, queueVars, dataVars>>

\* Mutant: the close notifies nobody.
NotifyClosedSilent == Handler("notify", "unregister") /\ UNCHANGED handlerFrame

NotifyClosed ==
  /\ Handler("notify", "unregister")
  /\ Notify
  /\ UNCHANGED <<mPc, flags, queueVars, dataVars>>

Unregister == Handler("unregister", "ended") /\ UNCHANGED handlerFrame

-----------------------------------------------------------------------------
(* The update thread.                                                      *)

Update(from, to) == Alive /\ uPc = from /\ uPc' = to

TestRunning ==
  /\ Update("loop", IF internClosed THEN "ended" ELSE "test")
  /\ UNCHANGED updaterFrame

\* wait(lock, predicate): evaluate, and if it fails go to sleep in a step of
\* its own, since those who notify do not hold the mutex.
TestPredicate ==
  /\ Update("test", IF hasClientUpdates \/ internClosed THEN "check"
                                                        ELSE "doze")
  /\ UNCHANGED updaterFrame

FallAsleep == Update("doze", "asleep") /\ UNCHANGED updaterFrame

\* C++ allows wait to return unasked; nothing makes it.
SpuriousWake == Update("asleep", "test") /\ UNCHANGED updaterFrame

CheckClosed ==
  /\ Update("check", IF internClosed THEN "ended" ELSE "spin")
  /\ UNCHANGED updaterFrame

LeaveSpin ==
  /\ Update("spin", "suspend")
  /\ ~hasPacket
  /\ UNCHANGED updaterFrame

\* SuspendThread: no effect on a thread that has ended, and none if the
\* threading library's native_handle() is not a HANDLE; nobody looks.
Suspend ==
  /\ Update("suspend", "lock")
  /\ suspended' \in {FALSE, hPc # "ended"}
  /\ UNCHANGED <<hPc, mPc, hasPacket, internClosed, queueVars, dataVars>>

LockQueue ==
  /\ Update("lock", "drain")
  /\ clientUpdatesMutex = "none"
  /\ clientUpdatesMutex' = "update"
  /\ UNCHANGED <<hPc, mPc, flags, hasClientUpdates, clientUpdates, pushed,
                 dataVars>>

\* Mutant: the newest update is sent first.
SendNewest ==
  /\ clientUpdates # <<>>
  /\ player
  /\ Update("drain", "send")
  /\ sent' = Append(sent, clientUpdates[Len(clientUpdates)])
  /\ clientUpdates' = SubSeq(clientUpdates, 1, Len(clientUpdates) - 1)
  /\ UNCHANGED <<hPc, mPc, flags, hasClientUpdates, clientUpdatesMutex,
                 pushed, player, packets>>

\* front, pop and the call of sendPacket: it reads client->player
\* (packetHandler.cpp:374), so without a player the process is gone.  The call
\* ends in a blocking send (tools.cpp:24): the thread stays at "send" for as
\* long as the peer does not read, with the mutex held.
SendUpdate ==
  /\ clientUpdates # <<>>
  /\ clientUpdates' = Tail(clientUpdates)
  /\ IF player
       THEN /\ Update("drain", "send")
            /\ sent' = Append(sent, Head(clientUpdates))
       ELSE /\ Update("drain", "crashed")
            /\ UNCHANGED sent
  /\ UNCHANGED <<hPc, mPc, flags, hasClientUpdates, clientUpdatesMutex,
                 pushed, player, packets>>

\* sendPacket returns, and the response is NONE: on to the next update.
ResponseNone ==
  /\ "NONE" \in Responses
  /\ Update("send", "drain")
  /\ UNCHANGED updaterFrame

\* The response is CLOSE: close, and join the handler thread.
ResponseClose ==
  /\ "CLOSE" \in Responses
  /\ Update("send", "join")
  /\ internClosed' = TRUE
  /\ UNCHANGED <<hPc, mPc, hasPacket, suspended, queueVars, dataVars>>

\* The update thread returns with the mutex held and the handler unresumed.
JoinAndReturn ==
  /\ Update("join", "ended")
  /\ hPc = "ended"
  /\ UNCHANGED updaterFrame

\* Mutant: the mutex stays locked.
LeaveQueueLocked ==
  /\ Update("drain", "resume")
  /\ clientUpdates = <<>>
  /\ UNCHANGED updaterFrame

\* Mutant: the handler is not resumed.
UnlockWithoutResume ==
  /\ Update("drain", "loop")
  /\ clientUpdates = <<>>
  /\ clientUpdatesMutex' = "none"
  /\ UNCHANGED <<hPc, mPc, flags, hasClientUpdates, clientUpdates, pushed,
                 dataVars>>

UnlockQueue ==
  /\ Update("drain", "resume")
  /\ clientUpdates = <<>>
  /\ clientUpdatesMutex' = "none"
  /\ UNCHANGED <<hPc, mPc, flags, hasClientUpdates, clientUpdates, pushed,
                 dataVars>>

\* Mutant: the flag is lowered after the round, as one might expect.
ResumeLoweringFlag ==
  /\ Update("resume", "loop")
  /\ suspended' = FALSE
  /\ hasClientUpdates' = FALSE
  /\ UNCHANGED <<hPc, mPc, hasPacket, internClosed, clientUpdates,
                 clientUpdatesMutex, pushed, dataVars>>

\* hasClientUpdates stays up: from the first update on, wait never blocks.
Resume ==
  /\ Update("resume", "loop")
  /\ suspended' = FALSE
  /\ UNCHANGED <<hPc, mPc, hasPacket, internClosed, queueVars, dataVars>>

-----------------------------------------------------------------------------
(* The main thread, as far as it touches this client: handleSafety and     *)
(* handleUpdates in turn.                                                  *)

Main(from, to) == Alive /\ mPc = from /\ mPc' = to

CheckSafety ==
  /\ Main("safety", IF internClosed THEN "joinHandler" ELSE "updates")
  /\ UNCHANGED mainFrame

\* No client has an update for this one: handleUpdates passes it by.
SkipUpdates == Main("updates", "safety") /\ UNCHANGED mainFrame

\* Another client has an update: the main thread asks for the mutex and waits.
WantQueue ==
  /\ Main("updates", "lock")
  /\ pushed < MaxUpdates
  /\ UNCHANGED mainFrame

\* Mutant: the push does not take the mutex.
PushUnlocked == Main("lock", "push") /\ UNCHANGED mainFrame

LockForPush ==
  /\ Main("lock", "push")
  /\ clientUpdatesMutex = "none"
  /\ clientUpdatesMutex' = "main"
  /\ UNCHANGED <<hPc, uPc, flags, hasClientUpdates, clientUpdates, pushed,
                 dataVars>>

\* Mutant: the update before is pushed again.
PushPrevious ==
  /\ Main("push", "raise")
  /\ clientUpdates' = Append(clientUpdates, pushed)
  /\ pushed' = pushed + 1
  /\ clientUpdatesMutex' = "none"
  /\ UNCHANGED <<hPc, uPc, flags, hasClientUpdates, dataVars>>

PushUpdate ==
  /\ Main("push", "raise")
  /\ clientUpdates' = Append(clientUpdates, pushed + 1)
  /\ pushed' = pushed + 1
  /\ clientUpdatesMutex' = "none"
  /\ UNCHANGED <<hPc, uPc, flags, hasClientUpdates, dataVars>>

RaiseUpdates ==
  /\ Main("raise", "notify")
  /\ hasClientUpdates' = TRUE
  /\ UNCHANGED <<hPc, uPc, flags, clientUpdates, clientUpdatesMutex, pushed,
                 dataVars>>

\* Another client's update for this one may follow in the same round.
NotifyUpdates ==
  /\ Main("notify", "updates")
  /\ Notify
  /\ UNCHANGED <<hPc, flags, queueVars, dataVars>>

\* Mutant: the handler thread is not joined.
DetachHandler == Main("joinHandler", "joinUpdater") /\ UNCHANGED mainFrame

\* ~Client: join the handler thread, then the update thread.
JoinHandler ==
  /\ Main("joinHandler", "joinUpdater")
  /\ hPc = "ended"
  /\ UNCHANGED mainFrame

\* Both join the handler at once, which std::thread does not allow: it may go
\* well, as above, or throw, and out of a destructor that ends the process.
JoinTwice ==
  /\ Main("joinHandler", "crashed")
  /\ hPc = "ended"
  /\ uPc = "join"
  /\ UNCHANGED mainFrame

JoinUpdater ==
  /\ Main("joinUpdater", "freed")
  /\ uPc = "ended"
  /\ UNCHANGED mainFrame

-----------------------------------------------------------------------------
\* Steps of the handler thread that wait for nobody.
HandlerStep == \/ TestOpen \/ MarkPacket \/ ClearPacket
               \/ ShutSocket \/ RaiseClosed \/ NotifyClosed \/ Unregister

\* Steps of the handler thread that wait for the peer, to send or to read.
PeerStep == ReadLength \/ BeginWrite \/ EndWrite \/ CreatePlayer \/ EndPacket

UpdaterStep == \/ TestRunning \/ TestPredicate \/ FallAsleep \/ CheckClosed
               \/ LeaveSpin \/ Suspend \/ SendUpdate \/ JoinAndReturn
               \/ UnlockQueue \/ Resume

\* The update thread's wait for the peer to read.
SendReturns == ResponseNone \/ ResponseClose

PushStep == PushUpdate \/ RaiseUpdates \/ NotifyUpdates

MainStep == \/ CheckSafety \/ SkipUpdates \/ WantQueue \/ LockForPush
            \/ PushStep \/ JoinHandler \/ JoinTwice \/ JoinUpdater

Next == \/ HandlerStep \/ PeerStep
        \/ UpdaterStep \/ LockQueue \/ SendReturns \/ SpuriousWake
        \/ MainStep

\* Threads are scheduled: one that can run keeps running, and the handler,
\* which is suspended and resumed over and over, gets on if it can run again
\* and again.  A mutex that is free again and again is not refused for ever to
\* a thread that waits for it.  A push that was begun is finished.  Nothing is
\* assumed of the peer, neither that it sends nor that it reads, of spurious
\* wake-ups, or of when the main loop comes round.
Fairness == /\ SF_vars(HandlerStep)
            /\ WF_vars(UpdaterStep)
            /\ WF_vars(PushStep)
            /\ SF_vars(LockQueue)
            /\ SF_vars(LockForPush)

Spec == Init /\ [][Next]_vars /\ Fairness

-----------------------------------------------------------------------------
Thread == {"none", "main", "update"}

TypeOK ==
  /\ hPc \in HandlerPc
  /\ uPc \in UpdatePc
  /\ mPc \in MainPc
  /\ hasPacket \in BOOLEAN
  /\ internClosed \in BOOLEAN
  /\ suspended \in BOOLEAN
  /\ hasClientUpdates \in BOOLEAN
  /\ clientUpdates \in Seq(1..MaxUpdates)
  /\ clientUpdatesMutex \in Thread
  /\ player \in BOOLEAN
  /\ packets \in 0..MaxPackets
  /\ pushed \in 0..MaxUpdates
  /\ sent \in Seq(1..MaxUpdates)

\* The object is freed only when both of its threads have returned: neither
\* of them can run on a Client that the main loop destroyed, however the
\* close, the two joins of ~Client and the update thread's own join fall.
JoinedBeforeFreed == mPc = "freed" => hPc = "ended" /\ uPc = "ended"

\* The main loop never pushes while the update thread empties the queue: the
\* std::queue is not synchronised, only clientUpdatesMutex keeps them apart.
QueueNotShared == mPc = "push" => uPc \notin {"drain", "send"}

\* Updates reach the peer once each and in the order they were queued: what
\* was sent, followed by what waits, is all that was pushed.
UpdatesInOrder ==
  Alive => sent \o clientUpdates = [i \in 1..pushed |-> i]

\* A handler thread is stopped only while the update thread is between its
\* two calls, so a handler that has to close the client is never left
\* stopped behind a returned update thread.
SuspendedOnlyDuringUpdate ==
  suspended => uPc \in {"lock", "drain", "send", "join", "resume", "crashed"}

\* The peer reads what it is sent: the update thread is not in sendPacket for
\* ever.  Nothing makes a peer do so; the properties below that need it say so.
SendsReturn == []<>(uPc # "send")

\* A suspended handler gets on again, whatever wakes or closes the client in
\* the meantime, if the peer reads.  (Unless sendPacket is seen to answer
\* CLOSE: then the update thread waits for the handler it has suspended.)
HandlerResumed ==
  SendsReturn => (suspended ~> (~suspended \/ ~Alive \/ uPc = "join"))

\* The main loop, which waits for the queue of one client in the middle of its
\* round over all of them, gets it if the peer of that client reads.  (Unless
\* sendPacket is seen to answer CLOSE: the update thread joins and returns with
\* the mutex held, and the main loop waits for ever.)
MainGetsQueue ==
  SendsReturn =>
    ( (mPc = "lock")
      ~> (\/ mPc = "push"
          \/ clientUpdatesMutex = "update" /\ uPc \in {"join", "ended"}
          \/ ~Alive) )

\* A close that finds the update thread asleep ends both threads.  (One that
\* finds it between its test and its sleep, or in the poll of hasPacket, need
\* not: ClosedEndsThreads.)
CloseWakesSleeper ==
  (hPc = "notify" /\ uPc = "asleep") ~> (hPc = "ended" /\ uPc = "ended")

\* Provided packets do not keep the update thread polling for ever and the peer
\* reads what it is sent, updates are sent, or the client closes: from the time
\* the notification found the thread asleep, and for every update after the
\* first one sent, since the flag that is never lowered makes up for
\* notifications that are missed.
UpdatesDelivered ==
  <>[]~hasPacket /\ SendsReturn =>
     ( (clientUpdates # <<>>
          /\ (sent # <<>> \/ (mPc = "notify" /\ uPc = "asleep")))
       ~> (clientUpdates = <<>> \/ internClosed \/ ~Alive) )

\* Seen from the main loop the client is the outbox of ClientOutbox, whatever
\* its three threads do to one another: nothing is delivered twice, out of
\* order or from a client that was freed, and no open client is freed.
OutboxState == IF ~Alive THEN "crashed"
               ELSE IF mPc = "freed" THEN "freed"
               ELSE IF internClosed THEN "closed" ELSE "open"

OutboxWaiting == IF Alive THEN clientUpdates ELSE <<>>

Outbox == INSTANCE ClientOutbox
            WITH Updates <- 1..MaxUpdates, state <- OutboxState,
                 waiting <- OutboxWaiting, delivered <- sent

IsOutbox == Outbox!OutboxSpec

-----------------------------------------------------------------------------
(* What comments in the code say, and the code does not do.                *)

\* "pause client update handler" (Client.cpp:84): while a packet is handled
\* the update thread sends nothing.
PacketPausesUpdates == [][sent' # sent => ~hasPacket]_vars

\* "Resolving by shutting down!" (Client.cpp:103): a client that closed gets
\* rid of its threads, also if its peer has read all it was sent.
ClosedEndsThreads ==
  SendsReturn =>
    (internClosed ~> (~Alive \/ (hPc = "ended" /\ uPc = "ended")))
=============================================================================
