--------------------------- MODULE UpdateBroadcast ---------------------------
(***************************************************************************)
(* How the news of a joining player gets to the other clients.             *)
(*                                                                         *)
(* The handler thread of a client that logs in registers its player, posts *)
(* an ADDPLAYER update to its own globalUpdates and takes a snapshot of    *)
(* the registered players (packetHandler.cpp:209 and 297-320).  The main   *)
(* loop moves every posted update to the clientUpdates of all other listed *)
(* clients (NetworkHandler::handleUpdates); the update thread of each of   *)
(* them suspends its handler thread, sends the update and deletes it       *)
(* (Client::handleUpdate).                                                 *)
(*                                                                         *)
(* A client is its number in the order of acceptance, and an update is the *)
(* client that joined: one connection logs in at most once.  What comes    *)
(* before createPlayer is the phase "login"; the wake-up of the update     *)
(* thread, the poll of hasPacket before the suspension (which does not     *)
(* exclude it in the middle of a packet) and the end of the threads are    *)
(* those of ClientThreads, the listing of clients that of                  *)
(* ConnectionIntake, both abstracted.  The two mutexes of a client are     *)
(* derived from the program counters of their users.                       *)
(***************************************************************************)
EXTENDS Naturals, FiniteSets, SequencesExt

CONSTANTS
  MaxClients,     \* bound: clients that ever connect
  MayClose,       \* bound: the clients whose connection may end of itself
  MayUpdate,      \* bound: the clients whose update thread is scheduled
  SuspendResults, \* whether a SuspendThread stops the thread: nobody looks
  Responses       \* what sendPacket may be seen to return (ClientThreads)

ASSUME UpdateBroadcastAssumption ==
  /\ MaxClients \in Nat
  /\ MayClose \subseteq Nat
  /\ MayUpdate \subseteq Nat
  /\ SuspendResults \subseteq BOOLEAN
  /\ Responses \subseteq {"NONE", "CLOSE"}

Client == 1..MaxClients

VARIABLES
  clients,         \* NetworkHandler::clients
  phase,           \* where the handler thread of each client is
  hasPlayer,       \* the clients whose player is set
  players,         \* the clients whose player is registered
  globalUpdates,   \* Client::globalUpdates of each client
  hasGlobalUpdates,\* the clients whose hasGlobalUpdates is true
  known,           \* the players each client was told of when it logged in
  clientUpdates,   \* Client::clientUpdates of each client
  told,            \* the updates each client's update thread has sent
  suspended,       \* the clients whose handler thread is suspended
  uPc,             \* where the update thread of each client is
  mPc,             \* where the main thread is
  outer, inner     \* the positions of its two loops, 1 outside of them

vars == <<clients, phase, hasPlayer, players, globalUpdates,
          hasGlobalUpdates, known, clientUpdates, told, suspended, uPc, mPc,
          outer, inner>>

mainVars     == <<clients, mPc, outer, inner>>
registryVars == <<hasPlayer, players, known>>
globalVars   == <<globalUpdates, hasGlobalUpdates>>
updaterVars  == <<clientUpdates, told, suspended, uPc>>
dataVars     == <<registryVars, globalVars, updaterVars>>

\* What a step of the main loop that moves nothing but itself leaves alone.
mainFrame == <<clients, phase, dataVars>>

Phase == {"absent", "login", "registered", "locked", "posted", "flagged",
          "online", "closing", "closed", "gone"}

\* The connection has ended.
Over == {"closing", "closed", "gone"}

Init == /\ clients = <<>>
        /\ phase = [c \in Client |-> "absent"]
        /\ hasPlayer = {}
        /\ players = {}
        /\ globalUpdates = [c \in Client |-> <<>>]
        /\ hasGlobalUpdates = {}
        /\ known = [c \in Client |-> {}]
        /\ clientUpdates = [c \in Client |-> <<>>]
        /\ told = [c \in Client |-> <<>>]
        /\ suspended = {}
        /\ uPc = [c \in Client |-> "idle"]
        /\ mPc = "idle"
        /\ outer = 1
        /\ inner = 1

\* No update thread has dereferenced a player that is not there, and no thread
\* has been joined twice.
Alive == mPc # "crashed" /\ \A c \in Client : uPc[c] # "crashed"

\* An update thread there has locked its queue.
Updating == {"drain", "send", "join", "returned"}

\* Holders of a client's clientUpdatesMutex and globalUpdateMutex.
UpdaterHolds(c) == uPc[c] \in Updating
MainHolds(c)    == mPc \in {"drain", "push"} /\ clients[outer] = c
HandlerHolds(c) == phase[c] = "locked"

\* The main loop is about to lock the client's globalUpdateMutex.
MainWants(c) == /\ mPc = "outer"
                /\ outer <= Len(clients)
                /\ clients[outer] = c
                /\ c \in hasGlobalUpdates

-----------------------------------------------------------------------------
(* The handler thread of a client.                                         *)

\* Mutant: clients are built whether or not the others have been listed.
ConnectUnasked(c) ==
  /\ phase[c] = "absent"
  /\ Alive
  /\ phase' = [phase EXCEPT ![c] = "login"]
  /\ UNCHANGED <<mainVars, dataVars>>

\* The accept loop builds a client when the one before has been listed.
Connect(c) ==
  /\ phase[c] = "absent"
  /\ Alive
  /\ \A d \in 1..(c - 1) : phase[d] = "gone" \/ d \in ToSet(clients)
  /\ phase' = [phase EXCEPT ![c] = "login"]
  /\ UNCHANGED <<mainVars, dataVars>>

Handler(c, from, to) == /\ phase[c] = from
                        /\ c \notin suspended
                        /\ Alive
                        /\ phase' = [phase EXCEPT ![c] = to]

\* Mutant: the player is registered, but the client does not get it.
RegisterOnly(c) ==
  /\ Handler(c, "login", "registered")
  /\ players' = players \cup {c}
  /\ UNCHANGED <<mainVars, hasPlayer, known, globalVars, updaterVars>>

\* Mutant: the player is created, but not registered.
CreateUnregistered(c) ==
  /\ Handler(c, "login", "registered")
  /\ hasPlayer' = hasPlayer \cup {c}
  /\ UNCHANGED <<mainVars, players, known, globalVars, updaterVars>>

CreatePlayer(c) ==
  /\ Handler(c, "login", "registered")
  /\ hasPlayer' = hasPlayer \cup {c}
  /\ players' = players \cup {c}
  /\ UNCHANGED <<mainVars, known, globalVars, updaterVars>>

\* Mutant: the flag is raised before the update is there.
LockAndRaise(c) ==
  /\ Handler(c, "registered", "locked")
  /\ ~MainHolds(c)
  /\ hasGlobalUpdates' = hasGlobalUpdates \cup {c}
  /\ UNCHANGED <<mainVars, registryVars, globalUpdates, updaterVars>>

LockGlobal(c) ==
  /\ Handler(c, "registered", "locked")
  /\ ~MainHolds(c)
  /\ UNCHANGED <<mainVars, dataVars>>

\* Mutant: the update is posted twice.
PostTwice(c) ==
  /\ Handler(c, "locked", "posted")
  /\ globalUpdates' = [globalUpdates EXCEPT ![c] = @ \o <<c, c>>]
  /\ UNCHANGED <<mainVars, registryVars, hasGlobalUpdates, updaterVars>>

\* Mutant: the mutex of the posting client is never released.
PostAndStayLocked(c) ==
  /\ Alive
  /\ c \notin suspended
  /\ phase[c] = "locked"
  /\ globalUpdates[c] = <<>>
  /\ globalUpdates' = [globalUpdates EXCEPT ![c] = Append(@, c)]
  /\ hasGlobalUpdates' = hasGlobalUpdates \cup {c}
  /\ UNCHANGED <<mainVars, phase, registryVars, updaterVars>>

\* Push and unlock.
PostUpdate(c) ==
  /\ Handler(c, "locked", "posted")
  /\ globalUpdates' = [globalUpdates EXCEPT ![c] = Append(@, c)]
  /\ UNCHANGED <<mainVars, registryVars, hasGlobalUpdates, updaterVars>>

RaiseGlobal(c) ==
  /\ Handler(c, "posted", "flagged")
  /\ hasGlobalUpdates' = hasGlobalUpdates \cup {c}
  /\ UNCHANGED <<mainVars, registryVars, globalUpdates, updaterVars>>

\* The players of the PlayerInfoUpdate packet.
TakeSnapshot(c) ==
  /\ Handler(c, "flagged", "online")
  /\ known' = [known EXCEPT ![c] = players]
  /\ UNCHANGED <<mainVars, hasPlayer, players, globalVars, updaterVars>>

\* The connection ends: internClosed first ...
CloseIntern(c) ==
  /\ \E p \in {"login", "registered", "posted", "flagged", "online"} :
        Handler(c, p, "closing")
  /\ c \in MayClose
  /\ UNCHANGED <<mainVars, dataVars>>

\* ... then the registered player is erased and the thread returns.
Unregister(c) ==
  /\ Handler(c, "closing", "closed")
  /\ players' = players \ {c}
  /\ UNCHANGED <<mainVars, hasPlayer, known, globalVars, updaterVars>>

\* The update thread has raised internClosed: the handler thread leaves its
\* loop after the packet it is at, and its player stays registered.
LeaveLoop(c) ==
  /\ uPc[c] = "join"
  /\ Handler(c, "online", "closed")
  /\ UNCHANGED <<mainVars, dataVars>>

-----------------------------------------------------------------------------
(* The main thread.                                                        *)

\* handleSafety takes the next client over ...
ListClient(c) ==
  /\ mPc = "idle"
  /\ Alive
  /\ phase[c] \notin {"absent", "gone"}
  /\ c \notin ToSet(clients)
  /\ clients' = Append(clients, c)
  /\ UNCHANGED <<phase, mPc, outer, inner, dataVars>>

\* ... and erases one whose threads have ended.
ReapClient(c) ==
  /\ mPc = "idle"
  /\ Alive
  /\ phase[c] = "closed"
  /\ uPc[c] \in {"idle", "returned"}
  /\ \E i \in DOMAIN clients : /\ clients[i] = c
                              /\ clients' = RemoveAt(clients, i)
  /\ phase' = [phase EXCEPT ![c] = "gone"]
  /\ UNCHANGED <<mPc, outer, inner, dataVars>>

Main(from, to) == mPc = from /\ Alive /\ mPc' = to

\* Its destructor joins the handler thread while the update thread does so: it
\* may go well, or throw out of the destructor, and the process is gone.
JoinTwice(c) ==
  /\ Main("idle", "crashed")
  /\ c \in ToSet(clients)
  /\ phase[c] = "closed"
  /\ uPc[c] = "join"
  /\ UNCHANGED <<outer, inner, mainFrame>>

CallHandleUpdates ==
  /\ Main("idle", "outer")
  /\ UNCHANGED <<outer, inner, mainFrame>>

PassClient ==
  /\ Main("outer", "outer")
  /\ outer <= Len(clients)
  /\ clients[outer] \notin hasGlobalUpdates
  /\ outer' = outer + 1
  /\ UNCHANGED <<inner, mainFrame>>

TakeUpClient ==
  /\ Main("outer", "drain")
  /\ outer <= Len(clients)
  /\ clients[outer] \in hasGlobalUpdates
  /\ ~HandlerHolds(clients[outer])
  /\ UNCHANGED <<outer, inner, mainFrame>>

ReturnFromUpdates ==
  /\ Main("outer", "idle")
  /\ outer > Len(clients)
  /\ outer' = 1
  /\ UNCHANGED <<inner, mainFrame>>

TakeFront ==
  /\ Main("drain", "push")
  /\ globalUpdates[clients[outer]] # <<>>
  /\ UNCHANGED <<outer, inner, mainFrame>>

\* The inner loop passes over the client that posted the update ...
SkipPoster ==
  /\ Main("push", "push")
  /\ inner <= Len(clients)
  /\ inner = outer
  /\ inner' = inner + 1
  /\ UNCHANGED <<outer, mainFrame>>

\* Mutant: the update is put in front of those that wait.
PushInFront ==
  /\ Main("push", "push")
  /\ inner <= Len(clients)
  /\ inner # outer
  /\ ~UpdaterHolds(clients[inner])
  /\ clientUpdates' = [clientUpdates EXCEPT ![clients[inner]] =
                         <<Head(globalUpdates[clients[outer]])>> \o @]
  /\ inner' = inner + 1
  /\ UNCHANGED <<clients, phase, outer, registryVars, globalVars, told,
                 suspended, uPc>>

\* ... and pushes the same pointer to each of the others.
PushToOther ==
  /\ Main("push", "push")
  /\ inner <= Len(clients)
  /\ inner # outer
  /\ ~UpdaterHolds(clients[inner])
  /\ clientUpdates' = [clientUpdates EXCEPT ![clients[inner]] =
                         Append(@, Head(globalUpdates[clients[outer]]))]
  /\ inner' = inner + 1
  /\ UNCHANGED <<clients, phase, outer, registryVars, globalVars, told,
                 suspended, uPc>>

PopFront ==
  /\ Main("push", "drain")
  /\ inner > Len(clients)
  /\ globalUpdates' = [globalUpdates EXCEPT ![clients[outer]] = Tail(@)]
  /\ inner' = 1
  /\ UNCHANGED <<clients, phase, outer, registryVars, hasGlobalUpdates,
                 updaterVars>>

\* hasGlobalUpdates stays up.
NextClient ==
  /\ Main("drain", "outer")
  /\ globalUpdates[clients[outer]] = <<>>
  /\ outer' = outer + 1
  /\ UNCHANGED <<inner, mainFrame>>

-----------------------------------------------------------------------------
(* The update thread of a client.                                          *)

Update(c, from, to) == /\ uPc[c] = from
                       /\ Alive
                       /\ uPc' = [uPc EXCEPT ![c] = to]

\* Suspend the handler thread and lock the queue.  From its first update on
\* the thread comes round again and again, which matters if it suspends.
\* SuspendThread does nothing if native_handle() is not a HANDLE.
SuspendHandler(c) ==
  /\ Update(c, "idle", "drain")
  /\ c \in MayUpdate
  /\ clientUpdates[c] # <<>> \/ (TRUE \in SuspendResults /\ told[c] # <<>>)
  /\ phase[c] \notin Over
  /\ \E stops \in SuspendResults :
        suspended' = IF stops THEN suspended \cup {c} ELSE suspended
  /\ UNCHANGED <<mainVars, phase, registryVars, globalVars, clientUpdates,
                 told>>

\* The player that sendPacket puts into the packet for an update: it is given
\* the client alone, and takes the name and (half of) the uuid of its player.
PlayerSent(c, update) == c

\* Pop, and call sendPacket, which dereferences the player.  The call ends in a
\* blocking send: the thread stays at "send" for as long as the peer does not
\* read, with the queue locked and the handler thread suspended.
SendUpdate(c) ==
  /\ clientUpdates[c] # <<>>
  /\ clientUpdates' = [clientUpdates EXCEPT ![c] = Tail(@)]
  /\ IF c \in hasPlayer
       THEN /\ Update(c, "drain", "send")
            /\ told' = [told EXCEPT ![c] = Append(@, Head(clientUpdates[c]))]
       ELSE /\ Update(c, "drain", "crashed")
            /\ UNCHANGED told
  /\ UNCHANGED <<mainVars, phase, registryVars, globalVars, suspended>>

ResponseNone(c) ==
  /\ "NONE" \in Responses
  /\ Update(c, "send", "drain")
  /\ UNCHANGED <<mainVars, phase, registryVars, globalVars, clientUpdates,
                 told, suspended>>

\* Raise internClosed, and join the handler thread that may be suspended.
ResponseClose(c) ==
  /\ "CLOSE" \in Responses
  /\ Update(c, "send", "join")
  /\ UNCHANGED <<mainVars, phase, registryVars, globalVars, clientUpdates,
                 told, suspended>>

\* The thread returns with the queue locked.
JoinAndReturn(c) ==
  /\ phase[c] = "closed"
  /\ Update(c, "join", "returned")
  /\ UNCHANGED <<mainVars, phase, registryVars, globalVars, clientUpdates,
                 told, suspended>>

\* Unlock the queue and resume the handler thread.
ResumeHandler(c) ==
  /\ Update(c, "drain", "idle")
  /\ clientUpdates[c] = <<>>
  /\ suspended' = suspended \ {c}
  /\ UNCHANGED <<mainVars, phase, registryVars, globalVars, clientUpdates,
                 told>>

-----------------------------------------------------------------------------
\* Steps of the handler thread that wait for the peer, to send or to read.
PeerStep(c) == \/ Connect(c) \/ CreatePlayer(c) \/ LockGlobal(c)
               \/ CloseIntern(c) \/ LeaveLoop(c)

\* Its other steps: from the lock to the snapshot nothing is read or sent.
HandlerStep(c) == \/ PostUpdate(c) \/ RaiseGlobal(c) \/ TakeSnapshot(c)
                  \/ Unregister(c)

UpdaterStep(c) == \/ SuspendHandler(c) \/ SendUpdate(c)
                  \/ JoinAndReturn(c) \/ ResumeHandler(c)

\* The update thread's wait for the peer to read.
SendReturns(c) == ResponseNone(c) \/ ResponseClose(c)

\* handleUpdates, once it has been called.
RoundStep == \/ PassClient \/ TakeUpClient \/ ReturnFromUpdates
             \/ TakeFront \/ SkipPoster \/ PushToOther \/ PopFront
             \/ NextClient

SafetyStep(c) == ListClient(c) \/ ReapClient(c) \/ JoinTwice(c)

Next == \/ \E c \in Client : \/ PeerStep(c) \/ HandlerStep(c)
                             \/ UpdaterStep(c) \/ SendReturns(c)
                             \/ SafetyStep(c)
        \/ CallHandleUpdates
        \/ RoundStep

\* Threads are scheduled.  A handler thread that is suspended and resumed over
\* and over gets on in between, and the main thread gets a mutex that is
\* released over and over.  Nothing is assumed of the peers, neither that they
\* send nor that they read, nor of when the main loop calls handleUpdates.
Fairness == /\ \A c \in Client : /\ SF_vars(HandlerStep(c))
                                 /\ WF_vars(UpdaterStep(c))
            /\ SF_vars(RoundStep)

Spec == Init /\ [][Next]_vars /\ Fairness

-----------------------------------------------------------------------------
TypeOK ==
  /\ clients \in Seq(Client)
  /\ phase \in [Client -> Phase]
  /\ hasPlayer \subseteq Client
  /\ players \subseteq hasPlayer
  /\ globalUpdates \in [Client -> Seq(Client)]
  /\ hasGlobalUpdates \subseteq Client
  /\ known \in [Client -> SUBSET Client]
  /\ clientUpdates \in [Client -> Seq(Client)]
  /\ told \in [Client -> Seq(Client)]
  /\ suspended \subseteq Client
  /\ uPc \in [Client -> {"idle", "crashed"} \cup Updating]
  /\ mPc \in {"idle", "outer", "drain", "push", "crashed"}
  /\ outer \in 1..(MaxClients + 1)
  /\ inner \in 1..(MaxClients + 1)

\* All that an update thread has sent and will send of what is queued now.
Arrivals(c) == told[c] \o clientUpdates[c]

\* No client is told twice of one join, and none of its own.
EachJoinToldOnce ==
  \A c \in Client :
     LET s == Arrivals(c)
     IN  \A j \in DOMAIN s : s[j] # c /\ \A i \in 1..(j - 1) : s[i] # s[j]

\* All clients hear of the joins in one order: whoever two of them both hear
\* of, they hear of in the same order, and the orders of several clients do
\* not make a circle.  One thread moves the updates, each to all clients before
\* the next, and every queue is drained from its front.
OneOrder ==
  \E rank \in [Client -> Client] :
     \A c \in Client :
        LET s == Arrivals(c)
        IN  \A j \in DOMAIN s : \A i \in 1..(j - 1) : rank[s[i]] < rank[s[j]]

\* A client that is online is told, or about to be told, of every player that
\* is online and whose connection was accepted later, however far either of
\* the two had got with its login: it was listed before the other was built.
\* (Of a player accepted EARLIER it may never hear: if that one registers
\* after the snapshot, and the round that moves its update finds the later
\* client in clientsQueue still, there is no update for it.)
LaterJoinSeen ==
  \A c \in Client : \A d \in 1..(c - 1) :
     phase[c] = "online" /\ phase[d] = "online" =>
        globalUpdates[c] # <<>> \/ c \in ToSet(Arrivals(d))

\* Of two players online at least one was told of the other when it logged in:
\* each registers before it looks, so the later look finds the other there.
OneSnapshotSees ==
  \A c \in Client : \A d \in 1..(c - 1) :
     phase[c] = "online" /\ phase[d] = "online" =>
        c \in known[d] \/ d \in known[c]

\* The main loop never wants the globalUpdateMutex of a client whose handler
\* has it or is about to lock it, so that a handler that is suspended while it
\* posts holds up no one: the flag that makes the loop lock is raised after the
\* unlock, and a client posts only once.
LockUncontended ==
  \A c \in Client :
     phase[c] \in {"registered", "locked"} => ~MainWants(c) /\ ~MainHolds(c)

\* The broadcast keeps the promise of JoinNews: nobody hears of a player who
\* has not joined, of himself, or twice of the same; and only an update for a
\* client takes the server down: it has not logged in, or is closed by it.
News == INSTANCE JoinNews WITH joined  <- hasPlayer,
                               heard   <- [c \in Client |-> Arrivals(c)],
                               crashed <- ~Alive

IsNews == News!NewsSpec

\* The number of clients that the accept loop has built, and those of them
\* that handleSafety has still to list.
Built == Cardinality({c \in Client : phase[c] # "absent"})

InTransit == {c \in Client : phase[c] \notin {"absent", "gone"}}
               \ ToSet(clients)

\* Clients come and go here as the intake (ConnectionIntake) has them do: only
\* the newest ever waits to be listed, they are listed in the order of
\* acceptance, and only a listed one is destroyed.
Intake ==
  INSTANCE ConnectionMailbox
    WITH offered <- Built,
         mailbox <- IF Built \in InTransit THEN <<Built>> ELSE <<>>,
         live    <- clients,
         reaped  <- {c \in Client : phase[c] = "gone"}

IsIntake == Intake!MSpec

\* The peers read what they are sent: no update thread is in sendPacket for
\* ever.  Nothing makes a peer do so; RoundEnds says that it needs it.
SendsReturn == \A c \in Client : []<>(uPc[c] # "send")

\* The main loop waits for the queue of a client whose update thread got the
\* answer CLOSE: that thread joins the handler and returns, and never unlocks.
MainStuck == /\ mPc = "push"
             /\ inner \in DOMAIN clients \ {outer}
             /\ uPc[clients[inner]] \in {"join", "returned"}

\* Every round of handleUpdates ends, if the peers read and unless an update
\* was answered with CLOSE: the locks taken by the main thread, by posting
\* handlers and by update threads that suspend those handlers do not block each
\* other for good.
RoundEnds ==
  SendsReturn => ((mPc # "idle") ~> (mPc = "idle" \/ MainStuck \/ ~Alive))

\* "add the Player Joining to the GlobalUpdate Que" (packetHandler.cpp:296):
\* what a client is sent for the update shows the player who joined.
JoinShown ==
  \A c \in Client : \A i \in DOMAIN told[c] :
     PlayerSent(c, told[c][i]) = told[c][i]
=============================================================================
