-------------------------- MODULE ConnectionIntake --------------------------
(***************************************************************************)
(* How a connection gets from the network thread to the main loop:         *)
(* NetworkHandler's constructor, engage, the accept loop _engage, and      *)
(* handleSafety (Network/NetworkHandler.cpp).                              *)
(*                                                                         *)
(* Two threads share the non-thread-safe std::queue clientsQueue.  Nothing *)
(* but the atomic hasClient keeps them apart: the network thread pushes    *)
(* only after it saw the flag down, the main loop drains only after it saw *)
(* the flag up.  Every access to the queue is a step of its own here, so   *)
(* that two overlapping accesses are a state.                              *)
(*                                                                         *)
(* A Client object is its number: the n-th that make_shared built is n.    *)
(* Its own threads start inside its constructor and are environment here:  *)
(* they may raise internClosed (CloseIntern) and later return (ThreadsEnd).*)
(* A failed accept is only logged (line 88) and takes the same path as a   *)
(* good one, so Accept does not tell them apart.  handleUpdates changes    *)
(* nothing of this state; who calls handleSafety, and when, is left open.  *)
(***************************************************************************)
EXTENDS Naturals, SequencesExt

CONSTANT MaxAccepts    \* bound: how many times accept() returns

ASSUME MaxAcceptsAssumption == MaxAccepts \in Nat

VARIABLES
  status,         \* NetworkHandler::status
  netPc,          \* where the network thread is in _engage
  mainPc,         \* where the main thread is
  made,           \* how many Client objects have been built
  hasClient,      \* NetworkHandler::hasClient
  clientsQueue,   \* NetworkHandler::clientsQueue
  clients,        \* NetworkHandler::clients
  it,             \* the iterator of the erase loop, as a position
  closed,         \* the clients whose internClosed is true
  ended,          \* the clients whose two threads have returned
  destroyed       \* the clients whose destructor has returned

vars == <<status, netPc, mainPc, made, hasClient, clientsQueue, clients, it,
          closed, ended, destroyed>>

netVars   == <<netPc, made>>
lifeVars  == <<closed, ended>>

StartErrors == {"ERR_STARTUP", "ERR_ADDRINFO", "ERR_NEWSOCK", "ERR_BIND",
                "ERR_LISTEN"}

Status == StartErrors \cup {"INIT", "ENGAGED"}

Client == 1..MaxAccepts

NetPc  == {"unborn", "accept", "wait", "push", "flag"}

MainPc == {"construct", "engage", "between", "drain", "pop", "lower", "scan",
           "join"}

Init == /\ status = "INIT"
        /\ netPc = "unborn"
        /\ mainPc = "construct"
        /\ made = 0
        /\ hasClient = FALSE
        /\ clientsQueue = <<>>
        /\ clients = <<>>
        /\ it = 1
        /\ closed = {}
        /\ ended = {}
        /\ destroyed = {}

-----------------------------------------------------------------------------
(* Start-up, on the main thread.                                           *)

\* Each step of the constructor may fail; it then returns with its status.
Construct ==
  /\ mainPc = "construct"
  /\ status' \in StartErrors \cup {"INIT"}
  /\ mainPc' = "engage"
  /\ UNCHANGED <<netVars, hasClient, clientsQueue, clients, it, lifeVars,
                 destroyed>>

\* engage() looks at no status: it starts the thread and overwrites status.
Engage ==
  /\ mainPc = "engage"
  /\ netPc' = "accept"
  /\ status' = "ENGAGED"
  /\ mainPc' = "between"
  /\ UNCHANGED <<made, hasClient, clientsQueue, clients, it, lifeVars,
                 destroyed>>

-----------------------------------------------------------------------------
(* The network thread.                                                     *)

Accept ==
  /\ netPc = "accept"
  /\ made < MaxAccepts
  /\ netPc' = "wait"
  /\ UNCHANGED <<status, mainPc, made, hasClient, clientsQueue, clients, it,
                 lifeVars, destroyed>>

\* Mutant: the flag is not awaited.
BuildUnasked ==
  /\ netPc = "wait"
  /\ made' = made + 1
  /\ netPc' = "push"
  /\ UNCHANGED <<status, mainPc, hasClient, clientsQueue, clients, it,
                 lifeVars, destroyed>>

\* The sleep loop lets the thread through when the flag is down; make_shared
\* then builds the client, which starts the client's own threads.
BuildClient ==
  /\ netPc = "wait"
  /\ ~hasClient
  /\ made' = made + 1
  /\ netPc' = "push"
  /\ UNCHANGED <<status, mainPc, hasClient, clientsQueue, clients, it,
                 lifeVars, destroyed>>

\* Mutant: another number than that of the client built.
PushNext ==
  /\ netPc = "push"
  /\ clientsQueue' = Append(clientsQueue, made + 1)
  /\ netPc' = "flag"
  /\ UNCHANGED <<status, mainPc, made, hasClient, clients, it, lifeVars,
                 destroyed>>

PushClient ==
  /\ netPc = "push"
  /\ clientsQueue' = Append(clientsQueue, made)
  /\ netPc' = "flag"
  /\ UNCHANGED <<status, mainPc, made, hasClient, clients, it, lifeVars,
                 destroyed>>

\* Mutant: the flag is not raised.
RaiseNothing ==
  /\ netPc = "flag"
  /\ netPc' = "accept"
  /\ UNCHANGED <<status, mainPc, made, hasClient, clientsQueue, clients, it,
                 lifeVars, destroyed>>

RaiseFlag ==
  /\ netPc = "flag"
  /\ hasClient' = TRUE
  /\ netPc' = "accept"
  /\ UNCHANGED <<status, mainPc, made, clientsQueue, clients, it, lifeVars,
                 destroyed>>

-----------------------------------------------------------------------------
(* handleSafety, on the main thread.                                       *)

\* Mutant: closed clients are looked for only if a new one has come.
SafetyForNewOnly ==
  /\ mainPc = "between"
  /\ status = "ENGAGED"
  /\ mainPc' = IF hasClient THEN "drain" ELSE "scan"
  /\ it' = IF hasClient THEN 1 ELSE Len(clients) + 1
  /\ UNCHANGED <<status, netVars, hasClient, clientsQueue, clients, lifeVars,
                 destroyed>>

\* The test of hasClient, at line 104.  Its caller leaves its loop when the
\* status is not ENGAGED (main.cpp:41).
CallHandleSafety ==
  /\ mainPc = "between"
  /\ status = "ENGAGED"
  /\ mainPc' = IF hasClient THEN "drain" ELSE "scan"
  /\ it' = 1
  /\ UNCHANGED <<status, netVars, hasClient, clientsQueue, clients, lifeVars,
                 destroyed>>

CopyFront ==
  /\ mainPc = "drain"
  /\ clientsQueue # <<>>
  /\ clients' = Append(clients, Head(clientsQueue))
  /\ mainPc' = "pop"
  /\ UNCHANGED <<status, netVars, hasClient, clientsQueue, it, lifeVars,
                 destroyed>>

\* Mutant: the front stays in the queue for the next round.
PopNothing ==
  /\ mainPc = "pop"
  /\ hasClient' = FALSE
  /\ mainPc' = "scan"
  /\ UNCHANGED <<status, netVars, clientsQueue, clients, it, lifeVars,
                 destroyed>>

PopFront ==
  /\ mainPc = "pop"
  /\ clientsQueue' = Tail(clientsQueue)
  /\ mainPc' = "drain"
  /\ UNCHANGED <<status, netVars, hasClient, clients, it, lifeVars, destroyed>>

\* clientsQueue.empty() ends the loop; the flag is taken down after that.
FindEmpty ==
  /\ mainPc = "drain"
  /\ clientsQueue = <<>>
  /\ mainPc' = "lower"
  /\ UNCHANGED <<status, netVars, hasClient, clientsQueue, clients, it, lifeVars,
                 destroyed>>

LowerFlag ==
  /\ mainPc = "lower"
  /\ hasClient' = FALSE
  /\ mainPc' = "scan"
  /\ UNCHANGED <<status, netVars, clientsQueue, clients, it, lifeVars,
                 destroyed>>

\* The erase loop: an open client is passed over ...
KeepOpen ==
  /\ mainPc = "scan"
  /\ it <= Len(clients)
  /\ clients[it] \notin closed
  /\ it' = it + 1
  /\ UNCHANGED <<status, netVars, mainPc, hasClient, clientsQueue, clients,
                 lifeVars, destroyed>>

\* ... a closed one is erased, and the iterator stays: the last reference goes,
\* so the destructor runs here and joins both threads of the client.
EraseClosed ==
  /\ mainPc = "scan"
  /\ it <= Len(clients)
  /\ clients[it] \in closed
  /\ mainPc' = "join"
  /\ UNCHANGED <<status, netVars, hasClient, clientsQueue, clients, it,
                 lifeVars, destroyed>>

Destroy ==
  /\ mainPc = "join"
  /\ clients[it] \in ended
  /\ destroyed' = destroyed \cup {clients[it]}
  /\ clients' = RemoveAt(clients, it)
  /\ mainPc' = "scan"
  /\ UNCHANGED <<status, netVars, hasClient, clientsQueue, it, lifeVars>>

ReturnFromSafety ==
  /\ mainPc = "scan"
  /\ it > Len(clients)
  /\ mainPc' = "between"
  /\ UNCHANGED <<status, netVars, hasClient, clientsQueue, clients, it,
                 lifeVars, destroyed>>

-----------------------------------------------------------------------------
(* The client's own threads, seen from here (ClientThreads has them all).  *)

CloseIntern(c) ==
  /\ c <= made
  /\ c \notin closed
  /\ closed' = closed \cup {c}
  /\ UNCHANGED <<status, netVars, mainPc, hasClient, clientsQueue, clients,
                 it, ended, destroyed>>

ThreadsEnd(c) ==
  /\ c \in closed
  /\ c \notin ended
  /\ ended' = ended \cup {c}
  /\ UNCHANGED <<status, netVars, mainPc, hasClient, clientsQueue, clients,
                 it, closed, destroyed>>

-----------------------------------------------------------------------------
\* What the network thread does between two calls of accept.
NetworkStep == BuildClient \/ PushClient \/ RaiseFlag

\* What the main thread does inside one call of handleSafety.
SafetyStep == \/ CopyFront \/ PopFront \/ FindEmpty \/ LowerFlag
              \/ KeepOpen \/ EraseClosed \/ Destroy \/ ReturnFromSafety

ClientStep == \E c \in Client : CloseIntern(c) \/ ThreadsEnd(c)

Next == \/ Construct \/ Engage
        \/ Accept \/ NetworkStep
        \/ CallHandleSafety \/ SafetyStep
        \/ ClientStep

\* Both threads are scheduled again and again.  Nothing is assumed of peers
\* (Accept), of the clients' threads, or of the caller of handleSafety.
Fairness == WF_vars(NetworkStep) /\ WF_vars(SafetyStep)

Spec == Init /\ [][Next]_vars /\ Fairness

-----------------------------------------------------------------------------
TypeOK ==
  /\ status \in Status
  /\ netPc \in NetPc
  /\ mainPc \in MainPc
  /\ made \in 0..MaxAccepts
  /\ hasClient \in BOOLEAN
  /\ clientsQueue \in Seq(Client)
  /\ clients \in Seq(Client)
  /\ it \in Nat \ {0}
  /\ closed \subseteq Client
  /\ ended \subseteq Client
  /\ destroyed \subseteq Client

\* The two threads are never inside clientsQueue at once: std::queue is not
\* synchronised, and clientMutex of NetworkHandler.h:23 is never taken.
QueueNotShared ==
  ~ (netPc = "push" /\ mainPc \in {"drain", "pop"})

\* The clients that have left the accept loop but not yet reached clients.
InTransit == IF mainPc = "pop" THEN Tail(clientsQueue) ELSE clientsQueue

Pushed == IF netPc = "push" THEN made - 1 ELSE made

\* No accepted client is lost, doubled or overtaken on its way through the
\* queue and the erase loop: the clients in the vector, followed by the one
\* in transit, are in the order of acceptance, and they are exactly those
\* pushed and not destroyed.
EveryClientOnce ==
  LET all == clients \o InTransit
  IN  /\ \A i, j \in DOMAIN all : i < j => all[i] < all[j]
      /\ ToSet(all) \cap destroyed = {}
      /\ ToSet(all) \cup destroyed = 1..Pushed

\* The flag is handed back only with nothing left behind it.  The main loop
\* finds the queue empty and takes hasClient down later, with no lock around
\* the two: a client pushed in between would wait for the next one to come.
HandBackEmpty ==
  [][hasClient /\ ~hasClient' => clientsQueue = <<>>]_vars

\* A client is built only when all those before it are listed or destroyed.
\* Its own threads run from then on, so what the clients do among each other
\* (UpdateBroadcast) can count on it.
BuiltInTurn ==
  [][made' # made => ToSet(clients) \cup destroyed = 1..made]_vars

\* As long as handleSafety keeps being called, every client that was built
\* reaches the vector of clients ...
BuiltIsListed ==
  []<><<CallHandleSafety>>_vars =>
     \A c \in Client :
        (c <= made) ~> (c \in ToSet(clients) \/ c \in destroyed)

\* ... and every client that closed is erased and destroyed.  The premise has
\* every destructor return (it says that handleSafety is called once more); the
\* join that hangs is in ClientThreads (ClosedEndsThreads).
ClosedIsDestroyed ==
  []<><<CallHandleSafety>>_vars =>
     \A c \in Client : (c \in closed) ~> (c \in destroyed)

\* The intake is a mailbox of capacity one (ConnectionMailbox).
Mailbox == INSTANCE ConnectionMailbox
             WITH offered <- Pushed, mailbox <- InTransit,
                  live <- clients, reaped <- destroyed

MailboxSpec == Mailbox!MSpec
=============================================================================
