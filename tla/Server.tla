------------------------------- MODULE Server -------------------------------
(***************************************************************************)
(* The main loop of the program (main.cpp:36-42) around the connection     *)
(* intake.  Before every call of handleSafety it waits until the vector of *)
(* players is not in use: isUsed() compares the use count of the shared    *)
(* pointer that owns it.  A handler thread that builds the player list of  *)
(* a PlayerInfoUpdate holds a copy of that pointer (getPlayers,            *)
(* packetHandler.cpp:311-321).  ConnectionIntake leaves open when          *)
(* handleSafety is called; here the caller is modelled.                    *)
(***************************************************************************)
EXTENDS ConnectionIntake, FiniteSets

VARIABLE readers    \* the clients whose handler thread has getPlayers' result

svars == <<vars, readers>>

\* The static pointers players and playersPtr share one vector.
StaticOwners == {"players", "playersPtr"}

\* playersPtr.use_count()
UseCount == Cardinality(StaticOwners) + Cardinality(readers)

isUsed == UseCount >= 2

SInit == Init /\ readers = {}

GetPlayers(c) == /\ c <= made
                 /\ c \notin closed \cup readers
                 /\ readers' = readers \cup {c}
                 /\ UNCHANGED vars

ReleasePlayers(c) == /\ c \in readers
                     /\ readers' = readers \ {c}
                     /\ UNCHANGED vars

\* while (isUsed()) {}, and then the call.
LeaveGate == ~isUsed /\ CallHandleSafety /\ UNCHANGED readers

\* The threads of a client close it when they do not hold the players.
CloseClient == /\ \E c \in Client \ readers : CloseIntern(c) \/ ThreadsEnd(c)
               /\ UNCHANGED readers

StartUp == (Construct \/ Engage) /\ UNCHANGED readers

Network == (Accept \/ NetworkStep) /\ UNCHANGED readers

Safety == SafetyStep /\ UNCHANGED readers

SNext == \/ StartUp \/ Network \/ LeaveGate \/ Safety \/ CloseClient
         \/ \E c \in Client : GetPlayers(c) \/ ReleasePlayers(c)

\* All threads are scheduled; a handler thread releases what it got.
SSpec == /\ SInit
         /\ [][SNext]_svars
         /\ WF_svars(StartUp)
         /\ WF_svars(NetworkStep /\ UNCHANGED readers)
         /\ WF_svars(LeaveGate) /\ WF_svars(Safety)
         /\ \A c \in Client : WF_svars(ReleasePlayers(c))

-----------------------------------------------------------------------------
\* "wait for players to be free for deletion" (main.cpp:37): if from some time
\* on no thread uses the players, the main loop gets past the wait.
PlayersFreeOpensGate ==
  <>[](readers = {}) => <>(mainPc \notin {"construct", "engage", "between"})
=============================================================================
