---------------------------- MODULE ServerProofs ----------------------------
(***************************************************************************)
(* Proofs about Server, for any number of connections: under the main loop *)
(* as it is, the intake stops at the first client.                         *)
(***************************************************************************)
EXTENDS Server, ConnectionIntakeProofs, FiniteSetTheorems

-----------------------------------------------------------------------------
\* The loop only restricts when handleSafety is called and when a client ends:
\* what it does is what ConnectionIntake allows.
LEMMA InitIntake == SInit => Init
BY DEF SInit

LEMMA NextIntake == [SNext]_svars => [Next]_vars
<1> SUFFICES ASSUME [SNext]_svars PROVE [Next]_vars
  OBVIOUS
<1>1. CASE CloseClient
  <2>1. PICK c \in Client \ readers : CloseIntern(c) \/ ThreadsEnd(c)
    BY <1>1 DEF CloseClient
  <2> QED BY <2>1 DEF Next, ClientStep
<1>2. CASE \E c \in Client : GetPlayers(c) \/ ReleasePlayers(c)
  BY <1>2 DEF GetPlayers, ReleasePlayers
<1>3. CASE StartUp \/ Network \/ LeaveGate \/ Safety
  BY <1>3 DEF StartUp, Network, LeaveGate, Safety, Next
<1>4. CASE UNCHANGED svars
  BY <1>4 DEF svars
<1> QED BY <1>1, <1>2, <1>3, <1>4 DEF SNext

\* The program (main.cpp) is an instance of the intake whose safety is proved
\* in ConnectionIntakeProofs for any caller of handleSafety.
THEOREM ServerIsIntake == SSpec => Init /\ [][Next]_vars
BY InitIntake, NextIntake, PTL DEF SSpec

-----------------------------------------------------------------------------
(* The wait of main.cpp:37 never ends.                                     *)

\* players and playersPtr count as two owners, whatever the readers do.
LEMMA AlwaysUsed ==
  ASSUME readers \subseteq Client
  PROVE  isUsed
<1>1. IsFiniteSet(Client) /\ IsFiniteSet(readers)
  <2>1. IsFiniteSet(Client)
    BY MaxAcceptsAssumption, FS_Interval DEF Client
  <2> QED BY <2>1, FS_Subset
<1>2. Cardinality(readers) \in Nat
  BY <1>1, FS_CardinalityType
<1>3. Cardinality(StaticOwners) = 2
  <2>1. /\ IsFiniteSet({"players"}) /\ Cardinality({"players"}) = 1
    BY FS_Singleton
  <2>2. Cardinality({"players"} \cup {"playersPtr"}) = 1 + 1
    <3>1. "playersPtr" \notin {"players"}
      OBVIOUS
    <3> QED BY <2>1, <3>1, FS_AddElement
  <2>3. StaticOwners = {"players"} \cup {"playersPtr"}
    BY DEF StaticOwners
  <2> QED BY <2>2, <2>3
<1> QED BY <1>2, <1>3 DEF isUsed, UseCount

\* The main thread waits, the vector of clients stays empty, and the accept
\* loop, which waits for the flag to come down, builds one client at most.
NobodyListed ==
  /\ mainPc \in {"construct", "engage", "between"}
  /\ clients = <<>>
  /\ destroyed = {}
  /\ made <= 1

\* What keeps the second client from being built: once there is a first one,
\* it is on its way to the flag, or the flag is up and stays up.  Before the
\* main loop there is no network thread.
GateInv ==
  /\ readers \subseteq Client
  /\ mainPc \in {"construct", "engage", "between"}
  /\ clients = <<>>
  /\ destroyed = {}
  /\ mainPc # "between" => netPc = "unborn" /\ made = 0
  /\ \/ made = 0
     \/ made = 1 /\ (netPc \in {"push", "flag"} \/ hasClient)

LEMMA InitGate == SInit => GateInv
BY DEF SInit, Init, GateInv

LEMMA NextGate == GateInv /\ [SNext]_svars => GateInv'
<1> SUFFICES ASSUME GateInv, [SNext]_svars PROVE GateInv'
  OBVIOUS
<1> USE DEF GateInv, netVars, lifeVars
<1>1. CASE StartUp
  BY <1>1 DEF StartUp, Construct, Engage
<1>2. CASE Accept /\ UNCHANGED readers
  BY <1>2 DEF Accept
<1>3. CASE NetworkStep /\ UNCHANGED readers
  BY <1>3 DEF NetworkStep, BuildClient, PushClient, RaiseFlag
<1>4. CASE LeaveGate
  BY <1>4, AlwaysUsed DEF LeaveGate
<1>5. CASE Safety
  BY <1>5 DEF Safety, SafetyStep, CopyFront, PopFront, FindEmpty, LowerFlag,
     KeepOpen, EraseClosed, Destroy, ReturnFromSafety
<1>6. CASE CloseClient
  BY <1>6 DEF CloseClient, CloseIntern, ThreadsEnd
<1>7. CASE \E c \in Client : GetPlayers(c) \/ ReleasePlayers(c)
  BY <1>7 DEF GetPlayers, ReleasePlayers, vars
<1>8. CASE UNCHANGED svars
  BY <1>8 DEF svars, vars
<1> QED BY <1>1, <1>2, <1>3, <1>4, <1>5, <1>6, <1>7, <1>8 DEF SNext, Network

\* isUsed (PlayerManagement.cpp) compares with 2 a count that is never less, so
\* the loop of main.cpp:37 is never left: however many peers connect, the
\* server builds one client and lists none.
THEOREM NobodyIsListed == SSpec => []NobodyListed
<1>1. GateInv => NobodyListed
  BY DEF GateInv, NobodyListed
<1> QED BY <1>1, InitGate, NextGate, PTL DEF SSpec
=============================================================================
