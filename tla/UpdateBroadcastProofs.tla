------------------------ MODULE UpdateBroadcastProofs ------------------------
(***************************************************************************)
(* Proofs about UpdateBroadcast, for any number of clients, any number of  *)
(* connections that end, whether or not SuspendThread stops a thread, and  *)
(* whatever sendPacket is seen to return.                                  *)
(***************************************************************************)
EXTENDS UpdateBroadcast, SequenceLemmas, FiniteSetTheorems

-----------------------------------------------------------------------------
(* The inductive invariant.                                                *)

Types ==
  /\ clients \in Seq(Client)
  /\ phase \in [Client -> Phase]
  /\ hasPlayer \subseteq Client
  /\ players \subseteq hasPlayer
  /\ globalUpdates \in [Client -> Seq(Client)]
  /\ hasGlobalUpdates \subseteq Client
  /\ known \in [Client -> SUBSET Client]
  /\ clientUpdates \in [Client -> Seq(Client)]
  /\ told \in [Client -> Seq(Client)]
  /\ suspended \subseteq Client
  /\ uPc \in [Client -> {"idle", "crashed"} \cup Updating]
  /\ mPc \in {"idle", "outer", "drain", "push", "crashed"}

\* No client is listed twice.
Distinct == \A i, j \in 1..Len(clients) : clients[i] = clients[j] => i = j

\* The two loops of handleUpdates are within the vector.
Positions ==
  /\ outer \in 1..(Len(clients) + 1)
  /\ inner \in 1..(Len(clients) + 1)
  /\ mPc = "idle" => outer = 1
  /\ mPc # "push" => inner = 1
  /\ mPc \in {"drain", "push"} => outer <= Len(clients)

\* A player is in the list from its creation to the end of its connection.
Registered ==
  \A c \in Client :
     phase[c] \in {"registered", "locked", "posted", "flagged", "online"}
       => c \in players

\* While an update is pushed to the others it is still in its queue.
FrontThere == mPc = "push" => globalUpdates[clients[outer]] # <<>>

IInv == Types /\ Distinct /\ Positions /\ Registered /\ FrontThere

LEMMA InitIInv == Init => IInv
<1> SUFFICES ASSUME Init PROVE IInv
  OBVIOUS
<1>1. Types
  BY DEF Init, Types, Phase, Updating
<1>2. Distinct /\ Positions
  BY DEF Init, Distinct, Positions
<1>3. Registered /\ FrontThere
  BY DEF Init, Registered, FrontThere
<1> QED BY <1>1, <1>2, <1>3 DEF IInv

\* A list that grows by a client not yet in it.
LEMMA ListKeeps ==
  ASSUME IInv, NEW c \in Client, ListClient(c)
  PROVE  clients' \in Seq(Client) /\ Distinct' /\ Positions'
<1>1. /\ Len(clients) \in Nat /\ Len(clients') = Len(clients) + 1
      /\ DOMAIN clients = 1..Len(clients)
      /\ clients' \in Seq(Client)
      /\ \A i \in 1..Len(clients) : clients'[i] = clients[i]
      /\ clients'[Len(clients) + 1] = c
  BY AppendProperties, LenProperties DEF IInv, Types, ListClient
<1>2. \A i \in 1..Len(clients) : clients[i] # c
  BY <1>1 DEF ListClient, ToSet
<1>3. Distinct'
  BY <1>1, <1>2 DEF IInv, Distinct
<1>4. Positions'
  BY <1>1 DEF IInv, Positions, ListClient
<1> QED BY <1>1, <1>3, <1>4

\* A list from which one is erased.
LEMMA ReapKeeps ==
  ASSUME IInv, NEW c \in Client, ReapClient(c)
  PROVE  clients' \in Seq(Client) /\ Distinct' /\ Positions'
<1>1. PICK i \in DOMAIN clients : clients' = RemoveAt(clients, i)
  BY DEF ReapClient
<1>2. Len(clients) \in Nat /\ DOMAIN clients = 1..Len(clients)
  BY LenProperties DEF IInv, Types
<1>3. /\ clients' \in Seq(Client)
      /\ Len(clients') = Len(clients) - 1
      /\ \A j \in 1..(Len(clients) - 1) :
            clients'[j] = IF j < i THEN clients[j] ELSE clients[j + 1]
  <2>1. clients \in Seq(Client) /\ i \in 1..Len(clients)
    BY <1>2 DEF IInv, Types
  <2> QED BY <1>1, <2>1, RemoveAtProperties
<1>4. Distinct'
  <2> SUFFICES ASSUME NEW j \in 1..(Len(clients) - 1),
                      NEW k \in 1..(Len(clients) - 1),
                      clients'[j] = clients'[k]
               PROVE  j = k
    BY <1>3 DEF Distinct
  <2> DEFINE F(x) == IF x < i THEN x ELSE x + 1
  <2>1. /\ F(j) \in 1..Len(clients) /\ clients'[j] = clients[F(j)]
        /\ F(k) \in 1..Len(clients) /\ clients'[k] = clients[F(k)]
    BY <1>2, <1>3
  <2>2. F(j) = F(k)
    BY <2>1 DEF IInv, Distinct
  <2> QED BY <1>2, <2>2
<1>5. Positions'
  BY <1>2, <1>3 DEF IInv, Positions, ReapClient
<1> QED BY <1>3, <1>4, <1>5

\* What the steps of an update thread leave alone.
LEMMA UpdaterFrame ==
  ASSUME NEW c \in Client, UpdaterStep(c) \/ SendReturns(c)
  PROVE  /\ UNCHANGED <<mainVars, phase, registryVars, globalVars>>
         /\ SendUpdate(c) \/ UNCHANGED <<clientUpdates, told>>
  BY DEF UpdaterStep, SendReturns, SuspendHandler, SendUpdate, ResponseNone,
     ResponseClose, JoinAndReturn, ResumeHandler

\* A second join in a destructor only takes the process down.
LEMMA JoinFrame ==
  ASSUME NEW c \in Client, JoinTwice(c)
  PROVE  /\ UNCHANGED <<clients, phase, outer, inner, registryVars,
                         globalVars, updaterVars>>
         /\ mPc = "idle" /\ mPc' = "crashed" /\ Alive
  BY DEF JoinTwice, Main, mainFrame, dataVars, registryVars, globalVars,
     updaterVars

LEMMA NextIInv == IInv /\ [Next]_vars => IInv'
<1> SUFFICES ASSUME IInv, [Next]_vars PROVE IInv'
  OBVIOUS
<1> USE DEF mainVars, registryVars, globalVars, updaterVars, dataVars,
            mainFrame
<1>0. Len(clients) \in Nat /\ DOMAIN clients = 1..Len(clients)
  BY LenProperties DEF IInv, Types
<1>1. ASSUME NEW c \in Client, PeerStep(c) \/ HandlerStep(c)
      PROVE  IInv'
  <2> USE DEF PeerStep, HandlerStep, Connect, CreatePlayer, CloseIntern,
              LockGlobal, PostUpdate, RaiseGlobal, TakeSnapshot, Unregister,
              LeaveLoop, Handler
  <2>1. UNCHANGED mainVars
    BY <1>1
  <2>2. Distinct' /\ Positions'
    BY <2>1 DEF IInv, Distinct, Positions
  <2>3. /\ phase' \in [Client -> Phase]
        /\ hasPlayer' \subseteq Client /\ players' \subseteq hasPlayer'
        /\ hasGlobalUpdates' \subseteq Client
    <3>1. phase' \in [Client -> Phase]
      BY <1>1 DEF IInv, Types, Phase
    <3>2. hasPlayer' \subseteq Client /\ players' \subseteq hasPlayer'
      BY <1>1 DEF IInv, Types
    <3>3. hasGlobalUpdates' \subseteq Client
      BY <1>1 DEF IInv, Types
    <3> QED BY <3>1, <3>2, <3>3
  <2>4. globalUpdates' \in [Client -> Seq(Client)] /\ FrontThere'
    <3>1. CASE UNCHANGED globalUpdates
      BY <2>1, <3>1 DEF IInv, Types, FrontThere
    <3>2. CASE PostUpdate(c)
      <4>1. /\ Append(globalUpdates[c], c) \in Seq(Client)
            /\ Append(globalUpdates[c], c) # <<>>
        <5>1. globalUpdates[c] \in Seq(Client)
          BY DEF IInv, Types
        <5> QED BY <5>1, AppendProperties
      <4>2. globalUpdates' = [globalUpdates EXCEPT ![c] =
                                Append(globalUpdates[c], c)]
        BY <3>2
      <4>3. mPc = "push" => clients[outer] \in Client
        BY <1>0 DEF IInv, Types, Positions
      <4> QED
        BY <2>1, <4>1, <4>2, <4>3 DEF IInv, Types, FrontThere
    <3> QED BY <1>1, <3>1, <3>2
  <2>5. /\ known' \in [Client -> SUBSET Client]
        /\ UNCHANGED updaterVars
    BY <1>1 DEF IInv, Types
  <2>6. Types'
    BY <2>1, <2>3, <2>4, <2>5 DEF IInv, Types
  <2>7. Registered'
    BY <1>1 DEF IInv, Types, Registered, Phase
  <2> QED BY <2>2, <2>4, <2>6, <2>7 DEF IInv
<1>2. ASSUME NEW c \in Client, UpdaterStep(c) \/ SendReturns(c)
      PROVE  IInv'
  <2>1. UNCHANGED <<mainVars, phase, registryVars, globalVars>>
    BY <1>2, UpdaterFrame
  <2>2. Distinct' /\ Positions' /\ Registered' /\ FrontThere'
    BY <2>1 DEF IInv, Distinct, Positions, Registered, FrontThere
  <2>3. /\ clientUpdates' \in [Client -> Seq(Client)]
        /\ told' \in [Client -> Seq(Client)]
    <3>1. CASE UNCHANGED <<clientUpdates, told>>
      BY <3>1 DEF IInv, Types
    <3>2. CASE SendUpdate(c)
      <4>1. /\ Head(clientUpdates[c]) \in Client
            /\ Tail(clientUpdates[c]) \in Seq(Client)
        BY <3>2, HeadTailProperties DEF SendUpdate, IInv, Types
      <4>2. Append(told[c], Head(clientUpdates[c])) \in Seq(Client)
        BY <4>1, AppendProperties DEF IInv, Types
      <4> QED BY <3>2, <4>1, <4>2 DEF SendUpdate, IInv, Types
    <3> QED BY <1>2, <3>1, <3>2, UpdaterFrame
  <2>4. /\ uPc' \in [Client -> {"idle", "crashed"} \cup Updating]
        /\ suspended' \subseteq Client
    BY <1>2
    DEF UpdaterStep, SendReturns, SuspendHandler, SendUpdate, ResponseNone,
        ResponseClose, JoinAndReturn, ResumeHandler, Update, Updating, IInv,
        Types
  <2> QED BY <2>1, <2>2, <2>3, <2>4 DEF IInv, Types
<1>3. ASSUME NEW c \in Client, ListClient(c) \/ ReapClient(c)
      PROVE  IInv'
  <2>1. clients' \in Seq(Client) /\ Distinct' /\ Positions'
    BY <1>3, ListKeeps, ReapKeeps
  <2>2. UNCHANGED <<mPc, dataVars>> /\ phase' \in [Client -> Phase]
    BY <1>3 DEF ListClient, ReapClient, IInv, Types, Phase
  <2>3. Types'
    BY <2>1, <2>2 DEF IInv, Types
  <2>4. Registered'
    BY <1>3 DEF ListClient, ReapClient, IInv, Types, Registered
  <2>5. FrontThere'
    BY <1>3 DEF ListClient, ReapClient, FrontThere
  <2> QED BY <2>1, <2>3, <2>4, <2>5 DEF IInv
<1>t. ASSUME NEW c \in Client, JoinTwice(c)
      PROVE  IInv'
  BY <1>t, JoinFrame
  DEF IInv, Types, Distinct, Positions, Registered, FrontThere
<1>4. CASE CallHandleUpdates \/ RoundStep
  <2> USE <1>0 DEF CallHandleUpdates, RoundStep, PassClient, TakeUpClient,
          ReturnFromUpdates, TakeFront, SkipPoster, PushToOther, PopFront,
          NextClient, Main
  <2>1. /\ UNCHANGED <<clients, phase, registryVars, hasGlobalUpdates, told,
                       suspended, uPc>>
        /\ mPc' \in {"idle", "outer", "drain", "push"}
    BY <1>4
  <2>2. Distinct' /\ Registered'
    BY <2>1 DEF IInv, Distinct, Registered
  <2>3. Positions'
    BY <1>4 DEF IInv, Positions
  <2>4. globalUpdates' \in [Client -> Seq(Client)]
    <3>1. CASE UNCHANGED globalUpdates
      BY <3>1 DEF IInv, Types
    <3>2. CASE PopFront
      <4>1. /\ globalUpdates[clients[outer]] \in Seq(Client)
            /\ globalUpdates[clients[outer]] # <<>>
        BY <3>2 DEF IInv, Types, Positions, FrontThere
      <4>2. Tail(globalUpdates[clients[outer]]) \in Seq(Client)
        BY <4>1, HeadTailProperties
      <4> QED BY <3>2, <4>2 DEF IInv, Types
    <3> QED BY <1>4, <3>1, <3>2
  <2>5. clientUpdates' \in [Client -> Seq(Client)]
    <3>1. CASE UNCHANGED clientUpdates
      BY <3>1 DEF IInv, Types
    <3>2. CASE PushToOther
      <4>1. /\ globalUpdates[clients[outer]] \in Seq(Client)
            /\ globalUpdates[clients[outer]] # <<>>
            /\ clients[inner] \in Client
        BY <3>2 DEF IInv, Types, Positions, FrontThere
      <4>2. Head(globalUpdates[clients[outer]]) \in Client
        BY <4>1, HeadTailProperties
      <4>3. Append(clientUpdates[clients[inner]],
                   Head(globalUpdates[clients[outer]])) \in Seq(Client)
        BY <4>1, <4>2, AppendProperties DEF IInv, Types
      <4> QED BY <3>2, <4>3 DEF IInv, Types
    <3> QED BY <1>4, <3>1, <3>2
  <2>6. FrontThere'
    BY <1>4 DEF IInv, FrontThere
  <2> QED BY <2>1, <2>2, <2>3, <2>4, <2>5, <2>6 DEF IInv, Types
<1>5. CASE UNCHANGED vars
  BY <1>5 DEF vars, IInv, Types, Distinct, Positions, Registered, FrontThere
<1> QED BY <1>1, <1>2, <1>3, <1>t, <1>4, <1>5 DEF Next, SafetyStep

LEMMA AlwaysIInv == Spec => []IInv
  BY InitIInv, NextIInv, PTL DEF Spec

\* The state always has its type; the loops stay within what clients can hold.
THEOREM TypeCorrect == Spec => []TypeOK
<1>1. IInv => TypeOK
  <2> SUFFICES ASSUME IInv PROVE TypeOK
    OBVIOUS
  <2>1. /\ Len(clients) \in Nat
        /\ clients \in [1..Len(clients) -> Client]
    BY LenProperties DEF IInv, Types
  <2>2. clients \in Injection(1..Len(clients), Client)
    BY <2>1 DEF IInv, Distinct, Injection, IsInjective
  <2>3. /\ IsFiniteSet(Client)
        /\ Cardinality(Client) = MaxClients
        /\ Cardinality(1..Len(clients)) = Len(clients)
    <3>1. ASSUME NEW n \in Nat
          PROVE  IsFiniteSet(1..n) /\ Cardinality(1..n) = n
      <4>1. /\ IsFiniteSet(1..n)
            /\ Cardinality(1..n) = IF 1 > n THEN 0 ELSE n - 1 + 1
        BY FS_Interval
      <4> QED BY <4>1
    <3>2. MaxClients \in Nat
      BY UpdateBroadcastAssumption
    <3> QED BY <2>1, <3>1, <3>2 DEF Client
  <2>4. Len(clients) <= MaxClients
    BY <2>2, <2>3, FS_Injection
  <2>5. outer \in 1..(MaxClients + 1) /\ inner \in 1..(MaxClients + 1)
    BY <2>1, <2>4, UpdateBroadcastAssumption DEF IInv, Positions
  <2> QED BY <2>5 DEF IInv, Types, TypeOK
<1> QED BY <1>1, AlwaysIInv, PTL

-----------------------------------------------------------------------------
(* Who finds whom in the snapshot of the players.                          *)

LEMMA SnapshotsKept ==
  IInv /\ OneSnapshotSees /\ [Next]_vars => OneSnapshotSees'
<1> SUFFICES ASSUME IInv, OneSnapshotSees, [Next]_vars,
                    NEW c \in Client, NEW d \in 1..(c - 1),
                    phase'[c] = "online", phase'[d] = "online"
             PROVE  c \in known'[d] \/ d \in known'[c]
  BY DEF OneSnapshotSees
<1>1. d \in Client /\ c # d
  BY UpdateBroadcastAssumption DEF Client
<1>2. ASSUME NEW e \in Client, TakeSnapshot(e)
      PROVE  c \in known'[d] \/ d \in known'[c]
  <2>1. /\ e \in Client /\ phase[e] = "flagged"
        /\ phase' = [phase EXCEPT ![e] = "online"]
        /\ known' = [known EXCEPT ![e] = players]
    BY <1>2 DEF TakeSnapshot, Handler
  <2>2. e # c => c \in players
    BY <1>1, <2>1 DEF IInv, Types, Registered
  <2>3. e # d => d \in players
    BY <1>1, <2>1 DEF IInv, Types, Registered
  <2> QED
    BY <1>1, <2>1, <2>2, <2>3 DEF IInv, Types, OneSnapshotSees
<1>3. CASE /\ known' = known
           /\ \A e \in Client : phase'[e] = "online" => phase[e] = "online"
  BY <1>1, <1>3 DEF OneSnapshotSees
<1>4. \/ \E e \in Client : TakeSnapshot(e)
      \/ /\ known' = known
         /\ \A e \in Client : phase'[e] = "online" => phase[e] = "online"
  <2> USE DEF mainVars, registryVars, globalVars, updaterVars, dataVars,
              mainFrame
  <2>1. ASSUME NEW e \in Client,
               PeerStep(e) \/ HandlerStep(e) \/ SafetyStep(e),
               ~TakeSnapshot(e)
        PROVE  /\ known' = known
               /\ \A x \in Client : phase'[x] = "online" => phase[x] = "online"
    BY <2>1 DEF PeerStep, HandlerStep, SafetyStep, Connect, CreatePlayer,
       CloseIntern, LockGlobal, PostUpdate, RaiseGlobal, Unregister, LeaveLoop,
       Handler, ListClient, ReapClient, JoinTwice, mainFrame, IInv, Types
  <2>2. ASSUME NEW e \in Client, UpdaterStep(e) \/ SendReturns(e)
        PROVE  UNCHANGED <<known, phase>>
    BY <2>2, UpdaterFrame
  <2>3. CASE CallHandleUpdates \/ RoundStep
    BY <2>3 DEF CallHandleUpdates, RoundStep, PassClient, TakeUpClient,
       ReturnFromUpdates, TakeFront, SkipPoster, PushToOther, PopFront,
       NextClient
  <2>4. CASE UNCHANGED vars
    BY <2>4 DEF vars
  <2> QED BY <2>1, <2>2, <2>3, <2>4 DEF Next
<1> QED BY <1>2, <1>3, <1>4

\* Of two players online at least one was told of the other when it logged in.
THEOREM SnapshotSees == Spec => []OneSnapshotSees
<1>1. Init => OneSnapshotSees
  BY UpdateBroadcastAssumption DEF Init, OneSnapshotSees, Client
<1> QED BY <1>1, SnapshotsKept, AlwaysIInv, PTL DEF Spec

-----------------------------------------------------------------------------
(* Who is told of whom.                                                    *)

\* No client has been told, or will be, of c.
Nowhere(c) == \A d \in Client : c \notin ToSet(Arrivals(d))

\* The one update of a client is posted once, ...
PostedOnce ==
  \A c \in Client :
     /\ globalUpdates[c] \in {<<>>, <<c>>}
     /\ phase[c] \in {"absent", "login", "registered", "locked"}
          => globalUpdates[c] = <<>> /\ Nowhere(c)

\* ... is with no one else as long as it is queued and not being pushed, ...
Waiting ==
  \A c \in Client :
     globalUpdates[c] = <<c>> =>
        Nowhere(c) \/ (mPc = "push" /\ clients[outer] = c)

\* ... and while it is, with those only whom the inner loop has passed.
Halfway ==
  mPc = "push" =>
     \A d \in Client :
        clients[outer] \in ToSet(Arrivals(d)) =>
           \E i \in 1..(inner - 1) : clients[i] = d

NoneTwice ==
  \A c \in Client : c \notin ToSet(Arrivals(c)) /\ NoRepeat(Arrivals(c))

ToldInv == PostedOnce /\ Waiting /\ Halfway /\ NoneTwice

LEMMA InitArrivals ==
  ASSUME Init
  PROVE  \A c \in Client : Arrivals(c) = <<>>
<1>1. <<>> \in Seq(Client) /\ <<>> \o <<>> = <<>>
  BY ConcatEmptySeq
<1> QED BY <1>1 DEF Init, Arrivals

\* What arrives at a client is a sequence of clients.
LEMMA ArrivalsType ==
  ASSUME IInv, NEW c \in Client
  PROVE  /\ Arrivals(c) \in Seq(Client)
         /\ Len(Arrivals(c)) \in Nat
         /\ DOMAIN Arrivals(c) = 1..Len(Arrivals(c))
         /\ ToSet(Arrivals(c)) \subseteq Client
<1>1. told[c] \in Seq(Client) /\ clientUpdates[c] \in Seq(Client)
  BY DEF IInv, Types
<1>2. Arrivals(c) \in Seq(Client)
  BY <1>1, ConcatProperties DEF Arrivals
<1> QED BY <1>2, LenProperties DEF ToSet

LEMMA InitToldInv == Init => ToldInv
<1> SUFFICES ASSUME Init PROVE ToldInv
  OBVIOUS
<1>1. \A c \in Client : Arrivals(c) = <<>>
  BY InitArrivals
<1>2. ToSet(<<>>) = {} /\ NoRepeat(<<>>)
  BY DEF ToSet, NoRepeat
<1>3. \A c \in Client : Nowhere(c)
  BY <1>1, <1>2 DEF Nowhere
<1>4. PostedOnce /\ Waiting
  BY <1>3 DEF Init, PostedOnce, Waiting
<1>5. Halfway /\ NoneTwice
  BY <1>1, <1>2 DEF Init, Halfway, NoneTwice
<1> QED BY <1>4, <1>5 DEF ToldInv

\* Nothing arrives anywhere; what had arrived may be lost.
Within ==
  \A d \in Client :
     /\ ToSet(Arrivals(d)') \subseteq ToSet(Arrivals(d))
     /\ NoRepeat(Arrivals(d)) => NoRepeat(Arrivals(d)')
     /\ \A rank : Increasing(rank, Arrivals(d))
                   => Increasing(rank, Arrivals(d)')

LEMMA SendWithin ==
  ASSUME IInv, NEW c \in Client, SendUpdate(c)
  PROVE  Within
<1>1. /\ clientUpdates[c] \in Seq(Client) /\ clientUpdates[c] # <<>>
      /\ told[c] \in Seq(Client)
  BY DEF IInv, Types, SendUpdate
<1>2. ASSUME NEW d \in Client, d # c
      PROVE  Arrivals(d)' = Arrivals(d)
  BY <1>2 DEF IInv, Types, SendUpdate, Update, Arrivals
<1>3. CASE told' = told
  <2>1. Arrivals(c)' = told[c] \o Tail(clientUpdates[c])
    BY <1>3 DEF IInv, Types, SendUpdate, Arrivals
  <2>2. /\ ToSet(Arrivals(c)') \subseteq ToSet(Arrivals(c))
        /\ NoRepeat(Arrivals(c)) => NoRepeat(Arrivals(c)')
        /\ \A rank : Increasing(rank, Arrivals(c))
                      => Increasing(rank, Arrivals(c)')
    BY <1>1, <2>1, LoseFront DEF Arrivals
  <2> QED BY <1>2, <2>2 DEF Within
<1>4. CASE told' = [told EXCEPT ![c] = Append(@, Head(clientUpdates[c]))]
  <2>1. Arrivals(c)' = Append(told[c], Head(clientUpdates[c]))
                         \o Tail(clientUpdates[c])
    BY <1>4 DEF IInv, Types, SendUpdate, Arrivals
  <2>2. Arrivals(c)' = Arrivals(c)
    BY <1>1, <2>1, MoveFront DEF Arrivals
  <2> QED BY <1>2, <2>2 DEF Within
<1> QED BY <1>3, <1>4 DEF SendUpdate

\* All steps but those that push an update.
LEMMA OtherWithin ==
  ASSUME IInv, [Next]_vars, ~PushToOther
  PROVE  Within
<1> USE DEF mainVars, registryVars, globalVars, updaterVars, dataVars,
            mainFrame
<1>1. CASE UNCHANGED <<told, clientUpdates>>
  BY <1>1 DEF Within, Arrivals
<1>2. ASSUME NEW c \in Client,
             PeerStep(c) \/ HandlerStep(c) \/ SafetyStep(c)
      PROVE  UNCHANGED <<told, clientUpdates>>
  BY <1>2 DEF PeerStep, HandlerStep, SafetyStep, Connect, CreatePlayer,
     CloseIntern, LockGlobal, PostUpdate, RaiseGlobal, TakeSnapshot,
     Unregister, LeaveLoop, ListClient, ReapClient, JoinTwice
<1>3. CASE CallHandleUpdates \/ RoundStep
  BY <1>1, <1>3 DEF CallHandleUpdates, RoundStep, PassClient, TakeUpClient,
     ReturnFromUpdates, TakeFront, SkipPoster, PopFront, NextClient
<1>4. ASSUME NEW c \in Client, UpdaterStep(c) \/ SendReturns(c)
      PROVE  Within
  <2>1. CASE SendUpdate(c)
    BY <2>1, SendWithin
  <2> QED BY <1>1, <1>4, <2>1, UpdaterFrame
<1>5. CASE UNCHANGED vars
  BY <1>1, <1>5 DEF vars
<1> QED BY <1>1, <1>2, <1>3, <1>4, <1>5 DEF Next

\* What is pushed is the update of the client at the outer position, to the
\* client at the inner one.
LEMMA PushArrives ==
  ASSUME IInv, PostedOnce, PushToOther
  PROVE  /\ clients[outer] \in Client /\ clients[inner] \in Client
         /\ clients[outer] # clients[inner]
         /\ globalUpdates[clients[outer]] = <<clients[outer]>>
         /\ \A d \in Client :
              /\ Arrivals(d) \in Seq(Client)
              /\ Arrivals(d)' = IF d = clients[inner]
                                THEN Append(Arrivals(d), clients[outer])
                                ELSE Arrivals(d)
<1>1. /\ Len(clients) \in Nat /\ clients \in [1..Len(clients) -> Client]
  BY LenProperties DEF IInv, Types
<1>2. outer \in 1..Len(clients) /\ inner \in 1..Len(clients) /\ inner # outer
  BY <1>1 DEF IInv, Positions, PushToOther, Main
<1>3. /\ clients[outer] \in Client /\ clients[inner] \in Client
      /\ clients[outer] # clients[inner]
  BY <1>1, <1>2 DEF IInv, Distinct
<1>4. globalUpdates[clients[outer]] = <<clients[outer]>>
  BY <1>3 DEF IInv, FrontThere, PostedOnce, PushToOther, Main
<1>5. clientUpdates' = [clientUpdates EXCEPT ![clients[inner]] =
                          Append(@, clients[outer])]
  BY <1>4 DEF PushToOther
<1>6. ASSUME NEW d \in Client
      PROVE  /\ Arrivals(d) \in Seq(Client)
             /\ Arrivals(d)' = IF d = clients[inner]
                               THEN Append(Arrivals(d), clients[outer])
                               ELSE Arrivals(d)
  <2>1. told[d] \in Seq(Client) /\ clientUpdates[d] \in Seq(Client)
    BY DEF IInv, Types
  <2>2. Arrivals(d) \in Seq(Client)
    BY <2>1, ConcatProperties DEF Arrivals
  <2>3. told' = told
    BY DEF PushToOther
  <2>4. CASE d = clients[inner]
    <3>1. clientUpdates'[d] = Append(clientUpdates[d], clients[outer])
      BY <1>5, <2>4 DEF IInv, Types
    <3>2. Arrivals(d)' = told[d] \o Append(clientUpdates[d], clients[outer])
      BY <2>3, <3>1 DEF Arrivals
    <3>3. told[d] \o Append(clientUpdates[d], clients[outer])
            = Append(told[d] \o clientUpdates[d], clients[outer])
      <4>1. ASSUME NEW s \in Seq(Client), NEW t \in Seq(Client),
                   NEW e \in Client
            PROVE  s \o Append(t, e) = Append(s \o t, e)
        BY AddBack
      <4> QED BY <1>3, <2>1, <4>1
    <3> QED
      BY <2>2, <2>4, <3>2, <3>3 DEF Arrivals
  <2>5. CASE d # clients[inner]
    <3>1. clientUpdates'[d] = clientUpdates[d]
      BY <1>5, <2>5 DEF IInv, Types
    <3> QED BY <2>2, <2>3, <2>5, <3>1 DEF Arrivals
  <2> QED BY <2>4, <2>5
<1> QED BY <1>3, <1>4, <1>6

\* The client it is pushed to has not heard of it.
LEMMA PushIsNew ==
  ASSUME IInv, ToldInv, PushToOther
  PROVE  clients[outer] \notin ToSet(Arrivals(clients[inner]))
<1>1. /\ mPc = "push" /\ Len(clients) \in Nat /\ inner \in 1..Len(clients)
  BY LenProperties DEF PushToOther, Main, IInv, Types, Positions
<1>2. \A i \in 1..(inner - 1) : clients[i] # clients[inner]
  BY <1>1 DEF IInv, Distinct
<1>3. clients[inner] \in Client
  BY PushArrives DEF ToldInv
<1> QED BY <1>1, <1>2, <1>3 DEF ToldInv, Halfway

LEMMA PushToldInv ==
  ASSUME IInv, ToldInv, PushToOther
  PROVE  ToldInv'
<1> DEFINE u == clients[outer]
           r == clients[inner]
<1>1. /\ u \in Client /\ r \in Client /\ u # r
      /\ globalUpdates[u] = <<u>>
      /\ \A d \in Client :
           /\ Arrivals(d) \in Seq(Client)
           /\ Arrivals(d)' = IF d = r THEN Append(Arrivals(d), u)
                             ELSE Arrivals(d)
  BY PushArrives DEF ToldInv
<1>2. /\ UNCHANGED <<clients, outer, globalUpdates, phase>>
      /\ mPc = "push" /\ mPc' = "push"
      /\ inner \in 1..Len(clients) /\ inner' = inner + 1
      /\ Len(clients) \in Nat
  BY LenProperties
  DEF PushToOther, Main, globalVars, IInv, Types, Positions
<1>3. \A d \in Client : ToSet(Arrivals(d)') =
         IF d = r THEN ToSet(Arrivals(d)) \cup {u} ELSE ToSet(Arrivals(d))
  <2> HIDE DEF u, r
  <2> TAKE d \in Client
  <2>1. Arrivals(d) \in Seq(Client) /\ u \in Client
    BY <1>1
  <2>2. ToSet(Append(Arrivals(d), u)) = ToSet(Arrivals(d)) \cup {u}
    BY <2>1, AppendNoRepeat
  <2>3. CASE d = r
    <3>1. Arrivals(d)' = Append(Arrivals(d), u)
      BY <1>1, <2>3
    <3> QED BY <2>2, <2>3, <3>1
  <2>4. CASE d # r
    <3>1. Arrivals(d)' = Arrivals(d)
      BY <1>1, <2>4
    <3> QED BY <2>4, <3>1
  <2> QED BY <2>3, <2>4
<1> HIDE DEF u, r
<1>4. ASSUME NEW c \in Client, c # u, Nowhere(c)
      PROVE  Nowhere(c)'
  BY <1>3, <1>4 DEF Nowhere
<1>5. PostedOnce'
  <2>1. <<u>> # <<>>
    OBVIOUS
  <2> QED BY <1>1, <1>2, <1>4, <2>1 DEF ToldInv, PostedOnce
<1>6. Waiting'
  BY <1>2, <1>4 DEF ToldInv, Waiting, u
<1>7. u \notin ToSet(Arrivals(r))
  BY PushIsNew DEF u, r
<1>8. Halfway'
  <2> SUFFICES ASSUME NEW d \in Client, u \in ToSet(Arrivals(d)')
               PROVE  \E i \in 1..inner : clients[i] = d
    BY <1>2 DEF Halfway, u
  <2>1. CASE d = r
    BY <1>2, <2>1 DEF r
  <2>2. CASE d # r
    <3>1. PICK i \in 1..(inner - 1) : clients[i] = d
      BY <1>2, <1>3, <2>2 DEF ToldInv, Halfway, u
    <3> QED BY <1>2, <3>1
  <2> QED BY <2>1, <2>2
<1>9. NoneTwice'
  <2> SUFFICES ASSUME NEW d \in Client
               PROVE  d \notin ToSet(Arrivals(d)') /\ NoRepeat(Arrivals(d)')
    BY DEF NoneTwice
  <2>1. CASE d = r
    <3>1. /\ Arrivals(d) \in Seq(Client)
          /\ Arrivals(d)' = Append(Arrivals(d), u)
          /\ ToSet(Arrivals(d)') = ToSet(Arrivals(d)) \cup {u}
      BY <1>1, <1>3, <2>1
    <3>2. /\ d \notin ToSet(Arrivals(d)) /\ NoRepeat(Arrivals(d))
          /\ u \notin ToSet(Arrivals(d)) /\ u # d
      BY <1>1, <1>7, <2>1 DEF ToldInv, NoneTwice
    <3>3. NoRepeat(Append(Arrivals(d), u))
      BY <1>1, <3>1, <3>2, AppendNoRepeat
    <3> QED BY <3>1, <3>2, <3>3
  <2>2. CASE d # r
    BY <1>1, <1>3, <2>2 DEF ToldInv, NoneTwice
  <2> QED BY <2>1, <2>2
<1> QED BY <1>5, <1>6, <1>8, <1>9 DEF ToldInv

LEMMA NextToldInv == IInv /\ ToldInv /\ [Next]_vars => ToldInv'
<1> SUFFICES ASSUME IInv, ToldInv, [Next]_vars, ~PushToOther
             PROVE  ToldInv'
  BY PushToldInv
<1> USE DEF mainVars, registryVars, globalVars, updaterVars, dataVars,
            mainFrame
<1>0. /\ Within
      /\ Len(clients) \in Nat /\ clients \in [1..Len(clients) -> Client]
  BY OtherWithin, LenProperties DEF IInv, Types
<1>1. NoneTwice' /\ \A c \in Client : Nowhere(c) => Nowhere(c)'
  BY <1>0 DEF ToldInv, NoneTwice, Within, Nowhere
<1>2. ASSUME NEW c \in Client, PeerStep(c) \/ HandlerStep(c)
      PROVE  ToldInv'
  <2> USE DEF PeerStep, HandlerStep, Connect, CreatePlayer, CloseIntern,
              LockGlobal, PostUpdate, RaiseGlobal, TakeSnapshot, Unregister,
              LeaveLoop, Handler
  <2>1. UNCHANGED <<clients, mPc, outer, inner, told, clientUpdates>>
    BY <1>2
  <2>2. Halfway'
    BY <2>1 DEF ToldInv, Halfway, Arrivals
  <2>3. CASE PostUpdate(c)
    <3>1. /\ globalUpdates[c] = <<>> /\ Nowhere(c)
          /\ globalUpdates' = [globalUpdates EXCEPT ![c] = <<c>>]
          /\ phase' = [phase EXCEPT ![c] = "posted"]
      <4>1. globalUpdates[c] = <<>> /\ Nowhere(c)
        BY <2>3 DEF ToldInv, PostedOnce
      <4>2. Append(<<>>, c) = <<c>>
        OBVIOUS
      <4> QED BY <2>3, <4>1, <4>2
    <3>2. PostedOnce'
      BY <1>1, <3>1 DEF IInv, Types, ToldInv, PostedOnce
    <3>3. Waiting'
      BY <1>1, <2>1, <3>1 DEF IInv, Types, ToldInv, Waiting
    <3> QED BY <1>1, <2>2, <3>2, <3>3 DEF ToldInv
  <2>4. CASE ~PostUpdate(c)
    <3>1. globalUpdates' = globalUpdates
      BY <1>2, <2>4
    <3>2. \A d \in Client :
             phase'[d] \in {"absent", "login", "registered", "locked"} =>
                phase[d] \in {"absent", "login", "registered", "locked"}
      BY <1>2, <2>4 DEF IInv, Types
    <3>3. PostedOnce'
      BY <1>1, <3>1, <3>2 DEF ToldInv, PostedOnce
    <3>4. Waiting'
      BY <1>1, <2>1, <3>1 DEF ToldInv, Waiting
    <3> QED BY <1>1, <2>2, <3>3, <3>4 DEF ToldInv
  <2> QED BY <2>3, <2>4
<1>3. ASSUME NEW c \in Client, SafetyStep(c)
      PROVE  ToldInv'
  <2>1. /\ mPc = "idle" /\ mPc' # "push" /\ UNCHANGED globalUpdates
        /\ \A d \in Client :
             phase'[d] \in {"absent", "login", "registered", "locked"} =>
                phase[d] \in {"absent", "login", "registered", "locked"}
    BY <1>3 DEF SafetyStep, ListClient, ReapClient, JoinTwice, Main, IInv,
       Types
  <2>2. PostedOnce' /\ Waiting' /\ Halfway'
    BY <1>1, <2>1 DEF ToldInv, PostedOnce, Waiting, Halfway
  <2> QED BY <1>1, <2>2 DEF ToldInv
<1>4. ASSUME NEW c \in Client, UpdaterStep(c) \/ SendReturns(c)
      PROVE  ToldInv'
  <2>1. UNCHANGED <<clients, mPc, outer, inner, phase, globalUpdates>>
    BY <1>4, UpdaterFrame
  <2>2. PostedOnce' /\ Waiting'
    BY <1>1, <2>1 DEF ToldInv, PostedOnce, Waiting
  <2>3. Halfway'
    BY <1>0, <2>1 DEF ToldInv, Halfway, Within
  <2> QED BY <1>1, <2>2, <2>3 DEF ToldInv
<1>5. CASE CallHandleUpdates \/ RoundStep
  <2>1. UNCHANGED <<clients, phase>>
    BY <1>5 DEF CallHandleUpdates, RoundStep, PassClient, TakeUpClient,
       ReturnFromUpdates, TakeFront, SkipPoster, PushToOther, PopFront,
       NextClient
  <2>2. CASE TakeFront
    <3>1. /\ mPc = "drain" /\ mPc' = "push" /\ outer \in 1..Len(clients)
          /\ globalUpdates[clients[outer]] # <<>>
          /\ UNCHANGED <<outer, inner, globalUpdates>>
      BY <1>0, <2>2 DEF TakeFront, Main, IInv, Positions
    <3>2. Nowhere(clients[outer])
      BY <1>0, <3>1 DEF ToldInv, PostedOnce, Waiting
    <3>3. Nowhere(clients[outer])'
      BY <1>0, <1>1, <2>1, <3>1, <3>2
    <3>4. Halfway'
      BY <3>3 DEF Halfway, Nowhere
    <3>5. PostedOnce' /\ Waiting'
      BY <1>1, <2>1, <3>1 DEF ToldInv, PostedOnce, Waiting
    <3> QED BY <1>1, <3>4, <3>5 DEF ToldInv
  <2>3. CASE SkipPoster
    <3>1. /\ mPc = "push" /\ mPc' = "push" /\ inner' = inner + 1
          /\ inner \in Nat
          /\ UNCHANGED <<outer, globalUpdates>>
      BY <1>0, <2>3 DEF SkipPoster, Main, IInv, Positions
    <3>2. Halfway'
      BY <1>0, <2>1, <3>1 DEF ToldInv, Halfway, Within
    <3>3. PostedOnce' /\ Waiting'
      BY <1>1, <2>1, <3>1 DEF ToldInv, PostedOnce, Waiting
    <3> QED BY <1>1, <3>2, <3>3 DEF ToldInv
  <2>4. CASE PopFront
    <3> DEFINE u == clients[outer]
    <3>1. mPc = "push" /\ mPc' = "drain" /\ u \in Client
      BY <1>0, <2>4 DEF PopFront, Main, IInv, Positions
    <3>2. globalUpdates[u] = <<u>>
      BY <3>1 DEF IInv, FrontThere, ToldInv, PostedOnce
    <3>3. globalUpdates' = [globalUpdates EXCEPT ![u] = <<>>]
      <4>1. Tail(<<u>>) = <<>>
        OBVIOUS
      <4> QED BY <2>4, <3>2, <4>1 DEF PopFront
    <3>4. PostedOnce'
      BY <1>1, <2>1, <3>1, <3>3 DEF IInv, Types, ToldInv, PostedOnce
    <3>5. Waiting' /\ Halfway'
      BY <1>1, <3>1, <3>3 DEF IInv, Types, ToldInv, Waiting, Halfway
    <3> QED BY <1>1, <3>4, <3>5 DEF ToldInv
  <2>5. CASE \/ CallHandleUpdates \/ PassClient \/ TakeUpClient
             \/ ReturnFromUpdates \/ NextClient
    <3>1. mPc # "push" /\ mPc' # "push" /\ UNCHANGED globalUpdates
      BY <2>5 DEF CallHandleUpdates, PassClient, TakeUpClient,
         ReturnFromUpdates, NextClient, Main
    <3>2. PostedOnce' /\ Waiting' /\ Halfway'
      BY <1>1, <2>1, <3>1 DEF ToldInv, PostedOnce, Waiting, Halfway
    <3> QED BY <1>1, <3>2 DEF ToldInv
  <2> QED BY <1>5, <2>2, <2>3, <2>4, <2>5 DEF RoundStep
<1>6. CASE UNCHANGED vars
  BY <1>6 DEF vars, ToldInv, PostedOnce, Waiting, Halfway, NoneTwice,
     Nowhere, Arrivals
<1> QED BY <1>2, <1>3, <1>4, <1>5, <1>6 DEF Next

\* No client is told twice of one join, and none of its own, however many
\* clients join at once.
THEOREM JoinToldOnce == Spec => []EachJoinToldOnce
<1>1. IInv /\ ToldInv => EachJoinToldOnce
  <2> SUFFICES ASSUME IInv, ToldInv, NEW c \in Client,
                      NEW j \in DOMAIN Arrivals(c)
               PROVE  /\ Arrivals(c)[j] # c
                      /\ \A i \in 1..(j - 1) :
                            Arrivals(c)[i] # Arrivals(c)[j]
    BY DEF EachJoinToldOnce
  <2> QED BY DEF ToldInv, NoneTwice, NoRepeat, ToSet
<1> QED
  BY <1>1, InitToldInv, NextToldInv, AlwaysIInv, PTL DEF Spec

-----------------------------------------------------------------------------
(* Who is told of those who come later.                                    *)

Live == {"login", "registered", "locked", "posted", "flagged", "online"}

\* When a client is built all earlier ones have been listed.
EarlierListed ==
  /\ \A c \in Client : \A d \in 1..(c - 1) :
        phase[c] # "absent" => phase[d] = "gone" \/ d \in ToSet(clients)
  /\ \A c \in ToSet(clients) : phase[c] # "absent"

\* An update thread only crashes without a player.
CrashedIsNoPlayer == \A c \in Client : uPc[c] = "crashed" => c \notin hasPlayer

\* An update that has left its queue is with all earlier clients that live, ...
Reached ==
  \A c \in Client : \A d \in 1..(c - 1) :
     /\ phase[c] \in {"posted", "flagged", "online"}
     /\ phase[d] \in Live
     /\ uPc[d] # "crashed"
     => globalUpdates[c] # <<>> \/ c \in ToSet(Arrivals(d))

\* ... and one that is being pushed is with all whom the loop has passed.
HalfwayReached ==
  mPc = "push" =>
     \A i \in 1..(inner - 1) :
        i # outer /\ uPc[clients[i]] # "crashed" =>
           clients[outer] \in ToSet(Arrivals(clients[i]))

LaterInv == EarlierListed /\ CrashedIsNoPlayer /\ Reached /\ HalfwayReached

LEMMA InitLaterInv == Init => LaterInv
  BY UpdateBroadcastAssumption
  DEF Init, LaterInv, EarlierListed, CrashedIsNoPlayer, Reached,
      HalfwayReached, Client, ToSet

\* What has arrived stays, unless the thread it has arrived at crashes.
LEMMA ArrivalsStay ==
  ASSUME IInv, ToldInv, [Next]_vars, NEW d \in Client, uPc'[d] # "crashed"
  PROVE  ToSet(Arrivals(d)) \subseteq ToSet(Arrivals(d)')
<1> USE DEF mainVars, registryVars, globalVars, updaterVars, dataVars,
            mainFrame
<1>1. CASE UNCHANGED <<told, clientUpdates>>
  BY <1>1 DEF Arrivals
<1>2. CASE PushToOther
  <2>1. /\ clients[outer] \in Client /\ Arrivals(d) \in Seq(Client)
        /\ \/ Arrivals(d)' = Append(Arrivals(d), clients[outer])
           \/ Arrivals(d)' = Arrivals(d)
    BY <1>2, PushArrives DEF ToldInv
  <2>2. ToSet(Append(Arrivals(d), clients[outer]))
          = ToSet(Arrivals(d)) \cup {clients[outer]}
    BY <2>1, AppendNoRepeat
  <2> QED BY <2>1, <2>2
<1>3. ASSUME NEW c \in Client,
             PeerStep(c) \/ HandlerStep(c) \/ SafetyStep(c)
      PROVE  UNCHANGED <<told, clientUpdates>>
  BY <1>3 DEF PeerStep, HandlerStep, SafetyStep, Connect, CreatePlayer,
     CloseIntern, LockGlobal, PostUpdate, RaiseGlobal, TakeSnapshot,
     Unregister, LeaveLoop, ListClient, ReapClient, JoinTwice
<1>4. CASE (CallHandleUpdates \/ RoundStep) /\ ~PushToOther
  BY <1>1, <1>4 DEF CallHandleUpdates, RoundStep, PassClient, TakeUpClient,
     ReturnFromUpdates, TakeFront, SkipPoster, PopFront, NextClient
<1>5. ASSUME NEW c \in Client, UpdaterStep(c) \/ SendReturns(c)
      PROVE  ToSet(Arrivals(d)) \subseteq ToSet(Arrivals(d)')
  <2>1. CASE SendUpdate(c)
    <3>1. CASE c # d
      BY <2>1, <3>1 DEF IInv, Types, SendUpdate, Update, Arrivals
    <3>2. CASE c = d
      <4>1. /\ clientUpdates[c] \in Seq(Client) /\ clientUpdates[c] # <<>>
            /\ told[c] \in Seq(Client)
        BY <2>1 DEF IInv, Types, SendUpdate
      <4>2. told' = [told EXCEPT ![c] = Append(@, Head(clientUpdates[c]))]
        BY <2>1, <3>2 DEF IInv, Types, SendUpdate, Update
      <4>3. Arrivals(d)' = Append(told[c], Head(clientUpdates[c]))
                             \o Tail(clientUpdates[c])
        BY <2>1, <3>2, <4>2 DEF IInv, Types, SendUpdate, Arrivals
      <4>4. Arrivals(d)' = Arrivals(d)
        BY <3>2, <4>1, <4>3, MoveFront DEF Arrivals
      <4> QED BY <4>4
    <3> QED BY <3>1, <3>2
  <2> QED BY <1>1, <1>5, <2>1, UpdaterFrame
<1>6. CASE UNCHANGED vars
  BY <1>1, <1>6 DEF vars
<1> QED BY <1>1, <1>2, <1>3, <1>4, <1>5, <1>6 DEF Next

\* The list only loses clients that are gone, and only gets such as exist.
LEMMA ListedStay ==
  ASSUME IInv, [Next]_vars
  PROVE  /\ \A d \in ToSet(clients) :
               d \in ToSet(clients') \/ phase'[d] = "gone"
         /\ \A d \in ToSet(clients') :
               d \in ToSet(clients) \/ phase'[d] # "absent"
<1> USE DEF mainVars, registryVars, globalVars, updaterVars, dataVars,
            mainFrame
<1>0. /\ clients \in Seq(Client)
      /\ DOMAIN clients = 1..Len(clients)
  BY LenProperties DEF IInv, Types
<1>1. CASE UNCHANGED clients
  BY <1>1
<1>2. ASSUME NEW c \in Client, ListClient(c)
      PROVE  /\ ToSet(clients') = ToSet(clients) \cup {c}
             /\ phase'[c] # "absent"
  BY <1>0, <1>2, AppendNoRepeat DEF ListClient
<1>3. ASSUME NEW c \in Client, ReapClient(c)
      PROVE  /\ ToSet(clients') = ToSet(clients) \ {c}
             /\ phase'[c] = "gone"
  <2>1. PICK i \in 1..Len(clients) : clients[i] = c
                                     /\ clients' = RemoveAt(clients, i)
    BY <1>0, <1>3 DEF ReapClient
  <2>2. ToSet(clients') = ToSet(clients) \ {c}
    BY <1>0, <2>1, ToSetRemoveAt DEF IInv, Distinct
  <2>3. phase'[c] = "gone"
    BY <1>3 DEF ReapClient, IInv, Types
  <2> QED BY <2>2, <2>3
<1>4. ASSUME NEW c \in Client,
             \/ PeerStep(c) \/ HandlerStep(c) \/ JoinTwice(c)
             \/ UpdaterStep(c) \/ SendReturns(c)
      PROVE  UNCHANGED clients
  BY <1>4, UpdaterFrame
  DEF PeerStep, HandlerStep, Connect, CreatePlayer, CloseIntern, LockGlobal,
      PostUpdate, RaiseGlobal, TakeSnapshot, Unregister, LeaveLoop, JoinTwice
<1>5. CASE CallHandleUpdates \/ RoundStep
  BY <1>1, <1>5 DEF CallHandleUpdates, RoundStep, PassClient, TakeUpClient,
     ReturnFromUpdates, TakeFront, SkipPoster, PushToOther, PopFront,
     NextClient
<1>6. CASE UNCHANGED vars
  BY <1>1, <1>6 DEF vars
<1> QED BY <1>1, <1>2, <1>3, <1>4, <1>5, <1>6 DEF Next, SafetyStep

\* How the phase of a client goes on, and when its update leaves its queue.
LEMMA PhaseSteps ==
  ASSUME IInv, [Next]_vars, NEW c \in Client
  PROVE  /\ phase[c] = "gone" => phase'[c] = "gone"
         /\ phase[c] # "absent" => phase'[c] # "absent"
         /\ phase'[c] \in Live => phase[c] \in Live \/ Connect(c)
         /\ phase'[c] # "absent" => phase[c] # "absent" \/ Connect(c)
         /\ phase'[c] \in {"posted", "flagged", "online"} =>
              phase[c] \in {"posted", "flagged", "online"} \/ PostUpdate(c)
         /\ hasPlayer \subseteq hasPlayer'
         /\ hasPlayer' # hasPlayer => Alive /\ uPc' = uPc
<1> USE DEF mainVars, registryVars, globalVars, updaterVars, dataVars,
            mainFrame
<1>1. CASE UNCHANGED <<phase, hasPlayer>>
  BY <1>1
<1>2. ASSUME NEW d \in Client, PeerStep(d) \/ HandlerStep(d)
      PROVE  /\ phase' # phase /\ \A x \in Client \ {d} : phase'[x] = phase[x]
             /\ hasPlayer \subseteq hasPlayer' /\ Alive /\ uPc' = uPc
             /\ phase[d] # "gone" /\ phase'[d] # "absent"
             /\ phase'[d] \in Live => phase[d] \in Live \/ Connect(d)
             /\ phase'[d] # "absent" => phase[d] # "absent" \/ Connect(d)
             /\ phase'[d] \in {"posted", "flagged", "online"} =>
                  phase[d] \in {"posted", "flagged", "online"} \/ PostUpdate(d)
  BY <1>2 DEF PeerStep, HandlerStep, Connect, CreatePlayer, CloseIntern,
     LockGlobal, PostUpdate, RaiseGlobal, TakeSnapshot, Unregister, LeaveLoop,
     Handler, Live, IInv, Types, Phase
<1>3. ASSUME NEW d \in Client,
             SafetyStep(d) \/ UpdaterStep(d) \/ SendReturns(d)
      PROVE  /\ hasPlayer' = hasPlayer
             /\ phase' = phase \/ phase' = [phase EXCEPT ![d] = "gone"]
             /\ phase'[d] # phase[d] => phase[d] = "closed"
  BY <1>3, UpdaterFrame
  DEF SafetyStep, ListClient, ReapClient, JoinTwice, IInv, Types
<1>4. CASE CallHandleUpdates \/ RoundStep \/ UNCHANGED vars
  BY <1>1, <1>4 DEF CallHandleUpdates, RoundStep, PassClient, TakeUpClient,
     ReturnFromUpdates, TakeFront, SkipPoster, PushToOther, PopFront,
     NextClient, vars
<1>5. ASSUME NEW d \in Client,
             SafetyStep(d) \/ UpdaterStep(d) \/ SendReturns(d)
      PROVE  /\ phase[c] = "gone" => phase'[c] = "gone"
             /\ phase[c] # "absent" => phase'[c] # "absent"
             /\ phase'[c] \in Live => phase[c] \in Live
             /\ phase'[c] # "absent" => phase[c] # "absent"
             /\ phase'[c] \in {"posted", "flagged", "online"} =>
                  phase[c] \in {"posted", "flagged", "online"}
  BY <1>3, <1>5 DEF Live, IInv, Types
<1> QED BY <1>2, <1>3, <1>4, <1>5 DEF Next

LEMMA OtherSteps ==
  ASSUME IInv, [Next]_vars
  PROVE  /\ \A c \in Client :
              /\ uPc[c] = "crashed" => uPc'[c] = "crashed"
              /\ uPc'[c] = "crashed" =>
                   uPc[c] = "crashed" \/ c \notin hasPlayer
         /\ \/ TakeFront \/ SkipPoster \/ PushToOther
            \/ mPc' # "push"
            \/ UNCHANGED <<clients, mPc, outer, inner>>
         /\ \/ PopFront
            \/ \E c \in Client : PostUpdate(c)
            \/ UNCHANGED globalUpdates
<1> USE DEF mainVars, registryVars, globalVars, updaterVars, dataVars,
            mainFrame
<1>1. ASSUME NEW d \in Client, PeerStep(d) \/ HandlerStep(d)
      PROVE  /\ UNCHANGED <<uPc, clients, mPc, outer, inner>>
             /\ PostUpdate(d) \/ UNCHANGED globalUpdates
  BY <1>1 DEF PeerStep, HandlerStep, Connect, CreatePlayer, CloseIntern,
     LockGlobal, PostUpdate, RaiseGlobal, TakeSnapshot, Unregister, LeaveLoop
<1>2. ASSUME NEW d \in Client, SafetyStep(d)
      PROVE  /\ UNCHANGED <<uPc, globalUpdates>>
             /\ mPc' # "push"
  BY <1>2 DEF SafetyStep, ListClient, ReapClient, JoinTwice, Main
<1>3. ASSUME NEW d \in Client, UpdaterStep(d) \/ SendReturns(d)
      PROVE  /\ \A c \in Client :
                  /\ uPc[c] = "crashed" => uPc'[c] = "crashed"
                  /\ uPc'[c] = "crashed" =>
                       uPc[c] = "crashed" \/ c \notin hasPlayer
             /\ UNCHANGED <<clients, mPc, outer, inner, globalUpdates>>
  BY <1>3, UpdaterFrame
  DEF UpdaterStep, SendReturns, SuspendHandler, SendUpdate, ResponseNone,
      ResponseClose, JoinAndReturn, ResumeHandler, Update, IInv, Types
<1>4. CASE CallHandleUpdates \/ RoundStep
  BY <1>4 DEF CallHandleUpdates, RoundStep, PassClient, TakeUpClient,
     ReturnFromUpdates, TakeFront, SkipPoster, PushToOther, PopFront,
     NextClient, Main
<1>5. CASE UNCHANGED vars
  BY <1>5 DEF vars
<1> QED BY <1>1, <1>2, <1>3, <1>4, <1>5 DEF Next

LEMMA NextLaterInv == IInv /\ ToldInv /\ LaterInv /\ [Next]_vars => LaterInv'
<1> SUFFICES ASSUME IInv, ToldInv, LaterInv, [Next]_vars PROVE LaterInv'
  OBVIOUS
<1> USE DEF LaterInv
<1>0. /\ clients \in Seq(Client) /\ Len(clients) \in Nat
      /\ DOMAIN clients = 1..Len(clients)
      /\ clients \in [1..Len(clients) -> Client]
      /\ \A c \in Client : \A d \in 1..(c - 1) : d \in Client /\ d # c
  <2>1. clients \in Seq(Client)
    BY DEF IInv, Types
  <2>2. \A c \in Client : \A d \in 1..(c - 1) : d \in Client /\ d # c
    BY UpdateBroadcastAssumption DEF Client
  <2> QED BY <2>1, <2>2, LenProperties
<1>1. EarlierListed'
  <2>1. ASSUME NEW c \in Client, NEW d \in 1..(c - 1), phase'[c] # "absent"
        PROVE  phase'[d] = "gone" \/ d \in ToSet(clients')
    <3>1. d \in Client
      BY <1>0
    <3>2. phase[d] = "gone" \/ d \in ToSet(clients)
      BY <2>1, PhaseSteps DEF EarlierListed, Connect
    <3> QED BY <3>1, <3>2, PhaseSteps, ListedStay
  <2>2. ASSUME NEW c \in ToSet(clients')
        PROVE  phase'[c] # "absent"
    <3>1. CASE c \in ToSet(clients)
      <4>1. c \in Client /\ phase[c] # "absent"
        BY <1>0, <3>1 DEF EarlierListed, ToSet
      <4> QED BY <4>1, PhaseSteps
    <3> QED BY <3>1, ListedStay
  <2> QED BY <2>1, <2>2 DEF EarlierListed
<1>2. CrashedIsNoPlayer'
  <2> SUFFICES ASSUME NEW c \in Client, uPc'[c] = "crashed"
               PROVE  c \notin hasPlayer'
    BY DEF CrashedIsNoPlayer
  <2>1. c \notin hasPlayer
    BY OtherSteps DEF CrashedIsNoPlayer
  <2>2. hasPlayer' # hasPlayer => uPc[c] # "crashed" /\ uPc' = uPc
    BY PhaseSteps DEF Alive
  <2> QED BY <2>1, <2>2
<1>3. Reached'
  <2> SUFFICES ASSUME NEW c \in Client, NEW d \in 1..(c - 1),
                      phase'[c] \in {"posted", "flagged", "online"},
                      phase'[d] \in Live,
                      uPc'[d] # "crashed"
               PROVE  globalUpdates'[c] # <<>> \/ c \in ToSet(Arrivals(d)')
    BY DEF Reached
  <2>1. d \in Client /\ d # c /\ uPc[d] # "crashed"
    BY <1>0, OtherSteps
  <2>2. CASE PostUpdate(c)
    <3>1. /\ globalUpdates[c] \in Seq(Client)
          /\ globalUpdates'[c] = Append(globalUpdates[c], c)
      BY <2>2 DEF PostUpdate, IInv, Types
    <3> QED BY <3>1, AppendProperties
  <2>3. CASE ~PostUpdate(c)
    <3>1. phase[c] \in {"posted", "flagged", "online"}
      BY <2>3, PhaseSteps
    <3>2. phase[d] = "gone" \/ d \in ToSet(clients)
      BY <3>1 DEF EarlierListed
    <3>3. phase[d] \in Live
      <4>1. phase[d] # "absent"
        BY <2>1, <3>2 DEF EarlierListed
      <4> QED BY <2>1, <4>1, PhaseSteps DEF Connect
    <3>4. globalUpdates[c] # <<>> \/ c \in ToSet(Arrivals(d))
      BY <2>1, <3>1, <3>3 DEF Reached
    <3>5. CASE c \in ToSet(Arrivals(d))
      BY <2>1, <3>5, ArrivalsStay
    <3>6. CASE globalUpdates[c] # <<>> /\ PopFront
      <4>1. CASE clients[outer] = c
        <5>1. /\ inner > Len(clients) /\ mPc = "push"
              /\ UNCHANGED <<told, clientUpdates>>
          BY <3>6 DEF PopFront, Main, updaterVars
        <5>2. inner \in Nat /\ outer \in 1..Len(clients)
          BY <1>0, <5>1 DEF IInv, Positions
        <5>3. PICK i \in 1..Len(clients) : clients[i] = d
          BY <1>0, <3>2, <3>3 DEF ToSet, Live
        <5>4. i # outer /\ i \in 1..(inner - 1)
          BY <1>0, <2>1, <4>1, <5>1, <5>2, <5>3
        <5>5. c \in ToSet(Arrivals(d))
          BY <2>1, <4>1, <5>1, <5>3, <5>4 DEF HalfwayReached
        <5> QED BY <2>1, <5>5, ArrivalsStay
      <4>2. CASE clients[outer] # c
        BY <3>6, <4>2 DEF PopFront, IInv, Types
      <4> QED BY <4>1, <4>2
    <3>7. CASE globalUpdates[c] # <<>> /\ ~PopFront
      <4>1. ASSUME NEW e \in Client, PostUpdate(e)
            PROVE  globalUpdates'[c] # <<>>
        <5>1. e # c
          BY <2>3, <4>1
        <5> QED BY <3>7, <4>1, <5>1 DEF PostUpdate, IInv, Types
      <4> QED BY <3>7, <4>1, OtherSteps
    <3> QED BY <3>4, <3>5, <3>6, <3>7
  <2> QED BY <2>2, <2>3
<1>4. HalfwayReached'
  <2>1. CASE TakeFront
    BY <2>1 DEF TakeFront, Main, HalfwayReached, IInv, Positions
  <2>2. CASE SkipPoster \/ PushToOther
    <3>1. /\ mPc = "push" /\ inner' = inner + 1
          /\ UNCHANGED <<clients, outer, uPc>>
          /\ inner \in 1..Len(clients) /\ outer \in 1..Len(clients)
          /\ SkipPoster => inner = outer
      BY <1>0, <2>2 DEF SkipPoster, PushToOther, Main, mainFrame, dataVars,
         updaterVars, IInv, Positions
    <3> SUFFICES ASSUME NEW i \in 1..inner, i # outer,
                        uPc[clients[i]] # "crashed"
                 PROVE  clients[outer] \in ToSet(told'[clients[i]]
                                                 \o clientUpdates'[clients[i]])
      <4>1. inner' - 1 = inner
        BY <3>1
      <4> QED BY <3>1, <4>1 DEF HalfwayReached, Arrivals
    <3>2. clients[i] \in Client
      BY <1>0, <3>1
    <3>3. PICK d \in Client : d = clients[i]
      BY <3>2
    <3>4. uPc[d] # "crashed" /\ uPc'[d] # "crashed"
      BY <3>1, <3>3
    <3>5. clients[outer] \in ToSet(Arrivals(d)')
      <4>1. CASE i # inner
        <5>1. clients[outer] \in ToSet(Arrivals(d))
          BY <3>1, <3>3, <3>4, <4>1 DEF HalfwayReached
        <5> QED BY <3>4, <5>1, ArrivalsStay
      <4>2. CASE i = inner
        <5>1. PushToOther
          BY <2>2, <3>1, <4>2
        <5>2. /\ clients[outer] \in Client
              /\ Arrivals(d) \in Seq(Client)
              /\ Arrivals(d)' = Append(Arrivals(d), clients[outer])
          BY <3>3, <4>2, <5>1, PushArrives DEF ToldInv
        <5> QED BY <5>2, AppendNoRepeat
      <4> QED BY <4>1, <4>2
    <3> QED BY <3>3, <3>5 DEF Arrivals
  <2>3. CASE mPc' # "push"
    BY <2>3 DEF HalfwayReached
  <2>4. CASE UNCHANGED <<clients, mPc, outer, inner>>
    <3> SUFFICES ASSUME mPc = "push", NEW i \in 1..(inner - 1), i # outer,
                        uPc'[clients[i]] # "crashed"
                 PROVE  clients[outer] \in ToSet(told'[clients[i]]
                                                 \o clientUpdates'[clients[i]])
      BY <2>4 DEF HalfwayReached, Arrivals
    <3>1. i \in 1..Len(clients) /\ clients[i] \in Client
      BY <1>0 DEF IInv, Positions
    <3>2. PICK d \in Client : d = clients[i]
      BY <3>1
    <3>3. uPc[d] # "crashed"
      BY <3>2, OtherSteps
    <3>4. clients[outer] \in ToSet(Arrivals(d))
      BY <3>2, <3>3 DEF HalfwayReached
    <3>5. clients[outer] \in ToSet(Arrivals(d)')
      BY <3>2, <3>4, ArrivalsStay
    <3> QED BY <3>2, <3>5 DEF Arrivals
  <2> QED BY <2>1, <2>2, <2>3, <2>4, OtherSteps
<1> QED BY <1>1, <1>2, <1>3, <1>4

\* A client that is online is told of every player that came later, however
\* many there are and whichever connections end.
THEOREM LaterJoinTold == Spec => []LaterJoinSeen
<1>1. IInv /\ LaterInv => LaterJoinSeen
  <2> SUFFICES ASSUME IInv, LaterInv, NEW c \in Client, NEW d \in 1..(c - 1),
                      phase[c] = "online", phase[d] = "online"
               PROVE  globalUpdates[c] # <<>> \/ c \in ToSet(Arrivals(d))
    BY DEF LaterJoinSeen
  <2>1. d \in Client
    BY UpdateBroadcastAssumption DEF Client
  <2>2. uPc[d] # "crashed"
    BY <2>1 DEF IInv, Types, Registered, LaterInv, CrashedIsNoPlayer
  <2> QED BY <2>2 DEF LaterInv, Reached, Live
<1> QED
  BY <1>1, InitLaterInv, NextLaterInv, InitToldInv, NextToldInv, AlwaysIInv,
     PTL DEF Spec
-----------------------------------------------------------------------------
(* Who waits for the mutex of a client that posts.                         *)

\* The flag is raised once the update has been posted and the mutex released.
FlaggedHasPosted ==
  \A c \in Client :
     phase[c] \in {"absent", "login", "registered", "locked", "posted"}
       => c \notin hasGlobalUpdates

\* The main loop only takes up a client whose flag is up.
TakenIsFlagged ==
  mPc \in {"drain", "push"} => clients[outer] \in hasGlobalUpdates

LockInv == FlaggedHasPosted /\ TakenIsFlagged

LEMMA NextLockInv == IInv /\ LockInv /\ [Next]_vars => LockInv'
<1> SUFFICES ASSUME IInv, LockInv, [Next]_vars PROVE LockInv'
  OBVIOUS
<1> USE DEF mainVars, registryVars, globalVars, updaterVars, dataVars,
            mainFrame
<1>1. ASSUME NEW c \in Client, PeerStep(c) \/ HandlerStep(c)
      PROVE  LockInv'
  <2> USE DEF PeerStep, HandlerStep, Connect, CreatePlayer, CloseIntern,
              LockGlobal, PostUpdate, RaiseGlobal, TakeSnapshot, Unregister,
              LeaveLoop, Handler
  <2>1. UNCHANGED mainVars /\ hasGlobalUpdates \subseteq hasGlobalUpdates'
    BY <1>1
  <2>2. TakenIsFlagged'
    BY <2>1 DEF LockInv, TakenIsFlagged
  <2>3. FlaggedHasPosted'
    BY <1>1 DEF LockInv, FlaggedHasPosted, IInv, Types
  <2> QED BY <2>2, <2>3 DEF LockInv
<1>2. ASSUME NEW c \in Client, SafetyStep(c)
      PROVE  LockInv'
  <2>1. mPc' \in {"idle", "crashed"} /\ UNCHANGED hasGlobalUpdates
    BY <1>2 DEF SafetyStep, ListClient, ReapClient, JoinTwice, Main
  <2>2. FlaggedHasPosted'
    BY <1>2, <2>1
    DEF SafetyStep, ListClient, ReapClient, JoinTwice, LockInv,
        FlaggedHasPosted, IInv, Types
  <2> QED BY <2>1, <2>2 DEF LockInv, TakenIsFlagged
<1>3. ASSUME NEW c \in Client, UpdaterStep(c) \/ SendReturns(c)
      PROVE  LockInv'
  <2>1. UNCHANGED <<mainVars, phase, hasGlobalUpdates>>
    BY <1>3, UpdaterFrame
  <2> QED BY <2>1 DEF LockInv, FlaggedHasPosted, TakenIsFlagged
<1>4. CASE CallHandleUpdates \/ RoundStep
  <2> USE DEF CallHandleUpdates, RoundStep, PassClient, TakeUpClient,
              ReturnFromUpdates, TakeFront, SkipPoster, PushToOther, PopFront,
              NextClient, Main
  <2>1. UNCHANGED <<clients, phase, hasGlobalUpdates>>
    BY <1>4
  <2>2. TakenIsFlagged'
    BY <1>4, <2>1 DEF LockInv, TakenIsFlagged
  <2> QED BY <2>1, <2>2 DEF LockInv, FlaggedHasPosted
<1>5. CASE UNCHANGED vars
  BY <1>5 DEF vars, LockInv, FlaggedHasPosted, TakenIsFlagged
<1> QED BY <1>1, <1>2, <1>3, <1>4, <1>5 DEF Next

\* The main loop never wants the globalUpdateMutex of a client whose handler
\* has it or is about to lock it: a handler that is suspended while it posts
\* holds up no one, however many clients there are.
THEOREM LockNeverContended == Spec => []LockUncontended
<1>1. Init => LockInv
  BY DEF Init, LockInv, FlaggedHasPosted, TakenIsFlagged
<1>2. LockInv => LockUncontended
  BY DEF LockInv, FlaggedHasPosted, TakenIsFlagged, LockUncontended, MainWants,
     MainHolds
<1> QED BY <1>1, <1>2, NextLockInv, AlwaysIInv, PTL DEF Spec
-----------------------------------------------------------------------------
(* The order in which the joins are heard of.                              *)

\* Whoever c hears of, he hears of in the order of rank.
Sorted(rank, c) == Increasing(rank, Arrivals(c))

\* Of all that anyone hears of, u ranks highest.
TopOfAll(rank, u) == \A c \in Client : Nowhere(c) \/ c = u \/ rank[c] < rank[u]

\* One order fits all queues, with the update being pushed at its end.
FitsAll(rank) == /\ \A c \in Client : Sorted(rank, c)
                 /\ mPc = "push" => TopOfAll(rank, clients[outer])

\* The ranks may be spread over any interval.
OrderInv == \E top \in Nat : \E rank \in [Client -> 0..top] : FitsAll(rank)

LEMMA InitOrderInv == Init => OrderInv
<1> SUFFICES ASSUME Init PROVE OrderInv
  OBVIOUS
<1> DEFINE zero == [c \in Client |-> 0]
<1>1. \A c \in Client : Arrivals(c) = <<>>
  BY InitArrivals
<1>2. FitsAll(zero)
  BY <1>1 DEF Init, FitsAll, Sorted, Increasing
<1>3. zero \in [Client -> 0..0] /\ 0 \in Nat
  OBVIOUS
<1> QED BY <1>2, <1>3 DEF OrderInv

\* What is taken up next has not been heard of: it goes to the end.
LEMMA TakeFrontOrder ==
  ASSUME IInv, ToldInv, OrderInv, TakeFront
  PROVE  OrderInv'
<1>0. PICK top \in Nat : \E rank \in [Client -> 0..top] : FitsAll(rank)
  BY DEF OrderInv
<1>1. PICK rank \in [Client -> 0..top] : FitsAll(rank)
  BY <1>0
<1>2. Len(clients) \in Nat /\ clients \in [1..Len(clients) -> Client]
  BY LenProperties DEF IInv, Types
<1>3. /\ mPc = "drain" /\ mPc' = "push" /\ clients[outer] \in Client
      /\ globalUpdates[clients[outer]] # <<>>
      /\ UNCHANGED <<clients, outer, told, clientUpdates>>
  BY <1>2 DEF TakeFront, Main, IInv, Positions, mainFrame, dataVars,
     updaterVars
<1>u. PICK u \in Client : u = clients[outer]
  BY <1>3
<1>4. Nowhere(u)
  BY <1>3, <1>u DEF ToldInv, PostedOnce, Waiting
<1>5. PICK new \in [Client -> 0..(top + 1)] :
         /\ new[u] = top + 1
         /\ \A c \in Client : c # u => new[c] = rank[c] /\ new[c] < top + 1
  <2> DEFINE raised == [rank EXCEPT ![u] = top + 1]
  <2>1. /\ raised \in [Client -> 0..(top + 1)]
        /\ raised[u] = top + 1
        /\ \A c \in Client : c # u => /\ raised[c] = rank[c]
                                      /\ raised[c] < top + 1
    BY <1>0
  <2> QED BY <2>1
<1>6. ASSUME NEW d \in Client PROVE Sorted(new, d)
  <2>1. /\ Len(Arrivals(d)) \in Nat
        /\ DOMAIN Arrivals(d) = 1..Len(Arrivals(d))
        /\ ToSet(Arrivals(d)) \subseteq Client
    BY ArrivalsType
  <2>2. \A x, y \in ToSet(Arrivals(d)) : rank[x] < rank[y] => new[x] < new[y]
    BY <1>4, <1>5, <2>1 DEF Nowhere
  <2>3. Increasing(rank, Arrivals(d))
    BY <1>1 DEF FitsAll, Sorted
  <2> QED BY <2>1, <2>2, <2>3, IncreasingByElements DEF Sorted
<1>7. TopOfAll(new, u)
  BY <1>5 DEF TopOfAll
<1>8. FitsAll(new)'
  <2>1. \A d \in Client : Arrivals(d)' = Arrivals(d)
    BY <1>3 DEF Arrivals
  <2>2. \A d \in Client : Sorted(new, d)'
    BY <1>6, <2>1 DEF Sorted
  <2>3. TopOfAll(new, u)'
    BY <1>7, <2>1 DEF TopOfAll, Nowhere
  <2> QED BY <1>3, <1>u, <2>2, <2>3 DEF FitsAll
<1> QED BY <1>0, <1>8 DEF OrderInv

\* What is pushed goes behind all that its receiver has heard of.
LEMMA PushOrder ==
  ASSUME IInv, ToldInv, PushToOther, NEW top \in Nat,
         NEW rank \in [Client -> 0..top], FitsAll(rank)
  PROVE  FitsAll(rank)'
<1>0. PICK u, r \in Client : u = clients[outer] /\ r = clients[inner]
  BY PushArrives DEF ToldInv
<1>1. /\ u # r
      /\ \A d \in Client :
           /\ Arrivals(d) \in Seq(Client)
           /\ Arrivals(d)' = IF d = r THEN Append(Arrivals(d), u)
                             ELSE Arrivals(d)
  BY <1>0, PushArrives DEF ToldInv
<1>2. UNCHANGED <<clients, outer>> /\ mPc = "push"
  BY DEF PushToOther, Main
<1>3. u \notin ToSet(Arrivals(r))
  BY <1>0, PushIsNew
<1>4. TopOfAll(rank, u)
  BY <1>0, <1>2 DEF FitsAll
<1>5. ASSUME NEW d \in Client PROVE Sorted(rank, d)'
  <2>1. Increasing(rank, Arrivals(d))
    BY DEF FitsAll, Sorted
  <2>2. CASE d # r
    BY <1>1, <2>1, <2>2 DEF Sorted
  <2>3. CASE d = r
    <3>1. Arrivals(d) \in Seq(Client) /\ Arrivals(d)' = Append(Arrivals(d), u)
      BY <1>1, <2>3
    <3>2. \A x \in ToSet(Arrivals(d)) : rank[x] < rank[u]
      <4>1. ToSet(Arrivals(d)) \subseteq Client
        BY ArrivalsType
      <4> QED BY <1>3, <1>4, <2>3, <4>1 DEF TopOfAll, Nowhere
    <3>3. Increasing(rank, Append(Arrivals(d), u))
      BY <1>1, <2>1, <3>1, <3>2, AppendIncreasing
    <3> QED BY <3>1, <3>3 DEF Sorted
  <2> QED BY <2>2, <2>3
<1>6. TopOfAll(rank, u)'
  <2> SUFFICES ASSUME NEW c \in Client, Nowhere(c), c # u PROVE Nowhere(c)'
    BY <1>4 DEF TopOfAll
  <2> SUFFICES ASSUME NEW d \in Client PROVE c \notin ToSet(Arrivals(d)')
    BY DEF Nowhere
  <2>1. Arrivals(d) \in Seq(Client) /\ c \notin ToSet(Arrivals(d))
    BY <1>1 DEF Nowhere
  <2>2. ToSet(Append(Arrivals(d), u)) = ToSet(Arrivals(d)) \cup {u}
    BY <1>1, <2>1, AppendNoRepeat
  <2>3. CASE d = r
    <3>1. Arrivals(d)' = Append(Arrivals(d), u)
      BY <1>1, <2>3
    <3> QED BY <2>1, <2>2, <3>1
  <2>4. CASE d # r
    <3>1. Arrivals(d)' = Arrivals(d)
      BY <1>1, <2>4
    <3> QED BY <2>1, <3>1
  <2> QED BY <2>3, <2>4
<1> QED BY <1>0, <1>2, <1>5, <1>6 DEF FitsAll

LEMMA NextOrderInv == IInv /\ ToldInv /\ OrderInv /\ [Next]_vars => OrderInv'
<1> SUFFICES ASSUME IInv, ToldInv, OrderInv, [Next]_vars, ~TakeFront
             PROVE  OrderInv'
  BY TakeFrontOrder
<1>0. PICK top \in Nat : \E rank \in [Client -> 0..top] : FitsAll(rank)
  BY DEF OrderInv
<1>1. PICK rank \in [Client -> 0..top] : FitsAll(rank)
  BY <1>0
<1>2. CASE PushToOther
  <2>1. FitsAll(rank)'
    BY <1>0, <1>1, <1>2, PushOrder
  <2> QED BY <1>0, <1>1, <2>1 DEF OrderInv
<1>3. CASE ~PushToOther
  <2>1. Within
    BY <1>3, OtherWithin
  <2>2. \A c \in Client : Sorted(rank, c)'
    BY <1>1, <2>1 DEF FitsAll, Sorted, Within
  <2>3. mPc' # "push" \/ (mPc = "push" /\ UNCHANGED <<clients, outer>>)
    BY <1>3, OtherSteps DEF SkipPoster, Main, mainFrame
  <2>4. mPc' = "push" => TopOfAll(rank, clients[outer])'
    <3>1. \A c \in Client : Nowhere(c) => Nowhere(c)'
      BY <2>1 DEF Within, Nowhere
    <3> QED BY <1>1, <2>3, <3>1 DEF FitsAll, TopOfAll
  <2>5. FitsAll(rank)'
    BY <2>2, <2>4 DEF FitsAll
  <2> QED BY <1>0, <1>1, <2>5 DEF OrderInv
<1> QED BY <1>2, <1>3

\* Ranks can be numbered from 1 to the number of clients.
LEMMA Renumbered ==
  ASSUME NEW top \in Nat, NEW rank \in [Client -> 0..top]
  PROVE  \E new \in [Client -> Client] :
            \A c, d \in Client : rank[c] < rank[d] => new[c] < new[d]
<1> DEFINE UpTo(c) == {d \in Client : rank[d] <= rank[c]}
           new == [c \in Client |-> Cardinality(UpTo(c))]
<1>1. IsFiniteSet(Client) /\ Cardinality(Client) = MaxClients
  <2>1. /\ IsFiniteSet(1..MaxClients)
        /\ Cardinality(1..MaxClients) =
             IF 1 > MaxClients THEN 0 ELSE MaxClients - 1 + 1
    BY FS_Interval, UpdateBroadcastAssumption
  <2> QED BY <2>1, UpdateBroadcastAssumption DEF Client
<1>2. ASSUME NEW c \in Client
      PROVE  /\ IsFiniteSet(UpTo(c)) /\ c \in UpTo(c)
             /\ Cardinality(UpTo(c)) \in Client
  <2>1. UpTo(c) \in SUBSET Client /\ c \in UpTo(c)
    OBVIOUS
  <2> HIDE DEF UpTo
  <2>2. IsFiniteSet(UpTo(c)) /\ Cardinality(UpTo(c)) <= MaxClients
    BY <1>1, <2>1, FS_Subset
  <2>3. Cardinality(UpTo(c)) \in Nat /\ Cardinality(UpTo(c)) # 0
    BY <2>1, <2>2, FS_CardinalityType, FS_EmptySet
  <2> QED BY <2>1, <2>2, <2>3, UpdateBroadcastAssumption DEF Client
<1>3. ASSUME NEW c \in Client, NEW d \in Client, rank[c] < rank[d]
      PROVE  Cardinality(UpTo(c)) < Cardinality(UpTo(d))
  <2>1. UpTo(c) \in SUBSET UpTo(d) /\ d \in UpTo(d) /\ d \notin UpTo(c)
    BY <1>3
  <2> HIDE DEF UpTo
  <2>2. /\ Cardinality(UpTo(c)) <= Cardinality(UpTo(d))
        /\ Cardinality(UpTo(c)) # Cardinality(UpTo(d))
    BY <1>2, <2>1, FS_Subset
  <2>3. Cardinality(UpTo(c)) \in Nat /\ Cardinality(UpTo(d)) \in Nat
    BY <1>2, FS_CardinalityType
  <2> QED BY <2>2, <2>3
<1>4. /\ new \in [Client -> Client]
      /\ \A c, d \in Client : rank[c] < rank[d] => new[c] < new[d]
  <2> HIDE DEF UpTo
  <2> QED BY <1>2, <1>3
<1> QED BY <1>4

\* All clients hear of the joins in one order, however many there are and
\* whichever connections end.
THEOREM JoinsInOneOrder == Spec => []OneOrder
<1>1. IInv /\ OrderInv => OneOrder
  <2> SUFFICES ASSUME IInv, OrderInv PROVE OneOrder
    OBVIOUS
  <2>0. PICK top \in Nat : \E rank \in [Client -> 0..top] : FitsAll(rank)
    BY DEF OrderInv
  <2>1. PICK rank \in [Client -> 0..top] : FitsAll(rank)
    BY <2>0
  <2>2. PICK new \in [Client -> Client] :
           \A c, d \in Client : rank[c] < rank[d] => new[c] < new[d]
    BY <2>0, <2>1, Renumbered
  <2>3. ASSUME NEW c \in Client PROVE Increasing(new, Arrivals(c))
    <3>1. /\ Len(Arrivals(c)) \in Nat
          /\ DOMAIN Arrivals(c) = 1..Len(Arrivals(c))
          /\ ToSet(Arrivals(c)) \subseteq Client
      BY ArrivalsType
    <3>2. Increasing(rank, Arrivals(c))
      BY <2>1 DEF FitsAll, Sorted
    <3>3. \A x, y \in ToSet(Arrivals(c)) : rank[x] < rank[y] => new[x] < new[y]
      BY <2>2, <3>1
    <3> QED BY <3>1, <3>2, <3>3, IncreasingByElements
  <2> QED BY <2>2, <2>3 DEF OneOrder, Increasing
<1> QED
  BY <1>1, InitOrderInv, NextOrderInv, InitToldInv, NextToldInv, AlwaysIInv,
     PTL DEF Spec
-----------------------------------------------------------------------------
(* The promise about the news.                                             *)

\* Who has not created his player has none; who has posted or was told has;
\* and who is being told, or has been closed by an update, was told.
PlayerInv ==
  \A c \in Client :
     /\ phase[c] \in {"absent", "login"} => c \notin hasPlayer
     /\ globalUpdates[c] # <<>> \/ told[c] # <<>> => c \in hasPlayer
     /\ uPc[c] \in {"send", "join", "returned"} => told[c] # <<>>

\* What a step does to the players, and to the updates of a client.
LEMMA PlayerSteps ==
  ASSUME IInv, [Next]_vars
  PROVE  /\ \/ \E c \in Client : CreatePlayer(c)
            \/ /\ UNCHANGED hasPlayer
               /\ \A c \in Client : phase'[c] \in {"absent", "login"}
                                      => phase[c] \in {"absent", "login"}
         /\ \/ PopFront
            \/ \E c \in Client : PostUpdate(c)
            \/ UNCHANGED globalUpdates
         /\ UNCHANGED told \/ \E c \in Client : SendUpdate(c)
<1> USE DEF mainVars, registryVars, globalVars, updaterVars, dataVars,
            mainFrame
<1>1. ASSUME NEW c \in Client, PeerStep(c) \/ HandlerStep(c)
      PROVE  /\ \/ CreatePlayer(c)
                \/ /\ UNCHANGED hasPlayer
                   /\ \A d \in Client : phase'[d] \in {"absent", "login"}
                                          => phase[d] \in {"absent", "login"}
             /\ UNCHANGED told
  BY <1>1 DEF PeerStep, HandlerStep, Connect, CreatePlayer, CloseIntern,
     LockGlobal, PostUpdate, RaiseGlobal, TakeSnapshot, Unregister, LeaveLoop,
     Handler, IInv, Types
<1>2. ASSUME NEW c \in Client, SafetyStep(c)
      PROVE  /\ UNCHANGED <<hasPlayer, told>>
             /\ \A d \in Client : phase'[d] \in {"absent", "login"}
                                    => phase[d] \in {"absent", "login"}
  BY <1>2 DEF SafetyStep, ListClient, ReapClient, JoinTwice, IInv, Types
<1>3. ASSUME NEW c \in Client, UpdaterStep(c) \/ SendReturns(c)
      PROVE  /\ UNCHANGED <<hasPlayer, phase>>
             /\ SendUpdate(c) \/ UNCHANGED told
  BY <1>3, UpdaterFrame
<1>4. CASE CallHandleUpdates \/ RoundStep
  BY <1>4 DEF CallHandleUpdates, RoundStep, PassClient, TakeUpClient,
     ReturnFromUpdates, TakeFront, SkipPoster, PushToOther, PopFront,
     NextClient
<1>5. CASE UNCHANGED vars
  BY <1>5 DEF vars
<1> QED BY <1>1, <1>2, <1>3, <1>4, <1>5, OtherSteps DEF Next

\* An update thread only gets to its send, and beyond it, with an update.
LEMMA UpdaterMoves ==
  ASSUME IInv, [Next]_vars, NEW c \in Client, ~SendUpdate(c),
         uPc'[c] \in {"send", "join", "returned"}
  PROVE  uPc[c] \in {"send", "join", "returned"}
<1> USE DEF mainVars, registryVars, globalVars, updaterVars, dataVars,
            mainFrame
<1>1. CASE UNCHANGED uPc
  BY <1>1
<1>2. ASSUME NEW d \in Client,
             PeerStep(d) \/ HandlerStep(d) \/ SafetyStep(d)
      PROVE  UNCHANGED uPc
  BY <1>2 DEF PeerStep, HandlerStep, SafetyStep, Connect, CreatePlayer,
     CloseIntern, LockGlobal, PostUpdate, RaiseGlobal, TakeSnapshot,
     Unregister, LeaveLoop, ListClient, ReapClient, JoinTwice
<1>3. ASSUME NEW d \in Client, UpdaterStep(d) \/ SendReturns(d)
      PROVE  uPc[c] \in {"send", "join", "returned"}
  BY <1>3 DEF UpdaterStep, SendReturns, SuspendHandler, SendUpdate,
     ResponseNone, ResponseClose, JoinAndReturn, ResumeHandler, Update, IInv,
     Types
<1>4. CASE CallHandleUpdates \/ RoundStep \/ UNCHANGED vars
  BY <1>1, <1>4 DEF CallHandleUpdates, RoundStep, PassClient, TakeUpClient,
     ReturnFromUpdates, TakeFront, SkipPoster, PushToOther, PopFront,
     NextClient, vars
<1> QED BY <1>1, <1>2, <1>3, <1>4 DEF Next

LEMMA NextPlayerInv == IInv /\ PlayerInv /\ [Next]_vars => PlayerInv'
<1> SUFFICES ASSUME IInv, PlayerInv, [Next]_vars, NEW c \in Client
             PROVE  /\ phase'[c] \in {"absent", "login"} => c \notin hasPlayer'
                    /\ globalUpdates'[c] # <<>> => c \in hasPlayer'
                    /\ told'[c] # <<>> => c \in hasPlayer'
                    /\ uPc'[c] \in {"send", "join", "returned"}
                         => told'[c] # <<>>
  BY DEF PlayerInv
<1>1. hasPlayer \subseteq hasPlayer'
  BY PhaseSteps
<1>2. phase'[c] \in {"absent", "login"} => c \notin hasPlayer'
  <2>1. ASSUME NEW d \in Client, CreatePlayer(d)
        PROVE  phase'[c] \in {"absent", "login"} => c \notin hasPlayer'
    BY <2>1 DEF CreatePlayer, Handler, PlayerInv, IInv, Types
  <2> QED BY <2>1, PlayerSteps DEF PlayerInv
<1>3. globalUpdates'[c] # <<>> => c \in hasPlayer'
  <2>1. CASE PopFront
    <3>1. globalUpdates'[c] # <<>> => globalUpdates[c] # <<>>
      <4>1. CASE c = clients[outer]
        BY <2>1, <4>1 DEF PopFront, Main, IInv, FrontThere
      <4>2. CASE c # clients[outer]
        BY <2>1, <4>2 DEF PopFront, IInv, Types
      <4> QED BY <4>1, <4>2
    <3> QED BY <1>1, <3>1 DEF PlayerInv
  <2>2. ASSUME NEW d \in Client, PostUpdate(d)
        PROVE  globalUpdates'[c] # <<>> => c \in hasPlayer'
    <3>1. CASE c = d
      <4>1. c \in players
        BY <2>2, <3>1 DEF PostUpdate, Handler, IInv, Registered
      <4> QED BY <1>1, <4>1 DEF IInv, Types
    <3>2. CASE c # d
      BY <1>1, <2>2, <3>2 DEF PostUpdate, PlayerInv, IInv, Types
    <3> QED BY <3>1, <3>2
  <2>3. CASE UNCHANGED globalUpdates
    BY <1>1, <2>3 DEF PlayerInv
  <2> QED BY <2>1, <2>2, <2>3, PlayerSteps
<1>4. told'[c] # <<>> => c \in hasPlayer'
  <2>1. ASSUME NEW d \in Client, SendUpdate(d)
        PROVE  told'[c] # <<>> => c \in hasPlayer'
    BY <1>1, <2>1 DEF SendUpdate, PlayerInv, IInv, Types
  <2> QED BY <1>1, <2>1, PlayerSteps DEF PlayerInv
<1>5. uPc'[c] \in {"send", "join", "returned"} => told'[c] # <<>>
  <2>1. ASSUME NEW d \in Client, SendUpdate(d)
        PROVE  uPc'[c] \in {"send", "join", "returned"} => told'[c] # <<>>
    <3>1. CASE c = d
      <4>1. /\ told[c] \in Seq(Client)
            /\ Head(clientUpdates[c]) \in Client
        BY <2>1, <3>1, HeadTailProperties DEF SendUpdate, IInv, Types
      <4>2. Append(told[c], Head(clientUpdates[c])) # <<>>
        BY <4>1, AppendProperties
      <4> QED BY <2>1, <3>1, <4>2 DEF SendUpdate, Update, IInv, Types
    <3>2. CASE c # d
      BY <2>1, <3>2 DEF SendUpdate, Update, PlayerInv, IInv, Types
    <3> QED BY <3>1, <3>2
  <2>2. CASE \A d \in Client : ~SendUpdate(d)
    <3>1. told' = told
      BY <2>2, PlayerSteps
    <3>2. uPc'[c] \in {"send", "join", "returned"} =>
            uPc[c] \in {"send", "join", "returned"}
      BY <2>2, UpdaterMoves
    <3> QED BY <3>1, <3>2 DEF PlayerInv
  <2> QED BY <2>1, <2>2
<1> QED BY <1>2, <1>3, <1>4, <1>5

LEMMA InitNews == Init => News!NewsInit
<1> SUFFICES ASSUME Init PROVE News!NewsInit
  OBVIOUS
<1>1. \A c \in Client : Arrivals(c) = <<>>
  BY InitArrivals
<1>2. hasPlayer = {} /\ Alive
  BY DEF Init, Alive
<1> QED BY <1>1, <1>2 DEF News!NewsInit

\* A player is created: he joins.
LEMMA CreateJoins ==
  ASSUME IInv, PlayerInv, NEW c \in Client, CreatePlayer(c)
  PROVE  News!Join(c)
<1>1. /\ c \notin hasPlayer /\ hasPlayer' = hasPlayer \cup {c}
      /\ UNCHANGED <<told, clientUpdates, uPc, mPc>>
  BY DEF CreatePlayer, Handler, PlayerInv, mainVars, updaterVars
<1>2. [d \in Client |-> Arrivals(d)]' = [d \in Client |-> Arrivals(d)]
  BY <1>1 DEF Arrivals
<1>3. (~Alive)' = ~Alive
  BY <1>1 DEF Alive
<1> QED BY <1>1, <1>2, <1>3 DEF News!Join

\* An update is pushed: one client hears of another who has joined.
LEMMA PushIsHeard ==
  ASSUME IInv, ToldInv, PlayerInv, PushToOther
  PROVE  \E c, d \in Client : News!Hear(d, c)
<1>1. PICK c, d \in Client : c = clients[outer] /\ d = clients[inner]
  BY PushArrives DEF ToldInv
<1>2. /\ c # d /\ globalUpdates[c] = <<c>>
      /\ \A e \in Client :
           Arrivals(e)' = IF e = d THEN Append(Arrivals(e), c) ELSE Arrivals(e)
  BY <1>1, PushArrives DEF ToldInv
<1>3. Alive /\ UNCHANGED <<hasPlayer, uPc, mPc>>
  BY DEF PushToOther, Main, registryVars
<1>4. c \in hasPlayer
  <2>1. <<c>> # <<>>
    OBVIOUS
  <2> QED BY <1>2, <2>1 DEF PlayerInv
<1>5. c \notin ToSet(Arrivals(d))
  BY <1>1, PushIsNew
<1> DEFINE h == [e \in Client |-> Arrivals(e)]
<1>6. h' = [h EXCEPT ![d] = Append(@, c)]
  BY <1>2
<1>7. c \in hasPlayer \ ({d} \cup News!ToSet(h[d]))
  BY <1>2, <1>4, <1>5 DEF News!ToSet, ToSet
<1>8. (~Alive)' = ~Alive
  BY <1>3 DEF Alive
<1>9. News!Hear(d, c)
  BY <1>3, <1>6, <1>7, <1>8 DEF News!Hear
<1> QED BY <1>9

\* An update is sent to a client that has joined: he has heard of it before.
\* Sent to another, it takes the server down.
LEMMA SendIsNoNews ==
  ASSUME IInv, PlayerInv, NEW c \in Client, SendUpdate(c)
  PROVE  News!Crash(c) \/ UNCHANGED News!newsVars
<1> DEFINE h == [e \in Client |-> Arrivals(e)]
<1>1. /\ clientUpdates[c] \in Seq(Client) /\ clientUpdates[c] # <<>>
      /\ told[c] \in Seq(Client)
      /\ UNCHANGED <<hasPlayer, mPc>>
      /\ Alive
  BY DEF IInv, Types, SendUpdate, Update, registryVars, mainVars
<1>2. ASSUME NEW d \in Client, d # c
      PROVE  Arrivals(d)' = Arrivals(d)
  BY <1>2 DEF IInv, Types, SendUpdate, Update, Arrivals
<1>3. CASE c \in hasPlayer
  <2>1. /\ told' = [told EXCEPT ![c] = Append(@, Head(clientUpdates[c]))]
        /\ uPc' = [uPc EXCEPT ![c] = "send"]
    BY <1>3 DEF SendUpdate, Update
  <2>2. Arrivals(c)' = Append(told[c], Head(clientUpdates[c]))
                         \o Tail(clientUpdates[c])
    BY <2>1 DEF IInv, Types, SendUpdate, Arrivals
  <2>3. Arrivals(c)' = Arrivals(c)
    BY <1>1, <2>2, MoveFront DEF Arrivals
  <2>4. h' = h
    BY <1>2, <2>3
  <2>5. Alive'
    BY <1>1, <2>1 DEF Alive, IInv, Types
  <2>6. (~Alive)' = ~Alive
    BY <1>1, <2>5
  <2> QED BY <1>1, <2>4, <2>6 DEF News!newsVars
<1>4. CASE c \notin hasPlayer
  <2>1. /\ told[c] = <<>> /\ told' = told
        /\ uPc' = [uPc EXCEPT ![c] = "crashed"]
    BY <1>4 DEF SendUpdate, Update, PlayerInv
  <2>2. /\ clientUpdates'[c] = Tail(clientUpdates[c])
        /\ Tail(clientUpdates[c]) \in Seq(Client)
    BY <1>1, HeadTailProperties DEF SendUpdate, IInv, Types
  <2>3. /\ Arrivals(c) = clientUpdates[c]
        /\ Arrivals(c)' = Tail(clientUpdates[c])
    BY <1>1, <2>1, <2>2, ConcatEmptySeq DEF Arrivals
  <2>4. h' = [h EXCEPT ![c] = Tail(@)] /\ h[c] # <<>>
    BY <1>1, <1>2, <2>3
  <2>5. (~Alive)' = TRUE
    BY <2>1 DEF Alive, IInv, Types
  <2> QED BY <1>1, <1>4, <2>4, <2>5 DEF News!Crash
<1> QED BY <1>3, <1>4

\* The main loop and an update thread join one handler thread: the news that
\* closed its client takes the server down.
LEMMA JoinIsCrash ==
  ASSUME IInv, PlayerInv, NEW c \in Client, JoinTwice(c)
  PROVE  News!Crash(c)
<1> DEFINE h == [e \in Client |-> Arrivals(e)]
<1>1. told[c] # <<>> /\ c \in hasPlayer
  BY DEF JoinTwice, PlayerInv
<1>2. UNCHANGED <<hasPlayer, told, clientUpdates>> /\ mPc' = "crashed"
  BY JoinFrame DEF registryVars, updaterVars
<1>3. h[c] # <<>>
  <2>1. told[c] \in Seq(Client) /\ clientUpdates[c] \in Seq(Client)
    BY DEF IInv, Types
  <2>2. Len(told[c]) \in Nat \ {0} /\ Len(clientUpdates[c]) \in Nat
    BY <1>1, <2>1, LenProperties, EmptySeq
  <2>3. Len(told[c] \o clientUpdates[c])
          = Len(told[c]) + Len(clientUpdates[c])
    BY <2>1, ConcatProperties
  <2>4. Len(<<>>) = 0
    OBVIOUS
  <2> QED BY <2>2, <2>3, <2>4 DEF Arrivals
<1>4. h' = h
  BY <1>2 DEF Arrivals
<1>5. (~Alive)' = TRUE
  BY <1>2 DEF Alive
<1> QED BY <1>1, <1>2, <1>3, <1>4, <1>5 DEF News!Crash

\* All other steps.
LEMMA RestIsNoNews ==
  ASSUME IInv, [Next]_vars, ~PushToOther,
         \A c \in Client : ~CreatePlayer(c) /\ ~SendUpdate(c) /\ ~JoinTwice(c)
  PROVE  UNCHANGED News!newsVars
<1> USE DEF mainVars, registryVars, globalVars, updaterVars, dataVars,
            mainFrame
<1>1. ASSUME NEW c \in Client,
             PeerStep(c) \/ HandlerStep(c) \/ SafetyStep(c)
      PROVE  /\ UNCHANGED <<hasPlayer, told, clientUpdates, uPc, mPc>>
  BY <1>1 DEF PeerStep, HandlerStep, SafetyStep, Connect, CloseIntern,
     LockGlobal, PostUpdate, RaiseGlobal, TakeSnapshot, Unregister, LeaveLoop,
     ListClient, ReapClient
<1>2. ASSUME NEW c \in Client, UpdaterStep(c) \/ SendReturns(c)
      PROVE  /\ UNCHANGED <<hasPlayer, told, clientUpdates>>
             /\ Alive /\ Alive'
  BY <1>2 DEF UpdaterStep, SendReturns, SuspendHandler, ResponseNone,
     ResponseClose, JoinAndReturn, ResumeHandler, Update, Alive, IInv, Types
<1>3. ASSUME CallHandleUpdates \/ RoundStep
      PROVE  /\ UNCHANGED <<hasPlayer, told, clientUpdates>>
             /\ Alive /\ Alive'
  BY <1>3 DEF CallHandleUpdates, RoundStep, PassClient, TakeUpClient,
     ReturnFromUpdates, TakeFront, SkipPoster, PopFront, NextClient, Main,
     Alive
<1>4. /\ UNCHANGED <<hasPlayer, told, clientUpdates>>
      /\ UNCHANGED <<uPc, mPc>> \/ (Alive /\ Alive')
  BY <1>1, <1>2, <1>3 DEF Next, vars
<1>5. [c \in Client |-> Arrivals(c)]' = [c \in Client |-> Arrivals(c)]
  BY <1>4 DEF Arrivals
<1>6. (~Alive)' = ~Alive
  BY <1>4 DEF Alive
<1> QED BY <1>4, <1>5, <1>6 DEF News!newsVars

\* The server of a crashed thread takes no step.
LEMMA CrashIsFinal == Next => Alive
  BY DEF Next, PeerStep, HandlerStep, UpdaterStep, SendReturns, SafetyStep,
     Connect, CreatePlayer, CloseIntern, LockGlobal, PostUpdate, RaiseGlobal,
     TakeSnapshot, Unregister, LeaveLoop, Handler, SuspendHandler, SendUpdate,
     ResponseNone, ResponseClose, JoinAndReturn, ResumeHandler, Update,
     ListClient, ReapClient, JoinTwice, CallHandleUpdates, RoundStep,
     PassClient, TakeUpClient, ReturnFromUpdates, TakeFront, SkipPoster,
     PushToOther, PopFront, NextClient, Main

LEMMA NextNews ==
  ASSUME IInv, ToldInv, PlayerInv, [Next]_vars
  PROVE  [News!NewsNext]_(News!newsVars)
<1>1. CASE UNCHANGED News!newsVars
  BY <1>1
<1>2. CASE ~UNCHANGED News!newsVars
  <2>1. Alive
    <3>1. CASE UNCHANGED vars
      <4>1. FALSE
        BY <1>2, <3>1 DEF vars, News!newsVars, Arrivals, Alive
      <4> QED BY <4>1
    <3> QED BY <3>1, CrashIsFinal
  <2>2. \/ PushToOther
        \/ \E c \in Client : CreatePlayer(c) \/ SendUpdate(c) \/ JoinTwice(c)
    BY <1>2, RestIsNoNews
  <2>3. \/ \E c \in Client : News!Join(c) \/ News!Crash(c)
        \/ \E c, d \in Client : News!Hear(d, c)
    BY <1>2, <2>2, CreateJoins, PushIsHeard, SendIsNoNews, JoinIsCrash
  <2> QED BY <2>1, <2>3 DEF News!NewsNext
<1> QED BY <1>1, <1>2

\* The broadcast implements JoinNews.
THEOREM ImplementsNews == Spec => IsNews
<1>1. Init => PlayerInv
  BY DEF Init, PlayerInv
<1> QED
  BY <1>1, InitNews, NextNews, NextPlayerInv, InitToldInv, NextToldInv,
     AlwaysIInv, PTL DEF Spec, IsNews, News!NewsSpec
-----------------------------------------------------------------------------
(* The listing of clients is that of the intake.                           *)

\* If the clients that have come are those up to c, c is the newest.
LEMMA BuiltIs ==
  ASSUME NEW n \in 0..MaxClients, NEW at,
         \A c \in Client : at[c] # "absent" <=> c <= n
  PROVE  Cardinality({c \in Client : at[c] # "absent"}) = n
<1>1. n \in Nat
  BY UpdateBroadcastAssumption
<1>2. {c \in Client : at[c] # "absent"} = 1..n
  BY <1>1, UpdateBroadcastAssumption DEF Client
<1>3. Cardinality(1..n) = n
  <2>1. Cardinality(1..n) = IF 1 > n THEN 0 ELSE n - 1 + 1
    BY <1>1, FS_Interval
  <2> QED BY <1>1, <2>1
<1> QED BY <1>2, <1>3

\* A client that waits to be listed is the newest.
LEMMA WaitingIsNewest ==
  ASSUME IInv, LaterInv, NEW c \in InTransit
  PROVE  Built = c
<1>1. c \in Client /\ c \in 0..MaxClients /\ c \in Nat
  BY UpdateBroadcastAssumption DEF InTransit, Client
<1>2. phase[c] \notin {"absent", "gone"} /\ c \notin ToSet(clients)
  BY DEF InTransit
<1>3. ASSUME NEW d \in Client, phase[d] # "absent"
      PROVE  d <= c
  <2> SUFFICES ASSUME ~ (d <= c) PROVE FALSE
    OBVIOUS
  <2>1. c \in 1..(d - 1)
    BY <1>1 DEF Client
  <2> QED BY <1>2, <1>3, <2>1 DEF LaterInv, EarlierListed
<1>4. ASSUME NEW d \in Client, d <= c
      PROVE  phase[d] # "absent"
  <2>1. CASE d = c
    BY <1>2, <2>1
  <2>2. CASE d # c
    <3>1. d \in 1..(c - 1)
      BY <1>1, <1>4, <2>2 DEF Client
    <3> QED BY <1>1, <1>2, <3>1 DEF LaterInv, EarlierListed
  <2> QED BY <2>1, <2>2
<1> QED BY <1>1, <1>3, <1>4, BuiltIs DEF Built

\* When a client is built, it is the next, and nobody waits to be listed.
LEMMA ConnectOffers ==
  ASSUME IInv, LaterInv, NEW c \in Client, Connect(c)
  PROVE  Intake!Offer
<1>1. /\ phase[c] = "absent" /\ phase' = [phase EXCEPT ![c] = "login"]
      /\ clients' = clients
      /\ \A d \in 1..(c - 1) : phase[d] = "gone" \/ d \in ToSet(clients)
  BY DEF Connect, mainVars
<1>2. c \in Nat /\ c - 1 \in 0..MaxClients /\ c \in 1..MaxClients
  BY UpdateBroadcastAssumption DEF Client
<1>3. ASSUME NEW d \in Client
      PROVE  phase[d] # "absent" <=> d <= c - 1
  <2>1. CASE d <= c - 1
    <3>1. d \in 1..(c - 1)
      BY <1>2, <2>1 DEF Client
    <3> QED BY <1>1, <2>1, <3>1 DEF LaterInv, EarlierListed
  <2>2. CASE ~ (d <= c - 1)
    <3>1. d = c \/ c \in 1..(d - 1)
      BY <1>2, <2>2 DEF Client
    <3>2. c \notin ToSet(clients)
      BY <1>1 DEF LaterInv, EarlierListed
    <3> QED BY <1>1, <2>2, <3>1, <3>2 DEF LaterInv, EarlierListed
  <2> QED BY <2>1, <2>2
<1>4. Built = c - 1
  BY <1>2, <1>3, BuiltIs DEF Built
<1>5. InTransit = {}
  BY <1>1, <1>2, <1>3 DEF InTransit, Client
<1>6. c \in InTransit'
  <2>1. c \notin ToSet(clients)
    BY <1>1 DEF LaterInv, EarlierListed
  <2> QED BY <1>1, <2>1 DEF InTransit, IInv, Types
<1>7. Built' = c
  <2>1. \A d \in Client : phase'[d] # "absent" <=> d <= c
    BY <1>1, <1>2, <1>3 DEF IInv, Types, Client
  <2>2. c \in 0..MaxClients
    BY <1>2
  <2> QED BY <2>1, <2>2, BuiltIs DEF Built
<1>8. {d \in Client : phase'[d] = "gone"} = {d \in Client : phase[d] = "gone"}
  BY <1>1 DEF IInv, Types
<1> QED BY <1>1, <1>2, <1>4, <1>5, <1>6, <1>7, <1>8 DEF Intake!Offer

\* What is left of the list when one client is erased.
LEMMA ReapReaps ==
  ASSUME IInv, LaterInv, NEW c \in Client, ReapClient(c)
  PROVE  Intake!Reap
<1>1. /\ clients \in Seq(Client) /\ DOMAIN clients = 1..Len(clients)
      /\ \A j, k \in 1..Len(clients) : clients[j] = clients[k] => j = k
  BY LenProperties DEF IInv, Types, Distinct
<1>2. PICK i \in 1..Len(clients) : clients[i] = c
                                   /\ clients' = RemoveAt(clients, i)
  BY <1>1 DEF ReapClient
<1>3. /\ phase[c] = "closed" /\ phase' = [phase EXCEPT ![c] = "gone"]
      /\ phase \in [Client -> Phase]
  BY DEF ReapClient, IInv, Types
<1>4. ToSet(clients') = ToSet(clients) \ {c}
  BY <1>1, <1>2, ToSetRemoveAt
<1>5. InTransit' = InTransit
  <2>1. c \in ToSet(clients)
    BY <1>1, <1>2 DEF ToSet
  <2> QED BY <1>3, <1>4, <2>1 DEF InTransit
<1>6. Built' = Built
  BY <1>3 DEF Built
<1>7. {d \in Client : phase'[d] = "gone"} =
        {d \in Client : phase[d] = "gone"} \cup {c}
  BY <1>3
<1>8. /\ clients' = RemoveAt(clients, i)
      /\ {d \in Client : phase'[d] = "gone"} =
           {d \in Client : phase[d] = "gone"} \cup {clients[i]}
  BY <1>2, <1>7
<1>9. i \in DOMAIN clients
  BY <1>1
<1> QED
  BY <1>5, <1>6, <1>8, <1>9 DEF Intake!Reap, Intake!RemoveAt, RemoveAt

\* Listing takes over the client that waits.
LEMMA ListTakes ==
  ASSUME IInv, LaterInv, NEW c \in Client, ListClient(c)
  PROVE  Intake!Take
<1>1. /\ phase' = phase /\ phase[c] \notin {"absent", "gone"}
      /\ c \notin ToSet(clients) /\ clients' = Append(clients, c)
  BY DEF ListClient
<1>2. c \in InTransit /\ Built = c
  <2>1. c \in InTransit
    BY <1>1 DEF InTransit
  <2> QED BY <2>1, WaitingIsNewest
<1>3. Built' = Built
  BY <1>1 DEF Built
<1>4. c \notin InTransit'
  <2>1. c \in ToSet(clients')
    BY <1>1, AppendNoRepeat DEF IInv, Types
  <2> QED BY <2>1 DEF InTransit
<1>5. /\ (IF Built \in InTransit THEN <<Built>> ELSE <<>>) = <<c>>
      /\ (IF Built' \in InTransit' THEN <<Built'>> ELSE <<>>) = <<>>
  BY <1>2, <1>3, <1>4
<1>6. Head(<<c>>) = c /\ Tail(<<c>>) = <<>> /\ <<c>> # <<>>
  OBVIOUS
<1> QED BY <1>1, <1>3, <1>5, <1>6 DEF Intake!Take

\* All else changes nothing of who is built, waiting, listed or gone.
LEMMA RestKeepsIntake ==
  ASSUME IInv, [Next]_vars,
         \A c \in Client : ~Connect(c) /\ ~ListClient(c) /\ ~ReapClient(c)
  PROVE  UNCHANGED Intake!mvars
<1> USE DEF mainVars, registryVars, globalVars, updaterVars, dataVars,
            mainFrame
<1>1. /\ clients' = clients
      /\ \A d \in Client : /\ (phase'[d] = "absent" <=> phase[d] = "absent")
                            /\ (phase'[d] = "gone" <=> phase[d] = "gone")
  <2>1. ASSUME NEW c \in Client, PeerStep(c) \/ HandlerStep(c)
        PROVE  /\ clients' = clients
               /\ \A d \in Client :
                     /\ (phase'[d] = "absent" <=> phase[d] = "absent")
                     /\ (phase'[d] = "gone" <=> phase[d] = "gone")
    BY <2>1 DEF PeerStep, HandlerStep, CreatePlayer, CloseIntern, LockGlobal,
       PostUpdate, RaiseGlobal, TakeSnapshot, Unregister, LeaveLoop, Handler,
       IInv, Types
  <2>2. ASSUME NEW c \in Client, UpdaterStep(c) \/ SendReturns(c)
        PROVE  UNCHANGED <<clients, phase>>
    BY <2>2, UpdaterFrame
  <2>3. CASE CallHandleUpdates \/ RoundStep
    BY <2>3 DEF CallHandleUpdates, RoundStep, PassClient, TakeUpClient,
       ReturnFromUpdates, TakeFront, SkipPoster, PushToOther, PopFront,
       NextClient
  <2>4. CASE UNCHANGED vars
    BY <2>4 DEF vars
  <2>5. ASSUME NEW c \in Client, JoinTwice(c)
        PROVE  UNCHANGED <<clients, phase>>
    BY <2>5, JoinFrame
  <2> QED BY <2>1, <2>2, <2>3, <2>4, <2>5 DEF Next, SafetyStep
<1>2. /\ Built' = Built /\ InTransit' = InTransit
      /\ {d \in Client : phase'[d] = "gone"} =
           {d \in Client : phase[d] = "gone"}
  BY <1>1 DEF Built, InTransit
<1> QED BY <1>1, <1>2 DEF Intake!mvars

\* The clients whose news are broadcast come and go as the intake, which
\* implements the same specification (ConnectionIntakeProofs), has them do:
\* Connect is Offer, ListClient is Take, ReapClient is Reap.
THEOREM ListsLikeIntake == Spec => IsIntake
<1>1. Init => Intake!MInit
  <2> SUFFICES ASSUME Init PROVE Intake!MInit
    OBVIOUS
  <2>1. \A c \in Client : phase[c] = "absent"
    BY DEF Init
  <2>2. Built = 0
    <3>1. 0 \in 0..MaxClients /\ \A c \in Client : ~ (c <= 0)
      BY UpdateBroadcastAssumption DEF Client
    <3> QED BY <2>1, <3>1, BuiltIs DEF Built
  <2>3. InTransit = {}
    BY <2>1 DEF InTransit
  <2>4. {c \in Client : phase[c] = "gone"} = {}
    BY <2>1
  <2> QED BY <2>2, <2>3, <2>4 DEF Init, Intake!MInit
<1>2. IInv /\ LaterInv /\ [Next]_vars => [Intake!MNext]_Intake!mvars
  <2> SUFFICES ASSUME IInv, LaterInv, [Next]_vars
               PROVE  Intake!MNext \/ UNCHANGED Intake!mvars
    OBVIOUS
  <2>1. ASSUME NEW c \in Client,
               Connect(c) \/ ListClient(c) \/ ReapClient(c)
        PROVE  Intake!MNext
    BY <2>1, ConnectOffers, ListTakes, ReapReaps DEF Intake!MNext
  <2> QED BY <2>1, RestKeepsIntake
<1> QED
  BY <1>1, <1>2, AlwaysIInv, InitToldInv, NextToldInv, InitLaterInv,
     NextLaterInv, PTL DEF Spec, IsIntake, Intake!MSpec
=============================================================================
