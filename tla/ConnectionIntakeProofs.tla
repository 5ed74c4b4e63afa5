----------------------- MODULE ConnectionIntakeProofs -----------------------
(***************************************************************************)
(* Proofs about ConnectionIntake, for any number of accepted connections.  *)
(***************************************************************************)
EXTENDS ConnectionIntake, SequenceLemmas

-----------------------------------------------------------------------------
(* The hand-over of the flag.                                              *)

\* The flag says whose turn it is, and where the one client in transit is.
FlagOwnsQueue ==
  /\ netPc \in {"push", "flag"} => ~hasClient
  /\ mainPc \in {"drain", "pop", "lower"} => hasClient
  /\ ~hasClient /\ netPc # "flag" => clientsQueue = <<>>
  /\ netPc = "flag" => clientsQueue = <<made>>
  /\ mainPc = "pop" => clientsQueue # <<>>
  /\ mainPc = "lower" => clientsQueue = <<>>
  /\ Len(clientsQueue) <= 1

Running == /\ netPc = "unborn" <=> mainPc \in {"construct", "engage"}
           /\ netPc = "wait" => made < MaxAccepts
           /\ netPc \in {"push", "flag"} => made \in Client
           /\ mainPc = "join" => it \in DOMAIN clients

IInv == TypeOK /\ FlagOwnsQueue /\ Running

LEMMA InitIInv == Init => IInv
<1> SUFFICES ASSUME Init PROVE IInv
  OBVIOUS
<1>1. TypeOK
  <2>1. clientsQueue \in Seq(Client) /\ clients \in Seq(Client)
    BY DEF Init
  <2>2. made \in 0..MaxAccepts /\ it \in Nat \ {0}
    BY MaxAcceptsAssumption DEF Init
  <2>3. /\ closed \subseteq Client /\ ended \subseteq Client
        /\ destroyed \subseteq Client
    BY DEF Init
  <2> QED
    BY <2>1, <2>2, <2>3 DEF Init, TypeOK, Status, NetPc, MainPc
<1>2. FlagOwnsQueue
  BY DEF Init, FlagOwnsQueue
<1>3. Running
  BY DEF Init, Running
<1> QED BY <1>1, <1>2, <1>3 DEF IInv

LEMMA NextIInv == IInv /\ [Next]_vars => IInv'
<1> SUFFICES ASSUME IInv, [Next]_vars PROVE IInv'
  OBVIOUS
<1> USE MaxAcceptsAssumption DEF IInv, TypeOK, FlagOwnsQueue, Running,
        netVars, lifeVars, Client, NetPc, MainPc, Status
<1>1. CASE Construct
  BY <1>1 DEF Construct
<1>2. CASE Engage
  BY <1>2 DEF Engage
<1>3. CASE Accept
  BY <1>3 DEF Accept
<1>4. CASE BuildClient
  BY <1>4 DEF BuildClient
<1>5. CASE PushClient
  BY <1>5 DEF PushClient
<1>6. CASE RaiseFlag
  BY <1>6 DEF RaiseFlag
<1>7. CASE CallHandleSafety
  BY <1>7 DEF CallHandleSafety
<1>8. CASE CopyFront
  BY <1>8 DEF CopyFront
<1>9. CASE PopFront
  BY <1>9 DEF PopFront
<1>10. CASE LowerFlag
  BY <1>10 DEF LowerFlag
<1>11. CASE KeepOpen
  BY <1>11 DEF KeepOpen
<1>12. CASE EraseClosed
  BY <1>12 DEF EraseClosed
<1>13. CASE Destroy
  <2>1. clients' \in Seq(Client)
    BY <1>13, RemoveAtProperties DEF Destroy
  <2> QED BY <1>13, <2>1 DEF Destroy
<1>14. CASE ReturnFromSafety
  BY <1>14 DEF ReturnFromSafety
<1>15. ASSUME NEW c \in Client, CloseIntern(c) PROVE IInv'
  BY <1>15 DEF CloseIntern
<1>16. ASSUME NEW c \in Client, ThreadsEnd(c) PROVE IInv'
  BY <1>16 DEF ThreadsEnd
<1>17. CASE FindEmpty
  BY <1>17 DEF FindEmpty
<1>18. CASE UNCHANGED vars
  BY <1>18 DEF vars
<1> QED
  BY <1>1, <1>2, <1>3, <1>4, <1>5, <1>6, <1>7, <1>8, <1>9, <1>10, <1>11,
     <1>12, <1>13, <1>14, <1>15, <1>16, <1>17, <1>18
     DEF Next, NetworkStep, SafetyStep, ClientStep

LEMMA AlwaysIInv == Spec => []IInv
  BY InitIInv, NextIInv, PTL DEF Spec

\* The state always has its type.
THEOREM TypeCorrect == Spec => []TypeOK
<1>1. IInv => TypeOK
  BY DEF IInv
<1> QED BY <1>1, AlwaysIInv, PTL

\* The network thread and the main thread are never inside the queue at once,
\* though no lock is taken: the flag alone keeps them apart.
THEOREM QueueNeverShared == Spec => []QueueNotShared
<1>1. IInv => QueueNotShared
  BY DEF IInv, FlagOwnsQueue, QueueNotShared
<1> QED BY <1>1, AlwaysIInv, PTL

\* The flag only comes down with the queue empty: from the moment the main loop
\* has found it empty, the raised flag keeps the network thread from a push.
THEOREM HandsBackEmpty == Spec => HandBackEmpty
<1>1. IInv /\ [Next]_vars =>
        [hasClient /\ ~hasClient' => clientsQueue = <<>>]_vars
  <2> SUFFICES ASSUME IInv, [Next]_vars, hasClient, ~hasClient'
               PROVE  clientsQueue = <<>>
    OBVIOUS
  <2>1. LowerFlag
    BY DEF Next, NetworkStep, SafetyStep, ClientStep, Construct, Engage,
       Accept, BuildClient, PushClient, RaiseFlag, CallHandleSafety,
       CopyFront, PopFront, FindEmpty, KeepOpen, EraseClosed, Destroy,
       ReturnFromSafety, CloseIntern, ThreadsEnd, vars
  <2> QED BY <2>1 DEF LowerFlag, IInv, FlagOwnsQueue
<1> QED BY <1>1, AlwaysIInv, PTL DEF Spec, HandBackEmpty

-----------------------------------------------------------------------------
(* No client is lost, doubled or overtaken.                                *)

\* The strengthening: the one client in transit is the newest, and the clients
\* in the vector are in order and, with those destroyed, all the others.
Arrived == IF InTransit = <<>> THEN 1..Pushed ELSE 1..(Pushed - 1)

OrderInv ==
  /\ clientsQueue # <<>> => clientsQueue = <<made>> /\ netPc # "push"
  /\ \A i, j \in DOMAIN clients : i < j => clients[i] < clients[j]
  /\ ToSet(clients) \cap destroyed = {}
  /\ ToSet(clients) \cup destroyed = Arrived

\* What the steps that leave the vector and the queue alone have in common.
LEMMA OrderKept ==
  ASSUME OrderInv, Pushed' = Pushed, InTransit' = InTransit,
         clientsQueue' = clientsQueue, made' = made \/ clientsQueue = <<>>,
         netPc' # "push" \/ clientsQueue = <<>>,
         clients' = clients, destroyed' = destroyed
  PROVE  OrderInv'
  BY DEF OrderInv, Arrived

\* The steps that neither fill nor empty the queue or the vector, and what
\* they leave alone.
Elsewhere == \/ Construct \/ Engage \/ Accept \/ RaiseFlag
             \/ CallHandleSafety \/ FindEmpty \/ LowerFlag \/ KeepOpen
             \/ EraseClosed \/ ReturnFromSafety \/ ClientStep \/ UNCHANGED vars

LEMMA ElsewhereKeeps ==
  ASSUME IInv, Elsewhere
  PROVE  /\ clientsQueue' = clientsQueue /\ made' = made
         /\ clients' = clients /\ destroyed' = destroyed
         /\ Pushed' = Pushed /\ InTransit' = InTransit
         /\ netPc' = netPc \/ netPc' # "push"
<1> USE DEF Elsewhere, netVars, lifeVars, ClientStep, Construct, Engage,
        Accept, RaiseFlag, CallHandleSafety, FindEmpty, LowerFlag, KeepOpen,
        EraseClosed, ReturnFromSafety, vars, CloseIntern, ThreadsEnd
<1>1. /\ clientsQueue' = clientsQueue /\ made' = made
      /\ clients' = clients /\ destroyed' = destroyed
  OBVIOUS
<1>2. netPc' = netPc \/ (netPc # "push" /\ netPc' # "push")
  BY DEF IInv, Running
<1>3. mainPc' = mainPc \/ (mainPc # "pop" /\ mainPc' # "pop")
  OBVIOUS
<1> QED BY <1>1, <1>2, <1>3 DEF Pushed, InTransit

LEMMA InitOrderInv == Init => OrderInv
<1> SUFFICES ASSUME Init PROVE OrderInv
  OBVIOUS
<1>1. clients = <<>> /\ clientsQueue = <<>> /\ destroyed = {}
  BY DEF Init
<1>2. InTransit = <<>> /\ Pushed = 0
  BY <1>1 DEF Init, InTransit, Pushed
<1>3. ToSet(clients) = {} /\ DOMAIN clients = {}
  BY <1>1 DEF ToSet
<1> QED BY <1>1, <1>2, <1>3 DEF OrderInv, Arrived

LEMMA TransitIsNewest ==
  ASSUME IInv, OrderInv, InTransit # <<>>
  PROVE  InTransit = <<made>> /\ clientsQueue = <<made>> /\ netPc # "push"
<1>1. mainPc # "pop"
  <2> SUFFICES ASSUME mainPc = "pop" PROVE FALSE
    OBVIOUS
  <2>1. clientsQueue = <<made>>
    BY DEF IInv, FlagOwnsQueue, OrderInv
  <2>2. Tail(clientsQueue) = <<>>
    BY <2>1
  <2> QED BY <2>2 DEF InTransit
<1> QED BY <1>1 DEF InTransit, OrderInv

\* The client in transit, put after those in the vector, completes them.
LEMMA NewestLast ==
  ASSUME IInv, OrderInv, InTransit = <<made>>
  PROVE  LET all == Append(clients, made)
         IN  /\ \A i, j \in DOMAIN all : i < j => all[i] < all[j]
             /\ ToSet(all) \cap destroyed = {}
             /\ ToSet(all) \cup destroyed = 1..made
<1> DEFINE all == Append(clients, made)
<1> USE DEF IInv, TypeOK, Client
<1>1. clientsQueue = <<made>> /\ netPc # "push" /\ made \in Client
  <2>1. clientsQueue = <<made>> /\ netPc # "push"
    BY TransitIsNewest
  <2>2. 1 \in 1..Len(clientsQueue) /\ clientsQueue[1] = made
    BY <2>1
  <2>3. made \in Client
    BY <2>2, ElementOfSeq
  <2> QED BY <2>1, <2>3
<1>2. Arrived = 1..(made - 1)
  BY <1>1 DEF Arrived, Pushed
<1>3. /\ Len(clients) \in Nat
      /\ DOMAIN clients = 1..Len(clients)
      /\ DOMAIN all = 1..(Len(clients) + 1)
      /\ all[Len(clients) + 1] = made
      /\ \A i \in 1..Len(clients) : all[i] = clients[i]
  <2>1. Len(clients) \in Nat /\ DOMAIN clients = 1..Len(clients)
    BY LenProperties
  <2>2. made \in Client /\ clients \in Seq(Client)
    BY <1>1
  <2>3. /\ Len(all) = Len(clients) + 1
        /\ all \in Seq(Client)
        /\ \A i \in 1..Len(clients) : all[i] = clients[i]
        /\ all[Len(clients) + 1] = made
    BY <2>2, AppendProperties
  <2>4. DOMAIN all = 1..Len(all)
    BY <2>3, LenProperties
  <2> QED BY <2>1, <2>3, <2>4
<1> HIDE DEF all
<1>4. ToSet(all) = ToSet(clients) \cup {made}
  BY <1>3 DEF ToSet
<1>5. \A i \in DOMAIN clients : clients[i] \in 1..(made - 1)
  BY <1>2 DEF OrderInv, ToSet
<1>6. \A i, j \in DOMAIN all : i < j => all[i] < all[j]
  BY <1>1, <1>3, <1>5 DEF OrderInv
<1>7. made \notin destroyed
  BY <1>1, <1>2 DEF OrderInv
<1>8. /\ ToSet(all) \cap destroyed = {}
      /\ ToSet(all) \cup destroyed = 1..made
  BY <1>1, <1>2, <1>4, <1>7 DEF OrderInv
<1> QED BY <1>6, <1>8 DEF all

LEMMA CopyFrontOrderInv ==
  ASSUME IInv, OrderInv, CopyFront
  PROVE  OrderInv'
<1>1. clientsQueue = <<made>> /\ netPc # "push" /\ InTransit = <<made>>
  BY DEF CopyFront, OrderInv, InTransit
<1>2. /\ clients' = Append(clients, made) /\ clientsQueue' = <<made>>
      /\ made' = made /\ netPc' = netPc /\ destroyed' = destroyed
      /\ InTransit' = <<>>
  BY <1>1 DEF CopyFront, netVars, InTransit
<1>3. Arrived' = 1..made
  BY <1>1, <1>2 DEF Arrived, Pushed
<1>4. /\ \A i, j \in DOMAIN clients' : i < j => clients'[i] < clients'[j]
      /\ ToSet(clients') \cap destroyed = {}
      /\ ToSet(clients') \cup destroyed = 1..made
  BY <1>1, <1>2, NewestLast
<1> QED BY <1>1, <1>2, <1>3, <1>4 DEF OrderInv

LEMMA DestroyOrderInv ==
  ASSUME IInv, OrderInv, Destroy
  PROVE  OrderInv'
<1> USE DEF IInv, TypeOK, Client
<1>1. clients \in Seq(Client) /\ it \in 1..Len(clients)
  BY LenProperties DEF Running, Destroy
<1>2. /\ clients' = RemoveAt(clients, it)
      /\ destroyed' = destroyed \cup {clients[it]}
      /\ Pushed' = Pushed /\ InTransit' = InTransit
      /\ clientsQueue' = clientsQueue /\ made' = made /\ netPc' = netPc
  BY DEF Destroy, Pushed, InTransit, netVars
<1>3. /\ Len(clients) \in Nat
      /\ DOMAIN clients = 1..Len(clients)
      /\ \A j \in 1..Len(clients) : clients[j] \in Nat
  <2>1. Len(clients) \in Nat /\ DOMAIN clients = 1..Len(clients)
    BY <1>1, LenProperties
  <2>2. \A j \in 1..Len(clients) : clients[j] \in Client
    BY <1>1, ElementOfSeq
  <2> QED BY <2>1, <2>2
<1>4. \A j, k \in 1..Len(clients) : clients[j] = clients[k] => j = k
  BY <1>3 DEF OrderInv
<1>5. ToSet(clients') = ToSet(clients) \ {clients[it]}
  BY <1>1, <1>2, <1>4, ToSetRemoveAt
<1>6. clients[it] \in ToSet(clients)
  BY <1>1, <1>3 DEF ToSet
<1>7. /\ DOMAIN clients' = 1..(Len(clients) - 1)
      /\ \A j \in 1..(Len(clients) - 1) :
            clients'[j] = IF j < it THEN clients[j] ELSE clients[j + 1]
  <2>1. /\ clients' \in Seq(Client)
        /\ Len(clients') = Len(clients) - 1
        /\ \A j \in 1..(Len(clients) - 1) :
              clients'[j] = IF j < it THEN clients[j] ELSE clients[j + 1]
    BY <1>1, <1>2, RemoveAtProperties
  <2>2. DOMAIN clients' = 1..Len(clients')
    BY <2>1, LenProperties
  <2> QED BY <2>1, <2>2
<1>8. \A i, j \in DOMAIN clients' : i < j => clients'[i] < clients'[j]
  <2> SUFFICES ASSUME NEW i \in DOMAIN clients', NEW j \in DOMAIN clients',
                      i < j
               PROVE  clients'[i] < clients'[j]
    OBVIOUS
  <2> DEFINE p == IF i < it THEN i ELSE i + 1
             q == IF j < it THEN j ELSE j + 1
  <2>1. p \in DOMAIN clients /\ q \in DOMAIN clients /\ p < q
    BY <1>1, <1>3, <1>7
  <2>2. clients'[i] = clients[p] /\ clients'[j] = clients[q]
    <3>1. i \in 1..(Len(clients) - 1) /\ j \in 1..(Len(clients) - 1)
      BY <1>7
    <3> QED BY <1>7, <3>1
  <2> HIDE DEF p, q
  <2> QED BY <2>1, <2>2 DEF OrderInv
<1>9. Arrived' = Arrived
  BY <1>2 DEF Arrived
<1>10. /\ ToSet(clients') \cap destroyed' = {}
       /\ ToSet(clients') \cup destroyed' = Arrived'
  BY <1>2, <1>5, <1>6, <1>9 DEF OrderInv
<1> QED BY <1>2, <1>8, <1>10 DEF OrderInv

LEMMA NextOrderInv == IInv /\ OrderInv /\ [Next]_vars => OrderInv'
<1> SUFFICES ASSUME IInv, OrderInv, [Next]_vars PROVE OrderInv'
  OBVIOUS
<1> USE DEF netVars, lifeVars
<1>1. CASE BuildClient
  <2>1. clientsQueue = <<>> /\ made \in Nat
    BY <1>1 DEF BuildClient, IInv, TypeOK, FlagOwnsQueue
  <2>2. Pushed' = Pushed /\ InTransit' = InTransit
    BY <1>1, <2>1 DEF BuildClient, Pushed, InTransit
  <2> QED BY <1>1, <2>1, <2>2, OrderKept DEF BuildClient
<1>2. CASE PushClient
  <2>1. /\ ~hasClient /\ clientsQueue = <<>> /\ mainPc # "pop"
        /\ made \in Nat \ {0}
    BY <1>2 DEF PushClient, IInv, TypeOK, FlagOwnsQueue, Running, Client
  <2>2. clientsQueue' = <<made>> /\ made' = made /\ netPc' = "flag"
    BY <1>2, <2>1 DEF PushClient
  <2>3. clients' = clients /\ destroyed' = destroyed /\ mainPc' = mainPc
    BY <1>2 DEF PushClient
  <2>4. InTransit = <<>> /\ InTransit' = <<made>>
    BY <2>1, <2>2, <2>3 DEF InTransit
  <2>5. Pushed = made - 1 /\ Pushed' = made
    BY <1>2, <2>2 DEF PushClient, Pushed
  <2>6. Arrived' = Arrived
    BY <2>4, <2>5 DEF Arrived
  <2> QED BY <2>2, <2>3, <2>6 DEF OrderInv
<1>3. CASE CopyFront
  BY <1>3, CopyFrontOrderInv
<1>4. CASE PopFront
  <2>1. clientsQueue = <<made>> /\ netPc # "push"
    BY <1>4 DEF PopFront, IInv, FlagOwnsQueue, OrderInv
  <2>2. /\ clientsQueue' = <<>> /\ mainPc' = "drain" /\ clients' = clients
        /\ destroyed' = destroyed /\ netPc' = netPc /\ made' = made
    BY <1>4, <2>1 DEF PopFront
  <2>3. InTransit' = <<>> /\ InTransit = <<>> /\ Pushed' = Pushed
    BY <1>4, <2>1, <2>2 DEF InTransit, Pushed, PopFront
  <2>4. Arrived' = Arrived
    BY <2>3 DEF Arrived
  <2> QED BY <2>1, <2>2, <2>4 DEF OrderInv
<1>5. CASE Destroy
  BY <1>5, DestroyOrderInv
<1>6. CASE Elsewhere
  BY <1>6, ElsewhereKeeps, OrderKept DEF OrderInv
<1> QED
  BY <1>1, <1>2, <1>3, <1>4, <1>5, <1>6
     DEF Next, NetworkStep, SafetyStep, ClientStep, Elsewhere

\* Between accept and the vector of clients, and through its erase loop, no
\* client is lost, doubled or overtaken, however many are accepted.
THEOREM ClientsArriveOnce == Spec => []EveryClientOnce
<1>1. IInv /\ OrderInv => EveryClientOnce
  <2> SUFFICES ASSUME IInv, OrderInv PROVE EveryClientOnce
    OBVIOUS
  <2>1. clients \in Seq(Client)
    BY DEF IInv, TypeOK
  <2>2. CASE InTransit = <<>>
    <3>1. clients \o InTransit = clients
      BY <2>1, <2>2, ConcatEmptySeq
    <3> QED BY <2>2, <3>1 DEF EveryClientOnce, OrderInv, Arrived
  <2>3. CASE InTransit # <<>>
    <3>1. InTransit = <<made>> /\ netPc # "push" /\ clientsQueue = <<made>>
      BY <2>3, TransitIsNewest
    <3>2. clients \o InTransit = Append(clients, made)
      <4>1. clientsQueue \in Seq(Client) /\ 1 \in 1..Len(clientsQueue)
        BY <3>1 DEF IInv, TypeOK
      <4>2. made \in Client
        BY <3>1, <4>1, ElementOfSeq
      <4> QED BY <2>1, <3>1, <4>2, AppendIsConcat
    <3>3. Pushed = made
      BY <3>1 DEF Pushed
    <3> QED BY <3>1, <3>2, <3>3, NewestLast DEF EveryClientOnce
  <2> QED BY <2>2, <2>3
<1> QED BY <1>1, InitOrderInv, NextOrderInv, AlwaysIInv, PTL DEF Spec

\* A client is built, and its threads started, only when all those before it
\* are listed or destroyed.
THEOREM BuildsInTurn == Spec => BuiltInTurn
<1>1. IInv /\ OrderInv /\ [Next]_vars =>
        [made' # made => ToSet(clients) \cup destroyed = 1..made]_vars
  <2> SUFFICES ASSUME IInv, OrderInv, [Next]_vars, made' # made
               PROVE  ToSet(clients) \cup destroyed = 1..made
    OBVIOUS
  <2>1. BuildClient
    BY DEF Next, NetworkStep, SafetyStep, ClientStep, Construct, Engage,
       Accept, PushClient, RaiseFlag, CallHandleSafety, CopyFront, PopFront,
       FindEmpty, LowerFlag, KeepOpen, EraseClosed, Destroy,
       ReturnFromSafety, CloseIntern, ThreadsEnd, netVars, vars
  <2>2. clientsQueue = <<>> /\ mainPc # "pop"
    BY <2>1 DEF BuildClient, IInv, FlagOwnsQueue
  <2>3. InTransit = <<>> /\ Pushed = made
    BY <2>1, <2>2 DEF BuildClient, InTransit, Pushed
  <2> QED BY <2>3 DEF OrderInv, Arrived
<1> QED
  BY <1>1, InitOrderInv, NextOrderInv, AlwaysIInv, PTL DEF Spec, BuiltInTurn

-----------------------------------------------------------------------------
(* The refinement.                                                         *)

\* The intake implements the mailbox of capacity one: a push is an Offer, the
\* copy of the front a Take, a destructor's return a Reap; the rest stutters.
THEOREM ImplementsMailbox == Spec => MailboxSpec
<1> USE DEF netVars, lifeVars
<1>1. Init => Mailbox!MInit
  BY DEF Init, Mailbox!MInit, Pushed, InTransit
<1>2. IInv /\ OrderInv /\ [Next]_vars => [Mailbox!MNext]_Mailbox!mvars
  <2> SUFFICES ASSUME IInv, OrderInv, [Next]_vars
               PROVE  [Mailbox!MNext]_Mailbox!mvars
    OBVIOUS
  <2>1. CASE PushClient
    <3>1. /\ clientsQueue = <<>> /\ mainPc # "pop" /\ made \in Nat
      BY <2>1 DEF PushClient, IInv, TypeOK, FlagOwnsQueue
    <3>2. /\ InTransit = <<>> /\ InTransit' = <<made>>
          /\ Pushed = made - 1 /\ Pushed' = made
      BY <2>1, <3>1 DEF PushClient, InTransit, Pushed
    <3>3. Mailbox!Offer
      BY <2>1, <3>1, <3>2 DEF PushClient, Mailbox!Offer
    <3> QED BY <3>3 DEF Mailbox!MNext
  <2>2. CASE CopyFront
    <3>1. /\ InTransit = clientsQueue /\ InTransit' = Tail(clientsQueue)
          /\ Pushed' = Pushed
      BY <2>2 DEF CopyFront, InTransit, Pushed
    <3>2. Mailbox!Take
      BY <2>2, <3>1 DEF CopyFront, Mailbox!Take
    <3> QED BY <3>2 DEF Mailbox!MNext
  <2>3. CASE Destroy
    <3>1. InTransit' = InTransit /\ Pushed' = Pushed
      BY <2>3 DEF Destroy, InTransit, Pushed
    <3>2. it \in DOMAIN clients
      BY <2>3 DEF Destroy, IInv, Running
    <3>3. /\ clients' = RemoveAt(clients, it)
          /\ destroyed' = destroyed \cup {clients[it]}
      BY <2>3 DEF Destroy
    <3>4. Mailbox!Reap
      BY <3>1, <3>2, <3>3 DEF Mailbox!Reap, Mailbox!RemoveAt, RemoveAt
    <3> QED BY <3>4 DEF Mailbox!MNext
  <2>4. CASE BuildClient
    <3>1. clientsQueue = <<>> /\ made \in Nat
      BY <2>4 DEF BuildClient, IInv, TypeOK, FlagOwnsQueue
    <3>2. Pushed' = Pushed /\ InTransit' = InTransit
      BY <2>4, <3>1 DEF BuildClient, Pushed, InTransit
    <3> QED BY <2>4, <3>2 DEF BuildClient, Mailbox!mvars
  <2>5. CASE PopFront
    <3>1. clientsQueue = <<made>>
      BY <2>5 DEF PopFront, IInv, FlagOwnsQueue, OrderInv
    <3>2. Pushed' = Pushed /\ InTransit' = InTransit
      BY <2>5, <3>1 DEF PopFront, Pushed, InTransit
    <3> QED BY <2>5, <3>2 DEF PopFront, Mailbox!mvars
  <2>6. CASE Elsewhere
    BY <2>6, ElsewhereKeeps DEF Mailbox!mvars
  <2> QED
    BY <2>1, <2>2, <2>3, <2>4, <2>5, <2>6
       DEF Next, NetworkStep, SafetyStep, ClientStep, Elsewhere
<1> QED
  BY <1>1, <1>2, InitOrderInv, NextOrderInv, AlwaysIInv, PTL
     DEF Spec, MailboxSpec, Mailbox!MSpec
=============================================================================
