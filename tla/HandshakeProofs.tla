--------------------------- MODULE HandshakeProofs ---------------------------
(***************************************************************************)
(* Proofs about Handshake, for any number of registries.                   *)
(***************************************************************************)
EXTENDS Handshake, SequenceTheorems, TLAPS

-----------------------------------------------------------------------------
(* The inductive invariant: what the point in the dialogue says of the     *)
(* rest of the state.                                                      *)

\* Points before the player is created, and from there to its announcement.
BeforePlayer == {"version", "intent", "status", "ping", "pong", "loginStart",
                 "uuid", "loginAck", "config", "knownPacks", "registry",
                 "finishAck", "createPlayer"}
Joining == {"play", "moved", "teleport", "position", "announce"}

Absent  == player = 0 /\ globalUpdates = 0 /\ ~registered
Present == player = 1 /\ globalUpdates = 1 /\ registered

PlayerByPoint ==
  /\ pc \in BeforePlayer => Absent
  /\ pc \in Joining => player = 1 /\ globalUpdates = 0 /\ registered
  /\ pc = "snapshot" => Present
  /\ pc \in {"time", "idle"} => Absent \/ Present
  /\ pc = "closed" => ~registered
  /\ player <= 1 /\ globalUpdates <= player

\* What is known of a connection that has not said yet what it is for.
Fresh ==
  status = "NONE" => /\ pc \in {"idle", "version", "intent", "closed"}
                     /\ player = 0 /\ globalUpdates = 0
                     /\ peerPhase = "handshake"

\* The uuid has been received from loginAck on, and a part of it only from a
\* connection that has ended.
UuidByPoint ==
  /\ pc \in {"loginAck", "config", "knownPacks", "registry", "finishAck",
             "createPlayer"} => uuid # "none"
  /\ uuid = "short" => peer # "up"
  /\ ShortUuidStops

\* The phase of the protocol at each point.
PhaseByPoint ==
  /\ pc \in {"version", "intent"} => peerPhase = "handshake"
  /\ pc \in {"status", "ping", "pong"} => peerPhase = "status"
  /\ pc \in {"loginStart", "uuid", "loginAck"} => peerPhase = "login"
  /\ pc \in {"config", "knownPacks", "registry", "finishAck"}
        => peerPhase = "configuration"
  /\ pc \in Joining \cup {"createPlayer", "snapshot"} => peerPhase = "play"
  /\ pc = "time" => peerPhase = "other" \/ (peerPhase = "play" /\ Present)
  /\ pc = "idle" /\ status # "NONE" => peerPhase = "other" \/ player = 1
  /\ peerPhase = "other" => pc \in {"time", "idle", "closed"}

IInv == /\ TypeOK /\ PlayerByPoint /\ Fresh /\ UuidByPoint /\ PhaseByPoint
        /\ InSyncUntilPlay

LEMMA InitIInv == Init => IInv
<1> SUFFICES ASSUME Init PROVE IInv
  OBVIOUS
<1>1. TypeOK
  <2>1. out \in Seq(Packet) /\ registries \in 0..RegCount
    BY RegCountAssumption DEF Init
  <2> QED BY <2>1 DEF Init, TypeOK, ReadPc, PeerPhase, Status
<1> QED
  BY <1>1 DEF Init, IInv, PlayerByPoint, Fresh, UuidByPoint, PhaseByPoint,
     InSyncUntilPlay, ShortUuidStops, Absent, BeforePlayer, Joining

\* What is sent are packets.
LEMMA SendTyped ==
  ASSUME NEW ps \in Seq(Packet), TypeOK, Send(ps)
  PROVE  out' \in Seq(Packet)
  BY DEF Send, TypeOK

\* What the end of the handler thread leaves behind.
LEMMA CloseFacts ==
  ASSUME Close
  PROVE  /\ pc' = "closed" /\ ~registered' /\ registered' \in BOOLEAN
         /\ player' = player /\ globalUpdates' = globalUpdates
  BY DEF Close

LEMMA NextIInv == IInv /\ [Next]_vars => IInv'
<1> SUFFICES ASSUME IInv, [Next]_vars PROVE IInv'
  OBVIOUS
<1> USE RegCountAssumption, CloseFacts
        DEF IInv, TypeOK, PlayerByPoint, Fresh, UuidByPoint, PhaseByPoint,
            InSyncUntilPlay, ShortUuidStops, Absent, Present, BeforePlayer,
            Joining, ReadPc, RecvPc, WritePc, PeerPhase, Status, playerVars,
            connVars, dialogueVars, Reads, GoTo, Hear, Refuse
<1>1. CASE PeerEnds \/ Throw
  <2>1. CASE PeerEnds
    BY <2>1 DEF PeerEnds
  <2>2. CASE Throw
    BY <2>2 DEF Throw
  <2> QED BY <1>1, <2>1, <2>2
<1>2. CASE ReadStep
  <2>1. CASE FirstPacket
    <3>1. CASE Hear("idle", "version")
      BY <2>1, <3>1 DEF FirstPacket
    <3>2. CASE Refuse("idle", 0)
      BY <2>1, <3>2 DEF FirstPacket
    <3> QED BY <2>1, <3>1, <3>2 DEF FirstPacket
  <2>2. CASE IgnoredPacket
    <3>1. sync' \in BOOLEAN /\ pc = "idle" /\ status # "NONE"
      BY <2>2 DEF IgnoredPacket
    <3>2. UNCHANGED <<pc, status, peer, peerPhase, out, registries, uuid,
                      playerVars>>
      BY <2>2 DEF IgnoredPacket
    <3> QED BY <3>1, <3>2
  <2>3. CASE ReadVersion
    BY <2>3 DEF ReadVersion
  <2>4. CASE ReadIntent
    BY <2>4 DEF ReadIntent
  <2>5. CASE SkipRequest \/ LoginStart
    BY <2>5 DEF SkipRequest, LoginStart
  <2>6. CASE LoginAcknowledged
    BY <2>6 DEF LoginAcknowledged
  <2>7. CASE ConfigurationPacket
    BY <2>7 DEF ConfigurationPacket
  <2>8. CASE FinishAcknowledged
    BY <2>8 DEF FinishAcknowledged
  <2>9. CASE MaybeMoved
    <3>1. sync' \in BOOLEAN /\ pc = "moved" /\ pc' = "teleport"
      BY <2>9 DEF MaybeMoved, OptionalPacket
    <3>2. UNCHANGED <<status, peer, peerPhase, out, registries, uuid,
                      playerVars>>
      BY <2>9 DEF MaybeMoved, OptionalPacket
    <3> QED BY <3>1, <3>2
  <2>10. CASE TeleportConfirmed
    BY <2>10 DEF TeleportConfirmed
  <2>11. CASE MaybePositioned
    <3>1. sync' \in BOOLEAN /\ pc = "position" /\ pc' = "announce"
      BY <2>11 DEF MaybePositioned, OptionalPacket
    <3>2. UNCHANGED <<status, peer, peerPhase, out, registries, uuid,
                      playerVars>>
      BY <2>11 DEF MaybePositioned, OptionalPacket
    <3> QED BY <3>1, <3>2
  <2> QED
    BY <1>2, <2>1, <2>2, <2>3, <2>4, <2>5, <2>6, <2>7, <2>8, <2>9, <2>10,
       <2>11 DEF ReadStep
<1>3. CASE RecvStep
  <2>1. CASE EchoPing
    <3>1. <<"Pong">> \in Seq(Packet)
      BY DEF Packet, StatusPackets
    <3>2. out' \in Seq(Packet)
      BY <2>1, <3>1, SendTyped DEF EchoPing
    <3> QED BY <2>1, <3>2 DEF EchoPing
  <2>2. CASE ReceiveUuid
    <3>1. <<"LoginSuccess">> \in Seq(Packet)
      BY DEF Packet, LoginPackets
    <3>2. out' \in Seq(Packet)
      BY <2>2, <3>1, SendTyped DEF ReceiveUuid
    <3> QED BY <2>2, <3>2 DEF ReceiveUuid
  <2> QED BY <1>3, <2>1, <2>2 DEF RecvStep
<1>4. CASE WriteStep
  <2>1. CASE SendStatus \/ SendKnownPacks \/ SendTags \/ SendLogin
               \/ SendPlayers \/ SendTime
    <3>1. /\ <<"StatusResponse">> \in Seq(Packet)
          /\ <<"FeatureFlags", "KnownPacks">> \in Seq(Packet)
          /\ <<"UpdateTags", "FinishConfiguration">> \in Seq(Packet)
          /\ <<"Login", "ChangeDifficulty", "PlayerPosition">> \in Seq(Packet)
          /\ <<"PlayerInfoUpdate">> \in Seq(Packet)
          /\ <<"UpdateTime">> \in Seq(Packet)
      BY DEF Packet, StatusPackets, LoginPackets, ConfigPackets, PlayPackets
    <3>2. out' \in Seq(Packet)
      BY <2>1, <3>1, SendTyped DEF SendStatus, SendKnownPacks, SendTags,
         SendLogin, SendPlayers, SendTime, Say
    <3> QED
      BY <2>1, <3>2 DEF SendStatus, SendKnownPacks, SendTags, SendLogin,
         SendPlayers, SendTime, Say
  <2>2. CASE SendRegistry
    <3>1. <<"RegistryData">> \in Seq(Packet)
      BY DEF Packet, ConfigPackets
    <3>2. out' \in Seq(Packet)
      BY <2>2, <3>1, SendTyped DEF SendRegistry
    <3> QED BY <2>2, <3>2 DEF SendRegistry
  <2>3. CASE CreatePlayer
    BY <2>3 DEF CreatePlayer
  <2>4. CASE AnnounceJoin
    BY <2>4 DEF AnnounceJoin
  <2> QED BY <1>4, <2>1, <2>2, <2>3, <2>4 DEF WriteStep
<1>5. CASE UNCHANGED vars
  BY <1>5 DEF vars
<1> QED BY <1>1, <1>2, <1>3, <1>4, <1>5 DEF Next

LEMMA AlwaysIInv == Spec => []IInv
  BY InitIInv, NextIInv, PTL DEF Spec

\* The state always has its type.
THEOREM TypeCorrect == Spec => []TypeOK
<1>1. IInv => TypeOK
  BY DEF IInv
<1> QED BY <1>1, AlwaysIInv, PTL

\* One connection makes one player at most and announces it once, and the
\* player is in the list exactly as long as the connection is not closed.
THEOREM PlayerOnce == Spec => []JoinedOnce
<1>1. IInv => JoinedOnce
  <2> SUFFICES ASSUME IInv PROVE JoinedOnce
    OBVIOUS
  <2> USE DEF IInv, TypeOK, PlayerByPoint, Absent, Present, BeforePlayer,
              Joining, ReadPc, RecvPc, WritePc
  <2>1. player <= 1 /\ globalUpdates <= player
    OBVIOUS
  <2>2. globalUpdates = 1 => pc \in {"snapshot", "time", "idle", "closed"}
    OBVIOUS
  <2>3. registered <=> (player = 1 /\ pc # "closed")
    OBVIOUS
  <2> QED BY <2>1, <2>2, <2>3 DEF JoinedOnce
<1> QED BY <1>1, AlwaysIInv, PTL

\* A login of whose uuid only a part came goes on past LoginSuccess, and makes
\* a player of it, only over a connection that was closed and then reset.
THEOREM PartialUuid == Spec => []ShortUuidStops
<1>1. IInv => ShortUuidStops
  BY DEF IInv, UuidByPoint
<1> QED BY <1>1, AlwaysIInv, PTL

\* A well-formed login is read packet by packet.
THEOREM LoginInSync == Spec => []InSyncUntilPlay
<1>1. IInv => InSyncUntilPlay
  BY DEF IInv
<1> QED BY <1>1, AlwaysIInv, PTL

-----------------------------------------------------------------------------
(* What is sent fits the phase the peer has asked for.                     *)

Fits == \A i \in (Len(out) + 1)..Len(out') : out'[i] \in PhasePackets

\* What a step adds to out is what it sends.
LEMMA SentIn ==
  ASSUME NEW S, NEW ps \in Seq(S), TypeOK, Send(ps), S \subseteq PhasePackets
  PROVE  Fits
<1> SUFFICES ASSUME NEW i \in (Len(out) + 1)..Len(out')
             PROVE  out'[i] \in S
  BY DEF Fits
<1>1. out' = out \o ps /\ Len(out) \in Nat /\ Len(ps) \in Nat
  BY DEF Send, TypeOK
<1>2. Len(out') = Len(out) + Len(ps) /\ out'[i] = ps[i - Len(out)]
  BY <1>1, ConcatProperties DEF TypeOK
<1>3. i - Len(out) \in 1..Len(ps)
  BY <1>1, <1>2
<1>4. ps[i - Len(out)] \in S
  BY <1>3
<1> QED BY <1>2, <1>4

\* A step that sends nothing.
LEMMA Silent == ASSUME TypeOK, out' = out PROVE Fits
  BY DEF Fits, TypeOK

\* The packets that may be sent where something is sent.
LEMMA PhaseAt ==
  ASSUME IInv
  PROVE  /\ TypeOK
         /\ pc \in {"status", "pong"} => StatusPackets \subseteq PhasePackets
         /\ pc = "uuid" => LoginPackets \subseteq PhasePackets
         /\ pc \in {"config", "registry"} => ConfigPackets \subseteq PhasePackets
         /\ pc \in {"play", "snapshot"} => PlayPackets \subseteq PhasePackets
         /\ pc = "time" => {"UpdateTime"} \subseteq PhasePackets
  BY DEF IInv, PhaseByPoint, Joining, PhasePackets, PlayPackets

LEMMA NextFits == IInv /\ [Next]_vars => Fits
<1> SUFFICES ASSUME IInv, [Next]_vars PROVE Fits
  OBVIOUS
<1>0. TypeOK
  BY PhaseAt
<1>1. CASE PeerEnds \/ Throw \/ ReadStep
  <2>1. CASE PeerEnds \/ Throw
    BY <1>0, <2>1, Silent DEF PeerEnds, Throw, dialogueVars
  <2>2. CASE ReadStep
    <3>1. out' = out
      BY <2>2 DEF ReadStep, FirstPacket, IgnoredPacket, ReadVersion,
         ReadIntent, SkipRequest, LoginStart, LoginAcknowledged,
         ConfigurationPacket, FinishAcknowledged, MaybeMoved,
         TeleportConfirmed, MaybePositioned, OptionalPacket, Hear, Refuse,
         dialogueVars
    <3> QED BY <1>0, <3>1, Silent
  <2> QED BY <1>1, <2>1, <2>2
<1>2. CASE RecvStep
  <2>1. CASE EchoPing
    <3>1. <<"Pong">> \in Seq(StatusPackets) /\ Send(<<"Pong">>)
      BY <2>1 DEF EchoPing, StatusPackets
    <3>2. StatusPackets \subseteq PhasePackets
      BY <2>1, PhaseAt DEF EchoPing
    <3> QED BY <1>0, <3>1, <3>2, SentIn
  <2>2. CASE ReceiveUuid
    <3>1. CASE Send(<<"LoginSuccess">>)
      <4>1. <<"LoginSuccess">> \in Seq(LoginPackets)
        BY DEF LoginPackets
      <4>2. LoginPackets \subseteq PhasePackets
        BY <2>2, PhaseAt DEF ReceiveUuid
      <4> QED BY <1>0, <3>1, <4>1, <4>2, SentIn
    <3>2. CASE out' = out
      BY <1>0, <3>2, Silent
    <3> QED BY <2>2, <3>1, <3>2 DEF ReceiveUuid
  <2> QED BY <1>2, <2>1, <2>2 DEF RecvStep
<1>3. CASE WriteStep
  <2>1. CASE SendStatus
    <3>1. /\ <<"StatusResponse">> \in Seq(StatusPackets)
          /\ Send(<<"StatusResponse">>)
      BY <2>1 DEF SendStatus, Say, StatusPackets
    <3>2. StatusPackets \subseteq PhasePackets
      BY <2>1, PhaseAt DEF SendStatus, Say
    <3> QED BY <1>0, <3>1, <3>2, SentIn
  <2>2. CASE SendKnownPacks \/ SendRegistry \/ SendTags
    <3>1. PICK ps \in Seq(ConfigPackets) : Send(ps)
      <4>1. /\ <<"FeatureFlags", "KnownPacks">> \in Seq(ConfigPackets)
            /\ <<"RegistryData">> \in Seq(ConfigPackets)
            /\ <<"UpdateTags", "FinishConfiguration">> \in Seq(ConfigPackets)
        BY DEF ConfigPackets
      <4> QED BY <2>2, <4>1 DEF SendKnownPacks, SendRegistry, SendTags, Say
    <3>2. ConfigPackets \subseteq PhasePackets
      BY <2>2, PhaseAt DEF SendKnownPacks, SendRegistry, SendTags, Say
    <3> QED BY <1>0, <3>1, <3>2, SentIn
  <2>3. CASE SendLogin \/ SendPlayers
    <3>1. PICK ps \in Seq(PlayPackets) : Send(ps)
      <4>1. /\ <<"Login", "ChangeDifficulty", "PlayerPosition">>
                 \in Seq(PlayPackets)
            /\ <<"PlayerInfoUpdate">> \in Seq(PlayPackets)
        BY DEF PlayPackets
      <4> QED BY <2>3, <4>1 DEF SendLogin, SendPlayers, Say
    <3>2. PlayPackets \subseteq PhasePackets
      BY <2>3, PhaseAt DEF SendLogin, SendPlayers, Say
    <3> QED BY <1>0, <3>1, <3>2, SentIn
  <2>4. CASE SendTime
    <3>1. /\ <<"UpdateTime">> \in Seq({"UpdateTime"})
          /\ Send(<<"UpdateTime">>)
      BY <2>4 DEF SendTime, Say
    <3>2. {"UpdateTime"} \subseteq PhasePackets
      BY <2>4, PhaseAt DEF SendTime, Say
    <3> QED BY <1>0, <3>1, <3>2, SentIn
  <2>5. CASE CreatePlayer \/ AnnounceJoin
    BY <1>0, <2>5, Silent DEF CreatePlayer, AnnounceJoin, dialogueVars
  <2> QED BY <1>3, <2>1, <2>2, <2>3, <2>4, <2>5 DEF WriteStep
<1>4. CASE UNCHANGED vars
  BY <1>0, <1>4, Silent DEF vars, dialogueVars
<1> QED BY <1>1, <1>2, <1>3, <1>4 DEF Next

\* A packet is only sent in the phase of the protocol it belongs to.
THEOREM SentInPhase == Spec => PacketsFitPhase
<1>1. IInv /\ [Next]_vars => [Fits]_vars
  BY NextFits
<1> QED BY <1>1, AlwaysIInv, PTL DEF Spec, PacketsFitPhase, Fits

-----------------------------------------------------------------------------
(* One script per connection.                                              *)

\* The script the peer has asked for.
Script == CASE peerPhase = "status" -> StatusScript
            [] peerPhase = "other"  -> <<"UpdateTime">>
            [] OTHER                -> LoginScript

\* What of it is still to be sent, at the points where something is.
ToCome ==
  CASE pc = "status"                  -> StatusScript
    [] pc \in {"ping", "pong"}        -> <<"Pong">>
    [] pc \in {"loginStart", "uuid"}  -> LoginScript
    [] pc \in {"loginAck", "config"}  -> <<"FeatureFlags", "KnownPacks">>
                                  \o (Registries(RegCount) \o AfterRegistries)
    [] pc = "knownPacks"              -> Registries(RegCount) \o AfterRegistries
    [] pc = "registry"                ->
         Registries(RegCount - registries) \o AfterRegistries
    [] pc \in {"finishAck", "createPlayer", "play"} ->
         <<"Login", "ChangeDifficulty", "PlayerPosition",
           "PlayerInfoUpdate", "UpdateTime">>
    [] pc \in {"moved", "teleport", "position", "announce", "snapshot"} ->
         <<"PlayerInfoUpdate", "UpdateTime">>
    [] OTHER                          -> <<"UpdateTime">>

Listening == {"version", "intent"}

Start == Listening \cup {"status", "ping", "pong", "loginStart", "uuid",
                         "loginAck", "config", "knownPacks"}

OnScript ==
  /\ pc \notin Listening \cup {"idle", "closed"} => out \o ToCome = Script
  /\ pc \in Listening \/ status = "NONE" => out = <<>>
  /\ pc \in Start => registries = 0
  /\ status = "NONE" => registries = 0
  /\ OneScript

\* Packets sent are taken from the front of what is to come.
LEMMA TakeFront ==
  ASSUME NEW o \in Seq(Packet), NEW ps \in Seq(Packet), NEW t \in Seq(Packet)
  PROVE  /\ (o \o ps) \o t = o \o (ps \o t)
         /\ IsPrefix(o, o \o t)
<1>1. (o \o ps) \o t = o \o (ps \o t)
  BY ConcatAssociative
<1>2. IsPrefix(o, o \o t)
  <2>1. /\ o \o t \in Seq(Packet) /\ Len(o) \in Nat /\ Len(t) \in Nat
        /\ Len(o \o t) = Len(o) + Len(t)
        /\ \A i \in 1..Len(o) : o[i] \in Packet /\ (o \o t)[i] = o[i]
    BY ConcatProperties
  <2>2. /\ SubSeq(o, 1, Len(o)) = o
        /\ SubSeq(o \o t, 1, Len(o)) \in Seq(Packet)
        /\ Len(SubSeq(o \o t, 1, Len(o))) = Len(o)
        /\ \A i \in 1..Len(o) : SubSeq(o \o t, 1, Len(o))[i] = o[i]
    BY <2>1, SubSeqProperties, SubSeqFull
  <2>3. SubSeq(o \o t, 1, Len(o)) = o
    BY <2>2, SeqEqual
  <2> QED BY <2>1, <2>2, <2>3 DEF IsPrefix
<1> QED BY <1>1, <1>2

LEMMA Regroup ==
  ASSUME NEW o \in Seq(Packet), NEW ps \in Seq(Packet), NEW t \in Seq(Packet),
         NEW both, both = o \o ps
  PROVE  both \o t = o \o (ps \o t)
  BY TakeFront

\* One registry packet after the other.
LEMMA RegistriesFront ==
  ASSUME NEW n \in Nat
  PROVE  /\ Registries(n) \in Seq(Packet)
         /\ Registries(0) = <<>>
         /\ n > 0 => Registries(n) = <<"RegistryData">> \o Registries(n - 1)
<1>1. ASSUME NEW m \in Nat
      PROVE  Registries(m) \in Seq(Packet) /\ Len(Registries(m)) = m
  BY DEF Registries, Packet, ConfigPackets
<1>2. Registries(0) = <<>>
  BY DEF Registries
<1>3. ASSUME n > 0 PROVE Registries(n) = <<"RegistryData">> \o Registries(n - 1)
  <2> DEFINE r == <<"RegistryData">> \o Registries(n - 1)
  <2>1. /\ <<"RegistryData">> \in Seq(Packet)
        /\ Registries(n - 1) \in Seq(Packet) /\ Len(Registries(n - 1)) = n - 1
    BY <1>1, <1>3 DEF Packet, ConfigPackets
  <2>2. /\ r \in Seq(Packet) /\ Len(r) = n
        /\ \A i \in 1..n : r[i] = "RegistryData"
    BY <1>3, <2>1, ConcatProperties DEF Registries
  <2> QED BY <1>1, <2>2, SeqEqual DEF Registries
<1> QED BY <1>1, <1>2, <1>3

\* All that is ever said is made of packets.
LEMMA ScriptsTyped ==
  /\ AfterRegistries \in Seq(Packet)
  /\ Registries(RegCount) \o AfterRegistries \in Seq(Packet)
  /\ StatusScript \in Seq(Packet) /\ LoginScript \in Seq(Packet)
  /\ <<"UpdateTime">> \in Seq(Packet)
  /\ LoginScript = <<"LoginSuccess">> \o (<<"FeatureFlags", "KnownPacks">>
                      \o (Registries(RegCount) \o AfterRegistries))
<1>1. /\ AfterRegistries \in Seq(Packet)
      /\ StatusScript \in Seq(Packet)
      /\ <<"UpdateTime">> \in Seq(Packet)
  BY DEF AfterRegistries, StatusScript, Packet, StatusPackets, ConfigPackets,
     PlayPackets
<1>2. /\ <<"LoginSuccess", "FeatureFlags", "KnownPacks">> \in Seq(Packet)
      /\ <<"LoginSuccess">> \in Seq(Packet)
      /\ <<"FeatureFlags", "KnownPacks">> \in Seq(Packet)
  BY DEF Packet, LoginPackets, ConfigPackets
<1>3. <<"LoginSuccess", "FeatureFlags", "KnownPacks">>
        = <<"LoginSuccess">> \o <<"FeatureFlags", "KnownPacks">>
  OBVIOUS
<1>4. Registries(RegCount) \o AfterRegistries \in Seq(Packet)
  BY <1>1, RegCountAssumption, RegistriesFront, ConcatProperties
<1>5. LoginScript \in Seq(Packet)
  BY <1>2, <1>4, ConcatProperties DEF LoginScript
<1>6. LoginScript = <<"LoginSuccess">> \o (<<"FeatureFlags", "KnownPacks">>
                      \o (Registries(RegCount) \o AfterRegistries))
  <2> DEFINE three == <<"LoginSuccess", "FeatureFlags", "KnownPacks">>
             one   == <<"LoginSuccess">>
             two   == <<"FeatureFlags", "KnownPacks">>
             rest  == Registries(RegCount) \o AfterRegistries
  <2>1. /\ one \in Seq(Packet) /\ two \in Seq(Packet) /\ rest \in Seq(Packet)
        /\ three = one \o two
    BY <1>2, <1>3, <1>4
  <2> HIDE DEF three, one, two, rest
  <2>2. three \o rest = one \o (two \o rest)
    BY <2>1, Regroup
  <2> QED BY <2>2 DEF LoginScript, three, one, two, rest
<1> QED BY <1>1, <1>4, <1>5, <1>6

\* A script said in full, or up to what is still to come, is one script.
LEMMA OnScriptIsOne ==
  ASSUME NEW o \in Seq(Packet), NEW t \in Seq(Packet),
         NEW s \in {LoginScript, StatusScript, <<"UpdateTime">>},
         o \o t = s
  PROVE  \/ IsPrefix(o, LoginScript)
         \/ IsPrefix(o, StatusScript)
         \/ IsPrefix(o, <<"UpdateTime">>)
<1>1. IsPrefix(o, s)
  BY TakeFront
<1> QED BY <1>1

\* The step from one point to the next, when ps is sent.
LEMMA SayOn ==
  ASSUME NEW ps \in Seq(Packet), NEW t \in Seq(Packet), TypeOK,
         Send(ps), out \o (ps \o t) = Script
  PROVE  out' \o t = Script /\ OneScript'
<1>1. out \in Seq(Packet) /\ out' = out \o ps
  BY DEF TypeOK, Send
<1>2. out' \in Seq(Packet)
  BY <1>1, ConcatProperties
<1>3. out' \o t = Script
  BY <1>1, TakeFront
<1>4. Script \in {LoginScript, StatusScript, <<"UpdateTime">>}
  BY DEF Script
<1> QED BY <1>2, <1>3, <1>4, OnScriptIsOne DEF OneScript

\* A step that says the next packets of the script, and does not end it.
LEMMA Saying ==
  ASSUME TypeOK, OnScript, NEW ps \in Seq(Packet), NEW t \in Seq(Packet),
         Send(ps), ToCome = ps \o t, ToCome' = t, Script' = Script,
         status' # "NONE",
         pc \notin Listening \cup {"idle", "closed"},
         pc' \notin Listening,
         pc' \in Start => pc \in Start /\ registries' = registries
  PROVE  OnScript'
<1>1. out \o (ps \o t) = Script
  BY DEF OnScript
<1>2. out' \o t = Script /\ OneScript'
  BY <1>1, SayOn
<1>3. pc' \in Start => registries' = 0
  BY DEF OnScript
<1> QED BY <1>2, <1>3 DEF OnScript

\* A step that says the last packet of the script.
LEMMA SayingLast ==
  ASSUME TypeOK, OnScript, NEW ps \in Seq(Packet),
         Send(ps), ToCome = ps, status' # "NONE",
         pc \notin Listening \cup {"idle", "closed"},
         pc' \in {"idle", "closed"}
  PROVE  OnScript'
<1>1. <<>> \in Seq(Packet) /\ ps \o <<>> = ps
  BY ConcatEmptySeq
<1>2. out \o (ps \o <<>>) = Script
  BY <1>1 DEF OnScript
<1>3. OneScript'
  BY <1>1, <1>2, SayOn
<1> QED BY <1>3 DEF OnScript, Listening, Start

\* A step that sends nothing, in the middle of a script.
LEMMA Silently ==
  ASSUME OnScript, out' = out, registries' = registries, Script' = Script,
         status' # "NONE",
         pc \notin Listening \cup {"idle", "closed"},
         pc' \notin Listening \cup {"idle"},
         pc' = "closed" \/ ToCome' = ToCome,
         pc' \in Start => pc \in Start
  PROVE  OnScript'
<1>1. OneScript'
  BY DEF OnScript, OneScript
<1>2. pc' # "closed" => out' \o ToCome' = Script'
  BY DEF OnScript
<1>3. pc' \in Start => registries' = 0
  BY DEF OnScript
<1> QED BY <1>1, <1>2, <1>3 DEF OnScript, Listening

LEMMA InitOnScript == Init => OnScript
<1> SUFFICES ASSUME Init PROVE OnScript
  OBVIOUS
<1>1. OneScript
  <2>1. <<>> \in Seq(Packet) /\ <<>> \o StatusScript = StatusScript
    BY ScriptsTyped, ConcatEmptySeq
  <2> QED BY <2>1, ScriptsTyped, OnScriptIsOne DEF OneScript, Init
<1> QED BY <1>1 DEF Init, OnScript, Listening, Start

LEMMA NextOnScript == IInv /\ OnScript /\ [Next]_vars => OnScript'
<1> SUFFICES ASSUME IInv, OnScript, [Next]_vars PROVE OnScript'
  OBVIOUS
<1>0. TypeOK /\ out \in Seq(Packet)
  BY DEF IInv, TypeOK
<1> USE DEF GoTo, Say, Hear, Refuse, Reads, Close, playerVars, connVars,
            dialogueVars
<1>1. CASE PeerEnds \/ Throw \/ UNCHANGED vars
  BY <1>1 DEF PeerEnds, Throw, vars, OnScript, Script, ToCome, OneScript,
     Listening, Start
\* The handshake.
<1>2. CASE FirstPacket \/ IgnoredPacket \/ ReadVersion
  BY <1>2 DEF FirstPacket, IgnoredPacket, ReadVersion, OnScript, Script,
     ToCome, OneScript, Listening, Start, IInv, Fresh
<1>3. CASE ReadIntent
  <2>1. <<>> \o LoginScript = LoginScript /\ <<>> \o StatusScript = StatusScript
        /\ <<>> \o <<"UpdateTime">> = <<"UpdateTime">>
    BY ScriptsTyped, ConcatEmptySeq
  <2>2. out = <<>> /\ out' = out /\ registries' = registries /\ registries = 0
    BY <1>3 DEF ReadIntent, OnScript, Listening, Start
  <2>3. OneScript'
    BY <2>2 DEF OnScript, OneScript
  <2>4. ToCome' = Script' /\ pc' \notin Listening /\ status' # "NONE"
    BY <1>3 DEF ReadIntent, ToCome, Script, Listening
  <2>5. <<>> \o Script' = Script'
    BY <2>1 DEF Script
  <2> QED BY <2>2, <2>3, <2>4, <2>5 DEF OnScript
\* Where nothing is sent.
<1>4. CASE \/ SkipRequest \/ LoginStart \/ LoginAcknowledged
           \/ FinishAcknowledged \/ TeleportConfirmed \/ CreatePlayer
           \/ AnnounceJoin \/ MaybeMoved \/ MaybePositioned
  <2> USE <1>4 DEF SkipRequest, LoginStart, LoginAcknowledged,
          FinishAcknowledged, TeleportConfirmed, CreatePlayer, AnnounceJoin,
          MaybeMoved, MaybePositioned, OptionalPacket
  <2>1. /\ out' = out /\ registries' = registries
        /\ pc \notin Listening \cup {"idle", "closed"}
        /\ pc' \notin Listening \cup {"idle"}
        /\ pc' \in Start => pc \in Start
    BY DEF Listening, Start
  <2>2. status' # "NONE"
    BY DEF IInv, Fresh
  <2>3. Script' = Script
    BY DEF Script, IInv, PhaseByPoint, Joining
  <2>4. pc' = "closed" \/ ToCome' = ToCome
    BY <2>1 DEF ToCome
  <2> QED BY <2>1, <2>2, <2>3, <2>4, Silently
<1>5. CASE ConfigurationPacket
  <2> USE <1>5 DEF ConfigurationPacket
  <2>1. /\ out' = out /\ registries' = registries /\ registries = 0
        /\ pc = "knownPacks" /\ pc' \in {"knownPacks", "registry", "closed"}
        /\ peerPhase' = peerPhase /\ status' = status /\ status # "NONE"
    BY DEF OnScript, Start, IInv, Fresh
  <2>2. RegCount - 0 = RegCount
    BY RegCountAssumption
  <2>3. pc' = "closed" \/ ToCome' = ToCome
    BY <2>1, <2>2 DEF ToCome
  <2> QED BY <2>1, <2>3, Silently DEF Script, Listening, Start
\* Where something is said.
<1> USE <1>0
<1>6. CASE SendStatus
  <2>1. /\ <<"StatusResponse">> \in Seq(Packet) /\ <<"Pong">> \in Seq(Packet)
        /\ StatusScript = <<"StatusResponse">> \o <<"Pong">>
    <3>1. /\ <<"StatusResponse">> \in Seq(Packet)
          /\ <<"Pong">> \in Seq(Packet)
      BY DEF Packet, StatusPackets
    <3>2. <<"StatusResponse", "Pong">> = <<"StatusResponse">> \o <<"Pong">>
      OBVIOUS
    <3> QED BY <3>1, <3>2 DEF StatusScript
  <2>2. /\ pc = "status" /\ pc' = "ping" /\ Send(<<"StatusResponse">>)
        /\ UNCHANGED <<peerPhase, status, registries>> /\ status # "NONE"
    BY <1>6 DEF SendStatus, IInv, Fresh
  <2>3. ToCome = StatusScript /\ ToCome' = <<"Pong">> /\ Script' = Script
    BY <2>2 DEF ToCome, Script
  <2> QED BY <2>1, <2>2, <2>3, Saying DEF Listening, Start
<1>7. CASE EchoPing
  <2>1. /\ pc = "pong" /\ pc' = "closed" /\ Send(<<"Pong">>)
        /\ status' = status /\ status # "NONE"
    BY <1>7 DEF EchoPing, IInv, Fresh
  <2>2. <<"Pong">> \in Seq(Packet)
    BY DEF Packet, StatusPackets
  <2>3. ToCome = <<"Pong">>
    BY <2>1 DEF ToCome
  <2> QED BY <2>1, <2>2, <2>3, SayingLast DEF Listening
<1>8. CASE ReceiveUuid
  <2> DEFINE rest == <<"FeatureFlags", "KnownPacks">>
                       \o (Registries(RegCount) \o AfterRegistries)
  <2>1. /\ pc = "uuid" /\ UNCHANGED <<peerPhase, status, registries>>
        /\ status # "NONE"
        /\ \/ pc' = "loginAck" /\ Send(<<"LoginSuccess">>)
           \/ pc' = "closed" /\ out' = out
    BY <1>8 DEF ReceiveUuid, IInv, Fresh
  <2>2. CASE pc' = "closed" /\ out' = out
    BY <2>1, <2>2, Silently DEF Script, Listening, Start
  <2>3. CASE pc' = "loginAck" /\ Send(<<"LoginSuccess">>)
    <3>1. /\ <<"LoginSuccess">> \in Seq(Packet)
          /\ <<"FeatureFlags", "KnownPacks">> \in Seq(Packet)
      BY DEF Packet, LoginPackets, ConfigPackets
    <3>2. rest \in Seq(Packet)
      BY <3>1, ScriptsTyped, ConcatProperties
    <3>3. /\ ToCome = LoginScript /\ ToCome' = rest /\ Script' = Script
      BY <2>1, <2>3 DEF ToCome, Script
    <3>4. LoginScript = <<"LoginSuccess">> \o rest
      BY ScriptsTyped
    <3> HIDE DEF rest
    <3>5. ToCome = <<"LoginSuccess">> \o rest
      BY <3>3, <3>4
    <3> QED
      BY <2>1, <2>3, <3>1, <3>2, <3>3, <3>5, Saying DEF Listening, Start
  <2> QED BY <2>1, <2>2, <2>3
<1>9. CASE SendKnownPacks
  <2> DEFINE rest == Registries(RegCount) \o AfterRegistries
  <2>1. /\ pc = "config" /\ pc' = "knownPacks"
        /\ Send(<<"FeatureFlags", "KnownPacks">>)
        /\ UNCHANGED <<peerPhase, status, registries>> /\ status # "NONE"
    BY <1>9 DEF SendKnownPacks, IInv, Fresh
  <2>2. <<"FeatureFlags", "KnownPacks">> \in Seq(Packet)
    BY DEF Packet, ConfigPackets
  <2>3. /\ ToCome = <<"FeatureFlags", "KnownPacks">> \o rest
        /\ ToCome' = rest /\ Script' = Script
    BY <2>1 DEF ToCome, Script
  <2>4. rest \in Seq(Packet)
    BY ScriptsTyped
  <2> HIDE DEF rest
  <2> QED BY <2>1, <2>2, <2>3, <2>4, Saying DEF Listening, Start
<1>10. CASE SendRegistry
  <2> DEFINE n == RegCount - registries
             rest == Registries(n - 1) \o AfterRegistries
  <2>1. /\ pc = "registry" /\ pc' = pc /\ Send(<<"RegistryData">>)
        /\ UNCHANGED <<peerPhase, status>> /\ status # "NONE"
        /\ registries' = registries + 1 /\ registries < RegCount
    BY <1>10 DEF SendRegistry, IInv, Fresh
  <2>2. n \in Nat /\ n > 0 /\ n - 1 \in Nat /\ RegCount - registries' = n - 1
    BY <2>1, RegCountAssumption DEF TypeOK
  <2>3. ToCome = Registries(n) \o AfterRegistries
    BY <2>1 DEF ToCome
  <2>4. ToCome' = Registries(RegCount - registries') \o AfterRegistries
    BY <2>1 DEF ToCome
  <2>5. <<"RegistryData">> \in Seq(Packet)
    BY DEF Packet, ConfigPackets
  <2> HIDE DEF n
  <2>6. ToCome' = rest
    BY <2>2, <2>4
  <2>7. /\ Registries(n - 1) \in Seq(Packet)
        /\ Registries(n) = <<"RegistryData">> \o Registries(n - 1)
    BY <2>2, RegistriesFront
  <2>8. rest \in Seq(Packet)
    BY <2>7, ScriptsTyped, ConcatProperties
  <2>9. Registries(n) \o AfterRegistries = <<"RegistryData">> \o rest
    BY <2>5, <2>7, ScriptsTyped, Regroup
  <2> HIDE DEF rest
  <2>10. Script' = Script
    BY <2>1 DEF Script
  <2> QED
    BY <2>1, <2>3, <2>5, <2>6, <2>8, <2>9, <2>10, Saying DEF Listening, Start
<1>11. CASE SendTags
  <2> DEFINE tags == <<"UpdateTags", "FinishConfiguration">>
             rest == <<"Login", "ChangeDifficulty", "PlayerPosition",
                       "PlayerInfoUpdate", "UpdateTime">>
  <2>1. /\ pc = "registry" /\ pc' = "finishAck" /\ Send(tags)
        /\ UNCHANGED <<peerPhase, status, registries>> /\ status # "NONE"
        /\ registries = RegCount
    BY <1>11 DEF SendTags, IInv, Fresh
  <2>2. RegCount - registries = 0
    BY <2>1, RegCountAssumption
  <2>3. ToCome = Registries(0) \o AfterRegistries
    BY <2>1, <2>2 DEF ToCome
  <2>4. /\ ToCome' = rest /\ Script' = Script
    BY <2>1 DEF ToCome, Script
  <2>5. Registries(0) \o AfterRegistries = AfterRegistries
    BY RegistriesFront, ScriptsTyped, ConcatEmptySeq
  <2>6. tags \in Seq(Packet) /\ rest \in Seq(Packet)
    BY DEF Packet, ConfigPackets, PlayPackets
  <2>7. AfterRegistries = tags \o rest
    BY DEF AfterRegistries
  <2> HIDE DEF tags, rest
  <2> QED
    BY <2>1, <2>3, <2>4, <2>5, <2>6, <2>7, Saying DEF Listening, Start
<1>12. CASE SendLogin
  <2> DEFINE login == <<"Login", "ChangeDifficulty", "PlayerPosition">>
             rest  == <<"PlayerInfoUpdate", "UpdateTime">>
  <2>1. /\ pc = "play" /\ pc' = "moved" /\ Send(login)
        /\ UNCHANGED <<peerPhase, status, registries>> /\ status # "NONE"
    BY <1>12 DEF SendLogin, IInv, Fresh
  <2>2. login \in Seq(Packet) /\ rest \in Seq(Packet)
    BY DEF Packet, PlayPackets
  <2>3. <<"Login", "ChangeDifficulty", "PlayerPosition", "PlayerInfoUpdate",
          "UpdateTime">> = login \o rest
    OBVIOUS
  <2>4. ToCome = <<"Login", "ChangeDifficulty", "PlayerPosition",
                   "PlayerInfoUpdate", "UpdateTime">>
    BY <2>1 DEF ToCome
  <2>5. ToCome' = rest /\ Script' = Script
    BY <2>1 DEF ToCome, Script
  <2> HIDE DEF login, rest
  <2> QED BY <2>1, <2>2, <2>3, <2>4, <2>5, Saying DEF Listening, Start
<1>13. CASE SendPlayers
  <2> DEFINE players == <<"PlayerInfoUpdate">>
             rest    == <<"UpdateTime">>
  <2>1. /\ pc = "snapshot" /\ pc' = "time" /\ Send(players)
        /\ UNCHANGED <<peerPhase, status, registries>> /\ status # "NONE"
    BY <1>13 DEF SendPlayers, IInv, Fresh
  <2>2. players \in Seq(Packet) /\ rest \in Seq(Packet)
    BY DEF Packet, PlayPackets
  <2>3. <<"PlayerInfoUpdate", "UpdateTime">> = players \o rest
    OBVIOUS
  <2>4. ToCome = <<"PlayerInfoUpdate", "UpdateTime">>
    BY <2>1 DEF ToCome
  <2>5. ToCome' = rest /\ Script' = Script
    BY <2>1 DEF ToCome, Script
  <2> HIDE DEF players, rest
  <2> QED BY <2>1, <2>2, <2>3, <2>4, <2>5, Saying DEF Listening, Start
<1>14. CASE SendTime
  <2>1. /\ pc = "time" /\ pc' = "idle" /\ Send(<<"UpdateTime">>)
        /\ status' = status /\ status # "NONE"
    BY <1>14 DEF SendTime, IInv, Fresh
  <2>2. ToCome = <<"UpdateTime">>
    BY <2>1 DEF ToCome
  <2> QED BY <2>1, <2>2, ScriptsTyped, SayingLast DEF Listening
<1> QED
  BY <1>1, <1>2, <1>3, <1>4, <1>5, <1>6, <1>7, <1>8, <1>9, <1>10, <1>11,
     <1>12, <1>13, <1>14 DEF Next, ReadStep, RecvStep, WriteStep

\* However its peer behaves, a connection is sent at most one script, in order
\* and once (handlePacket).
THEOREM SaysOneScript == Spec => []OneScript
<1>1. OnScript => OneScript
  BY DEF OnScript
<1> QED BY <1>1, AlwaysIInv, InitOnScript, NextOnScript, PTL DEF Spec
=============================================================================
