----------------------------- MODULE Handshake -----------------------------
(***************************************************************************)
(* What the handler thread of one client says and hears: Client::handle    *)
(* around handlePacket (Network/packetHandler.cpp), from the first packet  *)
(* of a connection to its end.                                             *)
(*                                                                         *)
(* handlePacket handles a whole login in one call, reading the packets it  *)
(* expects itself; pc is the point it has reached.  A packet read is its   *)
(* id; its payload matters only in whether the code reads all of it before *)
(* it reads the next length: sync says that it has.  A packet sent is its  *)
(* name.  The peer may send what it likes at every point; its packets are  *)
(* well formed (their lengths are right and their ids take one byte).      *)
(*                                                                         *)
(* The connection may end in two ways, as recv sees it.  After an orderly  *)
(* close it returns 0, and readByte throws.  After an error it returns -1, *)
(* which readByte does not test: it returns a byte that was never written, *)
(* here any value.  recv_all does not throw: after a close it returns the  *)
(* short count it got, after an error -1.  A write ignores both; but what  *)
(* is written to a peer that has closed its socket is answered with a      *)
(* reset, so that the first end may turn into the second at any time.      *)
(***************************************************************************)
EXTENDS Naturals, SequencesExt

CONSTANT RegCount    \* REG_COUNT, the number of registries

ASSUME RegCountAssumption == RegCount \in Nat

VARIABLES
  pc,             \* where the handler thread is
  status,         \* Client::status
  peer,           \* the state of the connection
  peerPhase,      \* the phase of the protocol the peer has asked for so far
  out,            \* the packets sent
  sync,           \* the next byte to read begins a packet
  uuid,           \* what recv_all has put into it: "none", "whole", "short"
  registries,     \* registry packets sent
  player,         \* how often createPlayer was called
  registered,     \* the player is in the list of players
  globalUpdates   \* how many updates were posted

playerVars   == <<player, registered, globalUpdates>>
connVars     == <<peer, peerPhase, sync, registries>>
dialogueVars == <<status, connVars, out, uuid>>

vars == <<pc, playerVars, dialogueVars>>

Status == {"NONE", "HANDSHAKE", "CLIENT_ERR", "CONFIGURATION", "LOGIN"}

\* Points at which the thread reads with readByte, with recv_all alone, and
\* points at which it only writes.
ReadPc == {"idle", "version", "intent", "ping", "loginStart", "loginAck",
           "knownPacks", "finishAck", "moved", "teleport", "position"}

RecvPc == {"pong", "uuid"}

WritePc == {"status", "config", "registry", "createPlayer", "play",
            "announce", "snapshot", "time"}

PeerPhase == {"handshake", "status", "login", "configuration", "play",
              "other"}

\* The ids the code tells apart, in any phase, and one that it does not.
Id == {0, 2, 3, 7, 21, 30, 99}

StatusPackets == {"StatusResponse", "Pong"}
LoginPackets  == {"LoginSuccess"}
ConfigPackets == {"FeatureFlags", "KnownPacks", "RegistryData", "UpdateTags",
                  "FinishConfiguration"}
PlayPackets   == {"Login", "ChangeDifficulty", "PlayerPosition",
                  "PlayerInfoUpdate", "UpdateTime"}

Packet == StatusPackets \cup LoginPackets \cup ConfigPackets
            \cup PlayPackets

Init == /\ pc = "idle"
        /\ status = "NONE"
        /\ peer = "up"
        /\ peerPhase = "handshake"
        /\ out = <<>>
        /\ sync = TRUE
        /\ uuid = "none"
        /\ registries = 0
        /\ player = 0
        /\ registered = FALSE
        /\ globalUpdates = 0

-----------------------------------------------------------------------------
(* The connection, and the end of the handler thread.                      *)

\* A peer closes its socket, or its host resets the connection, be it in answer
\* to what the server wrote after the close.
PeerEnds ==
  /\ \/ peer = "up"     /\ peer' \in {"closed", "reset"}
     \/ peer = "closed" /\ peer' = "reset"
  /\ UNCHANGED <<pc, playerVars, status, peerPhase, sync, registries, out,
                 uuid>>

\* _closeIntern: the socket is closed and the player unregistered.
Close == /\ pc' = "closed"
         /\ registered' = FALSE
         /\ UNCHANGED <<player, globalUpdates>>

\* Mutant: the end of the connection is not noticed.
ThrowUnlessClosed ==
  /\ pc \in ReadPc
  /\ peer = "up"
  /\ Close
  /\ UNCHANGED dialogueVars

\* A read that throws: the peer has closed, or a VarInt has too many bytes, or
\* a string a negative length.
Throw ==
  /\ pc \in ReadPc
  /\ Close
  /\ UNCHANGED dialogueVars

\* Mutant: a close is not noticed either: a byte is returned.
ReadsAnyway(p) == pc = p

\* Something is read: a number, or the header of a packet with its id.
Reads(p) == pc = p /\ peer # "closed"

GoTo(p) == pc' = p /\ UNCHANGED playerVars

Send(ps) == out' = out \o ps

\* Packets are written, and the thread goes on.
Say(from, ps, to) == /\ pc = from
                     /\ Send(ps)
                     /\ GoTo(to)
                     /\ UNCHANGED <<status, connVars, uuid>>

\* What is read is as expected, and the thread goes on.
Hear(from, to) == Reads(from) /\ GoTo(to) /\ UNCHANGED dialogueVars

\* A packet with an id that is not expected here: the response CLOSE.
Refuse(p, expected) ==
  /\ Reads(p)
  /\ \E id \in Id : id # expected
  /\ Close
  /\ UNCHANGED dialogueVars

-----------------------------------------------------------------------------
(* Client::handle: the next packet, by the status of the client.           *)

\* Mutant: whoever has shaken hands may do so again.
FirstPacketAgain ==
  \/ Len(out) < 20 /\ Hear("idle", "version")
  \/ Refuse("idle", 0)

\* The first packet of a connection must be the handshake, 0x00.
FirstPacket ==
  /\ status = "NONE"
  /\ Hear("idle", "version") \/ Refuse("idle", 0)

\* Having shaken hands or logged in: no branch reads the payload, if any.
IgnoredPacket ==
  /\ status \in {"HANDSHAKE", "LOGIN"}
  /\ Reads("idle")
  /\ sync' \in {sync, FALSE}
  /\ UNCHANGED <<pc, playerVars, status, peer, peerPhase, registries, out,
                 uuid>>

\* The version must be 774.
ReadVersion ==
  /\ Reads("version")
  /\ \/ GoTo("intent") /\ UNCHANGED status
     \/ Close /\ status' = "CLIENT_ERR"
  /\ UNCHANGED <<connVars, out, uuid>>

\* Address, port and intent.  Intents 1 and 2 are status and login; with any
\* other one the code goes on behind both branches.
ReadIntent ==
  /\ Reads("intent")
  /\ status' = "HANDSHAKE"
  /\ \/ GoTo("status")     /\ peerPhase' = "status"
     \/ GoTo("loginStart") /\ peerPhase' = "login"
     \/ GoTo("time")       /\ peerPhase' = "other"
  /\ UNCHANGED <<peer, out, sync, registries, uuid>>

-----------------------------------------------------------------------------
(* Intent 1: the status of the server.                                     *)

SendStatus == Say("status", <<"StatusResponse">>, "ping")

\* The status request is skipped unread ...
SkipRequest == Hear("ping", "pong")

\* ... and ten bytes are echoed, or zeros where recv_all got none.
EchoPing ==
  /\ pc = "pong"
  /\ Send(<<"Pong">>)
  /\ Close
  /\ UNCHANGED <<status, connVars, uuid>>

-----------------------------------------------------------------------------
(* Intent 2: login and configuration.                                      *)

\* The name is read.
LoginStart == Hear("loginStart", "uuid") \/ Refuse("loginStart", 0)

\* recv_all: 16 bytes; fewer of them, which is not noticed, if the connection
\* is closed meanwhile; or -1, and the response is CLOSE.
ReceiveUuid ==
  /\ pc = "uuid"
  /\ \/ /\ peer # "reset"
        /\ uuid' = IF peer = "up" THEN "whole" ELSE "short"
        /\ Send(<<"LoginSuccess">>)
        /\ GoTo("loginAck")
     \/ /\ peer = "reset"
        /\ Close
        /\ UNCHANGED <<uuid, out>>
  /\ UNCHANGED <<status, connVars>>

\* Mutant: the known packs are announced without waiting for the answer.
LoginUnacknowledged ==
  /\ Reads("loginAck")
  /\ status' = "CONFIGURATION"
  /\ GoTo("config")
  /\ UNCHANGED <<connVars, out, uuid>>

LoginAcknowledged ==
  \/ /\ Reads("loginAck")
     /\ status' = "CONFIGURATION"
     /\ peerPhase' = "configuration"
     /\ GoTo("config")
     /\ UNCHANGED <<peer, out, sync, registries, uuid>>
  \/ Refuse("loginAck", 3)

SendKnownPacks == Say("config", <<"FeatureFlags", "KnownPacks">>, "knownPacks")

\* Mutant: the payload of a plugin message is left unread.
ConfigurationUnread ==
  /\ Reads("knownPacks")
  /\ sync' \in {sync, FALSE}
  /\ UNCHANGED <<pc, playerVars, status, peer, peerPhase, registries, out,
                 uuid>>

\* A plugin message (0x02) or the client information (0x00) goes through a
\* nested handlePacket, which reads it to its end; then the next is awaited.
\* The known packs (0x07) are consumed unseen; anything else is refused.
ConfigurationPacket ==
  \E id \in Id :
     /\ Reads("knownPacks")
     /\ \/ id \in {0, 2} /\ GoTo("knownPacks")
        \/ id = 7        /\ GoTo("registry")
        \/ id \notin {0, 2, 7} /\ Close
     /\ UNCHANGED dialogueVars

\* Mutant: one registry too many.
SendRegistryBeyond ==
  /\ pc = "registry"
  /\ registries <= RegCount
  /\ registries' = registries + 1
  /\ Send(<<"RegistryData">>)
  /\ UNCHANGED <<pc, status, peer, peerPhase, sync, uuid, playerVars>>

SendRegistry ==
  /\ pc = "registry"
  /\ registries < RegCount
  /\ registries' = registries + 1
  /\ Send(<<"RegistryData">>)
  /\ UNCHANGED <<pc, status, peer, peerPhase, sync, uuid, playerVars>>

SendTags ==
  /\ registries = RegCount
  /\ Say("registry", <<"UpdateTags", "FinishConfiguration">>, "finishAck")

FinishAcknowledged ==
  \/ /\ Reads("finishAck")
     /\ status' = "LOGIN"
     /\ peerPhase' = "play"
     /\ GoTo("createPlayer")
     /\ UNCHANGED <<peer, out, sync, registries, uuid>>
  \/ Refuse("finishAck", 3)

-----------------------------------------------------------------------------
(* Joining the world.                                                      *)

CreatePlayer ==
  /\ pc = "createPlayer"
  /\ player' = player + 1
  /\ registered' = TRUE
  /\ pc' = "play"
  /\ UNCHANGED <<dialogueVars, globalUpdates>>

SendLogin ==
  Say("play", <<"Login", "ChangeDifficulty", "PlayerPosition">>, "moved")

\* A packet that may come here or not: consumed if it is the one, otherwise its
\* payload, if it has any, is left where the next length is read.
OptionalPacket(p, optional, next) ==
  \E id \in Id :
     /\ Reads(p)
     /\ IF id = optional THEN UNCHANGED sync ELSE sync' \in {sync, FALSE}
     /\ GoTo(next)
     /\ UNCHANGED <<status, peer, peerPhase, out, registries, uuid>>

MaybeMoved == OptionalPacket("moved", 21, "teleport")

\* Mutant: the join is announced before the teleport is confirmed.
AnnouncedEarly ==
  /\ Reads("teleport")
  /\ globalUpdates' = globalUpdates + 1
  /\ pc' = "position"
  /\ UNCHANGED <<dialogueVars, player, registered>>

\* Confirm Teleportation, 0x00, with the id that was sent; another id of either
\* kind is refused.
TeleportConfirmed == Hear("teleport", "position") \/ Refuse("teleport", 0)

MaybePositioned == OptionalPacket("position", 30, "announce")

\* The update is posted, and hasGlobalUpdates raised.
AnnounceJoin ==
  /\ pc = "announce"
  /\ globalUpdates' = globalUpdates + 1
  /\ pc' = "snapshot"
  /\ UNCHANGED <<dialogueVars, player, registered>>

SendPlayers == Say("snapshot", <<"PlayerInfoUpdate">>, "time")

\* Behind all branches: the time, then the response NONE.
SendTime == Say("time", <<"UpdateTime">>, "idle")

-----------------------------------------------------------------------------
ReadStep == \/ FirstPacket \/ IgnoredPacket \/ ReadVersion \/ ReadIntent
            \/ SkipRequest \/ LoginStart \/ LoginAcknowledged
            \/ ConfigurationPacket \/ FinishAcknowledged \/ MaybeMoved
            \/ TeleportConfirmed \/ MaybePositioned

RecvStep == EchoPing \/ ReceiveUuid

WriteStep == \/ SendStatus \/ SendKnownPacks \/ SendRegistry \/ SendTags
             \/ CreatePlayer \/ SendLogin \/ AnnounceJoin \/ SendPlayers
             \/ SendTime

Next == PeerEnds \/ Throw \/ ReadStep \/ RecvStep \/ WriteStep

\* The thread is scheduled.  While the connection is up a read may wait for
\* ever, and so may a write, as long as the peer does not read.  Once it has
\* ended, writes return; once it is closed a read throws, and once it is reset
\* it returns at once.  recv_all returns in both cases.
Fairness == /\ WF_vars(peer # "up" /\ WriteStep)
            /\ WF_vars(peer = "closed" /\ Throw)
            /\ WF_vars(peer = "reset" /\ ReadStep)
            /\ WF_vars(peer # "up" /\ RecvStep)

Spec == Init /\ [][Next]_vars /\ Fairness

-----------------------------------------------------------------------------
TypeOK ==
  /\ pc \in ReadPc \cup RecvPc \cup WritePc \cup {"closed"}
  /\ status \in Status
  /\ peer \in {"up", "closed", "reset"}
  /\ peerPhase \in PeerPhase
  /\ out \in Seq(Packet)
  /\ sync \in BOOLEAN
  /\ uuid \in {"none", "whole", "short"}
  /\ registries \in 0..RegCount
  /\ player \in Nat
  /\ registered \in BOOLEAN
  /\ globalUpdates \in Nat

\* What a whole login sends, and a whole status request.
Registries(n) == [i \in 1..n |-> "RegistryData"]

AfterRegistries == <<"UpdateTags", "FinishConfiguration", "Login",
                     "ChangeDifficulty", "PlayerPosition",
                     "PlayerInfoUpdate", "UpdateTime">>

LoginScript == <<"LoginSuccess", "FeatureFlags", "KnownPacks">>
                 \o (Registries(RegCount) \o AfterRegistries)

StatusScript == <<"StatusResponse", "Pong">>

\* However packets of the peer are interleaved, ignored or repeated, also after
\* the login, one connection is sent at most one script, in its order, once.
OneScript == \/ IsPrefix(out, LoginScript)
             \/ IsPrefix(out, StatusScript)
             \/ IsPrefix(out, <<"UpdateTime">>)

\* A packet is only sent in the phase of the protocol it belongs to, as far as
\* the peer itself has confirmed that phase.  (Except for an intent that is
\* neither status nor login: it is answered with a packet of the phase play.)
PhasePackets == CASE peerPhase = "status"        -> StatusPackets
                  [] peerPhase = "login"         -> LoginPackets
                  [] peerPhase = "configuration" -> ConfigPackets
                  [] peerPhase = "play"          -> PlayPackets
                  [] peerPhase = "other"         -> {"UpdateTime"}
                  [] OTHER                       -> {}

PacketsFitPhase ==
  [][\A i \in (Len(out) + 1)..Len(out') : out'[i] \in PhasePackets]_vars

\* A player is created at most once for a connection, its join is announced at
\* most once, after its position was confirmed (and so not refused any more),
\* and as long as it lives in the list of players its client is not closed.
JoinedOnce ==
  /\ player <= 1
  /\ globalUpdates <= player
  /\ globalUpdates = 1 => pc \in {"snapshot", "time", "idle", "closed"}
  /\ registered <=> (player = 1 /\ pc # "closed")

\* The short count of recv_all is not tested.  A uuid of which only a part came
\* is sent back in LoginSuccess, but by itself the login then stops: the next
\* read finds the connection closed.  It goes on, up to a player with that
\* uuid, only if the answer to LoginSuccess was a reset.
ShortUuidStops ==
  /\ uuid = "short" /\ peer # "reset" => pc \in {"loginAck", "closed"}
  /\ player = 1 => uuid = "whole" \/ (uuid = "short" /\ peer = "reset")

\* A peer whose packets are well formed is read packet by packet up to its
\* entry into the world: bytes are taken for a length that are none only once
\* the player is there, or after an unknown intent.
InSyncUntilPlay == sync \/ peerPhase = "other" \/ player = 1

\* A connection that its peer closes is closed by the server, at whatever
\* point of the dialogue, if what is still written to it is not answered with a
\* reset before the next read.
ClosedPeerIsClosed ==
  (peer = "closed") ~> (pc = "closed" \/ peer = "reset")

\* "recv() failed" (tools.cpp:111): readByte reports an error that makes recv
\* fail, and Client::handle closes the client.
FailedRecvIsClosed == (peer = "reset") ~> (pc = "closed")
=============================================================================
