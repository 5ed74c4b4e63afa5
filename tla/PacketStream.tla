---------------------------- MODULE PacketStream ----------------------------
(***************************************************************************)
(* Numbers and packets on a connection: a VarInt, and behind it, if it is  *)
(* the length of a packet, so many bytes.  Whoever reads takes as many     *)
(* bytes as he computes from that length and from what he has read; if     *)
(* that is not what was written, everything later is read out of step.     *)
(*                                                                         *)
(* The server computes the length of most packets by hand before it writes *)
(* them in pieces (packetHandler.cpp), those of class Packet from a buffer *)
(* (Packet.cpp).  It reads the peer's packets in pieces too, and skips the *)
(* rest of some.  Below, a packet is what the code does with it: the       *)
(* number announced, the sizes of the writes behind it, and the reads.     *)
(*                                                                         *)
(* send_all and recv_all go on until everything has gone through, in       *)
(* whatever portions the system takes and delivers it.  The peer may end   *)
(* the connection at any byte.  Sockets block, so the branch for EAGAIN in *)
(* recv_all is left out.  What is read after the packet or number, what    *)
(* readByte does when recv fails, and the reset that answers what is       *)
(* written to a closed peer in between, are in Handshake.  A peer          *)
(* (external) announces the length it writes and reads what the server     *)
(* announces; ids take one byte.                                           *)
(***************************************************************************)
EXTENDS VarInt, SequencesExt

CONSTANT Sizes      \* bound: the lengths of strings and payloads

\* A length fits into a number, and so does that of a text put together of two.
ASSUME SizesAssumption == /\ 7 \in Bits
                          /\ Sizes \subseteq Bits
                          /\ \A m, n \in Sizes : m + n \in Bits

VARIABLES
  writes,   \* the sizes of the writes to come, the first one in part done
  socket,   \* bytes written and not yet read
  calls,    \* the reads to come, the first one in part done
  conn,     \* "up", "closed" by the peer, or "noticed": readByte threw
  short     \* a recv_all has returned with less than it was to read

streamVars == <<writes, socket, calls, conn, short>>

allVars == <<vars, streamVars>>

-----------------------------------------------------------------------------
(* Sizes, writes and reads.                                                *)

Total(sizes) ==
  LET sum[n \in 0..Len(sizes)] == IF n = 0 THEN 0 ELSE sum[n - 1] + sizes[n]
  IN  sum[Len(sizes)]

Each(sizes, Op(_)) == FlattenSeq([i \in DOMAIN sizes |-> Op(sizes[i])])

Bytes(n) == [i \in 1..n |-> 1]

\* A number and a string of n bytes, byte by byte: written to the socket
\* (writeVarIntRaw, writeStringRaw) or collected (Packet::varInt and string).
varInt(v) == Bytes(sizeVarInt[v])
string(n) == varInt(n) \o Bytes(n)

sizeStringRaw(n) == sizeVarInt[n] + n

\* Reading n bytes one by one, and in one call.
readByte(n) == [i \in 1..n |-> [how |-> "readByte", n |-> 1]]
recv_all(n) == <<[how |-> "recv_all", n |-> n]>>

-----------------------------------------------------------------------------
(* What the server writes.                                                 *)

Written(number, body) == [by |-> "server", number |-> number, body |-> body,
                          calls |-> recv_all(number)]

StatusResponse(header, footer) ==
  LET string_len == header + footer
  IN  Written(1 + string_len + sizeVarInt[string_len],
              <<1>> \o varInt(string_len) \o <<header, footer>>)

LoginSuccess(name) ==
  Written(name + sizeVarInt[name] + 16 + 1 + sizeVarInt[0],
          <<1, 16>> \o string(name) \o varInt(0))

FeatureFlags == Written(1 + sizeVarInt[1] + sizeVarInt[7] + 7,
                        <<1>> \o varInt(1) \o string(7))

KnownPacks == Written(25, <<25>>)

\* Mutant: the byte behind each entry is not counted.
RegistryDataShort(id, entries) ==
  Written(1 + sizeStringRaw(id) + sizeVarInt[Len(entries)]
            + Total([i \in DOMAIN entries |-> sizeStringRaw(entries[i])]),
          <<1>> \o string(id) \o varInt(Len(entries))
            \o Each(entries, LAMBDA e : string(e) \o <<1>>))

RegistryData(id, entries) ==
  Written(1 + sizeStringRaw(id) + sizeVarInt[Len(entries)] + Len(entries)
            + Total([i \in DOMAIN entries |-> sizeStringRaw(entries[i])]),
          <<1>> \o string(id) \o varInt(Len(entries))
            \o Each(entries, LAMBDA e : string(e) \o <<1>>))

\* Packet::send: the fields have been collected, the id is put before them,
\* and what there is is counted and written in one call.
send(fields) == LET size == 1 + Total(fields) IN Written(size, <<size>>)

UpdateTags(registry, tags, ids) ==
  send(varInt(1) \o string(registry) \o varInt(Len(tags))
         \o Each(tags, LAMBDA t : string(t) \o varInt(Len(ids))
                                    \o Each(ids, LAMBDA b : varInt(b))))

PlayerInfoUpdate(names) ==
  send(<<1>> \o varInt(Len(names))
         \o Each(names, LAMBDA n : Bytes(16) \o string(n) \o varInt(0)))

-----------------------------------------------------------------------------
(* What the server reads, given the length of the packet.                  *)

length(payload) == 1 + Total(payload)

FromPeer(payload, reads) ==
  [by |-> "peer", number |-> length(payload), body |-> <<1>> \o payload,
   calls |-> readByte(1) \o reads]

Handshake(version, address, intent) ==
  FromPeer(varInt(version) \o string(address) \o <<2>> \o varInt(intent),
           readByte(sizeVarInt[version] + sizeStringRaw(address) + 2
                      + sizeVarInt[intent]))

LoginStart(name) ==
  FromPeer(string(name) \o <<16>>,
           readByte(sizeStringRaw(name)) \o recv_all(16))

\* Plugin messages, known packs and positions: ignored.
Ignored(data) == FromPeer(<<data>>, recv_all(length(<<data>>) - 1))

\* The locale and the view distance are read, and the rest ignored.
ClientInformation(locale, rest) ==
  LET payload == string(locale) \o <<1, rest>>
  IN  FromPeer(payload,
               readByte(sizeStringRaw(locale)) \o readByte(1)
                 \o recv_all(length(payload) - 1 - locale
                                - sizeVarInt[locale] - 1))

\* Numbers are written and read on their own as well: protocol version,
\* teleport id, those inside of packets.
Number(who, n) == [by |-> who, number |-> n, body |-> <<>>, calls |-> <<>>]

Items ==
  {Number(who, n) : who \in {"server", "peer"}, n \in Int32}
    \cup {FeatureFlags, KnownPacks}
    \cup (UNION {{LoginSuccess(n), LoginStart(n), Ignored(n)} : n \in Sizes})
    \cup (UNION {{StatusResponse(m, n), Handshake(m, n, 1),
                  ClientInformation(m, n), PlayerInfoUpdate(<<m, n>>),
                  RegistryData(m, <<n, n>>), UpdateTags(m, <<n>>, <<0, m>>)}
                    : m, n \in Sizes})

StreamInit == \E item \in Items :
  /\ writer = item.by
  /\ given = item.number
  /\ Init
  /\ writes = item.body
  /\ calls = item.calls
  /\ socket = 0
  /\ conn = "up"
  /\ short = FALSE

-----------------------------------------------------------------------------
\* The VarInt in front.
WriteLength == /\ conn = "up"
               /\ WriteNumber
               /\ UNCHANGED streamVars

ReadLength == ReadByte /\ UNCHANGED streamVars

\* send_all: the system takes a part of what is left of a write.
SendPart ==
  /\ mode # "write"
  /\ conn = "up"
  /\ writes # <<>>
  /\ \E k \in 1..Head(writes) :
        /\ socket' = socket + k
        /\ writes' = IF k = Head(writes) THEN Tail(writes)
                     ELSE [writes EXCEPT ![1] = @ - k]
  /\ UNCHANGED <<vars, calls, conn, short>>

\* A write or read of nothing.
SkipWrite ==
  /\ mode # "write"
  /\ writes # <<>>
  /\ Head(writes) = 0
  /\ writes' = Tail(writes)
  /\ UNCHANGED <<vars, socket, calls, conn, short>>

\* The peer stops writing for good.
PeerCloses ==
  /\ writer = "peer"
  /\ conn = "up"
  /\ conn' = "closed"
  /\ UNCHANGED <<vars, writes, socket, calls, short>>

\* The next read is made, and is of the given kind.
Calls(how) == /\ mode = "done"
              /\ conn # "noticed"
              /\ calls # <<>>
              /\ Head(calls).how = how
              /\ UNCHANGED <<vars, writes>>

ReadOne ==
  /\ Calls("readByte")
  /\ socket > 0
  /\ socket' = socket - 1
  /\ calls' = Tail(calls)
  /\ UNCHANGED <<conn, short>>

\* Mutant: the first portion is taken for all there is.
RecvOnce ==
  /\ Calls("recv_all")
  /\ \E k \in 1..socket :
        /\ k <= Head(calls).n
        /\ socket' = socket - k
        /\ short' = (short \/ k < Head(calls).n)
  /\ calls' = Tail(calls)
  /\ UNCHANGED conn

\* recv_all: the system delivers a part of what is asked for.
RecvPart ==
  /\ Calls("recv_all")
  /\ \E k \in 1..socket :
        /\ k <= Head(calls).n
        /\ socket' = socket - k
        /\ calls' = [calls EXCEPT ![1].n = @ - k]
  /\ UNCHANGED <<conn, short>>

\* Mutant: a recv that returns 0 is tried again.
RecvReturnsFull ==
  /\ Calls("recv_all")
  /\ Head(calls).n = 0
  /\ calls' = Tail(calls)
  /\ UNCHANGED <<socket, conn, short>>

\* It has got everything, or the connection is closed and it has not.
RecvReturns ==
  /\ Calls("recv_all")
  /\ Head(calls).n = 0 \/ (socket = 0 /\ conn = "closed")
  /\ short' = (short \/ Head(calls).n > 0)
  /\ calls' = Tail(calls)
  /\ UNCHANGED <<socket, conn>>

\* The next read of the packet is a readByte.
AwaitsByte == calls # <<>> /\ Head(calls).how = "readByte"

\* readByte on a closed connection with nothing left to read: in the middle of
\* a number too.
Throw ==
  /\ conn = "closed"
  /\ mode = "write" \/ (mode = "done" /\ AwaitsByte)
  /\ socket = 0
  /\ conn' = "noticed"
  /\ UNCHANGED <<vars, writes, socket, calls, short>>

WriteStep == WriteLength \/ SendPart \/ SkipWrite

ReadStep == ReadLength \/ ReadOne \/ RecvPart \/ RecvReturns \/ Throw

StreamNext == WriteStep \/ PeerCloses \/ ReadStep

\* The server writes and both sides read on; the peer need not write.
StreamSpec == /\ StreamInit
              /\ [][StreamNext]_allVars
              /\ WF_allVars(writer = "server" /\ WriteStep)
              /\ WF_allVars(ReadStep)

-----------------------------------------------------------------------------
StreamTypeOK ==
  /\ TypeOK
  /\ writes \in Seq(Nat)
  /\ socket \in Nat
  /\ calls \in Seq([how : {"readByte", "recv_all"}, n : Int])
  /\ conn \in {"up", "closed", "noticed"}
  /\ short \in BOOLEAN

\* As long as the connection stands, what is still to be read is what is there
\* or still to be written: every packet ends for its reader where it ended for
\* its writer.  No rest to be skipped is ever negative.
BoundariesMeet ==
  conn = "up" =>
     /\ Total([i \in DOMAIN calls |-> calls[i].n]) = socket + Total(writes)
     /\ \A i \in DOMAIN calls : calls[i].n >= 0

\* The callers of recv_all do not look for a short count.  It is short only if
\* nothing can be read any more, so what follows is never taken from the bytes
\* that were missing.  (What the caller does then is ShortUuidStops.)
ShortReadIsLast == short => conn # "up" /\ socket = 0

\* A number or a packet that has been written arrives completely, and so does
\* every one the server starts to write, unless the peer closes.  (A negative
\* number of the server does not: shifted arithmetically, it never fits into a
\* segment, and its loop never ends.)
Arrives ==
  \/ writer = "server" /\ given >= 0
  \/ mode # "write" /\ writes = <<>>
  ~> \/ conn # "up"
     \/ mode = "done" /\ calls = <<>> /\ writes = <<>> /\ socket = 0

\* Nobody waits for a peer that has closed, at whatever byte of a number or a
\* packet: what was begun is read to its end, or a readByte throws.  (recv_all
\* does not: what is read behind it is the next packet, see Handshake.)
ClosedIsNotAwaited ==
  (conn = "closed") ~> (conn = "noticed" \/ (mode = "done" /\ calls = <<>>))
=============================================================================
