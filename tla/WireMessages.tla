---------------------------- MODULE WireMessages ----------------------------
(***************************************************************************)
(* The messages of lightning/messages: built and serialised for the peer,  *)
(* deserialised by the factory when they come from it, and the pong that   *)
(* answers a ping.                                                         *)
(*                                                                         *)
(* A byte of a buffer is <<field, n, i>>: byte i of a field, n its count   *)
(* for the two bytes of a length.  The layouts keep the sizes the code     *)
(* reads and writes.                                                       *)
(***************************************************************************)
EXTENDS Naturals, Sequences, SequencesExt

CONSTANTS
    Sizes,  \* sizes of a variable field, and of the pong a ping asks for
    Cuts    \* how many bytes may be missing at the end of a payload

VARIABLES
    stage,   \* "idle", "built", "sent", "received" or "read"
    msg,     \* the message at hand
    buffer,  \* its bytes
    got      \* what deserialize made of them

vars == <<stage, msg, buffer, got>>

\* A message of a kind, with the size of its variable field; "second" is the
\* size of the addresses, or of the pong a ping asks for; "stated" is the
\* byteslen of a ping, which need not be the length of what it carries.
Message(kind, size, second, stated) ==
    [kind |-> kind, size |-> size, second |-> second, stated |-> stated]

Field(name, n) == [i \in 1 .. n |-> <<name, n, i>>]
Count(n) == <<<<"count", n, 1>>, <<"count", n, 2>>>>
Zeroes(n) == [i \in 1 .. n |-> <<"zero", 0, 0>>]
Threw == [ok |-> FALSE, fields |-> <<>>]

Uint(name, n) == <<"uint", name, n>>
Bytes(name, n) == <<"bytes", name, n>>
Counted(name) == <<"counted", name, 0>>

(***************************************************************************)
(* BufferReader                                                            *)
(***************************************************************************)
Slice(b, from, to) == SubSeq(b, from + 1, IF to < Len(b) THEN to ELSE Len(b))

Reader(b) == [ok |-> TRUE, pos |-> 0, buffer |-> b, fields |-> <<>>]
Read(r, name, bytes, n) ==
    IF r.ok /\ r.pos + n <= Len(r.buffer)
    THEN [r EXCEPT !.pos = @ + n, !.fields = Append(@, <<name, bytes>>)]
    ELSE [r EXCEPT !.ok = FALSE]

\* Mutant: the bounds are not asserted.
ReadBytesUnbounded(r, name, n) ==
    [r EXCEPT !.pos = @ + n,
              !.fields = Append(@, <<name, Slice(r.buffer, r.pos, n)>>)]

\* The slice ends at n, not n bytes after the position.
ReadBytes(r, name, n) == Read(r, name, Slice(r.buffer, r.pos, n), n)
ReadUint(r, name, n) ==
    Read(r, name, Slice(r.buffer, r.pos, r.pos + n), n)
ReadCounted(r, name) ==
    LET counted == ReadUint(r, "count", 2)
    IN  IF counted.ok
        THEN ReadBytes(counted, name, Last(counted.fields)[2][1][2])
        ELSE counted

ReadItem(r, item) ==
    CASE item[1] = "uint" -> ReadUint(r, item[2], item[3])
      [] item[1] = "bytes" -> ReadBytes(r, item[2], item[3])
      [] item[1] = "counted" -> ReadCounted(r, item[2])
ReadAll(layout, payload) ==
    LET reader[k \in 0 .. Len(layout)] ==
            IF k = 0 THEN Reader(payload) ELSE ReadItem(reader[k - 1], layout[k])
        r == reader[Len(layout)]
    IN  IF r.ok THEN [ok |-> TRUE, fields |-> r.fields] ELSE Threw

(***************************************************************************)
(* BufferWriter                                                            *)
(***************************************************************************)
\* Bytes past the end of the buffer are dropped; a number there throws.
Copy(b, pos, bytes) ==
    [i \in DOMAIN b |-> IF i \in pos + 1 .. pos + Len(bytes)
                        THEN bytes[i - pos] ELSE b[i]]
Writer(n) == [ok |-> TRUE, pos |-> 0, buffer |-> Zeroes(n)]
WriteBytes(w, bytes) ==
    [w EXCEPT !.pos = @ + Len(bytes), !.buffer = Copy(@, w.pos, bytes)]
WriteUint(w, bytes) ==
    IF w.pos + Len(bytes) > Len(w.buffer) THEN [w EXCEPT !.ok = FALSE]
                                          ELSE WriteBytes(w, bytes)

(***************************************************************************)
(* The layouts                                                             *)
(***************************************************************************)
ChannelAnnouncement ==
    <<Bytes("node_signature_1", 64), Bytes("node_signature_2", 64),
      Bytes("bitcoin_signature_1", 64), Bytes("bitcoin_signature_2", 64),
      Counted("features"), Bytes("chain_hash", 4), Uint("short_channel_id", 1),
      Bytes("node_id_1", 33), Bytes("node_id_2", 33),
      Bytes("bitcoin_key_1", 33), Bytes("bitcoin_key_2", 33)>>
ChannelUpdate ==
    <<Bytes("signature", 64), Bytes("chain_hash", 32),
      Uint("short_channel_id", 1), Uint("timestamp", 4), Uint("flags", 2),
      Uint("cltv_expiry_delta", 2), Bytes("htlc_minimum_msat", 8),
      Uint("fee_base_msat", 4), Uint("fee_proportional_millionths", 4)>>
NodeAnnouncement ==
    <<Bytes("signature", 8), Counted("features"), Uint("timestamp", 4),
      Bytes("node_id", 33), Bytes("rgb_color", 3), Bytes("alias", 32),
      Counted("addresses")>>
AnnouncementSignatures ==
    <<Uint("channel_id", 4), Uint("short_channel_id", 1),
      Bytes("node_signature", 8), Bytes("bitcoin_signature", 8)>>
Pong == <<Counted("ignored")>>
Ping == <<Uint("num_pong_bytes", 2), Counted("ignored")>>
Init16 == <<Uint("globalFeatures", 2), Uint("localFeatures", 2)>>
Error17 == <<Uint("channel_id", 4), Counted("data")>>

Kinds == {"init", "error", "ping", "pong", "channel_announcement",
          "node_announcement", "channel_update", "announcement_signatures"}
Layout(kind) ==
    CASE kind = "init" -> Init16
      [] kind = "error" -> Error17
      [] kind = "ping" -> Ping
      [] kind = "pong" -> Pong
      [] kind = "channel_announcement" -> ChannelAnnouncement
      [] kind = "node_announcement" -> NodeAnnouncement
      [] kind = "channel_update" -> ChannelUpdate
      [] kind = "announcement_signatures" -> AnnouncementSignatures

\* The bytes a peer sends for a message, after its type.
SizeOf(m, name) == IF name = "addresses" THEN m.second ELSE m.size
ItemBytes(m, item) ==
    CASE item[2] = "num_pong_bytes" -> Count(m.second)
      [] item[1] = "counted" ->
            Count(SizeOf(m, item[2])) \o Field(item[2], SizeOf(m, item[2]))
      [] OTHER -> Field(item[2], item[3])
Payload(m) ==
    FlattenSeq([k \in DOMAIN Layout(m.kind) |->
                    ItemBytes(m, Layout(m.kind)[k])])

(***************************************************************************)
(* deserialize and serialize of each class                                 *)
(***************************************************************************)
\* payload.slice takes from and to, and a short payload gives less.
DeserializeAnnouncementSignatures(p) ==
    IF Len(p) < 5 THEN Threw
    ELSE [ok |-> TRUE,
          fields |-> <<<<"channel_id", Slice(p, 0, 4)>>,
                       <<"short_channel_id", Slice(p, 4, 5)>>,
                       <<"node_signature", Slice(p, 5, 13)>>,
                       <<"bitcoin_signature", Slice(p, 13, 21)>>>>]
DeserializePing(p) ==
    IF Len(p) < 4 THEN Threw
    ELSE [ok |-> TRUE,
          fields |-> <<<<"num_pong_bytes", Slice(p, 0, 2)>>,
                       <<"count", Slice(p, 2, 4)>>,
                       <<"ignored", Slice(p, 4, Len(p))>>>>]
\* Both features are read from the start of the payload.
DeserializeInit(p) ==
    IF Len(p) < 2 THEN Threw
    ELSE [ok |-> TRUE,
          fields |-> <<<<"globalFeatures", Slice(p, 0, 2)>>,
                       <<"localFeatures", Slice(p, 0, 2)>>>>]

\* message-factory.js: node_announcement is not in its map, and the
\* constructor of an error destructures an argument deserialize leaves out.
Ignored == [ok |-> TRUE, fields |-> <<>>]
Deserialize(kind, p) ==
    CASE kind = "announcement_signatures" ->
            DeserializeAnnouncementSignatures(p)
      [] kind = "ping" -> DeserializePing(p)
      [] kind = "init" -> DeserializeInit(p)
      [] kind = "error" -> Threw
      [] kind = "node_announcement" -> Ignored
      [] kind \in {"pong", "channel_announcement", "channel_update"} ->
            ReadAll(Layout(kind), p)

Type(kind) == Field("type", 2)
Written(w) == IF w.ok THEN [ok |-> TRUE, fields |-> w.buffer] ELSE Threw
\* The buffer is for byteslen bytes; writeUInt8 of one more throws.
SerializePing(m) ==
    LET b == Zeroes(6 + m.stated)
    IN  IF m.size > m.stated THEN Threw
        ELSE [ok |-> TRUE, fields |->
                Copy(Copy(Copy(Copy(b, 0, Type("ping")), 2, Count(m.second)),
                          4, Count(m.stated)), 6, Field("ignored", m.size))]
SerializePong(m) ==
    LET typed == WriteUint(Writer(4 + m.size), Type("pong"))
    IN  Written(WriteBytes(WriteUint(typed, Count(m.size)),
                           Field("ignored", m.size)))
\* Mutant: the second signature follows one that had four bytes.
SerializeAnnouncementSignaturesNarrow ==
    [ok |-> TRUE, fields |->
        Copy(Copy(Copy(Copy(Copy(Zeroes(23),
            0, Type("announcement_signatures")),
            2, Field("channel_id", 4)),
            6, Field("short_channel_id", 1)),
            7, Field("node_signature", 8)),
            11, Field("bitcoin_signature", 8))]
\* Every field at an offset counted by hand.
SerializeAnnouncementSignatures ==
    [ok |-> TRUE, fields |->
        Copy(Copy(Copy(Copy(Copy(Zeroes(23),
            0, Type("announcement_signatures")),
            2, Field("channel_id", 4)),
            6, Field("short_channel_id", 1)),
            7, Field("node_signature", 8)),
            15, Field("bitcoin_signature", 8))]
\* The writer takes each field in the order it is read; short_channel_id of
\* a channel announcement has no bytes to copy, being a number.
NumberCopied(m, item) ==
    m.kind = "channel_announcement" /\ item = Uint("short_channel_id", 1)
WriteItem(m, w, item) ==
    IF ~w.ok THEN w
    ELSE IF NumberCopied(m, item) THEN [w EXCEPT !.ok = FALSE]
    ELSE CASE item[1] = "uint" -> WriteUint(w, Field(item[2], item[3]))
           [] item[1] = "bytes" -> WriteBytes(w, Field(item[2], item[3]))
           [] item[1] = "counted" ->
                LET counted == WriteUint(w, Count(m.size))
                IN  IF counted.ok
                    THEN WriteBytes(counted, Field(item[2], m.size))
                    ELSE counted
WriteAll(m, n) ==
    LET layout == Layout(m.kind)
        writer[k \in 0 .. Len(layout)] ==
            IF k = 0 THEN WriteUint(Writer(n), Type(m.kind))
                     ELSE WriteItem(m, writer[k - 1], layout[k])
    IN  Written(writer[Len(layout)])
\* Mutant: two bytes too few for the type and the fields.
SerializeChannelUpdateShort(m) == WriteAll(m, 121)
SerializeChannelUpdate(m) == WriteAll(m, 123)
SerializeChannelAnnouncement(m) == WriteAll(m, 172 + m.size)
\* The second feature is written over the first, both zero in the code.
SerializeInit ==
    [ok |-> TRUE, fields |->
        Copy(Copy(Copy(Zeroes(6), 0, Type("init")), 2, Zeroes(2)), 2, Zeroes(2))]

\* The classes without a serialize that returns bytes throw in sendMessage.
Serialize(m) ==
    CASE m.kind = "ping" -> SerializePing(m)
      [] m.kind = "pong" -> SerializePong(m)
      [] m.kind = "announcement_signatures" ->
            SerializeAnnouncementSignatures
      [] m.kind = "channel_update" -> SerializeChannelUpdate(m)
      [] m.kind = "channel_announcement" -> SerializeChannelAnnouncement(m)
      [] m.kind = "init" -> SerializeInit
      [] m.kind \in {"error", "node_announcement"} -> Threw

(***************************************************************************)
(* The steps                                                               *)
(***************************************************************************)
Init ==
    /\ stage = "idle"
    /\ msg = Message("init", 0, 0, 0)
    /\ buffer = <<>>
    /\ got = Ignored

\* messages.construct, or new PingMessage of the timer; only a ping keeps the
\* length of what it carries in a field of its own.
Construct(kind, size, second, stated) ==
    /\ stage \in {"idle", "sent", "read"}
    /\ kind = "ping" \/ stated = size
    /\ stage' = "built"
    /\ msg' = Message(kind, size, second, stated)
    /\ UNCHANGED <<buffer, got>>

\* sendMessage serialises what it is given.
Send ==
    /\ stage = "built"
    /\ stage' = "sent"
    /\ buffer' = Serialize(msg).fields
    /\ got' = [Serialize(msg) EXCEPT !.fields = <<>>]
    /\ UNCHANGED msg

\* A message of the peer, whole or with its end missing.
PeerSends(kind, size, second, cut) ==
    /\ stage \in {"idle", "sent", "read"}
    /\ stage' = "received"
    /\ msg' = Message(kind, size, second, size)
    /\ LET p == Payload(msg')
       IN  buffer' = SubSeq(p, 1, Len(p) - cut)
    /\ UNCHANGED got

\* The factory deserialises it; a ping is answered.
Receive ==
    /\ stage = "received"
    /\ got' = Deserialize(msg.kind, buffer)
    /\ IF msg.kind = "ping" /\ got'.ok
       THEN LET n == got'.fields[1][2][1][2]
            IN  stage' = "built" /\ msg' = Message("pong", n, 0, n)
       ELSE stage' = "read" /\ UNCHANGED msg
    /\ UNCHANGED buffer

Next ==
    \/ \E kind \in Kinds, size, second \in Sizes :
        \/ \E stated \in Sizes : Construct(kind, size, second, stated)
        \/ \E cut \in Cuts : PeerSends(kind, size, second, cut)
    \/ Send
    \/ Receive

Spec == Init /\ [][Next]_vars

(***************************************************************************)
(* Properties                                                              *)
(***************************************************************************)
FieldBytes ==
    Len(FlattenSeq([k \in DOMAIN got.fields |-> got.fields[k][2]]))

\* Types of the variables; apart from init, whose features are read from the
\* same two bytes, what is read never adds up to more than what came.
TypeOK ==
    /\ stage \in {"idle", "built", "sent", "received", "read"}
    /\ msg \in [kind : Kinds, size : Nat, second : Nat, stated : Nat]
    /\ got.ok \in BOOLEAN
    /\ stage = "read" /\ msg.kind # "init" => FieldBytes <= Len(buffer)

ReaderKinds == {"pong", "channel_announcement", "channel_update"}
Whole == Len(buffer) = Len(Payload(msg))

\* The numbers of a message are read right whatever the lengths before them,
\* although the slices are not: the position moves by the bytes that each
\* field takes.
NumbersRight ==
    stage = "read" /\ msg.kind \in ReaderKinds /\ Whole /\ got.ok =>
        \A item \in ToSet(Layout(msg.kind)) : item[1] = "uint" =>
            <<item[2], Field(item[2], item[3])>> \in ToSet(got.fields)

\* A message that is not all there is refused by the classes that use the
\* reader, wherever it is cut, instead of being taken with shorter fields.
CutIsRefused ==
    stage = "read" /\ msg.kind \in ReaderKinds => (got.ok <=> Whole)

\* The types whose serialize gives bytes; a ping only with room for what it
\* carries.
Sendable(m) ==
    /\ m.kind \in {"init", "ping", "pong", "channel_update",
                  "announcement_signatures"}
    /\ m.kind = "ping" => m.size <= m.stated

\* What a peer reads after the type: the layout, with both features of init
\* zero.
Spoken(m) == IF m.kind = "init" THEN Zeroes(4) ELSE Payload(m)

\* What leaves of a message that can be sent is what a peer reads: the type,
\* then the layout, with nothing missing and nothing behind it.  Every other
\* message throws.
WrittenAsRead ==
    stage = "sent" =>
        /\ got.ok <=> Sendable(msg)
        /\ got.ok /\ (msg.kind = "ping" => msg.stated = msg.size) =>
              buffer = Type(msg.kind) \o Spoken(msg)

\* Every field of a message that is deserialised is the one that was sent.
FieldsRight ==
    stage = "read" /\ msg.kind \in ReaderKinds /\ got.ok =>
        \A item \in ToSet(Layout(msg.kind)) : item[1] = "bytes" =>
            <<item[2], Field(item[2], item[3])>> \in ToSet(got.fields)
=============================================================================
