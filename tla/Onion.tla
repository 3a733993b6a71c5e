------------------------------- MODULE Onion --------------------------------
(***************************************************************************)
(* The onions of onion/lib: built from the last hop outwards, then handed  *)
(* from one hop to the next by the loop of index.ts.  "ex1" has a version  *)
(* and the data, "ex2" an ephemeral point and an HMAC per layer too.  A    *)
(* packet is a sequence of units: a point or an HMAC is one unit.          *)
(***************************************************************************)
EXTENDS Integers, Sequences

CONSTANTS
    MaxHops,  \* bound on the hops of an onion
    DataLens, \* lengths of the data of a hop
    Versions, \* versions an onion is built with, 0 among them
    Limit     \* the first length that BigSize writes in three bytes (253)

VARIABLES
    variant,     \* "ex1" or "ex2"
    version,     \* the version passed to build
    data,        \* what the onion was to carry: the data of every hop
    info,        \* what build has not popped yet
    nodeIds,     \* the nodes build has not popped yet
    lastHmac,    \* of the layer just built
    lastPayload, \* of the layer just built
    packet,      \* the packet that the loop holds
    nodeKeys,    \* the keys that no hop has shifted yet
    read,        \* what the hops have read
    phase,       \* "building", "reading", "done" or "threw"
    damaged       \* a unit was replaced between two hops

vars == <<variant, version, data, info, nodeIds, lastHmac, lastPayload,
          packet, nodeKeys, read, phase, damaged>>
fixed == <<variant, version, data>>

Num(n) == <<"n", n>>
Point == <<"point">>
Zeros == <<"zeros">>
Damaged == <<"damaged">>
Hmac(node, units) == <<"hmac", node, units>>
HopData(hop, len) == [i \in 1 .. len |-> <<"data", hop, i>>]

\* writeBigSize, and what readUInt8 and readBigSize may find: a number is
\* itself, a unit of data can stand for any byte.  With the width.
BigSize(n) ==
    IF n < Limit THEN <<Num(n)>>
    ELSE <<Num(Limit), <<"high", n>>, <<"low", n>>>>
UInt8s(units) ==
    IF units = <<>> THEN {}
    ELSE IF units[1][1] = "n" THEN {<<units[1][2], 1>>}
    ELSE {<<n, 1>> : n \in 0 .. Limit}
BigSizes(units) ==
    {size \in UInt8s(units) : size[1] < Limit} \cup
    {<<n, 3>> : n \in {n \in DataLens :
        /\ \E size \in UInt8s(units) : size[1] = Limit
        /\ Len(units) >= 3
        /\ units[2] = <<"high", n>> /\ units[3] = <<"low", n>>}}
After(units, n) == SubSeq(units, n + 1, Len(units))

Init ==
    /\ variant \in {"ex1", "ex2"}
    /\ version \in Versions
    /\ \E hops \in 1 .. MaxHops : \E lens \in [1 .. hops -> DataLens] :
          data = [hop \in 1 .. hops |-> HopData(hop, lens[hop])]
    /\ info = data
    /\ nodeIds = [hop \in 1 .. Len(data) |-> hop]
    /\ nodeKeys = nodeIds
    /\ lastHmac = Zeros
    /\ lastPayload = <<>>
    /\ packet = <<>>
    /\ read = <<>>
    /\ phase = "building"
    /\ damaged = FALSE

Last(list) == list[Len(list)]
Front(list) == SubSeq(list, 1, Len(list) - 1)

\* A turn of the loop of build.  In ex2 the packet so far is kept for the
\* caller, with the HMAC that covers it.
Build1 ==
    /\ variant = "ex1" /\ phase = "building" /\ info # <<>>
    /\ info' = Front(info)
    /\ lastPayload' = BigSize(Len(Last(info))) \o Last(info) \o lastPayload
    /\ UNCHANGED <<fixed, nodeIds, lastHmac, packet, nodeKeys, read, phase,
                   damaged>>

HopPayload(bytes) == BigSize(Len(bytes)) \o bytes \o <<lastHmac>> \o lastPayload

Build2 ==
    /\ variant = "ex2" /\ phase = "building" /\ info # <<>>
    /\ info' = Front(info)
    /\ nodeIds' = Front(nodeIds)
    /\ lastPayload' = HopPayload(Last(info))
    /\ packet' = <<Num(version), Point>> \o lastPayload'
    /\ lastHmac' = Hmac(Last(nodeIds), packet')
    /\ UNCHANGED <<fixed, nodeKeys, read, phase, damaged>>

\* The onion is complete: build returns it.
Built ==
    /\ phase = "building" /\ info = <<>>
    /\ packet' = IF variant = "ex1" THEN <<Num(version)>> \o lastPayload
                                    ELSE Append(packet, lastHmac)
    /\ phase' = "reading"
    /\ UNCHANGED <<fixed, info, nodeIds, lastHmac, lastPayload, nodeKeys, read,
                   damaged>>

\* One unit of the packet is replaced on its way to the next hop.
Damage ==
    /\ phase = "reading" /\ ~damaged
    /\ \E i \in 1 .. Len(packet) :
          \E unit \in {Damaged} \cup {Num(n) : n \in 0 .. Limit} :
             /\ unit # packet[i]
             /\ packet' = [packet EXCEPT ![i] = unit]
    /\ damaged' = TRUE
    /\ UNCHANGED <<fixed, info, nodeIds, lastHmac, lastPayload, nodeKeys, read,
                   phase>>

Throw ==
    /\ phase' = "threw"
    /\ UNCHANGED <<fixed, info, nodeIds, lastHmac, lastPayload, packet, read,
                   damaged>>

\* The hop has its data; next is the packet it returns, or nothing.
Hop(bytes, next) ==
    /\ read' = Append(read, bytes)
    /\ phase' = IF next = <<>> THEN "done" ELSE "reading"
    /\ packet' = next
    /\ UNCHANGED <<fixed, info, nodeIds, lastHmac, lastPayload, damaged>>

\* Mutant: the length stays in front of the data.
Read1KeepsLength ==
    /\ variant = "ex1" /\ phase = "reading"
    /\ \E size \in UInt8s(Tail(packet)) :
         LET rest == Tail(packet) IN
         IF size[1] > Len(rest) THEN Throw
         ELSE Hop(SubSeq(rest, 1, size[1]),
                  IF Len(rest) = size[1] THEN <<>>
                  ELSE <<packet[1]>> \o After(rest, size[1]))
    /\ UNCHANGED nodeKeys

\* read of ex1: the length is one byte, whatever build wrote.
Read1 ==
    /\ variant = "ex1" /\ phase = "reading"
    /\ \E size \in UInt8s(Tail(packet)) :
         LET rest == After(packet, 2) IN
         IF size[1] > Len(rest) THEN Throw
         ELSE Hop(SubSeq(rest, 1, size[1]),
                  IF Len(rest) = size[1] THEN <<>>
                  ELSE <<packet[1]>> \o After(rest, size[1]))
    /\ UNCHANGED nodeKeys

\* Mutant: the HMAC covers the payload alone.
HmacOkPayload(node) ==
    /\ packet[Len(packet)][1] = "hmac"
    /\ packet[Len(packet)][2] = node
    /\ After(Front(packet), 2) = After(packet[Len(packet)][3], 2)

HmacOk(node) ==
    packet[2] = Point /\ packet[Len(packet)] = Hmac(node, Front(packet))

\* The next packet: version 0, whatever version this one has.
Next2(nextHmac, nextPayload) ==
    IF nextPayload = <<>> THEN <<>>
    ELSE <<Num(0), packet[2]>> \o nextPayload \o <<nextHmac>>

\* Mutant: a packet that fails is answered with itself, for another try.
Read2Again ==
    /\ variant = "ex2" /\ phase = "reading"
    /\ HmacOk(nodeKeys[1])
    /\ nodeKeys' = Tail(nodeKeys)
    /\ \E size \in BigSizes(After(Front(packet), 2)) :
         LET rest == After(Front(packet), 2 + size[2]) IN
         IF size[1] + 1 > Len(rest) THEN Throw
         ELSE Hop(SubSeq(rest, 1, size[1]),
                  Next2(rest[size[1] + 1], After(rest, size[1] + 1)))

\* read of ex2: the key is taken first, then the HMAC checked, then the
\* payload parsed.
Read2 ==
    /\ variant = "ex2" /\ phase = "reading"
    /\ nodeKeys' = Tail(nodeKeys)
    /\ IF ~HmacOk(nodeKeys[1]) THEN Throw
       ELSE \E size \in BigSizes(After(Front(packet), 2)) :
              LET rest == After(Front(packet), 2 + size[2]) IN
              IF size[1] + 1 > Len(rest) THEN Throw
              ELSE Hop(SubSeq(rest, 1, size[1]),
                       Next2(rest[size[1] + 1], After(rest, size[1] + 1)))

Next == Build1 \/ Build2 \/ Built \/ Damage \/ Read1 \/ Read2

Spec ==
    Init /\ [][Next]_vars /\ WF_vars(Build1 \/ Build2 \/ Built \/ Read1 \/ Read2)

(***************************************************************************)
(* Properties                                                              *)
(***************************************************************************)
IsPrefixOf(list, whole) ==
    Len(list) <= Len(whole) /\ list = SubSeq(whole, 1, Len(list))

\* What one byte of length can express.
OneByteLengths == \A hop \in 1 .. Len(data) : Len(data[hop]) < Limit

\* Types of the variables; a key is left for every hop that can still read.
TypeOK ==
    /\ variant \in {"ex1", "ex2"} /\ version \in Versions
    /\ phase \in {"building", "reading", "done", "threw"}
    /\ Len(data) \in 1 .. MaxHops /\ Len(info) <= Len(data)
    /\ variant = "ex2" => Len(nodeIds) = Len(info)
    /\ variant = "ex2" /\ phase = "reading" => nodeKeys # <<>>
    /\ damaged \in BOOLEAN

\* The hops read their data in the order of the route, and the last of them
\* ends it: in ex2 whatever happened to the packet on its way, in ex1 when
\* nothing did and the lengths fit in a byte.
HopsReadTheirData ==
    variant = "ex2" \/ (~damaged /\ OneByteLengths) =>
        /\ IsPrefixOf(read, data)
        /\ phase = "done" => read = data

\* A route ends early only for a reason: a damaged unit; the version that the
\* second hop of ex2 gets rewritten to 0 under an HMAC over another one; or a
\* length that ex1 reads in one byte.
ThrowsForAReason ==
    phase = "threw" =>
        \/ damaged
        \/ variant = "ex2" /\ version # 0 /\ Len(read) = 1
        \/ variant = "ex1" /\ ~OneByteLengths

\* No damage passes the HMAC: the hop that gets a damaged packet throws.  The
\* exception is an onion of another version after its first hop, where writing
\* that version back over the 0 repairs the packet.
DamageIsThrown ==
    [][variant = "ex2" /\ damaged /\ phase = "reading"
          /\ (version = 0 \/ read = <<>>) => phase' = "threw"]_vars

\* The loop of index.ts ends.
RouteEnds == <>(phase \in {"done", "threw"})
=============================================================================
