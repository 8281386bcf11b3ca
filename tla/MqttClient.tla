----------------------------- MODULE MqttClient -----------------------------
(***************************************************************************)
(* The client of MQTT (MQTTClient.h, Countdown.h, EthernetStack.h): one    *)
(* blocking call at a time over a connection that may break, tear a packet *)
(* or deliver late.  A call returns by setting `pc'.  There are no         *)
(* subscriptions, and QoS is 0.                                            *)
(***************************************************************************)
EXTENDS Integers, SequencesExt

CONSTANTS
  MaxPacket,       \* MAX_MQTT_PACKET_SIZE
  MaxFaults        \* bound on the changes of the network and the torn packets

\* A packet is never longer than four digits can say.
ASSUME PacketAssumption == MaxPacket \in Nat /\ MaxPacket < 268435456

-----------------------------------------------------------------------------
\* The packets (MQTTPacket.c, MQTTConnectClient.c, MQTTSerializePublish.c,
\* MQTTDeserializePublish.c): a byte with the type, the length of the rest in
\* one to four bytes of seven bits, and the rest.

CONNECT == 1
CONNACK == 2
PUBLISH == 3
PINGREQ == 12
PINGRESP == 13
DISCONNECT == 14

\* The packet's type, of its first byte.
Type(byte) == byte \div 16

MinOf(a, b) == IF a < b THEN a ELSE b

\* The weight of each digit of a length, of which there are four at most.
Weight == <<1, 128, 16384, 2097152>>

\* MQTTPacket_encode(): as many digits as it takes, all but the last marked.
EncodedLen(n) == IF n < 128 THEN 1 ELSE IF n < 16384 THEN 2 ELSE IF n < 2097152 THEN 3 ELSE 4

Encode(n) ==
  [i \in 1 .. EncodedLen(n) |-> ((n \div Weight[i]) % 128) + (IF i < EncodedLen(n) THEN 128 ELSE 0)]

\* The bytes with which a length may end, the first of which counts.
Ends(s) == {i \in 1 .. MinOf(4, Len(s)) : s[i] < 128}

DecodedLen(s) == IF Ends(s) = {} THEN MinOf(4, Len(s)) ELSE Min(Ends(s))

\* What so many digits mean.
DecodedValue(s, len) ==
  LET Digit(i) == IF i <= len THEN (s[i] % 128) * Weight[i] ELSE 0
  IN  Digit(1) + Digit(2) + Digit(3) + Digit(4)

\* MQTTPacket_decode() of the bytes that come: how many of them are of the
\* length; what has been read of one that does not end is its value.
Decode(s) ==
  [whole |-> Ends(s) # {}, len |-> DecodedLen(s), value |-> DecodedValue(s, DecodedLen(s))]

\* MQTTPacket_len(), of a packet with so long a rest; it looks at the length
\* with the first byte, so it may be one too long.
PacketLen(rem) ==
  LET n == rem + 1
  IN  n + (IF n < 128 THEN 1 ELSE IF n < 16384 THEN 2 ELSE IF n < 2097151 THEN 3 ELSE 4)

WriteInt(n) == <<n \div 256, n % 256>>

WriteString(s) == WriteInt(Len(s)) \o s

ReadInt(s) == 256 * s[1] + s[2]

\* A packet, or nothing if the buffer is too short for it.
Serialize(header, rest) ==
  IF PacketLen(Len(rest)) > MaxPacket THEN <<>> ELSE <<header>> \o Encode(Len(rest)) \o rest

\* MQTTSerialize_connect() with the default options: version 4, a clean
\* session, 60 seconds and no name.
SerializeConnect ==
  Serialize(CONNECT * 16, WriteString(<<77, 81, 84, 84>>) \o <<4, 2>> \o WriteInt(60) \o WriteString(<<>>))

\* MQTTSerialize_publish() with QoS 0.
SerializePublish(topic, payload) == Serialize(PUBLISH * 16, WriteString(topic) \o payload)

\* MQTTSerialize_zero().
SerializeZero(type) == Serialize(type * 16, <<>>)

\* The rest of a packet.
Rest(p) == SubSeq(p, 2 + Decode(Tail(p)).len, Len(p))

\* (mutant) A return code is not looked at.
BugDeserializeConnack(p) == IF Type(p[1]) = CONNACK /\ Len(Rest(p)) >= 2 THEN 0 ELSE -1

\* MQTTDeserialize_connack(): the return code, or -1.
DeserializeConnack(p) == IF Type(p[1]) = CONNACK /\ Len(Rest(p)) >= 2 THEN Rest(p)[2] ELSE -1

\* MQTTDeserialize_publish(), if the topic is there.
HasTopic(p) == Len(Rest(p)) > 1 /\ ReadInt(Rest(p)) <= Len(Rest(p)) - 2

DeserializePublish(p) ==
  LET r == Rest(p)
      n == ReadInt(r)
  IN  [topic |-> SubSeq(r, 3, 2 + n), payload |-> SubSeq(r, 3 + n, Len(r))]

\* The length of the whole packet with which a stream begins, if it does.
FirstLen(s) ==
  IF s = <<>> THEN {}
  ELSE {1 + d.len + d.value : d \in {e \in {Decode(Tail(s))} : e.whole}} \intersect 1 .. Len(s)

-----------------------------------------------------------------------------

VARIABLES
  link, ip,      \* lwIPLinkActive(), have_valid_ip()
  good,          \* from now on the network works; what broke before stays broken
  tcp,           \* "closed", "open", or "broken", of which the client does not know
  wire, inbox,   \* bytes on their way to the server, and from it
  underway,      \* (history) the messages among them
  cut,           \* (history) a packet was torn on this connection
  session,       \* the server has accepted a session on this connection
  isconnected,
  ping,          \* ping_outstanding
  armed,         \* last_sent and last_received have been set
  due,           \* which of them have expired
  pc,            \* what the client does next
  received,      \* the messages the server has received
  faults

network == <<link, ip, good>>
stream  == <<tcp, wire, underway, inbox, cut, session>>
client  == <<isconnected, ping, armed, due>>

ClientInit ==
  /\ link \in BOOLEAN /\ ip \in BOOLEAN /\ good = FALSE
  /\ tcp = "closed" /\ wire = <<>> /\ inbox = <<>> /\ session = FALSE
  /\ underway = <<>> /\ cut = FALSE
  /\ received = <<>>
  /\ isconnected = FALSE /\ ping = FALSE /\ armed = FALSE /\ due = {} /\ faults = 0

-----------------------------------------------------------------------------
\* EthernetStack.  What a failed connect leaves is no connection; nothing that
\* was under way on the old one arrives any more.

NewStream(state) ==
  /\ tcp' = state
  /\ wire' = <<>> /\ inbox' = <<>> /\ session' = FALSE
  /\ underway' = <<>> /\ cut' = FALSE

\* How many bytes of a packet write() takes until the time is over.  The stack
\* also takes some that no server will see.
Taken(p) ==
  CASE tcp = "closed"        -> {0}
    [] tcp = "broken"        -> {0, Len(p)}
    [] tcp = "open" /\ good  -> {Len(p)}
    [] OTHER                -> {0, Len(p)} \union (IF faults < MaxFaults THEN 1 .. Len(p) - 1 ELSE {})

\* sendPacket(), by which n bytes leave.
SendPacket(p, n) ==
  /\ wire' = IF tcp = "open" THEN wire \o SubSeq(p, 1, n) ELSE wire
  /\ LET torn == n \in 1 .. Len(p) - 1
     IN  cut' = (cut \/ torn) /\ faults' = faults + (IF torn THEN 1 ELSE 0)
  /\ UNCHANGED <<tcp, inbox, session>>

\* readPacket() when k bytes have come in time: the type, or -1, the packet
\* and how many bytes were read of it.  If a length does not come in time, its
\* value so far counts.
ReadPacket(k) ==
  LET s == SubSeq(inbox, 1, k)
      d == Decode(Tail(s))
      at == 1 + d.len
      p == <<s[1]>> \o Encode(d.value) \o SubSeq(s, at + 1, at + d.value)
  IN  CASE s = <<>> -> [type |-> -1, packet |-> <<>>, used |-> 0]
        [] s # <<>> /\ (1 + Len(Encode(d.value)) + d.value > MaxPacket \/ at + d.value > k) ->
             [type |-> -1, packet |-> <<>>, used |-> at]
        [] OTHER -> [type |-> Type(s[1]), packet |-> p, used |-> at + d.value]

InTime == IF good THEN {Len(inbox)} ELSE 0 .. Len(inbox)

\* What cycle() does with a packet, but for keepalive().
Received(r) ==
  /\ inbox' = SubSeq(inbox, r.used + 1, Len(inbox))
  /\ ping' = IF r.type = PINGRESP THEN FALSE ELSE ping
  /\ due' = IF r.type # -1 THEN due \ {"received"} ELSE due
  /\ UNCHANGED <<tcp, wire, underway, cut, session, faults>>

-----------------------------------------------------------------------------
\* connect(): the packet, and the wait for its answer.  `ok' or `fail' is what
\* the caller does then.

SendConnect(fail) ==
  /\ pc = "sendConnect"
  /\ \E n \in Taken(SerializeConnect) :
       /\ SendPacket(SerializeConnect, n) /\ UNCHANGED underway
       /\ IF n = Len(SerializeConnect)
          THEN armed' = TRUE /\ due' = {} /\ pc' = "wait" /\ UNCHANGED <<isconnected, ping>>
          ELSE fail /\ UNCHANGED client
  /\ UNCHANGED network

\* Nothing will come that has not come.
Silent == inbox = <<>> /\ ~(link /\ tcp = "open" /\ FirstLen(wire) # {})

\* waitfor(CONNACK).  A cycle that fails is followed by another one until the
\* time is over; keepalive() has nothing to do here, the timers being new.
Wait(ok, fail) ==
  /\ pc = "wait"
  /\ \/ /\ good => Silent
        /\ fail
        /\ UNCHANGED <<stream, client, faults>>
     \/ \E k \in InTime :
          LET r == ReadPacket(k)
          IN  /\ r.used > 0
              /\ Received(r)
              /\ IF r.type # CONNACK THEN UNCHANGED <<isconnected, pc>>
                 ELSE /\ isconnected' = (DeserializeConnack(r.packet) = 0)
                      /\ IF isconnected' THEN ok ELSE fail
              /\ UNCHANGED armed
  /\ UNCHANGED network

\* publish() with QoS 0.  A packet too long for the buffer is never sent, and
\* the client stays connected.
Publish(m, p, ok, fail) ==
  /\ pc = "publish"
  /\ IF ~isconnected \/ p = <<>> THEN UNCHANGED <<stream, client, faults>> /\ fail
     ELSE \E n \in Taken(p) :
            /\ SendPacket(p, n)
            /\ underway' = IF n = Len(p) /\ tcp = "open" THEN Append(underway, m) ELSE underway
            /\ isconnected' = (n = Len(p))
            /\ IF n = Len(p) THEN ok /\ due' = due \ {"sent"} ELSE fail /\ UNCHANGED due
            /\ UNCHANGED <<ping, armed>>
  /\ UNCHANGED network

\* disconnect().
Disconnect ==
  /\ pc = "disconnect"
  /\ LET p == SerializeZero(DISCONNECT) IN
       \E n \in Taken(p) : /\ SendPacket(p, n) /\ UNCHANGED underway
                           /\ due' = IF n = Len(p) THEN due \ {"sent"} ELSE due
  /\ isconnected' = FALSE /\ pc' = "idle"
  /\ UNCHANGED <<network, ping, armed>>

\* yield(): cycles until the time is over or one of them fails.
Yield ==
  /\ pc = "yield"
  /\ \E k \in InTime : Received(ReadPacket(k))
  /\ pc' = "keepalive"
  /\ UNCHANGED <<network, isconnected, armed>>

Due == armed /\ due # {} /\ ~ping

Keepalive ==
  /\ pc = "keepalive"
  /\ IF Due
     THEN LET p == SerializeZero(PINGREQ) IN
            \E n \in Taken(p) : /\ SendPacket(p, n) /\ UNCHANGED underway
                                /\ ping' = (n = Len(p))
                                /\ due' = IF n = Len(p) THEN due \ {"sent"} ELSE due
     ELSE UNCHANGED <<stream, ping, due, faults>>
  /\ pc' \in {"yield", "idle"}
  /\ UNCHANGED <<network, isconnected, armed>>

\* Sixty seconds go by, in which nothing is sent or nothing comes.
Expire ==
  /\ pc = "idle" /\ armed
  /\ \E t \in {"sent", "received"} \ due : due' = due \union {t}
  /\ UNCHANGED <<network, stream, isconnected, ping, armed, pc, faults>>

-----------------------------------------------------------------------------
\* The network.

LinkChanges == link' = ~link /\ UNCHANGED <<ip, stream>>

AddressChanges == ip' = ~ip /\ UNCHANGED <<link, stream>>

Break == tcp = "open" /\ NewStream("broken") /\ UNCHANGED <<link, ip>>

NetworkFault ==
  /\ ~good /\ faults < MaxFaults /\ faults' = faults + 1
  /\ LinkChanges \/ AddressChanges \/ Break
  /\ UNCHANGED <<good, client, pc>>

Heal == /\ ~good /\ good' = TRUE /\ link' = TRUE /\ ip' = TRUE
        /\ UNCHANGED <<stream, client, pc, faults>>

\* The server takes the next packet.  It may refuse a session, except when all
\* is well; to nonsense it closes the connection.
Answer(n, bytes, accepted) ==
  /\ session' = accepted
  /\ inbox' = inbox \o bytes
  /\ wire' = SubSeq(wire, n + 1, Len(wire))
  /\ UNCHANGED <<tcp, cut>>

Serve ==
  /\ link /\ tcp = "open"
  /\ \E n \in FirstLen(wire) :
       LET p == SubSeq(wire, 1, n)
           asked == p[1] = CONNECT * 16 /\ ~session
           told  == p[1] = PUBLISH * 16 /\ session /\ HasTopic(p)
           alive == p[1] = PINGREQ * 16 /\ session /\ n = 2
       IN  \/ /\ told /\ Answer(n, <<>>, TRUE)
              /\ received' = Append(received, DeserializePublish(p))
              /\ underway' = IF underway = <<>> THEN <<>> ELSE Tail(underway)
           \/ /\ \/ asked /\ Answer(n, <<CONNACK * 16, 2, 0, 0>>, TRUE)
                 \/ asked /\ ~good /\ Answer(n, <<CONNACK * 16, 2, 0, 3>>, FALSE)
                 \/ alive /\ Answer(n, <<PINGRESP * 16, 0>>, TRUE)
              /\ UNCHANGED <<underway, received>>
           \/ ~(asked \/ told \/ alive) /\ NewStream("broken") /\ UNCHANGED received
  /\ UNCHANGED <<network, client, pc, faults>>

=============================================================================
