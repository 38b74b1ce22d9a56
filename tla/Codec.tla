-------------------------------- MODULE Codec --------------------------------
(***************************************************************************)
(* The binary uplink payloads, and the two decoders that turn MQTT         *)
(* messages into telemetry rows: lora-bridge for ChirpStack events and     *)
(* node-bridge for the envelopes of Wi-Fi nodes.                           *)
(*                                                                         *)
(* Each fPort has a layout of little-endian fields.  Decoding is strict:   *)
(* what Encode would not produce is refused.  A message is delivered at    *)
(* least once, later each time; the database keeps one row per key.        *)
(* The tip counter, four bytes wide, is two fields: its low and high half. *)
(***************************************************************************)
EXTENDS Integers, Sequences, FiniteSets, Functions

CONSTANTS
    Messages,       \* what the broker may deliver
    Devices, Clocks,
    MaxDeliveries   \* bound

None == -1
NoName == ""
Ports == 1 .. 5
Byte == 0 .. 255

\* No device is named "".
ASSUME CodecAssumption ==
    /\ Clocks \subseteq Nat /\ MaxDeliveries \in Nat
    /\ \A m \in Messages :
        /\ m.topic \in Devices \cup {NoName} /\ m.port \in Nat /\ m.data \in Seq(Byte)
        /\ m.kind = "lora" => /\ DOMAIN m.rx = 1 .. Len(m.rx) /\ Len(m.rx) \in Nat
                             /\ \A i \in 1 .. Len(m.rx) : m.rx[i].rssi \in Int

VARIABLES
    msg,        \* the message of the broker
    clock,      \* the bridge's clock
    count,      \* deliveries so far
    last,       \* what the last one decoded to
    rows        \* the keys that reached the database

cvars == <<msg, clock, count, last, rows>>

\* A field of a payload: its width, after that many bytes.
Field(at, width) == [at |-> at, width |-> width]

Layout(port) ==
    CASE port = 1 ->    \* level, temperature, humidity, battery, cycles, flags, reserved
            <<Field(0, 2), Field(2, 2), Field(4, 1), Field(5, 2), Field(7, 1), Field(8, 1), Field(9, 1)>>
      [] port = 2 ->    \* start offset, run, peak current, level at start and end, pump
            <<Field(0, 2), Field(2, 2), Field(4, 2), Field(6, 2), Field(8, 2), Field(10, 1)>>
      [] port = 3 ->    \* code, value
            <<Field(0, 1), Field(1, 2)>>
      [] port = 4 ->    \* count, window, run, peak current, level
            <<Field(0, 1), Field(1, 2), Field(3, 2), Field(5, 2), Field(7, 2)>>
      [] OTHER ->       \* tips (low and high half), um per tip, interval, battery, flags
            <<Field(0, 2), Field(2, 2), Field(4, 2), Field(6, 2), Field(8, 2), Field(10, 1)>>

PayloadLen(port) == CASE port = 1 -> 10 [] port = 3 -> 3 [] port = 4 -> 9 [] OTHER -> 11

Signed(port, k) == port = 1 /\ k = 2

getLE(b, field) ==
    IF field.width = 1 THEN b[field.at + 1] ELSE b[field.at + 1] + 256 * b[field.at + 2]

\* The byte i of a value.
putLE(v, i) == IF i = 1 THEN v % 256 ELSE (v \div 256) % 256

UnmarshalBinary(port, b) ==
    [k \in DOMAIN Layout(port) |->
        LET v == getLE(b, Layout(port)[k])
        IN  IF Signed(port, k) /\ v >= 32768 THEN v - 65536 ELSE v]

\* The field that byte i is part of.
FieldAt(port, i) ==
    CHOOSE k \in DOMAIN Layout(port) :
        i - Layout(port)[k].at \in 1 .. Layout(port)[k].width

MarshalBinary(port, f) ==
    [i \in 1 .. PayloadLen(port) |->
        LET k == FieldAt(port, i)
        IN  putLE(f[k] % 65536, i - Layout(port)[k].at)]

\* The values with a meaning: no undefined flag bits, reserved byte 0, known
\* pump and alarm code, a tip that measures something.
Good(port, f) ==
    CASE port = 1 -> f[6] < 16 /\ f[7] = 0
      [] port = 2 -> f[6] <= 1
      [] port = 3 -> f[1] \in 1 .. 5
      [] port = 4 -> TRUE
      [] OTHER -> f[3] # 0 /\ f[6] < 4

\* Faulty: bytes after the payload are ignored.
checkLenAtLeast(port, b) == Len(b) >= PayloadLen(port)

checkLen(port, b) == Len(b) = PayloadLen(port)

\* <<outcome, fields>>
Decode(port, b) ==
    IF port \notin Ports THEN <<"unknown_port", <<>> >>
    ELSE IF ~checkLen(port, b) THEN <<"bad_payload", <<>> >>
    ELSE IF ~Good(port, UnmarshalBinary(port, b)) THEN <<"bad_payload", <<>> >>
    ELSE <<"ok", UnmarshalBinary(port, b)>>

------------------------------------------------------------------------------
(* Messages into rows.                                                     *)

Dropped(reason) == [outcome |-> reason]

\* FromUplink: a cycle event carries how long ago the cycle started.
FromUplink(port, f, t) == IF port = 2 THEN t - f[1] ELSE t

\* Faulty: the time of receipt is used even if the message has a timestamp.
EventTimeNow(t, now) == now

\* The timestamp of a message, or else the time of receipt.
EventTime(t, now) == IF t = None THEN now ELSE t

Decoded(m, dev, t, fallback, rx) ==
    LET d == Decode(m.port, m.data)
    IN  IF d[1] # "ok" THEN Dropped(d[1])
        ELSE [outcome |-> "ok", dev |-> dev, received |-> t, fallback |-> fallback, rx |-> rx,
              fields |-> d[2], key |-> <<m.port, dev, FromUplink(m.port, d[2], t), m.fcnt>>]

NoRx == [gateway |-> NoName, rssi |-> 0]

\* Faulty: the strongest signal is looked for from 0 up.
StrongerThanZero(i, best, r) == r.rssi > best.rssi

Stronger(i, best, r) == i = 1 \/ r.rssi > best.rssi

\* The gateway with the strongest signal.
BestRx(rx) ==
    LET best[i \in 0 .. Len(rx)] ==
            IF i = 0 THEN NoRx
            ELSE IF Stronger(i, best[i - 1], rx[i])
            THEN [gateway |-> rx[i].gateway, rssi |-> rx[i].rssi]
            ELSE best[i - 1]
    IN  best[Len(rx)]

\* The network's timestamp, else the first one of a gateway, else None.
NetworkTime(m) ==
    LET timed == SelectSeq(m.rx, LAMBDA r : r.time # None)
    IN  IF m.time # None THEN m.time ELSE IF timed # <<>> THEN Head(timed).time ELSE None

\* lorabridge.Decode: the event names the device of its topic.
DecodeLora(m, now) ==
    IF m.topic = NoName THEN Dropped("bad_topic")
    ELSE IF ~m.json THEN Dropped("bad_json")
    ELSE IF m.dev # m.topic THEN Dropped("bad_topic")
    ELSE LET t == NetworkTime(m)
         IN  Decoded(m, m.dev, EventTime(t, now), t = None, BestRx(m.rx))

\* nodebridge.Decode: the device is the one of the topic.
DecodeNode(m, now) ==
    IF m.topic = NoName THEN Dropped("bad_topic")
    ELSE IF ~m.json \/ m.port > 255 THEN Dropped("bad_json")
    ELSE Decoded(m, m.topic, EventTime(m.time, now), m.time = None,
             [gateway |-> "wifi", rssi |-> 0])

DecodeMessage(m, now) == IF m.kind = "lora" THEN DecodeLora(m, now) ELSE DecodeNode(m, now)

CodecInit(messages) ==
    /\ msg \in messages
    /\ clock = 0 /\ count = 0 /\ last = Dropped("none") /\ rows = {}

\* The broker delivers the message, again if the last time was not acknowledged.
Deliver(now) ==
    /\ count < MaxDeliveries /\ now >= clock
    /\ clock' = now /\ count' = count + 1
    /\ last' = DecodeMessage(msg, now)
    /\ rows' = rows \cup (IF last'.outcome = "ok" THEN {last'.key} ELSE {})
    /\ UNCHANGED msg

CodecNext == \E now \in Clocks : Deliver(now)

CodecSpec == CodecInit(Messages) /\ [][CodecNext]_cvars

------------------------------------------------------------------------------
(* Properties.                                                             *)

Accepted == last.outcome = "ok"

\* What a field of two bytes holds: a number with a sign, or one without.
InRange(port, k, v) ==
    v \in Int /\ IF Signed(port, k) THEN -32768 <= v /\ v <= 32767 ELSE 0 <= v /\ v <= 65535

\* Readings are within what the columns mean: a temperature is a signed 16-bit
\* number, every other field is not negative.
CodecTypeOK ==
    /\ clock \in Clocks \cup {0} /\ count \in 0 .. MaxDeliveries
    /\ Accepted => /\ last.dev \in Devices
                   /\ \A k \in DOMAIN last.fields : InRange(msg.port, k, last.fields[k])

\* "a payload that would not round-trip through Encode is rejected": what is
\* accepted encodes to the same bytes on the same port, and no payload is
\* longer than the eleven bytes of the slowest data rate.
DecodeStrict ==
    Accepted => /\ MarshalBinary(msg.port, last.fields) = msg.data
                /\ Len(msg.data) <= 11

\* A message that is delivered again decodes to the same key, so the database
\* keeps one row, unless the message has no timestamp of its own and is dated by
\* its receipt.
RedeliveryIsOneRow == Accepted /\ ~last.fallback => Cardinality(rows) = 1

\* The row names the gateway that heard the node best, among those that did.
BestGatewayNamed ==
    Accepted /\ msg.kind = "lora" /\ msg.rx # <<>> =>
        /\ \E r \in Range(msg.rx) : last.rx = [gateway |-> r.gateway, rssi |-> r.rssi]
        /\ \A r \in Range(msg.rx) : r.rssi <= last.rx.rssi

\* From the message to the row, for both decoders: values in range, payloads
\* accepted only if they encode back, one row per message however often it is
\* delivered, and the best gateway named.
RowsFaithful ==
    CodecTypeOK /\ DecodeStrict /\ RedeliveryIsOneRow /\ BestGatewayNamed
=============================================================================
