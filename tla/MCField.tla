------------------------------- MODULE MCField -------------------------------
(***************************************************************************)
(* What comes in from the field: the node of a house, the messages that    *)
(* carry its payloads, the rain gauge, the weather office and the file     *)
(* that observed rain is replayed from.  They share no state (the two      *)
(* weather writers write different rows of rainfall: the source is part of *)
(* the key), so a behaviour is about one of them while the others are at   *)
(* rest.  In a behaviour about the response, the node and the analysis of  *)
(* its reports run together.                                               *)
(***************************************************************************)
EXTENDS ObservedHome, Codec, GaugeRainfall, EcccPoller, RainCache

VARIABLE part

allVars == <<part, nodeVars, responseVars, cvars, gaugeVars, ecccVars, cacheVars>>

Samples == {1, 4, 16, 128, 255}
MCDevices == {"a", "b"}
MCRssis == {-120, -70}
MCClocks == {5, 9}

Zeros(n) == <<>> \o [i \in 1 .. n |-> 0]

\* Zeros but for two bytes; and one byte too few or too many.
Payloads(port) ==
    LET n == PayloadLen(port)
        one == {[Zeros(n) EXCEPT ![i] = v] : i \in 1 .. n, v \in Samples}
    IN  {[d EXCEPT ![i] = v] : d \in one, i \in 1 .. n, v \in Samples}
          \cup {Zeros(n)} \cup {Front(d) : d \in one} \cup {Append(d, 7) : d \in one}

Rx == {[gateway |-> g, rssi |-> r, time |-> t] : g \in {"g1", "g2"}, r \in MCRssis, t \in {None, 3}}

Lora(topic, json, dev, time, rx, port, data) ==
    [kind |-> "lora", topic |-> topic, json |-> json, dev |-> dev, time |-> time, rx |-> rx,
     fcnt |-> 7, port |-> port, data |-> data]

Wifi(topic, json, time, port, data) ==
    [kind |-> "wifi", topic |-> topic, json |-> json, time |-> time, fcnt |-> 7, port |-> port,
     data |-> data]

ACycle == [Zeros(11) EXCEPT ![1] = 2]
Times == {None, 4}

MCMessages ==
    UNION {{Lora("a", TRUE, "a", 4, <<>>, p, d) : d \in Payloads(p)} : p \in Ports}
      \cup {Lora("a", TRUE, "a", t, rx, 2, ACycle) :
               t \in Times, rx \in {<<>>} \cup {<<r>> : r \in Rx} \cup {<<r, s>> : r, s \in Rx}}
      \cup {Lora(topic, json, dev, 4, <<>>, p, ACycle) :
               topic \in {"a", ""}, json \in BOOLEAN, dev \in MCDevices, p \in {0, 2, 6, 255, 258}}
      \cup {Wifi(topic, json, t, p, ACycle) :
               topic \in {"a", ""}, json \in BOOLEAN, t \in Times, p \in {0, 2, 6, 255, 258}}

AnyMessage == Lora("a", TRUE, "a", 4, <<>>, 2, ACycle)

PlainHome == home.health = "healthy" /\ ~home.hasBackup /\ ~home.outage
AnyStorm == [first |-> Min(Onsets), onset |-> Min(Onsets), end |-> Min(Onsets) + Min(RainLengths)]

Init ==
    /\ part \in {"node", "response", "codec", "gauge", "eccc", "cache"}
    /\ NodeInit
    /\ part # "node" => PlainHome
    /\ part \notin {"node", "response"} => home.nextHB = 0
    /\ ResponseInit
    /\ part # "response" => storm = AnyStorm
    /\ CodecInit(IF part = "codec" THEN Messages ELSE {AnyMessage})
    /\ GaugeInit /\ EcccInit /\ CacheInit

Next ==
    \/ /\ part = "node" /\ NodeNext
       /\ UNCHANGED <<part, responseVars, cvars, gaugeVars, ecccVars, cacheVars>>
    \/ /\ part = "response" /\ ResponseNext
       /\ UNCHANGED <<part, cvars, gaugeVars, ecccVars, cacheVars>>
    \/ /\ part = "codec" /\ CodecNext
       /\ UNCHANGED <<part, nodeVars, responseVars, gaugeVars, ecccVars, cacheVars>>
    \/ /\ part = "gauge" /\ GaugeNext
       /\ UNCHANGED <<part, nodeVars, responseVars, cvars, ecccVars, cacheVars>>
    \/ /\ part = "eccc" /\ EcccNext
       /\ UNCHANGED <<part, nodeVars, responseVars, cvars, gaugeVars, cacheVars>>
    \/ /\ part = "cache" /\ CacheNext
       /\ UNCHANGED <<part, nodeVars, responseVars, cvars, gaugeVars, ecccVars>>

Spec == Init /\ [][Next]_allVars
==============================================================================
