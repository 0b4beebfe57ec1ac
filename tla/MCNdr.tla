------------------------------- MODULE MCNdr -------------------------------
(***************************************************************************)
(* Two partitions and one client.  Two messages make incidents of one pair *)
(* of addresses, one repeats an event under another digest, one is not     *)
(* JSON, one has a malformed address and one is not even text.             *)
(***************************************************************************)
EXTENDS Ndr, TLC

CONSTANTS api, src, dst, other, e1, e2, f1, d1, d2, d3, d4, t1, w1, w2

Flow(sensor, id, flow, digest, at, attack) ==
    [sensor |-> sensor, event_id |-> id, flow |-> flow, digest |-> digest, wellFormed |-> TRUE,
     src |-> src, dst |-> dst, port |-> 443, at |-> at, bytes |-> 0, attack |-> attack,
     anomaly |-> 20]

First == Flow("synthetic", e1, None, d1, 0, 60)
Again == Flow("synthetic", e1, None, d2, 1, 95)
Second == Flow("suricata", None, f1, d3, 1, 80)
Quiet == [Flow("suricata", None, f1, d4, 0, 10) EXCEPT !.dst = other]
Bad   == [Quiet EXCEPT !.wellFormed = FALSE]

MCLog == w1 :> <<None, First>> @@ w2 :> <<Bad, Second, Unreadable>>
MCRequest == {Again}

MCRuleFile == <<[id |-> "KNOWN", name |-> "Known bad", severity |-> 3, enabled |-> TRUE,
                 operator |-> "threat_intel_match", field |-> "src", threshold |-> 50,
                 techniques |-> {t1}]>>

MCIndicators == src :> 0 @@ dst :> 60 @@ other :> 0
MCMapping == "ATTACK" :> {t1} @@ "Known Malicious Indicator" :> {t1}
=============================================================================
