--------------------------- MODULE MqttPublications ---------------------------
(***************************************************************************)
(* Publication of commands to devices: the tokens MqttClient has in flight *)
(* (token_to_mid), the completions it queued for the service and the       *)
(* contexts the service keeps per token (publications_).  A token of a     *)
(* command is a slot: "inflight" while libmosquitto owns the message, "ok" *)
(* or "failed" once its completion waits in publish_completions_, "free"   *)
(* when the service has handled it.                                        *)
(***************************************************************************)
EXTENDS CommandDatabase

CONSTANT MaxPublications  \* bound: publications of one command outstanding

ASSUME PublicationsAssumption == MaxPublications \in Nat \ {0}

Slots == 1 .. MaxPublications

VARIABLES pubs,    \* pubs[id][k]: token k of command id, with its context
          sent,    \* history: how often a command was handed to libmosquitto
                   \* (counted up to 2)
          mqttUp   \* MqttClient::IsConnected

mqttVars == <<pubs, sent, mqttUp>>

Publication == [st : {"free", "inflight", "ok", "failed"},
                prev : CommandStatus \cup {"none"}, dl : Nat]
FreeSlot == [st |-> "free", prev |-> "none", dl |-> 0]

PublicationsInit ==
    /\ pubs = [id \in Ids |-> [k \in Slots |-> FreeSlot]]
    /\ sent = [id \in Ids |-> 0]
    /\ mqttUp = FALSE

InState(states) == {t \in Ids \X Slots : pubs[t[1]][t[2]].st \in states}
Publications == InState({"inflight", "ok", "failed"})
Completions == InState({"ok", "failed"})
RoomToPublish(id) == \E k \in Slots : pubs[id][k].st = "free"

(* PublishCommandSet accepts the message: a token is mapped to the MID.    *)
PublishCommandSet(id, prev, dl) ==
    /\ mqttUp
    /\ Cardinality(InState({"inflight"})) < MaxInflight
    /\ \E k \in Slots :
         /\ pubs[id][k].st = "free"
         /\ \A j \in Slots : j < k => pubs[id][j].st # "free"
         /\ pubs' = [pubs EXCEPT ![id][k] = [st |-> "inflight",
                                             prev |-> prev, dl |-> dl]]
    /\ sent' = [sent EXCEPT ![id] = IF @ = 0 THEN 1 ELSE 2]

(* PublishCommandSet refuses synchronously: no connection, no capacity or  *)
(* an error of mosquitto_publish.                                          *)
PublishCommandSetRefused ==
    /\ \/ ~mqttUp
       \/ Cardinality(InState({"inflight"})) >= MaxInflight
       \/ "publish" \in Faults
    /\ UNCHANGED <<pubs, sent>>

Completed(pub, result) == [pub EXCEPT !.st = result]

(* HandlePublish: the QoS 2 handshake of a token completed.                *)
BrokerCompletes(id, k) ==
    /\ mqttUp
    /\ pubs[id][k].st = "inflight"
    /\ pubs' = [pubs EXCEPT ![id][k] = Completed(pubs[id][k], "ok")]
    /\ UNCHANGED <<sent, mqttUp>>

(* HandleDisconnect: every token in flight completes with a failure.       *)
MqttDisconnects ==
    /\ "mqtt" \in Faults
    /\ mqttUp
    /\ mqttUp' = FALSE
    /\ pubs' = [id \in Ids |-> [k \in Slots |->
                 IF pubs[id][k].st = "inflight"
                 THEN Completed(pubs[id][k], "failed") ELSE pubs[id][k]]]
    /\ UNCHANGED sent

MqttConnects ==
    /\ ~mqttUp
    /\ mqttUp' = TRUE
    /\ UNCHANGED <<pubs, sent>>
===============================================================================
