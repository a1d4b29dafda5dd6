----------------------------- MODULE MqttWrapper -----------------------------
(***************************************************************************)
(* lib/mqtt_wrapper: connecting and publishing over coreMQTT.  Its callers *)
(* ignore what a publish or a subscribe returns, so a message that is not  *)
(* sent is a message that is lost.                                         *)
(***************************************************************************)
EXTENDS Naturals

CONSTANT MayLose                 \* sends, replies and the connection may fail

ASSUME MayLoseAssumption == MayLose \in BOOLEAN

VARIABLE connectStatus           \* of coreMQTT's context

ConnectStates == {"MQTTNotConnected", "MQTTConnected", "MQTTDisconnectPending"}

MqttInit == connectStatus = "MQTTNotConnected"

IsConnected == connectStatus = "MQTTConnected"

(* mqttWrapper_connect when MQTT_Connect succeeds.                         *)
MqttConnect == connectStatus' = "MQTTConnected"

(* mqttWrapper_publish, called once for each of these requests (after a    *)
(* mqttWrapper_subscribe that must also succeed for the replies to come):  *)
(* the sets of those that may reach the service.                           *)
Published(requests) == CASE ~IsConnected            -> {{}}
                         [] IsConnected /\ MayLose  -> SUBSET requests
                         [] IsConnected /\ ~MayLose -> {requests}

(* External: coreMQTT gives up the connection after a failed send.  Nothing*)
(* in the repository connects again.                                       *)
SendFails ==
    /\ MayLose /\ IsConnected
    /\ connectStatus' = "MQTTDisconnectPending"
=============================================================================
