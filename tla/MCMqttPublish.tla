---------------------------- MODULE MCMqttPublish ----------------------------
(***************************************************************************)
(* MqttPublish for TLC: two inverters and the MQTT task publish the same   *)
(* counters.                                                               *)
(***************************************************************************)
EXTENDS MqttPublish
==============================================================================
