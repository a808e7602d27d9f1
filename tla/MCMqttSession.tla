--------------------------- MODULE MCMqttSession ---------------------------
(* MqttSession with one command of every kind that is treated differently: *)
(* one the Central carries out itself, two that a Smart Node answers (one  *)
(* noted before it is sent, one after), and one that cannot be read.       *)
EXTENDS MqttSession

MCMessages ==
    {[type |-> "battery", id |-> TRUE, target |-> TRUE, action |-> "set", settings |-> TRUE],
     [type |-> "node", id |-> TRUE, target |-> TRUE, action |-> "add", settings |-> TRUE],
     [type |-> "load", id |-> TRUE, target |-> TRUE, action |-> "delete", settings |-> FALSE],
     [type |-> "load", id |-> TRUE, target |-> FALSE, action |-> "add", settings |-> TRUE]}
=============================================================================
