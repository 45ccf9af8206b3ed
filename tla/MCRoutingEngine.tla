---------------------------- MODULE MCRoutingEngine -----------------------------
(***************************************************************************)
(* Instances of RoutingEngine for TLC: commands that take the ways through *)
(* processCommand (a chain of two payloads, a single payload, a name the   *)
(* adapter does not translate), for one projector.                         *)
(***************************************************************************)
EXTENDS RoutingEngine, TLC

CONSTANTS status, turnOn, turnOff, reboot, projector

MCDeviceOf == [c \in Commands |-> projector]
MCNameOf == [c \in Commands |->
    CASE c = turnOn -> "TURN_ON"
      [] c = turnOff -> "TURN_OFF"
      [] c = reboot -> "REBOOT"
      [] OTHER -> "GET_STATUS"]
MCProtocolOf == [d \in Devices |-> "PJLink"]

WorkerSymmetry == Permutations(Workers)
=================================================================================
