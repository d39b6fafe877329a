--------------------------- MODULE MCCommandService ---------------------------
(***************************************************************************)
(* Instances of CommandService for TLC: one device, requests of one source *)
(* that differ in their contents, and the keys k1 and k2.                  *)
(***************************************************************************)
EXTENDS CommandService

CONSTANTS k1, k2, d1

ConfigPayload == [type |-> "config", target |-> d1, variant |-> 0]
ControlPayload == [type |-> "control", target |-> d1, variant |-> 0]
UnresolvedPayload == [type |-> "control", target |-> NoDevice, variant |-> 0]

OneConfig == {ConfigPayload}
OneControl == {ControlPayload}
OneOfEach == {ConfigPayload, ControlPayload}
ControlOrUnresolved == {ControlPayload, UnresolvedPayload}
===============================================================================
