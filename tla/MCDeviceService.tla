---------------------------- MODULE MCDeviceService ----------------------------
(* Instances of DeviceService for TLC: devices d1, d2 and labels x, y. *)
EXTENDS DeviceService, TLC

CONSTANTS d1, d2, x, y

(* Nothing tells the labels apart. *)
LabelSymmetry == Permutations({x, y})

(* A drain that ran into its timeout is not followed any further. *)
WithinDrain == main # "abandoned"
===============================================================================
