--------------------------- MODULE MCStreamEngine ---------------------------
(* Instances of StreamEngine for TLC: a layer with two routed tensors, the *)
(* second behind the first by rank, and the layer of the MTP head, which   *)
(* only the draft graph runs.                                              *)
EXTENDS StreamEngine, TLC

CONSTANTS gate, down, nextn

MCTensors == {gate, down, nextn}
MCSizes == gate :> 1 @@ down :> 1 @@ nextn :> 1
MCLayerOf == gate :> 0 @@ down :> 0 @@ nextn :> 1
MCOrder == <<gate, down, nextn>>
MCRoutings == 0 :> {{0}, {1}} @@ 1 :> {{0}}
MCGraph == <<[op |-> "router", layer |-> 0], [op |-> "mmid", tensor |-> gate],
             [op |-> "mmid", tensor |-> down]>>
MCDrafts == {<<[op |-> "router", layer |-> 1], [op |-> "mmid", tensor |-> nextn]>>}
=============================================================================
