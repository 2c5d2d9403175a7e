---------------------------- MODULE MCSliceCache ----------------------------
(***************************************************************************)
(* Instances of SliceCache: two tensors whose slices differ in size, and   *)
(* every batch of their experts; a third one with slices above the cap.    *)
(***************************************************************************)
EXTENDS SliceCache, TLC

CONSTANTS gate, down, big

MCTensors == {gate, down}
MCSizes == gate :> 1 @@ down :> 2
MCBatches == {b \in Batch : b.experts # {}}

\* The slices a prefetch can tear: those of more than one unit.
MCPrefetches == {b \in MCBatches : b.tensor = down}

\* One expert of the small tensor against every batch of the large one.
MCCalls == {b \in MCBatches : b.tensor = gate => b.experts = {0}}

\* A slice larger than the cap, alone, next to these.
MCBigTensors == {gate, down, big}
MCBigSizes == gate :> 1 @@ down :> 2 @@ big :> 3
MCBigCalls == {b \in MCCalls : b.tensor = big => b.experts = {0}}
=============================================================================
