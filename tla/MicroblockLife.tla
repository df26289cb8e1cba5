--------------------------- MODULE MicroblockLife ---------------------------
(***************************************************************************)
(* What a mempool promises about one microblock: the phases of its life    *)
(* and the order it goes through them.                                     *)
(*                                                                         *)
(*   unknown -> pending -> queued -> retired                               *)
(*                                                                         *)
(* A microblock may skip phases, never return to an earlier one.  Only a   *)
(* queued microblock is offered to a proposal, so one that left the queue, *)
(* because this replica proposed it or fetched it for somebody else's      *)
(* proposal, is not proposed by this replica again.                        *)
(***************************************************************************)
CONSTANT Hash
VARIABLE phase

Phases == {"unknown", "pending", "queued", "retired"}

Init == phase = [h \in Hash |-> "unknown"]

Advance(h) ==
  /\ \/ phase[h] = "unknown"
     \/ phase[h] = "pending" /\ phase'[h] \in {"queued", "retired"}
     \/ phase[h] = "queued" /\ phase'[h] = "retired"
  /\ phase'[h] \in Phases

\* A step moves some microblocks forward and leaves the others alone.
Next ==
  /\ phase' \in [Hash -> Phases]
  /\ \A h \in Hash : phase'[h] # phase[h] => Advance(h)

Spec == Init /\ [][Next]_phase
=============================================================================
