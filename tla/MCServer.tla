------------------------------ MODULE MCServer ------------------------------
(* Server and its refinement of LogicalStore, for the model checker. *)
EXTENDS ServerRefinement, MCTexts

RefinementMessages == CoreMessages \cup OtherMessages

\* What the theorem of RefinementProofs asks for.
ASSUME ~ClockStepsBack /\ AmountsHaveNegatives
=============================================================================
