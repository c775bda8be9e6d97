------------------------------- MODULE ReviewIds -------------------------------
(***************************************************************************)
(* What the Plans that link reviews (PlanStore) and the reads that say     *)
(* which have merged (Landings) have in common.                            *)
(***************************************************************************)
CONSTANTS
    Reviews,        \* ids of the Saga's reviews
    None
=============================================================================
