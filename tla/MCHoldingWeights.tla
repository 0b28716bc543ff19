--------------------------- MODULE MCHoldingWeights ----------------------------
(* Model checking of HoldingWeights. *)
EXTENDS HoldingWeights, TLC

CONSTANTS create, upload, add, addNothing, addElsewhere, owns, other

\* The portfolio is created empty or by an upload of two holdings; a holding
\* and one of quantity 0 are added, and another user tries to add one.
MCUser == [c \in {create, upload, add, addNothing} |-> owns] @@ addElsewhere :> other
MCBatch == create :> <<>> @@ upload :> <<1, 2>> @@ add :> <<1>> @@ addNothing :> <<0>>
           @@ addElsewhere :> <<1>>

================================================================================
