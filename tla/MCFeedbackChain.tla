---------------------------- MODULE MCFeedbackChain ----------------------------
(* Model checking of FeedbackChain. *)
EXTENDS FeedbackChain, TLC

RequestSymmetry == Permutations(Requests)

================================================================================
