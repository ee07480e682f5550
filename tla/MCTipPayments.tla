--------------------------- MODULE MCTipPayments ---------------------------
(* Model of the listener and payment voting for TLC: this node's stormnode *)
(* me and one remote stormnode s1, two payees; s1's queue view selects p1. *)
EXTENDS TipPayments

CONSTANTS me, s1, p1, p2

MCQueuePayee == [sn \in {me, s1} |-> [h \in 0..(MAX_HEIGHT + FUTURE_VOTES) |-> p1]]

=============================================================================
