----------------------- MODULE MCStormnodePayments -----------------------
(* Model of stormnode payment voting for TLC: this node's stormnode me    *)
(* and two remote stormnodes s1 and s2; s1's view of the payment queue    *)
(* agrees with ours (p1), s2's does not (p2).                             *)
EXTENDS StormnodePayments

CONSTANTS me, s1, s2, p1, p2

MCQueuePayee == [sn \in {me, s1, s2} |->
                    [h \in 0..(MAX_TIP + FUTURE_VOTES) |-> IF sn = s2 THEN p2 ELSE p1]]

=============================================================================
