--------------------------- MODULE MCInstantSend ---------------------------
(* Models of InstantSend for TLC.  Two transactions t1 and t2 race for     *)
(* the UTXO o1.  In MCInputsRace both spend only o1; in MCInputsMulti t2   *)
(* also spends o2, so a lock needs every input of t2 to be ready.          *)
EXTENDS InstantSend

CONSTANTS t1, t2, o1, o2, m1, m2

MCInputsRace == (t1 :> {o1}) @@ (t2 :> {o1})

MCInputsMulti == (t1 :> {o1}) @@ (t2 :> {o1, o2})

=============================================================================
