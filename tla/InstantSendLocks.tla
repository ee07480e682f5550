-------------------------- MODULE InstantSendLocks --------------------------
(***************************************************************************)
(* What InstantSend promises the wallet and the UI (spec sections 3, 4.5  *)
(* and 8): a UTXO is won by at most one transaction; a transaction wins   *)
(* its inputs all at once, and only when, for every input, at least       *)
(* SIGNATURES_REQUIRED quorum masternodes have really signed a vote for   *)
(* it; a winner is never replaced or withdrawn, except by the full reset  *)
(* of the persisted state.  A signature, once made, is never withdrawn;   *)
(* this node's masternode may add its own, also in the step that locks.   *)
(***************************************************************************)
EXTENDS Naturals, FiniteSets

CONSTANTS Txs, Outpoints, Inputs, Masternodes, Eligible, SIGNATURES_REQUIRED

VARIABLES
    owner,   \* UTXO -> the transaction that won it
    signed   \* votes signed by masternodes so far

VoteSet == [tx : Txs, outpoint : Outpoints, mn : Masternodes]

\* the signatures after a step: the old ones and possibly new ones
MoreSigned == signed' \in {S \in SUBSET VoteSet : signed \subseteq S}

\* at least SIGNATURES_REQUIRED eligible masternodes signed each input of t
QuorumSigned(t, S) ==
    \A o \in Inputs[t] :
        Cardinality({m \in Eligible : [tx |-> t, outpoint |-> o, mn |-> m] \in S})
            >= SIGNATURES_REQUIRED

Init == owner = [o \in {} |-> o] /\ signed \in SUBSET VoteSet

Sign == MoreSigned /\ UNCHANGED owner

Lock(t) ==
    /\ Inputs[t] \cap DOMAIN owner = {}
    /\ MoreSigned
    /\ QuorumSigned(t, signed')
    /\ owner' = [o \in Inputs[t] \cup DOMAIN owner |->
                   IF o \in Inputs[t] THEN t ELSE owner[o]]

Reset == owner' = [o \in {} |-> o] /\ UNCHANGED signed

Next == \/ \E t \in Txs : Lock(t)
        \/ Sign
        \/ Reset

Spec == Init /\ [][Next]_<<owner, signed>>

=============================================================================
