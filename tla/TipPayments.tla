----------------------------- MODULE TipPayments -----------------------------
(***************************************************************************)
(* The block-tip listener (PSNotification) driving stormnode payment      *)
(* voting (StormnodePayments) of one node.                                 *)
(*                                                                         *)
(* CPSNotificationInterface::UpdatedBlockTip calls                         *)
(* mnpayments.UpdatedBlockTip(pindexNew) once it has passed its early      *)
(* returns (disconnect only, initial download, lite mode); the payments   *)
(* tip pCurrentBlockIndex is therefore the listener's dsTip. The chain    *)
(* may reorganise: ActivateBestChain disconnects to any fork point and    *)
(* connects to any height, so a notification can repeat a height or go    *)
(* below the last one.                                                     *)
(*                                                                         *)
(* The payee ProcessBlock votes for comes from                             *)
(* GetNextStormnodeInQueueForPayment, which reads the stormnode list and  *)
(* the chain at the time of the call; it is a choice among the payees.    *)
(* Peers relay the votes of the other stormnodes; this node's own votes   *)
(* come back from peers only as hashes it already stores, and are left    *)
(* out.                                                                    *)
(***************************************************************************)
EXTENDS Integers

CONSTANTS
    MAX_HEIGHT, ACTIVATION_HEIGHT,
    Stormnodes, Ranked, Honest, Self, Forged, Payees, QueuePayee,
    SIGNATURES_REQUIRED, STORAGE_LIMIT, FUTURE_VOTES, PROCESS_AHEAD,
    HASH_DEPTH, SUPERBLOCK_START, SUPERBLOCK_CYCLE, BUDGET_START,
    BUDGET_CYCLE, BUDGET_WINDOW, MAX_INV_SZ

VARIABLES
    tip, ibd, fLiteMode, initialized, syncTip, autoLock, dsTip,  \* listener
    votes, blocks, lastVote                                      \* payments

listenerVars == <<tip, ibd, fLiteMode, initialized, syncTip, autoLock, dsTip>>
paymentVars  == <<votes, blocks, lastVote>>
vars == <<listenerVars, paymentVars>>

N == INSTANCE PSNotification
P == INSTANCE StormnodePayments WITH tip <- dsTip, MAX_TIP <- MAX_HEIGHT

\* mnpayments.UpdatedBlockTip(pindexNew) when the listener reaches it.
PaymentsNotified(pindexNew, pindexFork, fInitialDownload) ==
    IF N!NotifiesSubsystems(pindexNew, pindexFork, fInitialDownload)
      THEN \E found \in BOOLEAN, payee \in Payees :
               P!UpdatedBlockTip(pindexNew, found, payee)
      ELSE UNCHANGED paymentVars

\* CPSNotificationInterface::InitializeCurrentBlockTip at start-up.
InitializeCurrentBlockTip ==
    /\ N!InitializeCurrentBlockTip
    /\ PaymentsNotified(tip, N!NoBlock, ibd)

\* Validation moves the tip from the fork point f to n and notifies.
ActivateBestChain(f, n) ==
    /\ N!ActivateBestChain(f, n)
    /\ PaymentsNotified(n, f, ibd)

InitialDownloadEnds ==
    /\ N!InitialDownloadEnds
    /\ UNCHANGED paymentVars

\* ProcessMessage(STORMNODEPAYMENTVOTE) returns at once in lite mode.
ProcessPaymentVote ==
    /\ ~fLiteMode
    /\ \E v \in P!Vote, sigOK \in BOOLEAN :
           /\ v.sn # Self
           /\ IF sigOK THEN P!Genuine(v) ELSE v.sn \in Forged
           /\ P!ProcessPaymentVote(v, sigOK)
    /\ UNCHANGED <<tip, ibd, fLiteMode, initialized, syncTip, autoLock>>

CheckAndRemove ==
    /\ P!CheckAndRemove
    /\ UNCHANGED <<tip, ibd, fLiteMode, initialized, syncTip, autoLock>>

\* Clear(), as a reload of the payment cache does.
Clear ==
    /\ P!Clear
    /\ UNCHANGED <<tip, ibd, fLiteMode, initialized, syncTip, autoLock>>

Init == N!Init /\ P!Init

Next ==
    \/ InitializeCurrentBlockTip
    \/ InitialDownloadEnds
    \/ \E f \in 0..tip, n \in 0..MAX_HEIGHT :
          /\ f <= n
          /\ n # tip \/ f < n
          /\ ActivateBestChain(f, n)
    \/ ProcessPaymentVote
    \/ CheckAndRemove
    \/ Clear

Spec == Init /\ [][Next]_vars

(***************************************************************************)
(* Properties.                                                             *)
(***************************************************************************)

TypeOK == P!TypeOK

\* The payment tables stay consistent when the tip they are pruned against
\* jumps, repeats or goes down with reorganisations.
IndexConsistent == P!IndexConsistent

\* The block this node mines on the chain tip passes its own block checks:
\* the coinbase FillBlockPayments() fills for height tip + 1 satisfies
\* IsBlockValueValid() and IsBlockPayeeValid() in every sync, spork and
\* trigger state. The superblock and budget branches of the three functions
\* must agree, and GetBestPayee() (strict >, first wins) must pick a payee
\* with SIGNATURES_REQUIRED votes when one exists, with votes stored under
\* payment tips that lag the chain or reorganise.
OwnBlockAccepted == P!BlockAccepted(tip + 1)

\* CheckAndRemove() erases only votes the vote handler would refuse at the
\* current tip, also after the tip went down.
PruneOnlyOutOfRange == P!PruneOnlyOutOfRange

\* masternodeSync is never behind the chain (see PSNotification).
SyncNeverBehind == N!SyncNeverBehind

\* This node signs one payee per height: ProcessBlock, which skips
\* CanVote, never stores two votes of its own stormnode for one height,
\* also when a reorganisation notifies the same height again.
OwnVoteOncePerHeight ==
    \A v, w \in votes : v.sn = Self /\ w.sn = Self /\ v.h = w.h => v = w


\* Sync() serves a peer at the same payments tip only votes its vote
\* handler accepts, for new and old peers and any nCountNeeded, while
\* CheckAndRemove() leaves out-of-range votes stored until it runs and the
\* tip moves both ways.
SyncWithinPeerRange ==
    \A newPeer \in BOOLEAN, n \in 0..(STORAGE_LIMIT + 1) :
        \A v \in P!Sync(newPeer, n) : P!InVoteRange(v.h, dsTip)

\* RequestLowDataPaymentBlocks() asks a new peer for exactly the low-data
\* heights of the active chain, batched by MAX_INV_SZ, while the payment
\* tables follow a payments tip that lags the chain (see StormnodePayments).
LowDataRequested == P!LowDataRequested(tip)

=============================================================================
