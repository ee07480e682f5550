---------------------------- MODULE PSNotification ----------------------------
(***************************************************************************)
(* The block-tip listener of the masternode subsystems                     *)
(* (CPSNotificationInterface::UpdatedBlockTip and InitializeCurrentBlockTip *)
(* in src/psnotificationinterface.cpp), driven by the chain.               *)
(*                                                                         *)
(* Validation (outside the repository) moves the tip and then notifies the *)
(* listener with the new tip, the fork point and whether the node is in    *)
(* initial block download. Blocks are identified by their height: the fork *)
(* point is an ancestor of the new tip, so the two are the same block      *)
(* exactly when they have the same height. The listener updates:           *)
(*  - masternodeSync (syncTip) on every notification that connects blocks; *)
(*  - instantsend.isAutoLockBip9Active (autoLock) from the deployment      *)
(*    state at the new tip;                                                *)
(*  - the Dash subsystems (dsTip: mnodeman, PrivateSend, instantsend,      *)
(*    mnpayments, governance) outside initial download and lite mode.      *)
(***************************************************************************)
EXTENDS Integers

CONSTANTS
    MAX_HEIGHT,        \* the highest block the chain reaches in the model
    ACTIVATION_HEIGHT  \* first height at which DEPLOYMENT_ISAUTOLOCKS is active

ASSUME ACTIVATION_HEIGHT \in 1..MAX_HEIGHT

\* pindexFork = NULL, as InitializeCurrentBlockTip passes it.
NoBlock == -1

VARIABLES
    tip,          \* chainActive.Tip() height
    ibd,          \* IsInitialBlockDownload()
    fLiteMode,    \* the global lite-mode flag, fixed at start-up
    initialized,  \* InitializeCurrentBlockTip has run
    syncTip,      \* the tip masternodeSync was given (NoBlock: none)
    autoLock,     \* instantsend.isAutoLockBip9Active
    dsTip         \* the tip the Dash subsystems were given (NoBlock: none)

vars == <<tip, ibd, fLiteMode, initialized, syncTip, autoLock, dsTip>>

\* VersionBitsState(pindexNew->pprev, ..., DEPLOYMENT_ISAUTOLOCKS) == ACTIVE
DeploymentActive(h) == h >= ACTIVATION_HEIGHT

\* Fault variant: the initial-download return precedes masternodeSync.
UpdatedBlockTipSyncAfterIBD(pindexNew, pindexFork, fInitialDownload) ==
    IF pindexNew = pindexFork \/ fInitialDownload
      THEN UNCHANGED <<syncTip, autoLock, dsTip>>
      ELSE /\ syncTip' = pindexNew
           /\ autoLock' = DeploymentActive(pindexNew)
           /\ dsTip' = IF fLiteMode THEN dsTip ELSE pindexNew

\* The listener passes its three early returns and calls mnodeman,
\* PrivateSend, instantsend, mnpayments and governance.
NotifiesSubsystems(pindexNew, pindexFork, fInitialDownload) ==
    pindexNew # pindexFork /\ ~fInitialDownload /\ ~fLiteMode

\* The listener, for a new tip, a fork point and the download state.
UpdatedBlockTip(pindexNew, pindexFork, fInitialDownload) ==
    IF pindexNew = pindexFork
      THEN UNCHANGED <<syncTip, autoLock, dsTip>>
      ELSE /\ syncTip' = pindexNew
           /\ autoLock' = DeploymentActive(pindexNew)
           /\ dsTip' = IF NotifiesSubsystems(pindexNew, pindexFork, fInitialDownload)
                          THEN pindexNew ELSE dsTip

\* At start-up, with the tip loaded from disk and no fork point.
InitializeCurrentBlockTip ==
    /\ ~initialized
    /\ initialized' = TRUE
    /\ UpdatedBlockTip(tip, NoBlock, ibd)
    /\ UNCHANGED <<tip, ibd, fLiteMode>>

\* ActivateBestChain: disconnect down to the fork point f, connect up to n,
\* notify with the current download state. n = f disconnects only.
ActivateBestChain(f, n) ==
    /\ initialized
    /\ tip' = n
    /\ UpdatedBlockTip(n, f, ibd)
    /\ UNCHANGED <<ibd, fLiteMode, initialized>>

\* IsInitialBlockDownload latches to false, whichever caller sees it first.
InitialDownloadEnds ==
    /\ ibd
    /\ ibd' = FALSE
    /\ UNCHANGED <<tip, fLiteMode, initialized, syncTip, autoLock, dsTip>>

Init ==
    /\ tip \in 0..MAX_HEIGHT
    /\ ibd \in BOOLEAN
    /\ fLiteMode \in BOOLEAN
    /\ initialized = FALSE
    /\ syncTip = NoBlock
    /\ autoLock = FALSE
    /\ dsTip = NoBlock

Next ==
    \/ InitializeCurrentBlockTip
    \/ InitialDownloadEnds
    \/ \E f \in 0..tip, n \in 0..MAX_HEIGHT :
          /\ f <= n
          /\ n # tip \/ f < n
          /\ ActivateBestChain(f, n)

Spec == Init /\ [][Next]_vars

(***************************************************************************)
(* Properties.                                                             *)
(***************************************************************************)

\* masternodeSync is never behind the chain: the listener hands it every
\* tip that connects blocks, also during initial download and in lite mode,
\* which it needs to notice that the chain has synced. It is only ever ahead,
\* after blocks were disconnected without new ones.
SyncNeverBehind == initialized => syncTip >= tip

\* Spec section 4 (chain-tip update): the process-wide auto-lock flag follows
\* the deployment state of the tip. After the listener has seen the chain,
\* isAutoLockBip9Active is true exactly when the deployment is active at the
\* current tip.
AutoLockFlagCurrent ==
    initialized => (autoLock <=> DeploymentActive(tip))

=============================================================================
