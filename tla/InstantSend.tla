---------------------------- MODULE InstantSend ----------------------------
(***************************************************************************)
(* The InstantSend orchestrator (CInstantSend, src/src/instantsend.h) of  *)
(* one node: lock requests, lock votes, the orphan-vote buffer, the       *)
(* per-transaction lock candidates with one outpoint lock per input, the  *)
(* reverse index used to detect double-spend races, the table of won      *)
(* outpoints, the timeout sweep and the reload of the persisted state.    *)
(*                                                                         *)
(* Only the class declarations and the inline members of COutPointLock   *)
(* are under src/; the handler bodies (instantsend.cpp) are not, so the   *)
(* actions below follow spec.md sections 4.3-4.5 and are marked           *)
(* spec_modelled in PROJECT.json.                                         *)
(*                                                                         *)
(* Every public operation runs under cs_instantsend for its full duration *)
(* (spec section 5), so each handler is one atomic action; concurrency is  *)
(* the interleaving of handlers fed by the network, the maintenance timer *)
(* and the block notifier.  Time is kept as saturating ages: a timestamp  *)
(* is only ever compared with "now" against LOCK_TIMEOUT and              *)
(* FAILED_TIMEOUT, so an age capped at FAILED_TIMEOUT + 1 loses nothing.   *)
(***************************************************************************)
EXTENDS Naturals, FiniteSets, Functions, TLC

CONSTANTS
    Txs,                  \* transactions that may ask for a lock (model values)
    Outpoints,            \* UTXOs they spend (model values)
    Inputs,               \* [Txs -> SUBSET Outpoints]: the inputs of each tx
    Masternodes,          \* masternode collateral outpoints
    Eligible,             \* masternodes ranked inside SIGNATURES_TOTAL
    Honest,               \* masternodes that never sign two txs for one UTXO
    SIGNATURES_REQUIRED,  \* COutPointLock::SIGNATURES_REQUIRED (10)
    LOCK_TIMEOUT,         \* INSTANTSEND_LOCK_TIMEOUT_SECONDS (15), in ticks
    FAILED_TIMEOUT,       \* INSTANTSEND_FAILED_TIMEOUT_SECONDS (60), in ticks
    ActiveMasternode      \* this node's masternode (activeMasternode.outpoint),
                          \* a value outside Masternodes when fMasterNode is off

ASSUME /\ Eligible \subseteq Masternodes /\ Honest \subseteq Masternodes
       /\ \A t \in Txs : Inputs[t] # {} /\ Inputs[t] \subseteq Outpoints
       \* "must be greater than INSTANTSEND_LOCK_TIMEOUT_SECONDS"
       /\ 0 < LOCK_TIMEOUT /\ LOCK_TIMEOUT < FAILED_TIMEOUT

AGE_MAX == FAILED_TIMEOUT + 1

EmptyMap == [x \in {} |-> 0]

\* A vote message: CTxLockVote without the signature; its hash is the hash
\* of exactly these three fields.
Vote == [tx : Txs, outpoint : Outpoints, mn : Masternodes]
VoteUniverse == {v \in Vote : v.outpoint \in Inputs[v.tx]}

VARIABLES
    accepted,        \* mapLockRequestAccepted: tx hashes
    rejected,        \* mapLockRequestRejected: tx hashes
    votes,           \* mapTxLockVotes: vote -> age
    orphans,         \* mapTxLockVotesOrphan: vote -> age
    candidates,      \* mapTxLockCandidates: tx -> candidate record
    votedOutpoints,  \* mapVotedOutpoints: UTXO -> set of tx hashes
    lockedOutpoints, \* mapLockedOutpoints: UTXO -> winning tx hash
    mnOrphanAge,     \* mapMasternodeOrphanVotes: mn -> age of last orphan vote
    signed           \* environment: votes the masternodes have really signed

isVars == <<accepted, rejected, votes, orphans, candidates, votedOutpoints,
            lockedOutpoints, mnOrphanAge>>
vars == <<isVars, signed>>

-----------------------------------------------------------------------------
(* COutPointLock: the inline members of instantsend.h                     *)

OutPointLock == [votes : SUBSET Masternodes, attacked : BOOLEAN]

NewOutPointLock == [votes |-> {}, attacked |-> FALSE]

\* CountVotes(): zero while attacked, else the size of mapMasternodeVotes
CountVotes(ol) == IF ol.attacked THEN 0 ELSE Cardinality(ol.votes)

\* Fault variant of IsReady: one signature short of the threshold.
IsReadyOneShort(ol) == ~ol.attacked /\ CountVotes(ol) >= SIGNATURES_REQUIRED - 1

\* IsReady()
IsReady(ol) == ~ol.attacked /\ CountVotes(ol) >= SIGNATURES_REQUIRED

\* Fault variant of MarkAsAttacked: the flag is never set.
MarkAsAttackedNoop(ol) == ol

\* MarkAsAttacked(): one-way
MarkAsAttacked(ol) == [ol EXCEPT !.attacked = TRUE]

(* CTxLockCandidate                                                        *)

\* A candidate built by CreateTxLockCandidate (request known) or by
\* CreateEmptyTxLockCandidate (an empty shell awaiting its request).
NewCandidate(hasRequest) == [request |-> hasRequest, age |-> 0,
                             ols |-> [o \in {} |-> NewOutPointLock]]

\* Fault variant of IsAllOutPointsReady: some outpoint ready is enough.
IsAnyOutPointReady(c) == \E o \in DOMAIN c.ols : IsReady(c.ols[o])

\* IsAllOutPointsReady(): never true for a candidate with no outpoint lock
IsAllOutPointsReady(c) ==
    /\ DOMAIN c.ols # {}
    /\ \A o \in DOMAIN c.ols : IsReady(c.ols[o])

\* IsTimedOut(): older than the lock-acceptance window
IsTimedOut(age) == age > LOCK_TIMEOUT
\* older than the failed-retention window
IsFailedAge(age) == age > FAILED_TIMEOUT

-----------------------------------------------------------------------------
(* Derived views of CInstantSend                                           *)

HasRequest(t) == t \in DOMAIN candidates /\ candidates[t].request

\* IsLockedInstantSendTransaction(): every input won by t
IsLocked(t) == \A o \in Inputs[t] : o \in DOMAIN lockedOutpoints
                                   /\ lockedOutpoints[o] = t

\* an input of t already won by another transaction
HasConflictingLock(t) ==
    \E o \in Inputs[t] : o \in DOMAIN lockedOutpoints /\ lockedOutpoints[o] # t

\* Fault variant of MarkOutpointsAttacked: an off-by-one in the contender
\* count, so two racing transactions are not enough.
MarkOutpointsAttackedTriple(cands, vo, os) ==
    [u \in DOMAIN cands |->
        [cands[u] EXCEPT !.ols =
            [o \in DOMAIN cands[u].ols |->
                IF o \in os /\ u \in vo[o] /\ Cardinality(vo[o]) > 2
                THEN MarkAsAttacked(cands[u].ols[o])
                ELSE cands[u].ols[o]]]]

\* The attack check of ProcessNewTxLockVote: for every outpoint o in os that
\* more than one transaction now contends for (vo[o]), mark the outpoint lock
\* of o attacked in the candidate of every contender.
MarkOutpointsAttacked(cands, vo, os) ==
    [u \in DOMAIN cands |->
        [cands[u] EXCEPT !.ols =
            [o \in DOMAIN cands[u].ols |->
                IF o \in os /\ u \in vo[o] /\ Cardinality(vo[o]) > 1
                THEN MarkAsAttacked(cands[u].ols[o])
                ELSE cands[u].ols[o]]]]

\* UpdateVotedOutpoints: record that t received votes on the outpoints os.
UpdateVotedOutpoints(vo, t, os) ==
    [o \in DOMAIN vo |-> IF o \in os THEN vo[o] \cup {t} ELSE vo[o]]

\* TryToFinalizeLockCandidate / LockTransactionInputs / ResolveConflicts:
\* a candidate whose outpoints are all ready wins its inputs, unless an
\* input is already won by another transaction, in which case the late
\* contender is rejected.  Returns <<lockedOutpoints', rejected'>>.
TryToFinalizeLockCandidate(c, t, locked, rej) ==
    IF ~IsAllOutPointsReady(c) THEN <<locked, rej>>
    ELSE IF \E o \in Inputs[t] : o \in DOMAIN locked /\ locked[o] # t
         THEN <<locked, rej \cup {t}>>
         ELSE <<[o \in Inputs[t] |-> t] @@ locked, rej>>

-----------------------------------------------------------------------------
(* Environment: the votes the other masternodes sign.  An honest          *)
(* masternode never signs votes for two different transactions spending  *)
(* the same UTXO; the other masternodes may.  Their signing does not      *)
(* depend on this node's state, so those votes are chosen in the initial  *)
(* state.  This node's own masternode signs only in Vote, which adds its   *)
(* votes to signed.  The network may deliver every signed vote at any     *)
(* time, any number of times, in any order, or never, also back to this  *)
(* node after a Clear() made it forget the vote.                         *)

HonestSignatures(S) ==
    \A v, w \in S : v.mn = w.mn /\ v.mn \in Honest /\ v.outpoint = w.outpoint
                        => v.tx = w.tx

(* ProcessTxLockRequest / AcceptLockRequest / RejectLockRequest, followed  *)
(* by the replay of the orphan votes of this transaction.  valid is the    *)
(* outcome of IsValid(), the fee check and the auto-lock throttle, which  *)
(* depend on the mempool and are not modelled further.                    *)

\* Fault variant of AcceptedCandidate: an outpoint lock for every known
\* UTXO rather than for the inputs of t.
AcceptedCandidateAllOutpoints(t) ==
    LET base == IF t \in DOMAIN candidates THEN candidates[t] ELSE NewCandidate(TRUE)
    IN  [base EXCEPT !.request = TRUE,
                     !.ols = [o \in Outpoints |-> NewOutPointLock]]

\* CreateTxLockCandidate: fill the empty shell, if one exists, keeping its
\* creation time, and add one outpoint lock per input (AddOutPointLock).
AcceptedCandidate(t) ==
    LET base == IF t \in DOMAIN candidates THEN candidates[t] ELSE NewCandidate(TRUE)
    IN  [base EXCEPT !.request = TRUE,
                     !.ols = [o \in Inputs[t] |-> NewOutPointLock]]

\* The votes in mine added to the outpoint locks of candidate c.
AddVotes(c, mine) ==
    [c EXCEPT !.ols = [o \in DOMAIN c.ols |->
        [c.ols[o] EXCEPT !.votes = @ \cup {w.mn : w \in {x \in mine : x.outpoint = o}}]]]

\* Vote (spec section 4.5, "Cast votes"): when this node is an eligible,
\* quorum-ranked masternode, it signs one vote per input of the accepted
\* request that it has not yet voted on, as its vote table (voteTable)
\* records it; a vote for a timed-out candidate would not count and is
\* not cast.
OwnVotes(t, c, voteTable) ==
    IF ActiveMasternode \notin Eligible \/ IsTimedOut(c.age) THEN {}
    ELSE {[tx |-> t, outpoint |-> o, mn |-> ActiveMasternode] :
            o \in {i \in Inputs[t] :
                    ~\E w \in DOMAIN voteTable :
                        w.mn = ActiveMasternode /\ w.outpoint = i}}

ProcessTxLockRequest(t, valid) ==
    /\ t \notin accepted \cup rejected
    /\ IF HasConflictingLock(t) \/ ~valid
       THEN /\ rejected' = rejected \cup {t}
            /\ UNCHANGED <<accepted, votes, orphans, candidates, votedOutpoints,
                           lockedOutpoints, signed>>
       ELSE LET c0     == AcceptedCandidate(t)
                \* orphans are not replayed into a timed-out candidate
                mine   == IF IsTimedOut(c0.age) THEN {}
                          ELSE {w \in DOMAIN orphans : w.tx = t}
                votes1 == Restrict(orphans, mine) @@ votes
                own    == OwnVotes(t, c0, votes1)
                os     == {w.outpoint : w \in mine \cup own}
                vo     == UpdateVotedOutpoints(votedOutpoints, t, os)
                cands  == MarkOutpointsAttacked(
                             (t :> c0) @@ candidates, vo, os)
                c1     == AddVotes(cands[t], mine \cup own)
                fin    == TryToFinalizeLockCandidate(c1, t, lockedOutpoints,
                                                     rejected)
            IN  /\ accepted' = accepted \cup {t}
                /\ candidates' = [cands EXCEPT ![t] = c1]
                /\ votedOutpoints' = vo
                /\ orphans' = Restrict(orphans, DOMAIN orphans \ mine)
                /\ votes' = [w \in own |-> 0] @@ votes1
                /\ signed' = signed \cup own
                /\ lockedOutpoints' = fin[1]
                /\ rejected' = fin[2]
    /\ UNCHANGED mnOrphanAge

(* ProcessNewTxLockVote.  Dedup by vote hash against both vote tables;     *)
(* verification (signature and rank); one vote per masternode per outpoint;*)
(* update of the reverse index and the attack check; then either parking  *)
(* as an orphan, rate-limited per masternode, or insertion into the       *)
(* candidate followed by TryToFinalizeLockCandidate.  throttled is the     *)
(* outcome of comparing the masternode's last orphan time with            *)
(* GetAverageMasternodeOrphanVoteTime(), which the spec leaves open.      *)

\* CTxLockVote::IsValid() (the masternode is known and ranked within
\* SIGNATURES_TOTAL for the vote's height) and CheckSignature().
IsValidVote(v) == v \in signed /\ v.mn \in Eligible

OrphanFresh(m) == m \in DOMAIN mnOrphanAge /\ ~IsTimedOut(mnOrphanAge[m])

ProcessNewTxLockVote(v, throttled) ==
    LET t == v.tx
        o == v.outpoint
        known == HasRequest(t)
        vo == UpdateVotedOutpoints(votedOutpoints, t, {o})
        cands == MarkOutpointsAttacked(candidates, vo, {o})
    IN
    /\ v \notin DOMAIN votes \cup DOMAIN orphans
    \* CheckSignature() and the rank check; a failing vote is dropped
    /\ IsValidVote(v)
    \* one vote per masternode per outpoint
    /\ known => v.mn \notin candidates[t].ols[o].votes
    /\ ~known => ~\E w \in DOMAIN orphans : w.outpoint = o /\ w.mn = v.mn
    /\ throttled => ~known /\ OrphanFresh(v.mn)
    /\ votedOutpoints' = vo
    /\ IF ~known
       THEN \* orphan: park it, unless the masternode is throttled
            /\ IF throttled
               THEN UNCHANGED <<orphans, mnOrphanAge>> /\ candidates' = cands
               ELSE /\ orphans' = (v :> 0) @@ orphans
                    /\ mnOrphanAge' = (v.mn :> 0) @@ mnOrphanAge
                    /\ candidates' = IF t \in DOMAIN cands THEN cands
                                     ELSE (t :> NewCandidate(FALSE)) @@ cands
            /\ UNCHANGED <<votes, lockedOutpoints, rejected>>
       ELSE IF IsTimedOut(candidates[t].age)
       THEN \* votes arriving after the acceptance window do not count
            /\ candidates' = cands
            /\ UNCHANGED <<votes, orphans, lockedOutpoints, rejected, mnOrphanAge>>
       ELSE LET c1  == [cands[t] EXCEPT !.ols[o].votes = @ \cup {v.mn}]
                fin == TryToFinalizeLockCandidate(c1, t, lockedOutpoints, rejected)
            IN  /\ votes' = (v :> 0) @@ votes
                /\ candidates' = [cands EXCEPT ![t] = c1]
                /\ lockedOutpoints' = fin[1]
                /\ rejected' = fin[2]
                /\ UNCHANGED <<orphans, mnOrphanAge>>
    /\ UNCHANGED <<accepted, signed>>

(* CheckAndRemove, run by the maintenance timer and on every new tip.       *)
(* A pending candidate past the acceptance window without a lock moves     *)
(* from the accepted to the rejected table; a candidate past the failed-   *)
(* retention window that never locked is purged with its request entries *)
(* and its entries in the reverse index; accepted votes past the failed   *)
(* window of a transaction that is not locked, orphan votes past the       *)
(* acceptance window and stale per-masternode orphan times are dropped.   *)
(* A locked transaction is never purged (only Clear() removes it).        *)

TimedOutPending == {t \in DOMAIN candidates :
                      candidates[t].request /\ IsTimedOut(candidates[t].age)
                      /\ ~IsLocked(t)}
\* Fault variant of FailedCandidates: only candidates with a request are
\* purged, so empty shells created by orphan votes stay forever.
FailedRequestCandidates == {t \in DOMAIN candidates :
                              candidates[t].request /\ IsFailedAge(candidates[t].age)
                              /\ ~IsLocked(t)}
FailedCandidates == {t \in DOMAIN candidates :
                       IsFailedAge(candidates[t].age) /\ ~IsLocked(t)}

CheckAndRemove ==
    LET gone == FailedCandidates
    IN
    /\ accepted' = accepted \ (TimedOutPending \cup gone)
    /\ rejected' = (rejected \cup TimedOutPending) \ gone
    /\ candidates' = Restrict(candidates, DOMAIN candidates \ gone)
    /\ votedOutpoints' = [o \in Outpoints |-> votedOutpoints[o] \ gone]
    /\ votes' = RestrictDomain(votes, LAMBDA w : ~(IsFailedAge(votes[w])
                                                    /\ ~IsLocked(w.tx)))
    /\ orphans' = RestrictDomain(orphans, LAMBDA w : ~IsTimedOut(orphans[w]))
    /\ mnOrphanAge' = RestrictDomain(mnOrphanAge, LAMBDA m : ~IsTimedOut(mnOrphanAge[m]))
    /\ UNCHANGED <<lockedOutpoints, signed>>

\* Time passes: every timestamp grows one tick older.  An age is capped one
\* past the largest window it is compared with, which keeps it exact.
Older(f, cap) == [x \in DOMAIN f |-> IF f[x] < cap THEN f[x] + 1 ELSE f[x]]

Tick ==
    /\ votes' = Older(votes, AGE_MAX)
    /\ orphans' = Older(orphans, LOCK_TIMEOUT + 1)
    /\ mnOrphanAge' = Older(mnOrphanAge, LOCK_TIMEOUT + 1)
    /\ candidates' = [t \in DOMAIN candidates |->
                        [candidates[t] EXCEPT !.age = IF @ < AGE_MAX THEN @ + 1 ELSE @]]
    /\ UNCHANGED <<accepted, rejected, votedOutpoints, lockedOutpoints, signed>>

(* Restart: SerializationOp reads the persisted tables back; when the      *)
(* stored version string differs from SERIALIZATION_VERSION_STRING it      *)
(* calls Clear() and the node rebuilds its state from live traffic.  A    *)
(* reload with a matching version restores the state unchanged.            *)

Clear ==
    /\ accepted' = {} /\ rejected' = {}
    /\ votes' = EmptyMap /\ orphans' = EmptyMap /\ candidates' = EmptyMap
    /\ votedOutpoints' = [o \in Outpoints |-> {}]
    /\ lockedOutpoints' = EmptyMap /\ mnOrphanAge' = EmptyMap
    /\ UNCHANGED signed

-----------------------------------------------------------------------------

Init ==
    /\ accepted = {} /\ rejected = {}
    /\ votes = EmptyMap /\ orphans = EmptyMap /\ candidates = EmptyMap
    /\ votedOutpoints = [o \in Outpoints |-> {}]
    /\ lockedOutpoints = EmptyMap /\ mnOrphanAge = EmptyMap
    /\ signed \in {S \in SUBSET {v \in VoteUniverse : v.mn # ActiveMasternode} :
                    HonestSignatures(S)}

Next ==
    \/ \E t \in Txs, valid \in BOOLEAN : ProcessTxLockRequest(t, valid)
    \/ \E v \in VoteUniverse, throttled \in BOOLEAN : ProcessNewTxLockVote(v, throttled)
    \/ CheckAndRemove
    \/ Tick
    \/ Clear

\* The maintenance timer fires periodically and the clock never stops.
Fairness == WF_vars(CheckAndRemove) /\ WF_vars(Tick)

Spec == Init /\ [][Next]_vars /\ Fairness

-----------------------------------------------------------------------------
(* Properties                                                              *)

Candidate == [request : BOOLEAN, age : 0..AGE_MAX,
              ols : UNION {[S -> OutPointLock] : S \in SUBSET Outpoints}]

TypeOK ==
    /\ accepted \subseteq Txs /\ rejected \subseteq Txs
    /\ DOMAIN votes \subseteq VoteUniverse /\ DOMAIN orphans \subseteq VoteUniverse
    /\ \A w \in DOMAIN votes : votes[w] \in 0..AGE_MAX
    /\ \A w \in DOMAIN orphans : orphans[w] \in 0..AGE_MAX
    /\ DOMAIN candidates \subseteq Txs
    /\ \A t \in DOMAIN candidates : candidates[t] \in Candidate
                                  /\ DOMAIN candidates[t].ols \subseteq Inputs[t]
    /\ votedOutpoints \in [Outpoints -> SUBSET Txs]
    /\ DOMAIN lockedOutpoints \subseteq Outpoints
    /\ \A o \in DOMAIN lockedOutpoints : lockedOutpoints[o] \in Txs
    /\ DOMAIN mnOrphanAge \subseteq Masternodes
    /\ signed \subseteq VoteUniverse

\* Conflict property (spec section 8): once the votes of two transactions
\* spending the same UTXO have both been seen, the outpoint lock of that
\* UTXO is not ready in the candidate of either, whatever its vote count.
\* This is about the attack check of ProcessNewTxLockVote and its replay
\* when a request arrives after its votes.
ConflictNeverReady ==
    \A o \in Outpoints : Cardinality(votedOutpoints[o]) > 1 =>
        \A t \in votedOutpoints[o] \cap DOMAIN candidates :
            o \in DOMAIN candidates[t].ols => ~IsReady(candidates[t].ols[o])

\* Every transaction that was ever given a lock candidate is eventually
\* either locked or purged from mapTxLockCandidates: the sweep of
\* CheckAndRemove leaves no stalled candidate, empty shells included.
CandidateResolves ==
    \A t \in Txs : t \in DOMAIN candidates ~> (IsLocked(t) \/ t \notin DOMAIN candidates)

\* InstantSend implements the abstract lock table of InstantSendLocks:
\* mapLockedOutpoints is the owner map.  This covers one-winner-per-UTXO,
\* all-inputs-at-once, quorum-before-lock (signature and rank checks, one
\* vote per masternode, orphan replay) and first-wins permanence (the sweep
\* never purges a won outpoint; only Clear() on a version mismatch does).
Locks == INSTANCE InstantSendLocks WITH owner <- lockedOutpoints

LocksRefinement == Locks!Spec

=============================================================================
