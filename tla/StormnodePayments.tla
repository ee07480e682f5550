------------------------- MODULE StormnodePayments -------------------------
(***************************************************************************)
(* Stormnode payment-winner voting (CStormnodePayments,                   *)
(* src/src/stormnode-payments.cpp) of one node.  Stormnodes ranked in the *)
(* top SNPAYMENTS_SIGNATURES_TOTAL vote for the payee of a future block;  *)
(* the node keeps the votes by hash (mapStormnodePaymentVotes), the       *)
(* payees of each height with the hashes of their votes                   *)
(* (mapStormnodeBlocks / CStormnodeBlockPayees::vecPayees) and the last   *)
(* height each stormnode voted for (mapStormnodesLastVote, CanVote).      *)
(*                                                                         *)
(* The handlers take cs_mapStormnodeBlocks and cs_mapStormnodePaymentVotes*)
(* around their updates and do not block in between, so each handler is  *)
(* one atomic step.  A vote is the record of the fields its hash covers   *)
(* (stormnode, height, payee); the signature is a separate input.  The    *)
(* rank oracle (GetStormnodeRank), the payment queue                      *)
(* (GetNextStormnodeInQueueForPayment) and the active chain are external  *)
(* collaborators, given as constants.                                     *)
(***************************************************************************)
EXTENDS Integers, FiniteSets, Sequences, SequencesExt, Functions

CONSTANTS
    Stormnodes,          \* stormnode collateral outpoints (model values)
    Ranked,              \* stormnodes known, up to date and ranked <= SIGNATURES_TOTAL
    Honest,              \* stormnodes that only sign the payee their queue selects
    Self,                \* activeStormnode.vin: this node's own stormnode
    Forged,              \* stormnodes named in votes relayed with a bad signature
    Payees,              \* payee scripts (model values)
    QueuePayee,          \* stormnode -> height -> payee its GetNextStormnodeInQueueForPayment selects
    SIGNATURES_REQUIRED, \* SNPAYMENTS_SIGNATURES_REQUIRED
    STORAGE_LIMIT,       \* GetStorageLimit(): max(size * nStorageCoeff, nMinBlocksToStore)
    FUTURE_VOTES,        \* 20: highest height accepted is tip + 20
    PROCESS_AHEAD,       \* 10: UpdatedBlockTip votes for tip + 10
    HASH_DEPTH,          \* 101: AddPaymentVote needs the hash of block h - 101
    MAX_TIP,             \* bound on the height of the chain tip
    SUPERBLOCK_START,    \* consensus nSuperblockStartBlock
    SUPERBLOCK_CYCLE,    \* consensus nSuperblockCycle
    BUDGET_START,        \* consensus nBudgetPaymentsStartBlock
    BUDGET_CYCLE,        \* consensus nBudgetPaymentsCycleBlocks
    BUDGET_WINDOW,       \* consensus nBudgetPaymentsWindowBlocks
    MAX_INV_SZ           \* most inventory entries of one GETDATA message

ASSUME /\ Ranked \subseteq Stormnodes /\ Honest \subseteq Stormnodes /\ Forged \subseteq Stormnodes
       /\ Self \in Honest
       /\ SIGNATURES_REQUIRED > 0
       \* the code's constants satisfy 10 <= 20 <= 101, so block h - 101 is
       \* never above the tip for an accepted height h: only heights below
       \* 101 (the early chain) fail in AddPaymentVote
       /\ SUPERBLOCK_CYCLE > 0 /\ BUDGET_CYCLE > 0 /\ MAX_INV_SZ > 0
       /\ 0 < PROCESS_AHEAD /\ PROCESS_AHEAD <= FUTURE_VOTES /\ FUTURE_VOTES <= HASH_DEPTH

NoTip == -1                               \* pCurrentBlockIndex == NULL
Heights == 0..(MAX_TIP + FUTURE_VOTES)

\* CStormnodePaymentVote: the fields its hash covers.
Vote == [sn : Stormnodes, h : Heights, payee : Payees]

\* A vote whose signature verifies: an honest stormnode signs only the payee
\* its own view of the queue selects (views may differ between stormnodes);
\* the others sign anything.
Genuine(v) == v.sn \notin Honest \/ v.payee = QueuePayee[v.sn][v.h]

VARIABLES
    tip,        \* pCurrentBlockIndex->nHeight, or NoTip
    votes,      \* mapStormnodePaymentVotes: the stored votes (by hash)
    blocks,     \* mapStormnodeBlocks: height -> vecPayees, a sequence of
                \*   [payee, hashes] in insertion order
    lastVote    \* mapStormnodesLastVote: stormnode -> height

vars == <<tip, votes, blocks, lastVote>>

-----------------------------------------------------------------------------
(* CStormnodeBlockPayees                                                   *)

\* The vote hashes of all payees of a height.
BlockVoteHashes(ps) == UNION {ps[i].hashes : i \in DOMAIN ps}

\* CStormnodePayee::GetVoteCount()
VoteCount(e) == Cardinality(e.hashes)

\* Fault variant of AddPayee: the existing entry of the payee is not found,
\* so every vote appends a new entry.
AddPayeeAppend(ps, v) == Append(ps, [payee |-> v.payee, hashes |-> {v}])

\* Fault variant of AddPayee: a new entry is created without the vote hash.
AddPayeeNoHash(ps, v) ==
    LET i == SelectInSeq(ps, LAMBDA e : e.payee = v.payee)
    IN  IF i = 0 THEN Append(ps, [payee |-> v.payee, hashes |-> {}])
        ELSE [ps EXCEPT ![i].hashes = @ \cup {v}]

\* AddPayee(): add the vote hash to the entry of its payee, or append one.
AddPayee(ps, v) ==
    LET i == SelectInSeq(ps, LAMBDA e : e.payee = v.payee)
    IN  IF i = 0 THEN Append(ps, [payee |-> v.payee, hashes |-> {v}])
        ELSE [ps EXCEPT ![i].hashes = @ \cup {v}]

\* Fault variant of GetBestPayee: nVotes is never updated, so every payee
\* beats -1 and the last one wins.
GetBestPayeeLast(ps) == ps[Len(ps)].payee

\* GetBestPayee(): the first payee with the highest vote count (strict >).
GetBestPayee(ps) ==
    LET n == [i \in DOMAIN ps |-> VoteCount(ps[i])]
        best == CHOOSE i \in DOMAIN ps :
                  /\ \A j \in DOMAIN ps : n[j] <= n[i]
                  /\ \A j \in 1..(i - 1) : n[j] < n[i]
    IN  ps[best].payee

\* IsTransactionValid(): below SIGNATURES_REQUIRED votes on every payee any
\* payee is accepted; otherwise the coinbase must pay one payee that has
\* SIGNATURES_REQUIRED votes (the amount is the same on both sides).
BlockPayeesValid(ps, paid) ==
    \/ \A i \in DOMAIN ps : VoteCount(ps[i]) < SIGNATURES_REQUIRED
    \/ \E i \in DOMAIN ps : VoteCount(ps[i]) >= SIGNATURES_REQUIRED
                            /\ ps[i].payee = paid

-----------------------------------------------------------------------------
(* CStormnodePayments                                                      *)

NoPayee == "none"

\* CStormnodePayments::IsTransactionValid(): heights without payees pass.
IsTransactionValid(paid, h) ==
    h \notin DOMAIN blocks \/ BlockPayeesValid(blocks[h], paid)

\* GetBlockPayee(): the best payee of a height with payees.
GetBlockPayee(h) ==
    IF h \in DOMAIN blocks THEN [ok |-> TRUE, payee |-> GetBestPayee(blocks[h])]
                           ELSE [ok |-> FALSE, payee |-> NoPayee]

\* FillBlockPayee(): the payee of GetBlockPayee(), else the locally
\* computed next stormnode in the queue.
FillBlockPayee(h) ==
    LET r == GetBlockPayee(h) IN IF r.ok THEN r.payee ELSE QueuePayee[Self][h]

-----------------------------------------------------------------------------
(* Block-level payment rules (IsBlockValueValid, IsBlockPayeeValid,        *)
(* FillBlockPayments). The node's view of the network, which changes over  *)
(* time, is a record: stormnodeSync.IsSynced(), the sporks 8 (payment      *)
(* enforcement), 9 (superblocks) and 13 (old superblock flag), and whether *)
(* governance holds an activated trigger for the height. A coinbase is     *)
(* either a stormnode payment to a payee or the superblock CreateSuperblock *)
(* builds, which pays proposals on top of the block reward.                *)

View == [synced : BOOLEAN, spork8 : BOOLEAN, spork9 : BOOLEAN,
         spork13 : BOOLEAN, trigger : BOOLEAN]


Coinbase == [kind : {"stormnode"}, payee : Payees]
              \cup [kind : {"superblock"}, payee : {NoPayee}]

\* CSuperblock::IsValidBlockHeight (governance, outside the repository).
IsValidBlockHeight(h) == h >= SUPERBLOCK_START /\ h % SUPERBLOCK_CYCLE = 0

\* CSuperblockManager::IsSuperblockTriggered: only at a superblock height.
IsSuperblockTriggered(view, h) == view.trigger /\ IsValidBlockHeight(h)

\* The budget window before superblocks started.
InBudgetWindow(h) == h >= BUDGET_START /\ h % BUDGET_CYCLE < BUDGET_WINDOW

\* CSuperblockManager::IsValid: the coinbase is the triggered superblock.
SuperblockValid(view, tx, h) ==
    tx.kind = "superblock" /\ IsSuperblockTriggered(view, h)

\* isNormalBlockValueMet: only a superblock pays above the block reward;
\* isSuperblockMaxValueMet holds for both (CreateSuperblock stays within
\* GetPaymentsLimit).
NormalValueMet(tx) == tx.kind = "stormnode"

IsBlockValueValid(view, tx, h) ==
    IF h < SUPERBLOCK_START
      THEN IF InBudgetWindow(h) /\ ~(view.synced /\ ~view.spork13)
             THEN TRUE
             ELSE NormalValueMet(tx)
      ELSE CASE ~view.synced /\ IsValidBlockHeight(h)   -> TRUE
             [] ~view.synced                            -> NormalValueMet(tx)
             [] view.spork9 /\ IsSuperblockTriggered(view, h)
                                                        -> SuperblockValid(view, tx, h)
             [] OTHER                                   -> NormalValueMet(tx)

\* snpayments.IsTransactionValid, then the budget window and spork 8.
StormnodePaymentValid(view, tx, h) ==
    \/ IsTransactionValid(tx.payee, h)
    \/ ~view.spork8

IsBlockPayeeValid(view, tx, h) ==
    CASE ~view.synced -> TRUE
      [] h < SUPERBLOCK_START ->
            \/ IsTransactionValid(tx.payee, h)
            \/ InBudgetWindow(h) /\ view.spork13
            \/ ~InBudgetWindow(h) /\ ~view.spork8
      [] view.spork9 /\ IsSuperblockTriggered(view, h) -> SuperblockValid(view, tx, h)
      [] OTHER -> StormnodePaymentValid(view, tx, h)

\* FillBlockPayments: the triggered superblock if spork 9 is on, else the
\* stormnode payment of FillBlockPayee.
FillBlockPayments(view, h) ==
    IF view.spork9 /\ IsSuperblockTriggered(view, h)
      THEN [kind |-> "superblock", payee |-> NoPayee]
      ELSE [kind |-> "stormnode", payee |-> FillBlockPayee(h)]

\* The range check of the STORMNODEPAYMENTVOTE handler.
InVoteRange(h, t) == t - STORAGE_LIMIT <= h /\ h <= t + FUTURE_VOTES

\* CStormnodePaymentVote::IsValid(): the stormnode is known, runs a recent
\* enough protocol and is ranked within SNPAYMENTS_SIGNATURES_TOTAL.
IsValid(v) == v.sn \in Ranked

\* CanVote(): refuses only a repeat of the stormnode's last voted height.
CanVote(sn, h) == ~(sn \in DOMAIN lastVote /\ lastVote[sn] = h)

\* AddPaymentVote() succeeds: the block h - 101 is on the active chain and
\* the hash is new.
CanAddPaymentVote(v, t) ==
    /\ v.h - HASH_DEPTH >= 0 /\ v.h - HASH_DEPTH <= t
    /\ v \notin votes

\* AddPaymentVote(): store the vote and add it to its height's payees.
AddPaymentVote(v) ==
    /\ votes' = votes \cup {v}
    /\ blocks' = (v.h :> AddPayee(IF v.h \in DOMAIN blocks THEN blocks[v.h]
                                  ELSE <<>>, v)) @@ blocks

\* ProcessMessage(STORMNODEPAYMENTVOTE): drop a known hash, a vote out of
\* range or from a stormnode that is unknown or not ranked (IsValid), and a
\* second vote of the stormnode for its last height (CanVote, which records
\* the height as it passes); then CheckSignature() (sigOK) and
\* AddPaymentVote().  The version and sync checks only drop messages.
ProcessPaymentVote(v, sigOK) ==
    /\ tip # NoTip
    /\ v \notin votes
    /\ InVoteRange(v.h, tip)
    /\ IsValid(v)
    /\ CanVote(v.sn, v.h)
    /\ lastVote' = (v.sn :> v.h) @@ lastVote
    /\ IF sigOK /\ CanAddPaymentVote(v, tip)
       THEN AddPaymentVote(v)
       ELSE UNCHANGED <<votes, blocks>>
    /\ UNCHANGED tip

\* ProcessBlock(h): if this node's stormnode is ranked and the queue and
\* signing succeed (found), it votes for the payee the queue selects for h
\* through AddPaymentVote(), without CanVote(). t is the current tip.
ProcessBlock(h, t, found, payee) ==
    LET v == [sn |-> Self, h |-> h, payee |-> payee] IN
    IF found /\ Self \in Ranked /\ CanAddPaymentVote(v, t)
      THEN AddPaymentVote(v)
      ELSE UNCHANGED <<votes, blocks>>

\* UpdatedBlockTip(pindex): pCurrentBlockIndex = pindex, then
\* ProcessBlock(pindex->nHeight + 10).
UpdatedBlockTip(n, found, payee) ==
    /\ tip' = n
    /\ ProcessBlock(n + PROCESS_AHEAD, n, found, payee)
    /\ UNCHANGED lastVote

\* The chain grows by one block and the node is notified; its queue view
\* selects QueuePayee[Self][h].
NextBlock(found) ==
    /\ tip < MAX_TIP
    /\ UpdatedBlockTip(tip + 1, found, QueuePayee[Self][tip + 1 + PROCESS_AHEAD])

\* Fault variant of IsOldVote: >= instead of >.
IsOldVoteOffByOne(v, t) == t - v.h >= STORAGE_LIMIT

\* CheckAndRemove(): a vote older than the storage limit is erased together
\* with the whole payee list of its height.
IsOldVote(v, t) == t - v.h > STORAGE_LIMIT

CheckAndRemove ==
    LET old == {v \in votes : IsOldVote(v, tip)}
    IN  /\ tip # NoTip
        /\ votes' = votes \ old
        /\ blocks' = Restrict(blocks, DOMAIN blocks \ {v.h : v \in old})
        /\ UNCHANGED <<tip, lastVote>>

\* Clear(): both vote tables are emptied; mapStormnodesLastVote is kept.
Clear ==
    /\ votes' = {} /\ blocks' = [h \in {} |-> <<>>]
    /\ UNCHANGED <<tip, lastVote>>

-----------------------------------------------------------------------------
(* Serving and requesting payment data. These only send inventory; they    *)
(* are operators whose result is the set or sequence of messages sent.     *)
(* Peers of protocol 70202 and later are "new" peers.                      *)

\* Fault variant of Sync: the request of an old peer is not capped.
SyncNoCap(newPeer, nCountNeeded) ==
    IF tip = NoTip THEN {}
    ELSE LET n == IF newPeer THEN 0 ELSE nCountNeeded
         IN  UNION {BlockVoteHashes(blocks[h]) :
                      h \in {k \in DOMAIN blocks : tip - n <= k /\ k < tip + FUTURE_VOTES}}

\* Sync(pnode, nCountNeeded): the votes pushed to the peer, those of every
\* payee of heights tip - nCountNeeded .. tip + 19. New peers get only the
\* future window (nCountNeeded = 0); old ones at most GetStorageLimit().
Sync(newPeer, nCountNeeded) ==
    IF tip = NoTip THEN {}
    ELSE LET n == IF newPeer THEN 0
                   ELSE IF nCountNeeded > STORAGE_LIMIT THEN STORAGE_LIMIT
                   ELSE nCountNeeded
         IN  UNION {BlockVoteHashes(blocks[h]) :
                      h \in {k \in DOMAIN blocks : tip - n <= k /\ k < tip + FUTURE_VOTES}}

\* SNPAYMENTS_SIGNATURES_TOTAL is the number of ranked stormnodes.
AverageVotes == (Cardinality(Ranked) + SIGNATURES_REQUIRED) \div 2

\* The loop over vecPayees: stop at the first payee with
\* SIGNATURES_REQUIRED votes (fFound), else add up nTotalVotes.
CountPayeeVotes(ps) ==
    FoldLeft(LAMBDA acc, e :
                 IF acc.found THEN acc
                 ELSE IF VoteCount(e) >= SIGNATURES_REQUIRED
                        THEN [acc EXCEPT !.found = TRUE]
                        ELSE [acc EXCEPT !.total = @ + VoteCount(e)],
             [found |-> FALSE, total |-> 0], ps)

\* GetBlockHash(): the active chain has a block at height h.
GetBlockHash(h, chainTip) == 0 <= h /\ h <= chainTip

\* Fault variant of FetchLoop: the last, partial batch is never sent.
RECURSIVE FetchLoopNoRest(_, _, _, _)
FetchLoopNoRest(hs, vToFetch, sent, chainTip) ==
    IF hs = <<>> THEN sent
    ELSE LET c  == CountPayeeVotes(blocks[Head(hs)])
             v1 == IF GetBlockHash(Head(hs), chainTip)
                     THEN Append(vToFetch, Head(hs)) ELSE vToFetch
         IN  CASE c.found \/ c.total >= AverageVotes ->
                    FetchLoopNoRest(Tail(hs), vToFetch, sent, chainTip)
               [] Len(v1) = MAX_INV_SZ ->
                    FetchLoopNoRest(Tail(hs), <<>>, Append(sent, v1), chainTip)
               [] OTHER -> FetchLoopNoRest(Tail(hs), v1, sent, chainTip)

\* The while loop of RequestLowDataPaymentBlocks over mapStormnodeBlocks
\* in ascending height order: skip heights with a clear winner or the
\* average number of votes; queue the block hash of the others; send a
\* GETDATA whenever MAX_INV_SZ hashes are queued, and the rest at the end.
RECURSIVE FetchLoop(_, _, _, _)
FetchLoop(hs, vToFetch, sent, chainTip) ==
    IF hs = <<>> THEN IF vToFetch # <<>> THEN Append(sent, vToFetch) ELSE sent
    ELSE LET c  == CountPayeeVotes(blocks[Head(hs)])
             v1 == IF GetBlockHash(Head(hs), chainTip)
                     THEN Append(vToFetch, Head(hs)) ELSE vToFetch
         IN  CASE c.found \/ c.total >= AverageVotes ->
                    FetchLoop(Tail(hs), vToFetch, sent, chainTip)
               [] Len(v1) = MAX_INV_SZ ->
                    FetchLoop(Tail(hs), <<>>, Append(sent, v1), chainTip)
               [] OTHER -> FetchLoop(Tail(hs), v1, sent, chainTip)

\* RequestLowDataPaymentBlocks(pnode): the GETDATA messages sent, each a
\* sequence of heights; old peers get none.
RequestLowDataPaymentBlocks(newPeer, chainTip) ==
    IF newPeer
      THEN FetchLoop(SetToSortSeq(DOMAIN blocks, <), <<>>, <<>>, chainTip)
      ELSE <<>>

-----------------------------------------------------------------------------

Init ==
    /\ tip = NoTip
    /\ votes = {} /\ blocks = [h \in {} |-> <<>>]
    /\ lastVote = [sn \in {} |-> 0]

\* A peer may relay any vote, genuine or with a bad signature, any number of
\* times and in any order.
Next ==
    \/ \E v \in Vote, sigOK \in BOOLEAN :
           (IF sigOK THEN Genuine(v) ELSE v.sn \in Forged)
           /\ ProcessPaymentVote(v, sigOK)
    \/ \E found \in BOOLEAN : NextBlock(found)
    \/ CheckAndRemove
    \/ Clear

Spec == Init /\ [][Next]_vars

-----------------------------------------------------------------------------
(* Properties                                                              *)

PayeeEntry == [payee : Payees, hashes : SUBSET Vote \ {{}}]

\* Every CStormnodePayee is built with the hash of the vote that created it.
TypeOK ==
    /\ tip \in {NoTip} \cup 0..MAX_TIP
    /\ votes \subseteq Vote
    /\ DOMAIN blocks \subseteq Heights
    /\ \A h \in DOMAIN blocks : blocks[h] \in Seq(PayeeEntry)
    /\ DOMAIN lastVote \subseteq Stormnodes
    /\ \A sn \in DOMAIN lastVote : lastVote[sn] \in Heights

\* The two vote tables agree: mapStormnodeBlocks[h] lists each payee once,
\* and the hashes it lists are exactly the stored votes for h, each under
\* its own payee.  AddPaymentVote() updates both, and CheckAndRemove()
\* erases a vote and the whole payee list of its height in one pass.
IndexConsistent ==
    /\ \A h \in DOMAIN blocks :
           /\ blocks[h] # <<>>
           /\ \A i, j \in DOMAIN blocks[h] :
                  blocks[h][i].payee = blocks[h][j].payee => i = j
           /\ \A i \in DOMAIN blocks[h] : \A v \in blocks[h][i].hashes :
                  v \in votes /\ v.h = h /\ v.payee = blocks[h][i].payee
    /\ \A v \in votes : v.h \in DOMAIN blocks
                        /\ \E i \in DOMAIN blocks[v.h] : v \in blocks[v.h][i].hashes

\* The coinbase this node's miner fills with FillBlockPayments() for height
\* h passes this node's own IsBlockValueValid() and IsBlockPayeeValid() in
\* every sync, spork and trigger state.
BlockAccepted(h) ==
    \A view \in View :
        LET tx == FillBlockPayments(view, h) IN
        IsBlockValueValid(view, tx, h) /\ IsBlockPayeeValid(view, tx, h)

\* CheckAndRemove() never erases a vote, or the payee list of a height, that
\* the STORMNODEPAYMENTVOTE handler would still accept: the pruning bound
\* (tip - h > limit) and the range check (h >= tip - limit) agree.
PruneOnlyOutOfRange ==
    [][~Clear =>
         /\ \A v \in votes \ votes' : ~InVoteRange(v.h, tip)
         /\ \A h \in DOMAIN blocks \ DOMAIN blocks' : ~InVoteRange(h, tip)]_vars

\* CanVote() admits one vote per stormnode and height: no two stored votes
\* of one stormnode for the same height.
OneVotePerStormnodeHeight ==
    \A v, w \in votes : v.sn = w.sn /\ v.h = w.h => v = w

\* CanVote() reports "already voted" only for a stormnode whose vote for that
\* height is stored (while the height is storable and in range).
LastVoteBacked ==
    \A sn \in DOMAIN lastVote :
        LET h == lastVote[sn] IN
        InVoteRange(h, tip) /\ h >= HASH_DEPTH =>
            \E v \in votes : v.sn = sn /\ v.h = h


\* Reference for RequestLowDataPaymentBlocks: the heights of the active
\* chain whose payees have no clear winner and fewer than the average
\* number of votes in all.
LowDataHeights(chainTip) ==
    {h \in DOMAIN blocks :
        /\ GetBlockHash(h, chainTip)
        /\ \A i \in DOMAIN blocks[h] : VoteCount(blocks[h][i]) < SIGNATURES_REQUIRED
        /\ SumFunction([i \in DOMAIN blocks[h] |-> VoteCount(blocks[h][i])]) < AverageVotes}

\* RequestLowDataPaymentBlocks asks a new peer for every low-data height of
\* the active chain, in ascending order, each once, in GETDATA messages of
\* at most MAX_INV_SZ entries of which only the last may be short.
LowDataRequested(chainTip) ==
    LET msgs == RequestLowDataPaymentBlocks(TRUE, chainTip) IN
    /\ FlattenSeq(msgs) = SetToSortSeq(LowDataHeights(chainTip), <)
    /\ \A i \in DOMAIN msgs : Len(msgs[i]) \in 1..MAX_INV_SZ
    /\ \A i \in 1..(Len(msgs) - 1) : Len(msgs[i]) = MAX_INV_SZ

=============================================================================
