CONSTANTS
    me = me  s1 = s1  p1 = p1  p2 = p2
    MAX_HEIGHT = 3
    ACTIVATION_HEIGHT = 2
    Stormnodes = {me, s1}
    Ranked = {me, s1}
    Honest = {me, s1}
    Self = me
    Forged = {s1}
    Payees = {p1, p2}
    QueuePayee <- MCQueuePayee
    SIGNATURES_REQUIRED = 2
    STORAGE_LIMIT = 1
    FUTURE_VOTES = 1
    PROCESS_AHEAD = 1
    HASH_DEPTH = 1
    SUPERBLOCK_START = 3
    SUPERBLOCK_CYCLE = 1
    BUDGET_START = 1
    BUDGET_CYCLE = 2
    BUDGET_WINDOW = 1
    MAX_INV_SZ = 2
SPECIFICATION Spec
INVARIANT OwnVoteOncePerHeight
