CONSTANTS
    me = me  s1 = s1  s2 = s2  p1 = p1  p2 = p2
    Stormnodes = {me, s1, s2}
    Ranked = {me, s1, s2}
    Honest = {me, s1, s2}
    Self = me
    Forged = {s1}
    Payees = {p1, p2}
    QueuePayee <- MCQueuePayee
    SIGNATURES_REQUIRED = 2
    STORAGE_LIMIT = 1
    FUTURE_VOTES = 1
    PROCESS_AHEAD = 1
    HASH_DEPTH = 1
    SUPERBLOCK_START = 3
    SUPERBLOCK_CYCLE = 1
    BUDGET_START = 1
    BUDGET_CYCLE = 2
    BUDGET_WINDOW = 1
    MAX_INV_SZ = 2
    MAX_TIP = 3
SPECIFICATION Spec
INVARIANT LastVoteBacked
