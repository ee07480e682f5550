CONSTANTS
    t1 = t1  t2 = t2  o1 = o1  o2 = o2  m1 = m1  m2 = m2
    Txs = {t1, t2}
    Outpoints = {o1, o2}
    Inputs <- MCInputsMulti
    Masternodes = {m1}
    Eligible = {m1}
    Honest = {}
    SIGNATURES_REQUIRED = 1
    LOCK_TIMEOUT = 1
    FAILED_TIMEOUT = 2
    ActiveMasternode = NoMasternode
SPECIFICATION Spec
INVARIANTS ConflictNeverReady
PROPERTIES LocksRefinement
