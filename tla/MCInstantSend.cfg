CONSTANTS
    t1 = t1  t2 = t2  o1 = o1  o2 = o2  m1 = m1  m2 = m2
    Txs = {t1, t2}
    Outpoints = {o1, o2}
    Inputs <- MCInputsRace
    Masternodes = {m1, m2}
    Eligible = {m1, m2}
    Honest = {m1}
    SIGNATURES_REQUIRED = 2
    LOCK_TIMEOUT = 1
    FAILED_TIMEOUT = 2
    ActiveMasternode = m1
SPECIFICATION Spec
INVARIANTS TypeOK ConflictNeverReady
PROPERTIES LocksRefinement CandidateResolves
