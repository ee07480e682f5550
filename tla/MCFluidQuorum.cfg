CONSTANTS
    Keys = {k1, k2, k3, k4}
    NoKey = NoKey
    BadAddress = BadAddress
    SOVEREIGNS = 5
SYMMETRY Symmetry
SPECIFICATION Spec
INVARIANTS QuorumIsThreeDistinctSovereigns SovereignSignersReported
