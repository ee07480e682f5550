CONSTANTS
    MAX_HEIGHT = 5
    ACTIVATION_HEIGHT = 3
SPECIFICATION Spec
INVARIANT AutoLockFlagCurrent
