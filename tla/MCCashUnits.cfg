CONSTANTS
    Amounts <- MCAmounts
    Digits <- MCDigits
    PARSE_MAX_LEN = 18
SPECIFICATION Spec
INVARIANTS FormatMatchesReference RoundTrip FloorTruncates
