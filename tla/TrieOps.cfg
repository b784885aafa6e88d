SPECIFICATION Spec
CONSTANTS
    Nibbles = {0, 1}
    Keys <- MCKeys
    KeyLength = 3
    Values <- MCValues
    Long = {long}
    short = short
    long = long
    NoValue = NoValue
    InlineLimit = 3
    MaxOps = 5
INVARIANTS LookupMatches SnapshotsReadable BuiltCanonical
\* A trie nobody asks anything of rests.
CHECK_DEADLOCK FALSE
