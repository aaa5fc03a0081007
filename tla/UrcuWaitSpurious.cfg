SPECIFICATION SpuriousSpec
CONSTANTS
    Readers = {r1}
    Updaters = {u1, u2}
    END = END
    NULL = NULL
INVARIANT
    WakeUpAssertHolds
