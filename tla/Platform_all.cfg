\* Two valid events and a foreign message, one of them copied at most, a
\* hand-over and a crash.
CONSTANTS
    w1 = w1  w2 = w2  e1 = e1  e2 = e2  junk = junk
    Workers = {w1, w2}
    Events = {e1, e2, junk}
    Malformed = {junk}
    MaxLog = 3
    MaxRebalances = 1
    MaxCrashes = 1
    MaxExtra = 1
CHECK_DEADLOCK FALSE
SPECIFICATION PlatformLiveSpec
INVARIANTS NoMessageSkipped PublishedIsPursued
PROPERTIES OffsetStays ImplementsEndToEnd ImplementsLiveEndToEnd
