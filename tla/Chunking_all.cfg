\* Limits that paragraphs and chunks meet, miss and exceed by one.
CONSTANTS
    Texts <- MCTexts
    Limits = {4, 5, 9}
CHECK_DEADLOCK FALSE
SPECIFICATION Spec
INVARIANTS NothingLost WithinLimit FewestChunks
