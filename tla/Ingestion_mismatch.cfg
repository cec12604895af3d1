\* Two ingestors, a runbook in two texts and two ways to cut the first, and
\* up to four ingestions.
CONSTANTS
    i1 = i1  i2 = i2
    old = old  recut = recut  new = new
    oldText = oldText  newText = newText
    Ingestors = {i1, i2}
    Versions = {old, recut, new}
    Contents = {oldText, newText}
    Content <- MCContent
    Size <- MCSize
    MaxRuns = 4
CHECK_DEADLOCK FALSE
SPECIFICATION Spec
INVARIANTS ChunksMatchDocument
