\* A malformed row and a deliverable one, batches of one row, a request
\* thread and two retry threads in two processes, and one failure.
CONSTANTS
    e1 = e1  e2 = e2
    p1 = p1  p2 = p2
    a1 = a1  b1 = b1  b2 = b2
    Events = {e1, e2}
    Malformed = {e1}
    Requests = {a1}
    Retriers = {b1, b2}
    Procs = {p1, p2}
    ProcOf <- MCProcOf
    BatchSize = 1
    PollInterval = 16
    MaxFaults = 1
SPECIFICATION LiveSpec
INVARIANTS NoDuplicateWithoutFault
PROPERTIES PublishedIsFinal ImplementsDelivery EventuallyPublished
