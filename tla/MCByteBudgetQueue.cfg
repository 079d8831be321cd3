\* Two producers and the closing thread against the worker, every order of
\* four items.
SPECIFICATION FairSpec
CONSTANTS
    Producer = {p1, p2}
    Item <- MCItem
    Size <- MCSize
    Budget = 3
    Nobody = nobody
    NoItem = noitem
INVARIANTS
    BytesExact
    NoLostWakeup
PROPERTIES
    KeepsItsPromise
    WorkerEnds
