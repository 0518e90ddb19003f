\* Three callers race for one key with two payloads of two kinds, and write
\* the history of its Job; the second Job is there for a key used twice.
CONSTANTS
    Jobs = {j1, j2}
    Callers = {c1, c2, c3}
    Keys = {k1}
    Hashes = {h1, h2}
    Kinds = {"backup", "release"}
    Results = {r1}
    NoResult = NoResult
    NoRequest = NoRequest
    MaxOrdinal = 3
    ProgressSteps = {1, 2}
SPECIFICATION Spec
SYMMETRY MCSymmetry
INVARIANTS CancelExcludes OneJobPerKey EventsOrdered
PROPERTIES LifecycleSpec
