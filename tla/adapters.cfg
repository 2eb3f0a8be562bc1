SPECIFICATION Spec
CONSTANTS
    Adapters = {a1, a2}
    Digests = {d1, d2}
    Baked = {a2}
    MountIds = {m1}
    Capacity = 1
    RejectWhenFull = FALSE
    Evaluators = {e1, e2}
    Consoles = {c1, c2}
    None = None
INVARIANTS
    ServedCleared
    WithinCapacity
PROPERTY
    SignOffStands
