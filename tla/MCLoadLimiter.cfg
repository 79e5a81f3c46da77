CONSTANTS
    Device = {d1}
    Source = {s1}
    Request = {q1, q2, q3, q4}
    Limit = 2
    Window = 2
    MaxTime = 4
    Nobody = Nobody
SPECIFICATION Spec
SYMMETRY Symmetry
CHECK_DEADLOCK FALSE
INVARIANTS RecordedWithinLimit
