SPECIFICATION Spec
CONSTANTS
    Procs = {p1, p2, p3}
    Old = Old
    Absent = Absent
    Anon = Anon
    Empty = Empty
INVARIANTS
    FirstRunsConverge
