SPECIFICATION Spec
CONSTANTS
    Spaces = {1, 2, 3}
    Deks = {k1, k2, k3}
    Passwords = {p1, p2}
    Absent = Absent
    Torn = Torn
    None = None
SYMMETRY Symmetry
PROPERTIES RestartSwitches
CHECK_DEADLOCK FALSE
