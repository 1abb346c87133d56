SPECIFICATION VmSpec
CONSTANTS
    VmNames = {m1}
    VmCallers = {u1, u2}
PROPERTIES
    DiskSurvives
