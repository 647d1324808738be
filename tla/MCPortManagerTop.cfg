CONSTANTS
    Width = 5
    DefaultMin = 2
    DefaultMax = 3
SPECIFICATION Spec
INVARIANT AllPortsInRange
