CONSTANTS
    Agents = {a1, a2}
    Permits = 4
    Half = 4
SPECIFICATION Spec
INVARIANTS PermitsConserved
