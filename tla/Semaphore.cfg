CONSTANTS
    Agents = {a1, a2, a3, a4}
    Permits = 2
    Half = 4
SPECIFICATION Spec
INVARIANTS NoLostWakeup
PROPERTIES ImplementsPermits
