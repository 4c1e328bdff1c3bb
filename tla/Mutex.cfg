CONSTANTS
    Agents = {a1, a2, a3, a4}
SPECIFICATION MutexSpec
INVARIANTS FreeLockWakes
PROPERTIES ImplementsPermit SomeoneGetsIn
