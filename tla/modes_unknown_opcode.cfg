CONSTANTS
    Inputs <- MCInputs
    KnownOpcodes <- SevenMissing
SPECIFICATION Spec
INVARIANTS
    ModesNoPanic
