CONSTANTS
    Inputs <- MCInputs
    KnownOpcodes <- SevenMissing
SPECIFICATION Spec
INVARIANTS
    TypeOK
    ModesReadAsSpecified
    ModesReadAtOffsets
