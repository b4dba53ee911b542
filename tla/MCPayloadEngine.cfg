CONSTANTS
    AddressSpace = 16
    MaxTransfer = 8
    MaxTimeout = 1
    Word = 2
    Base = 2
    Chunk = 4
    h1 = h1
    h2 = h2
    NoHandle = NoHandle
    NoInput = NoInput
    Handles <- MCHandles
    Layouts <- MCLayouts
    Inputs <- MCInputs
    RawDescriptors <- MCRawDescriptors
    Memories <- MCMemories
SPECIFICATION FairSpec
INVARIANTS
    ValidatorExact
    DriverPrevalidates
    StaysInBuffers
    SuccessIsWhole
    FailureIsContained
PROPERTY CommandEnds
CHECK_DEADLOCK FALSE
