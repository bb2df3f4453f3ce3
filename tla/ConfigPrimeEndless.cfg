\* Bytes of four bits, programs and programs that end within a hundred and ten instructions.
CONSTANTS
    ByteBits = 4
    PtrBits = 7
    NoRegister = "none"
    Registers <- SomeRegisters
    FunctionAddress <- SomeAddresses
    MemorySize = 56
    Slot = 8
    MaxSteps = 110
    Programs <- Everything
SPECIFICATION Spec
INVARIANT OneSingleExecution
