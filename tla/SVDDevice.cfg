SPECIFICATION FairSpec
CONSTANTS
    spi1 = spi1
    spi2 = spi2
    spi3 = spi3
    Peripherals = {spi1, spi2, spi3}
    Order <- Listed
    Unknown = Unknown
    NoParent = NoParent
    MaxDepth = 4
INVARIANTS TypeOK InheritedRegisters
PROPERTY LoadReturns
