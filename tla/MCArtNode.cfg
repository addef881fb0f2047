SPECIFICATION Spec
CONSTANTS
    HalfByte = 4
    Cap4 = 3
    Cap16 = 5
    Cap48 = 7
    Low16 = 2
    Low48 = 4
    Low256 = 5
INVARIANTS
    TypeOK
    LayoutExact
    SlotsCoherent
