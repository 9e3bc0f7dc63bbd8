SPECIFICATION Spec
CONSTANTS
    Off = Off
    None = None
    Torn = Torn
    Cold = Cold
    v1 = v1
    v2 = v2
    Value <- MCValue
INVARIANTS
    TypeOK
    DerivedFollows
PROPERTY SavesAtomically
