SPECIFICATION Spec
CONSTANTS
    Listings <- MCListings
    Delays = {6, 8, 12, 18, 30}
    MaxTroubled = 1
    Points <- MCPoints
    Deduction <- MCDeduction
    Availability = 106
INVARIANTS
    TypeOK
    OnlyDisorderRaises
    VerdictsDeserved
