SPECIFICATION Spec
CONSTANT Bitfields <- EdgeBits
INVARIANTS
    NeverOverflows
    ListsWhatTheVehicleSupports
