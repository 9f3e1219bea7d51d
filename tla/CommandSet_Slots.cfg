SPECIFICATION Spec
CONSTANT Bitfields <- AFewBits
INVARIANT AllSlotsFilled
