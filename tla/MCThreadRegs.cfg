\* One mode stands for svc, abt and und, which the code treats alike.
CONSTANTS
    Value = {v1, v2}
    OtherModes = {"svc"}
    WrittenStatus = {"system"}
SYMMETRY ValueSymmetry
SPECIFICATION Spec
INVARIANTS UserBankFresh IrqStatusKept
PROPERTY ActsAsBanked
