\* Four slots hold a wrap, a full fifo and two whole vectors.
CONSTANTS
    Value = {a, b}
    Size = 4
    Word = 16
    Vector = 2
    Garbage = Garbage
SPECIFICATION Spec
PROPERTY ActsAsQueue
