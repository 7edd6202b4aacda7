\* The client computes with 1 and 110 by +, - and *: 110 - 1 keeps a borrow.
CONSTANTS
    IntBits = 32
    MaxDepth = 3
    Regs <- MCRegs
    Inputs = {1, 110}
    Strings = {}
    Ops = {"add", "sub", "mul"}
    MaxVal = 1000
SPECIFICATION Spec
INVARIANT ResultsAgree
CHECK_DEADLOCK FALSE
