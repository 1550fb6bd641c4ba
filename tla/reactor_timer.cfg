CONSTANTS
    Objs = {a, b}
    NoObj = NoObj
    MaxRaise = 2
SPECIFICATION Spec
INVARIANT DeliveredBeforeStop
