SPECIFICATION Spec
CONSTANTS
    a1 = a1
    a2 = a2
    Attorneys = {a1, a2}
    Nobody = Nobody
    b1 = b1
    b3 = b3
    Buttons = {b1, b3}
    Owner <- MCOwner
    MaxClicks <- MCMaxClicks
    MaxDrops = 1
    MaxDbFaults = 0
    MayErase = FALSE
INVARIANT ConflictIsSomeoneElse
