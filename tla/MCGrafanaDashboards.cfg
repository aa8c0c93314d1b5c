CONSTANTS
    odd = odd
    Plain = Plain
    Shapes = {odd}
    Designs <- MCDesigns
    Torn = Torn
    MaxEdits = 2
    MaxDeaths = 2
SPECIFICATION Spec
INVARIANTS
    AddedOnce
    OneResult
    NoOverlap
