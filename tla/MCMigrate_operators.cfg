CONSTANTS
    o1 = o1
    o2 = o2
    k1 = k1
    Operators = {o1, o2}
    Keys = {k1}
    NoOne = NoOne
    MaxPaid = 2
SPECIFICATION Spec
SYMMETRY Symmetry
INVARIANT VersionIsTrue
 
INVARIANT OncePerKey
