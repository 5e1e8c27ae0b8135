SPECIFICATION Spec
CONSTANTS
    a1 = a1
    a2 = a2
    f1 = f1
    f2 = f2
    r1 = r1
    MaxEntry = 1
    Adds <- MCAdds
    Fences <- MCOneFence
    Reads <- MCNoReads
    MaxCrashes = 1
SYMMETRY MCSymmetry
INVARIANT FenceSurvives
