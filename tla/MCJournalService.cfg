SPECIFICATION Spec
CONSTANTS
    a1 = a1
    a2 = a2
    f1 = f1
    f2 = f2
    r1 = r1
    MaxEntry = 1
    Adds <- MCAdds
    Fences <- MCOneFence
    Reads <- MCReads
    MaxCrashes = 1
SYMMETRY MCSymmetry
INVARIANTS TypeOK ReadNeverMisses FenceReportsSession FencedStoresOnlyInFlight
