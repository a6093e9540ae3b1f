\* Two customizations, two writers; two deaths or failed steps of marketplaces.
SPECIFICATION Spec
CONSTANTS
    a = a  b = b  l = l  n1 = n1
    Sources <- MCSources
    Git <- MCGit
    Names <- MCNames
    NameOf <- MCNameOf
    Items = {i1, i2}
    Writers = {w1, w2}
    Nothing = Nothing  Cut = Cut
    NoJob = NoJob
    MaxFaults = 2
INVARIANTS NamesAreUnique ClonesAreOfEntries OrphansComeFromFaults CustomizationsStay
PROPERTY SpawnsOnOwnConfig
CONSTRAINT Bounded
SYMMETRY StoresSymmetry
