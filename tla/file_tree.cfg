\* Every tree of four folders and nine files, and each call on it.
SPECIFICATION Spec
CONSTANTS
    Names <- MCNames
    AllFolders <- MCFolders
    AllFiles <- MCFiles
    Hidden = {".h"}
    Targets <- MCTargets
    Cut <- MCCut
INVARIANT TypeOK
INVARIANT ListedOnce
INVARIANT DumpHonest
INVARIANT DeletesAll
INVARIANT CopiesAll
INVARIANT MakesPath
PROPERTY CallEnds
CHECK_DEADLOCK FALSE
