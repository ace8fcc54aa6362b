\* Three writers of a file, two of them within a millisecond or not.
SPECIFICATION StoreSpec
CONSTANTS
    Writers = {w1, w2, w3}
    MaxMs = 2
    NoFile = NoFile
INVARIANT FilesAreWhole
CHECK_DEADLOCK FALSE
