CONSTANTS
    p1 = p1
    p2 = p2
    Programs <- MCPrograms
    Starts <- MCStarts
    Elements = {"", ".", "..", "a", "b", "d", "l", "o", "s", "x", "bin"}
    Marker = "bin"
    MarkerLength = 4
    MAX_PATH = 12
    SM_MAX_SUBDIRS = 5
SPECIFICATION FairSpec
CHECK_DEADLOCK FALSE
INVARIANT TypeOK
INVARIANT PathsAreNormal
INVARIANT DirectoryIsThere
INVARIANT SameJobSameAnswer
PROPERTY StartupEnds
