SPECIFICATION ProgramsSpec
CONSTANTS
    BlockSize = 3
    FilenameLen = 3
    DirLimit = 5
    MaxDirectory = 6
    InodeCount = 8
    MaxOffset = 8
    MaxLength = 8
    Entries <- MCEntries
    Queries <- MCQueries
    FileLength <- MCFileLength
    BlockNum <- MCBlockNum
    MaxFiles = 4
    NumInodes = 3
    HalfWord = 4
    Dentry <- MCDentry
    MissingNames <- MCMissingNames
    Length <- MCLength
    Users = {u1, u2}
    ArgLength = 5
    Space = 1
    Exit <- MCExit
    Cat <- MCCat
    Ls <- MCLs
    DataFiles <- MCDataFiles
    CommandLines <- MCAllLines
    WordBits = 8
    Literals = {"a"}
    Words <- MCWords
    Strings <- MCStrings
    MaxItems = 3
    BufSize = 3
    GrepFiles <- MCGrepFiles
    Patterns <- MCPatterns
    Leftover = {0, 10}
    NumStructs = 3
    ScreenSize = 3
    Locations = {1, 2, 3}
    Lengths <- MCLengths
    Width = 4
    Offset = 2
    EndOfLine = 10
    SpaceChar = 32
    OtherChar = 48
    PictureFiles <- MCPictureFiles
SYMMETRY MCSymmetry
INVARIANTS
    LookupCorrect
    ReadCorrect
    ListsAllEntries
    HeldIsServed
    StdStreamsSurvive
    EveryByteOnce
    CommandAnswered
    PrintfShowsArguments
    GrepPrintsMatches
    ListIsInUse
    SyncedInStep
    FramesAligned
