SPECIFICATION Spec
CONSTANTS
    Gone = Gone
    Folder = Folder
    None = None
    Name = {"a", "b", "f", "g"}
    Files <- MCFiles
    Folders <- MCFolders
    FirstDisk <- MCFirstDisk
    MaxActs = 3
    MaxEdits = 1
    Scenarios = {{}, {"hurry"}, {"window"}, {"claim"}, {"change"}, {"replace"}, {"repeat"}}
INVARIANTS
    SessionsTellTheTruth
    OneSessionPerPath
    TreeShowsTheDisk
PROPERTIES
    UnsavedWorkStays
CHECK_DEADLOCK FALSE
