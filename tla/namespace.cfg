SPECIFICATION Spec
CONSTANTS
    Thread = {t1, t2}
    User = {u1, u2}
    FolderName <- MCFolderName
    FileName <- MCFileName
    FolderId = {d1, d2}
    FileId = {f1, f2, f3}
    Root = Root
    MaxSuffix = 1
    Stamp = {9}
    NameOrder <- MCNameOrder
    ListLimit = 1
SYMMETRY Alike
CONSTRAINT Bounds
INVARIANTS OwnTree EntriesListed FirstFreeName
