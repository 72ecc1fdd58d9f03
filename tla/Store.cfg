CONSTANTS
    SetWorkerInfo = SetWorkerInfo
    SetSelectedRendition = SetSelectedRendition
    List = List
    DeleteByMedia = DeleteByMedia
    NoMut = NoMut
    Mut <- MCMut
    Field <- MCField
    FieldsOf <- MCFieldsOf
    CanSkip <- MCCanSkip
    Scan <- MCScan
    Deletes <- MCDeletes
    MaxAttempts = 2
    MaxCreates = 2
SPECIFICATION FairSpec
INVARIANTS SnapshotCurrent StoreInv
PROPERTIES UpdatesAreAtomic MutatorsReturn
CHECK_DEADLOCK FALSE
