SPECIFICATION Spec
INVARIANTS
    TopNCorrectWhenFillSorted
    PositionByDvCorrect
    LastVersionIsNewest
    RecordRoundTrip
    TornRecordRejected
    WritersResolve
    StartVersionsAgree
