CONSTANT
    MaxRecords <- Entries
SPECIFICATION FairSpec
INVARIANTS
    TypeOK
    NobodyWaitsForEver
    AnswersMeetTheirPrompts
    SemaphoreLostOnlyWithItsClient
PROPERTIES
    NoServerIsLeftBehind
    PersonIsServed
    FirstPromptEnds
CHECK_DEADLOCK FALSE
