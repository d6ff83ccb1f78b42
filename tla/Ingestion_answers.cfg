SPECIFICATION FairSpec
CONSTANTS
    ChunkSize = 3
    Overlap = 2
    MaxLength = 5
PROPERTY CreateDocumentAnswers
CHECK_DEADLOCK FALSE
