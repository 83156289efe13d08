\* Enough writes to connect, disconnect and propose once more.
CONSTANTS
    MaxWrites = 5
    MaxLists = 1
SPECIFICATION Spec
INVARIANT LocalMeansLocal
PROPERTY UsesByMode
PROPERTY AnswersAreCurrent
