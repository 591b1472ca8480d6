CONSTANTS
    MaxSeq = 3
    MaxIov = 2
    MaxObjs = 2
    MaxQueue = 3
SPECIFICATION FairSpec
INVARIANTS TalkVerdict BatchIndex AnswerIsMine
PROPERTIES CallsReturn DumpImplemented
CHECK_DEADLOCK FALSE
