SPECIFICATION LiveSpec
CONSTANTS
    Requests = {r1, r2}
    Lessons = {l1}
    LessonRows <- SomeLessonRows
    Documents <- SomeDocuments
    Horizon = 2
    MaxStarts = 3
INVARIANTS
    StageIsEarned
    ReadyWasEarned
    BookedWithLadv
    StageIsCurrent
PROPERTIES
    ExpiredLadvFails
CHECK_DEADLOCK FALSE
