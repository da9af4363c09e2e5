SPECIFICATION BodySpec
CONSTANTS
    Descriptions = {d1, d2}
    MaxReports = 4
    Events = {OnTestStart}
    Lines = {line1}
    Tags = {tag1, tag2}
    MaxDone = 3
INVARIANTS
    WorstCounts
    ResultTellsAll
CHECK_DEADLOCK FALSE
