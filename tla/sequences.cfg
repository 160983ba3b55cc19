\* Three enrollments, two of one contact, under a cap of three.
SPECIFICATION FairSpec
CONSTANTS
    e1 = e1  e2 = e2  e3 = e3
    a = a  b = b
    NoOne = NoOne
    Enrollment = {e1, e2, e3}
    Contact = {a, b}
    ContactOf <- MCContactOf
    Plans <- MCPlans
    MaxSteps = 2
    BatchSize = 2
    HourlyRate = 1
    DailyCap = 2
    MaxActive = 3
    MaxIncidents = 2
INVARIANTS NoStepTwice NotForgotten
PROPERTIES RepliesStop EnrollmentsMoveOn
CHECK_DEADLOCK FALSE
