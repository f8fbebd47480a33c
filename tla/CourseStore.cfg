CONSTANTS
    admin = admin
    owner = owner
    student = student
    l1 = l1
    v1 = v1
    v2 = v2
    None = None
    Users = {admin, owner, student}
    Admins = {admin}
    Lessons = {l1}
    Versions = {v1, v2}
    Artifacts <- MCArtifacts
    Timelines <- MCTimelines
    Times = {0, 1}
    Stored <- MCStored
    Requests = {q1, q2}
    OperationSet <- MCOperations
    MaxRevision = 2
SYMMETRY CourseSymmetry
SPECIFICATION Spec
INVARIANTS StoredCourseLoads FailureHasCause RemovedStaysOut
PROPERTY ImplementsLedger
