CONSTANTS
    Callers = {job, user}
    Job = job
    MaxDocs = 5
    PageSize = 2
    MaxPages = 2
    Hour = 2
    Cooldown = 3
    MaxFaults = 3
SPECIFICATION Spec
PROPERTY RejectionLosesNothing
