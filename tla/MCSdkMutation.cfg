CONSTANTS
    r1 = r1
    r2 = r2
    first = first
    retry = retry
    picker = picker
    RequestId = {r1, r2}
    Payload = {"plan", "picker"}
    Outcome = {succeeded, rejected, cancelled}
    Cancelled = cancelled
    Succeeded = succeeded
    Rejected = rejected
    None = none
    Capacity = 2
    MaxTokens = 2
    MaxTickets = 1
    Call = {first, retry, picker}
    Assignments <- MCAssignments
    IsPicker <- MCIsPicker
    Edit = {e1}
SPECIFICATION MSpec
CHECK_DEADLOCK FALSE
INVARIANTS
    CommitsAtMostOnce
    ResultsAreTrue
    ClosedMeansSettled
    UnresolvedHasOneWayOut
PROPERTIES
    EveryCallIsAnswered
    NoChangeIsLost
    OutcomeIsFinal
