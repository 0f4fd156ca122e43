CONSTANTS
    q1 = q1
    q2 = q2
    Requests <- MCRequests
    HoursPayloads <- MCHours
    ClosurePayloads <- MCClosures
    Dates <- MCDates
    Cutoffs = {0, 240}
    Instants <- MCInstants
    Offset = 540
    SearchDays = 14
SYMMETRY Symmetry
SPECIFICATION Spec
INVARIANTS
    OpenAsScheduled
    AnnouncedTimesHold
PROPERTY FreshEditsFit
CHECK_DEADLOCK FALSE
