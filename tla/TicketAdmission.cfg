\* Three threads in two processes; two events with one ticket_id, the first redelivered; crashes anywhere.
SPECIFICATION FairAdmissionSpec
CONSTANTS
    e1 = e1
    e2 = e2
    t1 = t1
    p1 = p1
    p2 = p2
    p3 = p3
    s1 = s1
    s2 = s2
    Key = {e1, e2}
    HasUrl = {e1}
    MaxAttempts = 2
    Proc = {p1, p2, p3}
    Store = {s1, s2}
    StoreOf <- TwoProcesses
    NoProc = NoProc
    MaxPosts = 2
    TicketOf <- SameTicket
    MaxWebhooks <- Redelivery
CHECK_DEADLOCK FALSE
INVARIANTS MissionRunsOnce ReportAfterTruth
PROPERTY AssignReturns
