\* Admission of four jobs to the devices of one host.
CONSTANTS
    u1 = u1
    d1 = d1
    d2 = d2
    e1 = e1
    UserJobs = {u1}
    DeviceJobs = {d1, d2, e1}
    Device <- Cards
    Executed = {u1, d1}
    Observers = {d1, d2, e1}
    Assisted = {u1}
    Patience = 1

SPECIFICATION FairBrokerSpec
CHECK_DEADLOCK FALSE

INVARIANTS
    LeasesExclude
PROPERTIES
    ImplementsLeases
    JobsEnd
    SleepersRefuseNobody
