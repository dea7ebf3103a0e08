\* One thread's document fails while another flushes.
CONSTANTS
    Thread = {t1, t2}
    NoOne = none
    MaxThreadState = 2
    MaxBufferedDocs = 2
    MaxBufferedDeleteTerms = 2
    MaxDocs = 1
    MaxCalls = 1
    MaxFaults = 1
SPECIFICATION Spec
INVARIANT FailedNeverLive
CHECK_DEADLOCK FALSE
