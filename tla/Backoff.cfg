\* 24 minutes, polled every five minutes, with any pattern of outages that begin
\* and end in different half minutes and at most one edit or restart.
SPECIFICATION Spec
CONSTANTS
    PollInterval = 10
    MaxLateness = 1
    MaxTime = 48
    MaxWakes = 1
CHECK_DEADLOCK FALSE
INVARIANTS
    TypeOK
    OutageTolerated
    RecoveryNoticed
