\* Logs that fit in the status, in a ConfigMap, or nowhere.
SPECIFICATION Spec
CONSTANTS
    NumPods = 2
    MaxPodLog = 5
    MaxLogSize = 4
    NoticeSize = 1
    StatusLimit = 2
    ConfigMapLimit = 4
CHECK_DEADLOCK FALSE
INVARIANTS
    TypeOK
    EndIsKept
    ReferenceIsCurrent
