\* Three jobs on two hosts, over one midnight.
SPECIFICATION Spec
CONSTANTS
    a1 = a1
    a2 = a2
    b = b
    hostA = hostA
    hostB = hostB
    Jobs = {a1, a2, b}
    Hosts = {hostA, hostB}
    HostOf <- MCHostOf
    MaxDay = 1
    Free = Free
SYMMETRY SameHostJobs
INVARIANT ExclusionUnlessBreached
INVARIANT NoOrphanLock
PROPERTY ImplementsDayLock
