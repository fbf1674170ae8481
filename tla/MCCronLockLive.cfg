\* Two jobs of one host and one of another, one day.
SPECIFICATION FairSpec
CONSTANTS
    a1 = a1
    a2 = a2
    b = b
    hostA = hostA
    hostB = hostB
    Jobs = {a1, a2, b}
    Hosts = {hostA, hostB}
    HostOf <- MCHostOf
    MaxDay = 0
    Free = Free
PROPERTY LockEventuallyReleased
