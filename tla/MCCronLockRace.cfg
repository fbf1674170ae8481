\* One job on each of two hosts.
SPECIFICATION Spec
CONSTANTS
    a1 = a1
    a2 = a2
    b = b
    hostA = hostA
    hostB = hostB
    Jobs = {a1, b}
    Hosts = {hostA, hostB}
    HostOf <- MCHostOf
    MaxDay = 0
    Free = Free
INVARIANT MutualExclusion
