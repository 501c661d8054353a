SPECIFICATION Spec
CONSTANTS
    t1 = t1
    t2 = t2
    o1 = o1
    o2 = o2
    p1 = p1
    p2 = p2
    Threads = {t1, t2}
    Objects = {o1, o2, p1, p2}
    ThreadOf <- MCThreadOf
    Fds = {0, 1, 2}
    NoThread = NoThread
    NoObject = NoObject
INVARIANT OneOwner
