\* Two goroutines call Connect and Close at any time.
CONSTANTS
    Callers = {c1, c2}
    Loops = {l1}
    Conns = {1, 2, 3, 4}
    Chans = {1, 2, 3, 4, 5, 6, 7}
    InitialDelay = 2
    MaxDelay = 2
SPECIFICATION Spec
INVARIANTS ConnectedIffConn NoLeakedConn
SYMMETRY Symmetry
\* A panic ends the process, and a nil dialDone blocks its receiver.
CHECK_DEADLOCK FALSE
