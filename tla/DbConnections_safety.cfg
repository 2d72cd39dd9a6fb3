SPECIFICATION ConnFairSpec
CONSTANTS
    Thread = {main, t1, t2}
    Main = main
    Conn = {c1, c2, c3}
    NoConn = NoConn
CHECK_DEADLOCK FALSE
INVARIANTS Counted
PROPERTIES EventuallyNoneOpen
