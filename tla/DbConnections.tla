---------------------------- MODULE DbConnections ----------------------------
(***************************************************************************)
(* The connections of class Database, explorer/db.py: each thread opens its *)
(* own when it needs one, gives it up after a request or when it turns out  *)
(* broken, loses it to a finalizer when it ends, and `close' closes all of  *)
(* them at shutdown, while other threads may still be at work.              *)
(*                                                                          *)
(* A connection is a member of Conn; one that is not open stands for one    *)
(* that was not made yet, so a closed one is used again as a new one only   *)
(* when nothing refers to it.                                               *)
(***************************************************************************)
EXTENDS Integers, FiniteSets

CONSTANTS
    Thread, Main,   \* the threads, and the one that starts and closes it all
    Conn, NoConn    \* connections

ASSUME ConnAssumption == Main \in Thread /\ NoConn \notin Conn

VARIABLES
    closed,     \* _closed
    conns,      \* _conns, the list of connections to close at shutdown
    open,       \* the connections whose file is open
    owner,      \* _local.owner of each thread: its connection
    hand,       \* a connection a thread is opening or dropping
    pc,         \* where each thread is
    taken       \* the connections `close' has taken from the list

connVars == <<closed, conns, open, owner, hand, pc, taken>>

ConnInit ==
    /\ closed = FALSE
    /\ conns = {} /\ open = {} /\ taken = {}
    /\ owner = [t \in Thread |-> NoConn]
    /\ hand = [t \in Thread |-> NoConn]
    /\ pc = [t \in Thread |-> "idle"]

Goto(t, place) == pc' = [pc EXCEPT ![t] = place]
Hold(t, c) == hand' = [hand EXCEPT ![t] = c]
Own(t, c) == owner' = [owner EXCEPT ![t] = c]

InUse == conns \cup open \cup taken \cup {owner[t] : t \in Thread} \cup {hand[t] : t \in Thread}

\* _thread_conn of a thread without a connection: the closed flag is tested ...
Want(t) ==
    /\ pc[t] = "idle" /\ owner[t] = NoConn
    /\ ~closed
    /\ Goto(t, "connect")
    /\ UNCHANGED <<closed, conns, open, owner, hand, taken>>

\* ... a connection is made (or the attempt raises) ...
Connect(t) ==
    /\ pc[t] = "connect"
    /\ \E c \in Conn \ InUse :
          /\ open' = open \cup {c}
          /\ Hold(t, c)
    /\ Goto(t, "register")
    /\ UNCHANGED <<closed, conns, owner, taken>>
ConnectFails(t) ==
    /\ pc[t] = "connect"
    /\ Goto(t, "idle")
    /\ UNCHANGED <<closed, conns, open, owner, hand, taken>>

\* ... put on the list, and given to the thread.
Register(t) ==
    /\ pc[t] = "register"
    /\ conns' = conns \cup {hand[t]}
    /\ Goto(t, "own")
    /\ UNCHANGED <<closed, open, owner, hand, taken>>
TakeOver(t) ==
    /\ pc[t] = "own"
    /\ Own(t, hand[t]) /\ Hold(t, NoConn)
    /\ Goto(t, "idle")
    /\ UNCHANGED <<closed, conns, open, taken>>

\* Mistake: the finalizer is detached and the connection forgotten.
DiscardForgets(t) ==
    /\ pc[t] = "idle" /\ owner[t] # NoConn
    /\ Own(t, NoConn)
    /\ UNCHANGED <<closed, conns, open, hand, pc, taken>>

\* discard_thread_connection, at the end of a request or after an error: the
\* thread has no connection any more, and drops the one it had.
Discard(t) ==
    /\ pc[t] = "idle" /\ owner[t] # NoConn
    /\ Own(t, NoConn) /\ Hold(t, owner[t])
    /\ Goto(t, "unlist")
    /\ UNCHANGED <<closed, conns, open, taken>>

\* The thread ends, and the finalizer of its owner drops the connection.
ThreadEnds(t) ==
    /\ t # Main
    /\ pc[t] = "idle"
    /\ Own(t, NoConn) /\ Hold(t, owner[t])
    /\ Goto(t, IF owner[t] = NoConn THEN "ended" ELSE "unlist_end")
    /\ UNCHANGED <<closed, conns, open, taken>>

\* Another thread takes its place in the pool.
ThreadStarts(t) ==
    /\ pc[t] = "ended"
    /\ ~closed
    /\ Goto(t, "idle")
    /\ UNCHANGED <<closed, conns, open, owner, hand, taken>>

\* _drop_conn: off the list ...
Unlist(t) ==
    /\ pc[t] \in {"unlist", "unlist_end"}
    /\ conns' = conns \ {hand[t]}
    /\ Goto(t, IF pc[t] = "unlist" THEN "shut" ELSE "shut_end")
    /\ UNCHANGED <<closed, open, owner, hand, taken>>

\* Mistake: the file is left open.
ShutNothing(t) ==
    /\ pc[t] \in {"shut", "shut_end"}
    /\ Hold(t, NoConn)
    /\ Goto(t, IF pc[t] = "shut" THEN "idle" ELSE "ended")
    /\ UNCHANGED <<closed, conns, open, owner, taken>>

\* ... and closed.
Shut(t) ==
    /\ pc[t] \in {"shut", "shut_end"}
    /\ open' = open \ {hand[t]}
    /\ Hold(t, NoConn)
    /\ Goto(t, IF pc[t] = "shut" THEN "idle" ELSE "ended")
    /\ UNCHANGED <<closed, conns, owner, taken>>

\* close: the flag, the list, then each connection of it.
Close ==
    /\ pc[Main] = "idle" /\ ~closed
    /\ closed' = TRUE
    /\ Own(Main, NoConn)
    /\ Goto(Main, "take")
    /\ UNCHANGED <<conns, open, hand, taken>>
TakeList ==
    /\ pc[Main] = "take"
    /\ taken' = conns
    /\ conns' = {}
    /\ Goto(Main, "close")
    /\ UNCHANGED <<closed, open, owner, hand>>
CloseOne ==
    /\ pc[Main] = "close"
    /\ \E c \in taken : taken' = taken \ {c} /\ open' = open \ {c}
    /\ UNCHANGED <<closed, conns, owner, hand, pc>>
Closed ==
    /\ pc[Main] = "close" /\ taken = {}
    /\ Goto(Main, "ended")
    /\ UNCHANGED <<closed, conns, open, owner, hand, taken>>

Work(t) == \/ Connect(t) \/ ConnectFails(t) \/ Register(t) \/ TakeOver(t)
           \/ Unlist(t) \/ Shut(t)
ConnNext ==
    \/ \E t \in Thread : Want(t) \/ Work(t) \/ Discard(t) \/ ThreadEnds(t) \/ ThreadStarts(t)
    \/ Close \/ TakeList \/ CloseOne \/ Closed

ConnSpec == ConnInit /\ [][ConnNext]_connVars

\* Threads run, and once the process is told to stop the workers end.
ConnFairSpec ==
    /\ ConnSpec
    /\ WF_connVars(TakeList \/ CloseOne \/ Closed)
    /\ \A t \in Thread : WF_connVars(Work(t)) /\ WF_connVars(closed /\ ThreadEnds(t))

-------------------------------------------------------------------------------

\* Until the process is told to stop, a thread never holds a closed connection,
\* every open one belongs to a thread, and open_connection_count (the length of
\* _conns) never counts one that nobody has.
Counted ==
    ~closed =>
        /\ \A t \in Thread : owner[t] # NoConn => owner[t] \in conns
        /\ conns \subseteq open
        /\ \A c \in open : \E t \in Thread : owner[t] = c \/ hand[t] = c

\* "Process shutdown can close every connection" (_open).  One that is being opened
\* while close takes the list stays out of it, and is closed when its thread ends.
EventuallyNoneOpen == closed ~> [](open = {})
===============================================================================
