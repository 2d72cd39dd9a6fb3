----------------------------- MODULE RpcClient -----------------------------
(***************************************************************************)
(* The wallet's RPC client (rpc.py), which the indexer and the HTTP        *)
(* threads share without a lock: connect() tries one port after another,   *)
(* each with a client that replaces, and closes, the one there is.  What   *)
(* the ports answer changes along a given sequence of states, in which a   *)
(* restarted wallet has another login.                                     *)
(***************************************************************************)
EXTENDS Integers, Sequences, FiniteSets

CONSTANTS Callers,
          Indexing,      \* the caller that never stops calling: the indexer
          NodeStates     \* on: what is on each port, in the order they are tried,
                         \* "down", "refuses", "warming" or "up"; login: the cookie

VARIABLES nodes,         \* which of NodeStates it is
          client,        \* _client: its port, its login and whose connect made it
          rpc,           \* connected, port (rpc_port), authNeeded; closed: by shutdown
          call           \* the locals of each caller, and how its last call ended

rpcVars == <<nodes, client, rpc, call>>

NoClient == [port |-> 0, login |-> 0, by |-> "none"]
Resting(end) == [pc |-> "idle", end |-> end]
PortsTried == DOMAIN NodeStates[1].on

\* What a client gets: an answer, 401 or 403, an error body, or an exception,
\* which is all that a client closed by another thread is sure to get, unless
\* its answer was on the way.
Said(i, login) ==
    LET on == NodeStates[nodes].on[i]
    IN  IF on = "up" /\ login # NodeStates[nodes].login THEN "refuses" ELSE on
Replies(mine) ==
    {Said(mine.port, mine.login)} \cup (IF client = mine THEN {} ELSE {"down"})

CallAt(c, pc) == call[c].pc = pc
Goes(c, rec) == call' = [call EXCEPT ![c] = rec]
-----------------------------------------------------------------------------
RpcInit ==
    /\ nodes = 1 /\ client = NoClient
    /\ rpc = [connected |-> FALSE, port |-> 1, authNeeded |-> FALSE, closed |-> FALSE]
    /\ call = [c \in Callers |-> Resting("none")]

NodesChange ==
    /\ nodes < Len(NodeStates)
    /\ nodes' = nodes + 1
    /\ UNCHANGED <<client, rpc, call>>

NeedsConnect == client = NoClient \/ ~rpc.connected

\* call(), which connects first when there is no connection; connect() reads
\* the login and finds out which ports listen before it tries the first.
CallBegins(c) ==
    /\ CallAt(c, "idle")
    /\ Goes(c, IF NeedsConnect
               THEN [pc |-> "open", port |-> 1, login |-> NodeStates[nodes].login,
                     listening |-> {i \in PortsTried : NodeStates[nodes].on[i] # "down"}]
               ELSE [pc |-> "send"])
    /\ UNCHANGED <<nodes, client, rpc>>

\* _ensure_client: the client there is is closed, whoever uses it.
OpensClient(c) ==
    /\ CallAt(c, "open")
    /\ client' = [port |-> call[c].port, login |-> call[c].login, by |-> c]
    /\ Goes(c, [call[c] EXCEPT !.pc = "probe"])
    /\ UNCHANGED <<nodes, rpc>>

\* The probe's answer: the port is taken, or the login is refused and no other
\* port is tried, or the next port is, until there is none.
PortTaken(c) ==
    /\ rpc' = [rpc EXCEPT !.connected = TRUE, !.authNeeded = FALSE, !.port = call[c].port]
    /\ Goes(c, [pc |-> "send"])

LoginRefused(c) ==
    /\ rpc' = [rpc EXCEPT !.connected = FALSE, !.authNeeded = TRUE, !.port = call[c].port]
    /\ Goes(c, Resting("failed"))

PortSkipped(c) ==
    LET heard == call[c].listening
    IN  IF call[c].port + 1 \in PortsTried
        THEN /\ Goes(c, [call[c] EXCEPT !.pc = "open", !.port = @ + 1])
             /\ UNCHANGED rpc
        ELSE /\ rpc' = [rpc EXCEPT !.connected = FALSE,
                            !.port = IF heard = {} THEN @
                                     ELSE CHOOSE i \in heard : \A j \in heard : i <= j]
             /\ Goes(c, Resting("failed"))

ProbeEnds(c) ==
    /\ CallAt(c, "probe")
    /\ \E reply \in Replies([port |-> call[c].port, login |-> call[c].login, by |-> c]) :
          \/ reply = "up" /\ PortTaken(c)
          \/ reply = "refuses" /\ LoginRefused(c)
          \/ reply \in {"down", "warming"} /\ PortSkipped(c)
    /\ UNCHANGED <<nodes, client>>

\* The call goes to the client there is now, which need not be the one that
\* was probed; none is left when the program has closed it (the assertion).
CallSent(c) ==
    /\ CallAt(c, "send")
    /\ Goes(c, IF client = NoClient THEN Resting("failed") ELSE [pc |-> "wait", mine |-> client])
    /\ UNCHANGED <<nodes, client, rpc>>

\* Mutant: a refused login is an error like another.
CallEndsRefused(c) ==
    /\ CallAt(c, "wait")
    /\ \E reply \in Replies(call[c].mine) :
          /\ rpc' = [rpc EXCEPT !.connected = @ /\ reply # "down"]
          /\ Goes(c, Resting(IF reply = "up" THEN "answered" ELSE "failed"))
    /\ UNCHANGED <<nodes, client>>

\* An exception or a refused login ends the connection, an error body does not.
CallEnds(c) ==
    /\ CallAt(c, "wait")
    /\ \E reply \in Replies(call[c].mine) :
          /\ rpc' = [rpc EXCEPT !.connected = @ /\ reply \notin {"down", "refuses"}]
          /\ Goes(c, Resting(IF reply = "up" THEN "answered" ELSE "failed"))
    /\ UNCHANGED <<nodes, client>>

\* close(): the program ends, perhaps under a call.
ClientClosed ==
    /\ ~rpc.closed /\ client # NoClient
    /\ client' = NoClient
    /\ rpc' = [rpc EXCEPT !.closed = TRUE]
    /\ UNCHANGED <<nodes, call>>

CallStep(c) == OpensClient(c) \/ ProbeEnds(c) \/ CallSent(c) \/ CallEnds(c)

RpcNext ==
    \/ NodesChange \/ ClientClosed
    \/ \E c \in Callers : CallBegins(c) \/ CallStep(c)

\* A call that has begun goes on (every request has a timeout), and the indexer
\* calls again.
RpcFairness ==
    /\ \A c \in Callers : WF_rpcVars(CallStep(c))
    /\ WF_rpcVars(CallBegins(Indexing))
-----------------------------------------------------------------------------
\* No connect runs while another call does.
Undisturbed ==
    \A c, d \in Callers :
        c # d /\ call[c].pc \in {"open", "probe"} => CallAt(d, "idle")

\* A wallet answers on some port, all before it are silent, none is starting.
WalletAnswers ==
    LET on == NodeStates[nodes].on
    IN  /\ \A i \in PortsTried : on[i] # "warming"
        /\ \E i \in PortsTried : on[i] = "up" /\ \A j \in 1..i-1 : on[j] = "down"

\* After a restart, a new login or another port the indexer's calls are
\* answered again in the end, whatever state earlier connects have left, if a
\* wallet stays there and connects no longer fall into other calls: two threads
\* that keep closing each other's client need not ever get an answer.
RpcRecovers ==
    <>[]Undisturbed /\ <>[]WalletAnswers => <>[](CallAt(Indexing, "idle") => call[Indexing].end # "failed")
=============================================================================
