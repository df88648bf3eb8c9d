-------------------------------- MODULE Nodes --------------------------------
(***************************************************************************)
(* The nodes connected to a server and the sessions they connect on        *)
(* (internal/nodes/conns.go, internal/server/agent_rpc.go and              *)
(* node_endpoint.go, internal/agent/agent.go).                             *)
(*                                                                         *)
(* An agent dials, registers on the session it opened and reports on it    *)
(* again whenever its workloads change; the server calls it back on the    *)
(* session it registered on.  Either end learns in its own time that a     *)
(* session is gone.  A node has one agent, which has one session at a time *)
(* and numbers them.  What is reported is the caller's business.           *)
(***************************************************************************)
EXTENDS Naturals

CONSTANTS
    Node,          \* the agent nodes, by name
    NoReport       \* nothing on its way

VARIABLES
    session,       \* the session each agent opened last, 0 before it has
    open,          \* it is still there
    sent,          \* the report on its way to the server, with its session
    \* the server
    serving,       \* the sessions handleAgent is running for
    conn,          \* Conns.conns: the session and last report of each node
    left           \* Conns.left: "no", lately ("grace") or longer ago ("gone")

agentVars  == <<session, open, sent>>
serverVars == <<serving, conn, left>>
nodeVars   == <<agentVars, serverVars>>

NotConnected == [session |-> 0, held |-> NoReport]

NodesTypeOK(reports) ==
    /\ session \in [Node -> Nat] /\ open \in [Node -> BOOLEAN]
    /\ sent \in [Node -> [session : Nat, held : reports] \cup {NoReport}]
    /\ serving \in [Node -> SUBSET Nat]
    /\ conn \in [Node -> [session : Nat, held : reports \cup {NoReport}]]
    /\ left \in [Node -> {"no", "grace", "gone"}]

NodesInit ==
    /\ session = [n \in Node |-> 0] /\ open = [n \in Node |-> FALSE]
    /\ sent = [n \in Node |-> NoReport]
    /\ serving = [n \in Node |-> {}]
    /\ conn = [n \in Node |-> NotConnected] /\ left = [n \in Node |-> "no"]

Alive(n, s)  == open[n] /\ session[n] = s
Connected(n) == conn[n].session # 0

-----------------------------------------------------------------------------
\* The agent's end

\* Run: dial again.  A second at least has gone by since the last session ended,
\* and what was in flight on it at either end is over by then.
Dial(n) ==
    /\ ~open[n] /\ sent[n] = NoReport
    /\ session' = [session EXCEPT ![n] = @ + 1]
    /\ open' = [open EXCEPT ![n] = TRUE]
    /\ serving' = [serving EXCEPT ![n] = @ \cup {session[n] + 1}]
    /\ UNCHANGED <<sent, conn, left>>

\* register: one call at a time, with everything the node holds.  A report that
\* would change nothing at the server is left out.
Report(n, held) ==
    /\ open[n] /\ sent[n] = NoReport
    /\ conn[n] # [session |-> session[n], held |-> held]
    /\ sent' = [sent EXCEPT ![n] = [session |-> session[n], held |-> held]]
    /\ UNCHANGED <<session, open, serverVars>>

\* The connection is cut.  The server may have begun to handle a report that was
\* on its way, and handles it to its end whatever became of the session.
Drop(n) ==
    /\ open[n] /\ open' = [open EXCEPT ![n] = FALSE]
    /\ sent' \in {sent, [sent EXCEPT ![n] = NoReport]}
    /\ UNCHANGED <<session, serverVars>>

-----------------------------------------------------------------------------
\* The server's end

\* Mutant: the first report of a session does not replace what an earlier
\* session reported.
RegisterFirstOnly(n) ==
    /\ sent[n] # NoReport
    /\ conn' = [conn EXCEPT ![n] = IF Connected(n) THEN @ ELSE sent[n]]
    /\ left' = [left EXCEPT ![n] = "no"]
    /\ sent' = [sent EXCEPT ![n] = NoReport]
    /\ UNCHANGED <<session, open, serving>>

\* Register, Conns.Report: a report of the session the node is connected on
\* replaces the last; one of another session replaces the connection.  The
\* session replaced is an earlier one, which the agent has left already.
Register(n) ==
    /\ sent[n] # NoReport
    /\ conn' = [conn EXCEPT ![n] = sent[n]]
    /\ left' = [left EXCEPT ![n] = "no"]
    /\ sent' = [sent EXCEPT ![n] = NoReport]
    /\ UNCHANGED <<session, open, serving>>

\* Mutant: the node is forgotten whichever session it is connected on.
RemoveAny(n) ==
    \E s \in serving[n] :
        /\ ~Alive(n, s)
        /\ serving' = [serving EXCEPT ![n] = @ \ {s}]
        /\ conn' = [conn EXCEPT ![n] = NotConnected]
        /\ left' = [left EXCEPT ![n] = IF Connected(n) THEN "grace" ELSE @]
        /\ UNCHANGED agentVars

\* handleAgent ends, Conns.Remove: the node is forgotten unless it is connected
\* on another session by now.
Remove(n) ==
    \E s \in serving[n] :
        /\ ~Alive(n, s)
        /\ serving' = [serving EXCEPT ![n] = @ \ {s}]
        /\ IF conn[n].session = s
           THEN /\ conn' = [conn EXCEPT ![n] = NotConnected]
                /\ left' = [left EXCEPT ![n] = "grace"]
           ELSE UNCHANGED <<conn, left>>
        /\ UNCHANGED agentVars

\* leftGrace goes by.
GiveUpOn(n) ==
    /\ left[n] = "grace" /\ left' = [left EXCEPT ![n] = "gone"]
    /\ UNCHANGED <<agentVars, serving, conn>>

\* The server is restarted, and every session with it.
ForgetNodes ==
    /\ open' = [n \in Node |-> FALSE] /\ sent' = [n \in Node |-> NoReport]
    /\ serving' = [n \in Node |-> {}]
    /\ conn' = [n \in Node |-> NotConnected] /\ left' = [n \in Node |-> "no"]
    /\ UNCHANGED session
=============================================================================
