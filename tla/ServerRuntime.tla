--------------------------- MODULE ServerRuntime ---------------------------
(***************************************************************************)
(* Start and stop of the add-on's HTTP server (server.py).  run_server      *)
(* binds the port, opens the store and starts the accept loop in a thread;  *)
(* the loop tracks each connection and starts a handler thread for it,      *)
(* which serves requests until the connection ends.  stop_server ends the   *)
(* loop, cuts the tracked connections, waits for their handlers and closes  *)
(* the store.  Several threads may start and stop the server; clients       *)
(* connect, ask, idle and leave as they like.                               *)
(***************************************************************************)
EXTENDS Naturals, FiniteSets

CONSTANTS
    Callers,   \* threads that call run_server and stop_server
    Conns,     \* connections of clients
    MaxRuns,   \* bound on the runtimes that are made
    None

Runs == 1 .. MaxRuns

ASSUME ServerRuntimeAssumption == MaxRuns \in Nat \ {0} /\ None \notin Nat \cup Callers

VARIABLES
    runtime,   \* _runtime: the published run, or None
    lock,      \* holder of _runtime_lock
    made,      \* runs made so far
    bound,     \* the run whose socket listens on the port
    loop,      \* the accept loop of each run
    asked,     \* shutdown was requested of the loop
    store,     \* the store of each run
    tracked,   \* _connections of each run
    conn,      \* state of each connection
    run,       \* the run each connection belongs to
    cut,       \* connections whose socket the server shut down
    pc, mine   \* where each caller is and the run it works on

processVars == <<runtime, lock, pc, mine>>
serverVars == <<made, bound, loop, asked, store>>
connVars == <<tracked, conn, run, cut>>
vars == <<processVars, serverVars, connVars>>

Loops == {"none", "polling", "accepting", "ended"}
ConnStates == {"away", "backlog", "taken", "reading", "serving", "ending"}
CallerStates == {"idle", "run", "bind", "open", "start", "publish",
                 "pop", "shutdown", "wait", "close", "unbind", "join", "store"}

Init ==
    /\ runtime = None /\ lock = None /\ made = 0 /\ bound = None
    /\ loop = [r \in Runs |-> "none"] /\ asked = [r \in Runs |-> FALSE]
    /\ store = [r \in Runs |-> "none"] /\ tracked = [r \in Runs |-> {}]
    /\ conn = [c \in Conns |-> "away"] /\ run = [c \in Conns |-> None] /\ cut = {}
    /\ pc = [t \in Callers |-> "idle"] /\ mine = [t \in Callers |-> None]

Goto(t, from, to) == pc[t] = from /\ pc' = [pc EXCEPT ![t] = to]

-----------------------------------------------------------------------------
(* run_server *)

Run(t) ==
    /\ Goto(t, "idle", "run")
    /\ made < MaxRuns /\ lock = None
    /\ lock' = t
    /\ UNCHANGED <<runtime, mine, serverVars, connVars>>

\* A published runtime is returned as it is.
FindRuntime(t) ==
    /\ pc[t] = "run"
    /\ IF runtime # None
         THEN pc' = [pc EXCEPT ![t] = "idle"] /\ lock' = None
         ELSE pc' = [pc EXCEPT ![t] = "bind"] /\ UNCHANGED lock
    /\ UNCHANGED <<runtime, mine, serverVars, connVars>>

\* The port may still be held, by the run that is being stopped or another
\* program: the start fails.
Bind(t) ==
    /\ pc[t] = "bind"
    /\ \/ /\ bound = None
          /\ made' = made + 1 /\ bound' = made' /\ mine' = [mine EXCEPT ![t] = made']
          /\ pc' = [pc EXCEPT ![t] = "open"] /\ UNCHANGED lock
       \/ /\ pc' = [pc EXCEPT ![t] = "idle"] /\ lock' = None
          /\ UNCHANGED <<made, bound, mine>>
    /\ UNCHANGED <<runtime, loop, asked, store, connVars>>

\* Clients that connected to a socket that is closed are reset.
ResetBacklog(r) ==
    LET waiting == {c \in Conns : conn[c] = "backlog" /\ run[c] = r} IN
    /\ conn' = [c \in Conns |-> IF c \in waiting THEN "away" ELSE conn[c]]
    /\ run' = [c \in Conns |-> IF c \in waiting THEN None ELSE run[c]]

\* A store that cannot be opened gives the port up again.
OpenStore(t) ==
    /\ pc[t] = "open"
    /\ \/ /\ store' = [store EXCEPT ![mine[t]] = "open"]
          /\ pc' = [pc EXCEPT ![t] = "start"]
          /\ UNCHANGED <<lock, mine, bound, connVars>>
       \/ /\ bound' = None /\ ResetBacklog(mine[t])
          /\ pc' = [pc EXCEPT ![t] = "idle"] /\ lock' = None
          /\ mine' = [mine EXCEPT ![t] = None]
          /\ UNCHANGED <<store, tracked, cut>>
    /\ UNCHANGED <<runtime, made, loop, asked>>

StartBackground(t) ==
    /\ Goto(t, "start", "publish")
    /\ loop' = [loop EXCEPT ![mine[t]] = "polling"]
    /\ UNCHANGED <<runtime, lock, mine, made, bound, asked, store, connVars>>

Publish(t) ==
    /\ Goto(t, "publish", "idle")
    /\ runtime' = mine[t] /\ lock' = None /\ mine' = [mine EXCEPT ![t] = None]
    /\ UNCHANGED <<serverVars, connVars>>

-----------------------------------------------------------------------------
(* The accept loop and the handlers *)

Connect(c) ==
    /\ conn[c] = "away" /\ bound # None
    /\ conn' = [conn EXCEPT ![c] = "backlog"] /\ run' = [run EXCEPT ![c] = bound]
    /\ UNCHANGED <<processVars, serverVars, tracked, cut>>

\* The flag is looked at after the select and not again before the accept.
Poll(r) ==
    /\ loop[r] = "polling"
    /\ \/ asked[r] /\ loop' = [loop EXCEPT ![r] = "ended"]
       \/ /\ ~asked[r] /\ \E c \in Conns : conn[c] = "backlog" /\ run[c] = r
          /\ loop' = [loop EXCEPT ![r] = "accepting"]
    /\ UNCHANGED <<processVars, made, bound, asked, store, connVars>>

\* get_request tracks the connection.
Take(r, c) ==
    /\ loop[r] = "accepting" /\ conn[c] = "backlog" /\ run[c] = r
    /\ \A d \in Conns : ~(conn[d] = "taken" /\ run[d] = r)
    /\ conn' = [conn EXCEPT ![c] = "taken"]
    /\ tracked' = [tracked EXCEPT ![r] = @ \cup {c}]
    /\ UNCHANGED <<processVars, serverVars, run, cut>>

\* shutdown_request closes the connection and forgets it.
Shut(c) ==
    /\ conn' = [conn EXCEPT ![c] = "away"] /\ run' = [run EXCEPT ![c] = None]
    /\ tracked' = [tracked EXCEPT ![run[c]] = @ \ {c}]
    /\ cut' = cut \ {c}

\* process_request starts the handler thread, or cannot.
Spawn(c) ==
    /\ conn[c] = "taken"
    /\ loop' = [loop EXCEPT ![run[c]] = "polling"]
    /\ \/ conn' = [conn EXCEPT ![c] = "reading"] /\ UNCHANGED <<tracked, run, cut>>
       \/ Shut(c)
    /\ UNCHANGED <<processVars, made, bound, asked, store>>

\* The client asks for something the store answers.
Receive(c) ==
    /\ conn[c] = "reading" /\ c \notin cut
    /\ conn' = [conn EXCEPT ![c] = "serving"]
    /\ UNCHANGED <<processVars, serverVars, tracked, run, cut>>

\* The client leaves, or says nothing for too long.
Leave(c) ==
    /\ conn[c] = "reading" /\ c \notin cut
    /\ conn' = [conn EXCEPT ![c] = "ending"]
    /\ UNCHANGED <<processVars, serverVars, tracked, run, cut>>

\* The handler reads the end of a connection that was cut.
ReadCut(c) ==
    /\ conn[c] = "reading" /\ c \in cut
    /\ conn' = [conn EXCEPT ![c] = "ending"]
    /\ UNCHANGED <<processVars, serverVars, tracked, run, cut>>

\* The connection is kept for another request unless the write failed.
Serve(c) ==
    /\ conn[c] = "serving"
    /\ \E next \in {"reading", "ending"} : conn' = [conn EXCEPT ![c] = next]
    /\ UNCHANGED <<processVars, serverVars, tracked, run, cut>>

EndHandler(c) ==
    /\ conn[c] = "ending"
    /\ Shut(c)
    /\ UNCHANGED <<processVars, serverVars>>

-----------------------------------------------------------------------------
(* stop_server *)

\* Under the lock, in one step: nothing else happens while it is held.
Pop(t) ==
    /\ pc[t] = "idle" /\ lock = None /\ runtime # None
    /\ mine' = [mine EXCEPT ![t] = runtime] /\ runtime' = None
    /\ pc' = [pc EXCEPT ![t] = "shutdown"]
    /\ UNCHANGED <<lock, serverVars, connVars>>

AskShutdown(t) ==
    /\ Goto(t, "shutdown", "wait")
    /\ asked' = [asked EXCEPT ![mine[t]] = TRUE]
    /\ UNCHANGED <<runtime, lock, mine, made, bound, loop, store, connVars>>

AwaitLoopEarly(t) == \* Mutant: the connections are cut before the loop ended.
    /\ Goto(t, "wait", "close")
    /\ UNCHANGED <<runtime, lock, mine, serverVars, connVars>>
AwaitLoop(t) ==
    /\ Goto(t, "wait", "close")
    /\ loop[mine[t]] = "ended"
    /\ UNCHANGED <<runtime, lock, mine, serverVars, connVars>>

CloseNothing(t) == \* Mutant: the connections are left to their clients.
    /\ Goto(t, "close", "unbind")
    /\ UNCHANGED <<runtime, lock, mine, serverVars, connVars>>
CloseConnections(t) ==
    /\ Goto(t, "close", "unbind")
    /\ cut' = cut \cup tracked[mine[t]]
    /\ UNCHANGED <<runtime, lock, mine, serverVars, tracked, conn, run>>

\* server_close: the socket first, then the handlers are joined.
Unbind(t) ==
    /\ Goto(t, "unbind", "join")
    /\ bound' = None /\ ResetBacklog(mine[t])
    /\ UNCHANGED <<runtime, lock, mine, made, loop, asked, store, tracked, cut>>

Alive(c, r) == run[c] = r /\ conn[c] \in {"taken", "reading", "serving", "ending"}

JoinNothing(t) == \* Mutant: block_on_close = False.
    /\ Goto(t, "join", "store")
    /\ UNCHANGED <<runtime, lock, mine, serverVars, connVars>>
JoinHandlers(t) ==
    /\ Goto(t, "join", "store")
    /\ \A c \in Conns : ~Alive(c, mine[t])
    /\ UNCHANGED <<runtime, lock, mine, serverVars, connVars>>

CloseStore(t) ==
    /\ Goto(t, "store", "idle")
    /\ store' = [store EXCEPT ![mine[t]] = "closed"]
    /\ mine' = [mine EXCEPT ![t] = None]
    /\ UNCHANGED <<runtime, lock, made, bound, loop, asked, connVars>>

-----------------------------------------------------------------------------
Start(t) ==
    Run(t) \/ FindRuntime(t) \/ Bind(t) \/ OpenStore(t) \/ StartBackground(t) \/ Publish(t)
StopSteps(t) ==
    AskShutdown(t) \/ AwaitLoop(t) \/ CloseConnections(t) \/ Unbind(t)
    \/ JoinHandlers(t) \/ CloseStore(t)
Accept(r) == Poll(r) \/ \E c \in Conns : Take(r, c)
Handle(c) == Spawn(c) \/ ReadCut(c) \/ Serve(c) \/ EndHandler(c)
Client(c) == Connect(c) \/ Receive(c) \/ Leave(c)

Next ==
    \/ \E t \in Callers : Start(t) \/ Pop(t) \/ StopSteps(t)
    \/ \E r \in Runs : Accept(r)
    \/ \E c \in Conns : Handle(c) \/ Client(c)

Spec == Init /\ [][Next]_vars

\* Threads that can run do; nobody has to call, and no client has to ask, to
\* leave or to be silent for the thirty seconds of the socket's timeout.
Fairness ==
    /\ \A t \in Callers : WF_vars(StopSteps(t))
    /\ \A r \in Runs : WF_vars(Accept(r))
    /\ \A c \in Conns : WF_vars(Handle(c))

FairSpec == Spec /\ Fairness

-----------------------------------------------------------------------------
(* Properties *)

\* Every variable has its type.
TypeOK ==
    /\ runtime \in Runs \cup {None} /\ lock \in Callers \cup {None}
    /\ made \in 0 .. MaxRuns /\ bound \in Runs \cup {None}
    /\ loop \in [Runs -> Loops] /\ asked \in [Runs -> BOOLEAN]
    /\ store \in [Runs -> {"none", "open", "closed"}]
    /\ tracked \in [Runs -> SUBSET Conns]
    /\ conn \in [Conns -> ConnStates] /\ run \in [Conns -> Runs \cup {None}]
    /\ cut \subseteq Conns
    /\ pc \in [Callers -> CallerStates] /\ mine \in [Callers -> Runs \cup {None}]

\* The published runtime serves: its port is bound, its store is open and
\* nobody has begun to stop it.
PublishedServes ==
    runtime # None =>
        /\ bound = runtime /\ store[runtime] = "open"
        /\ loop[runtime] \in {"polling", "accepting"} /\ ~asked[runtime]
        /\ \A t \in Callers : mine[t] # runtime

\* A store is closed only when its run holds neither the port nor a
\* connection nor a handler that could still ask it: every answer a client
\* waits for is written before.
ClosedIsSilent ==
    \A r \in Runs : store[r] = "closed" =>
        /\ bound # r /\ loop[r] = "ended" /\ tracked[r] = {}
        /\ \A c \in Conns : run[c] # r

\* Once stop has cut the connections of a run, none that a client could keep
\* open is left: the loop takes none after the cut, and what it took before is
\* tracked.
NoneEscapes ==
    \A t \in Callers : pc[t] \in {"unbind", "join", "store"} =>
        \A c \in Conns : Alive(c, mine[t]) => c \in cut

\* The state is well formed, what is published serves, and a stop that has cut
\* the connections has missed none.
Consistent == TypeOK /\ PublishedServes /\ NoneEscapes

\* stop returns, though clients keep idle connections open or ask without end.
StopReturns == \A t \in Callers : pc[t] = "shutdown" ~> pc[t] = "idle"
=============================================================================
