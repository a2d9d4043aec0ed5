------------------------ MODULE ServerRuntimeProofs ------------------------
(***************************************************************************)
(* Proofs about ServerRuntime, for any callers, any connections and any     *)
(* number of runs: a store is closed only when nobody can ask it, the cut   *)
(* of the connections misses none, and what is published serves.            *)
(***************************************************************************)
EXTENDS ServerRuntime, TLAPS

\* Where a caller holds the port of its run.
Holding == {"open", "start", "publish", "shutdown", "wait", "close", "unbind"}

\* Runs that are not made yet are untouched.
Fresh ==
    /\ \A r \in Runs : r > made => store[r] = "none" /\ loop[r] = "none" /\ ~asked[r]
    /\ bound # None => bound <= made

\* A start holds the runtime's lock to its end, and there is a run left for it.
Locked ==
    \A t \in Callers :
        /\ pc[t] \in {"run", "bind", "open", "start", "publish"} => lock = t
        /\ pc[t] \in {"run", "bind"} => made < MaxRuns

\* The run a caller starts or stops is its own, and its store is not closed.
Owned ==
    \A t \in Callers :
        /\ mine[t] = None <=> pc[t] \in {"idle", "run", "bind"}
        /\ mine[t] # None =>
            /\ mine[t] <= made /\ store[mine[t]] # "closed"
            /\ \A u \in Callers \ {t} : mine[u] # mine[t]

\* What a start or a stop has done by each of its stages.
Stages ==
    \A t \in Callers :
        /\ pc[t] \in Holding => bound = mine[t]
        /\ pc[t] \in {"open", "start"} => loop[mine[t]] = "none"
        /\ pc[t] \in {"open", "start", "publish"} => ~asked[mine[t]]
        /\ pc[t] \in {"start", "publish"} => store[mine[t]] = "open"
        /\ pc[t] = "publish" => loop[mine[t]] \in {"polling", "accepting"}
        /\ pc[t] \in {"close", "unbind", "join", "store"} => loop[mine[t]] = "ended"
        /\ pc[t] \in {"join", "store"} =>
            bound # mine[t] /\ \A c \in Conns : ~(conn[c] = "backlog" /\ run[c] = mine[t])
        /\ pc[t] = "store" => \A c \in Conns : ~Alive(c, mine[t])

\* A run tracks the connections that are alive, and its loop stands at the
\* accept while it has one in its hands.
Connected ==
    \A c \in Conns :
        /\ conn[c] = "away" <=> run[c] = None
        /\ conn[c] = "taken" =>
            /\ loop[run[c]] = "accepting"
            /\ \A d \in Conns : conn[d] = "taken" /\ run[d] = run[c] => d = c
        /\ \A r \in Runs : c \in tracked[r] <=> Alive(c, r)

IInv ==
    /\ TypeOK /\ Fresh /\ Locked /\ Owned /\ Stages /\ Connected
    /\ PublishedServes /\ NoneEscapes /\ ClosedIsSilent

\* The initial states satisfy the invariant.
LEMMA InvInit == Init => IInv
<1> SUFFICES ASSUME Init PROVE IInv
  OBVIOUS
<1>1. TypeOK
  BY ServerRuntimeAssumption DEF Init, TypeOK, Runs, Loops, ConnStates, CallerStates
<1>2. Fresh /\ Locked /\ Owned /\ Stages
  BY ServerRuntimeAssumption DEF Init, Fresh, Locked, Owned, Stages, Holding, Runs
<1>3. Connected /\ PublishedServes /\ NoneEscapes /\ ClosedIsSilent
  BY ServerRuntimeAssumption DEF Init, Connected, Alive, PublishedServes, NoneEscapes,
    ClosedIsSilent, Runs
<1> QED
  BY <1>1, <1>2, <1>3 DEF IInv

-----------------------------------------------------------------------------
(* Each action keeps the invariant. *)

\* A start takes the lock.
LEMMA RunStep ==
    ASSUME IInv, NEW t \in Callers, Run(t)
    PROVE  IInv'
<1> USE DEF IInv
<1>1. TypeOK'
  BY DEF Run, Goto, TypeOK, ClosedIsSilent, CallerStates, serverVars, connVars
<1>2. Fresh'
  BY DEF Run, Fresh, serverVars
<1>3. Locked'
  BY ServerRuntimeAssumption DEF Run, Goto, Locked, serverVars
<1>4. Owned'
  BY DEF Run, Goto, Owned, serverVars
<1>5. Stages'
  BY DEF Run, Goto, Stages, Alive, Holding, serverVars, connVars
<1>6. Connected'
  BY DEF Run, Connected, Alive, serverVars, connVars
<1>7. PublishedServes'
  BY DEF Run, PublishedServes, serverVars
<1>8. NoneEscapes'
  BY DEF Run, Goto, NoneEscapes, Alive, connVars
<1>9. ClosedIsSilent'
  BY DEF Run, ClosedIsSilent, serverVars, connVars
<1> QED
  BY <1>1, <1>2, <1>3, <1>4, <1>5, <1>6, <1>7, <1>8, <1>9

\* A start finds the runtime published, or goes on.
LEMMA FindRuntimeStep ==
    ASSUME IInv, NEW t \in Callers, FindRuntime(t)
    PROVE  IInv'
<1> USE DEF IInv
<1>1. TypeOK'
  <2>1. CASE runtime # None
    BY <2>1 DEF FindRuntime, TypeOK, CallerStates, serverVars, connVars
  <2>2. CASE runtime = None
    BY <2>2 DEF FindRuntime, TypeOK, CallerStates, serverVars, connVars
  <2> QED
    BY <2>1, <2>2
<1>2. Fresh'
  BY DEF FindRuntime, Fresh, serverVars
<1>3. Locked'
  BY DEF FindRuntime, TypeOK, Locked, CallerStates, serverVars
<1>4. Owned'
  BY DEF FindRuntime, TypeOK, Owned, CallerStates, serverVars
<1>5. Stages'
  BY DEF FindRuntime, TypeOK, Stages, Alive, Holding, CallerStates, serverVars,
    connVars
<1>6. Connected'
  BY DEF FindRuntime, Connected, Alive, serverVars, connVars
<1>7. PublishedServes'
  BY DEF FindRuntime, PublishedServes, serverVars
<1>8. NoneEscapes'
  BY DEF FindRuntime, TypeOK, NoneEscapes, Alive, CallerStates, connVars
<1>9. ClosedIsSilent'
  BY DEF FindRuntime, ClosedIsSilent, serverVars, connVars
<1> QED
  BY <1>1, <1>2, <1>3, <1>4, <1>5, <1>6, <1>7, <1>8, <1>9

\* A start binds the port, or cannot.
LEMMA BindStep ==
    ASSUME IInv, NEW t \in Callers, Bind(t)
    PROVE  IInv'
<1> USE DEF IInv
<1>1. TypeOK'
  <2>1. CASE bound' = made' /\ made' = made + 1
    <3>1. made + 1 \in Runs
      BY ServerRuntimeAssumption DEF Bind, Locked, TypeOK, Runs
    <3>2. mine' \in [Callers -> Runs \cup {None}] /\ pc' \in [Callers ->
      CallerStates]
      BY <2>1, <3>1 DEF Bind, TypeOK, CallerStates
    <3> QED
      BY <2>1, <3>1, <3>2 DEF Bind, TypeOK, Runs, connVars
  <2>2. CASE UNCHANGED <<made, bound, mine>>
    BY <2>2 DEF Bind, TypeOK, CallerStates, connVars
  <2> QED
    BY <2>1, <2>2 DEF Bind
<1>2. Fresh'
  BY DEF Bind, TypeOK, Fresh, Runs
<1>3. Locked'
  BY DEF Bind, TypeOK, Locked, CallerStates
<1>4. Owned'
  BY ServerRuntimeAssumption DEF Bind, TypeOK, Fresh, Locked, Owned, Runs, connVars
<1>5. Stages'
  BY ServerRuntimeAssumption DEF Bind, TypeOK, Fresh, Locked, Owned, Stages, Alive,
    Holding, Runs, connVars
<1>6. Connected'
  BY DEF Bind, Connected, Alive, connVars
<1>7. PublishedServes'
  BY DEF Bind, PublishedServes
<1>8. NoneEscapes'
  BY DEF Bind, TypeOK, NoneEscapes, Alive, CallerStates, connVars
<1>9. ClosedIsSilent'
  BY DEF Bind, TypeOK, Fresh, ClosedIsSilent, connVars
<1> QED
  BY <1>1, <1>2, <1>3, <1>4, <1>5, <1>6, <1>7, <1>8, <1>9

\* A start opens the store, or gives the port up.
LEMMA OpenStoreStep ==
    ASSUME IInv, NEW t \in Callers, OpenStore(t)
    PROVE  IInv'
<1> USE DEF IInv
<1>1. TypeOK'
  <2>1. conn' \in [Conns -> ConnStates] /\ run' \in [Conns -> Runs \cup {None}]
    BY DEF OpenStore, TypeOK, ResetBacklog, ConnStates, connVars
  <2>2. store' \in [Runs -> {"none", "open", "closed"}]
    BY DEF OpenStore, TypeOK
  <2>3. pc' \in [Callers -> CallerStates] /\ mine' \in [Callers -> Runs \cup {None}]
    BY DEF OpenStore, TypeOK, CallerStates
  <2> QED
    BY <2>1, <2>2, <2>3 DEF OpenStore, TypeOK, connVars
<1>2. Fresh'
  BY ServerRuntimeAssumption DEF OpenStore, TypeOK, Fresh, Stages, Holding, Runs
<1>3. Locked'
  BY DEF OpenStore, TypeOK, Locked
<1>4. Owned'
  BY ServerRuntimeAssumption DEF OpenStore, TypeOK, Owned, ClosedIsSilent
<1>5. Stages'
  BY ServerRuntimeAssumption DEF OpenStore, ResetBacklog, TypeOK, Locked, Owned,
    Stages, Alive, Holding, connVars
<1>6. Connected'
  BY ServerRuntimeAssumption DEF OpenStore, ResetBacklog, Connected, Alive, connVars
<1>7. PublishedServes'
  BY DEF OpenStore, Stages, PublishedServes, Holding
<1>8. NoneEscapes'
  BY DEF OpenStore, ResetBacklog, TypeOK, NoneEscapes, Alive, CallerStates, connVars
<1>9. ClosedIsSilent'
  BY ServerRuntimeAssumption DEF OpenStore, ResetBacklog, TypeOK, ClosedIsSilent,
    Runs, connVars
<1> QED
  BY <1>1, <1>2, <1>3, <1>4, <1>5, <1>6, <1>7, <1>8, <1>9

\* A start begins the accept loop.
LEMMA StartBackgroundStep ==
    ASSUME IInv, NEW t \in Callers, StartBackground(t)
    PROVE  IInv'
<1> USE DEF IInv
<1>1. TypeOK'
  BY DEF StartBackground, Goto, TypeOK, Owned, Loops, CallerStates, connVars
<1>2. Fresh'
  BY DEF StartBackground, Goto, Fresh, Stages
<1>3. Locked'
  BY DEF StartBackground, Goto, Locked
<1>4. Owned'
  BY DEF StartBackground, Goto, Owned
<1>5. Stages'
  BY DEF StartBackground, Goto, TypeOK, Owned, Stages, Alive, Holding, connVars
<1>6. Connected'
  BY DEF StartBackground, Goto, Stages, Connected, Alive, connVars
<1>7. PublishedServes'
  BY DEF StartBackground, PublishedServes
<1>8. NoneEscapes'
  BY DEF StartBackground, Goto, NoneEscapes, Alive, connVars
<1>9. ClosedIsSilent'
  BY DEF StartBackground, Goto, Stages, ClosedIsSilent, connVars
<1> QED
  BY <1>1, <1>2, <1>3, <1>4, <1>5, <1>6, <1>7, <1>8, <1>9

\* A start publishes its run.
LEMMA PublishStep ==
    ASSUME IInv, NEW t \in Callers, Publish(t)
    PROVE  IInv'
<1> USE DEF IInv
<1>1. TypeOK'
  BY DEF Publish, Goto, TypeOK, ClosedIsSilent, CallerStates, serverVars, connVars
<1>2. Fresh'
  BY DEF Publish, Fresh, serverVars
<1>3. Locked'
  BY DEF Publish, Goto, TypeOK, Locked, CallerStates
<1>4. Owned'
  BY DEF Publish, Goto, TypeOK, Owned, CallerStates, serverVars
<1>5. Stages'
  BY DEF Publish, Goto, TypeOK, Stages, Alive, Holding, CallerStates, serverVars,
    connVars
<1>6. Connected'
  BY DEF Publish, Connected, Alive, serverVars, connVars
<1>7. PublishedServes'
  BY DEF Publish, Goto, TypeOK, Owned, Stages, PublishedServes, Holding, serverVars
<1>8. NoneEscapes'
  BY DEF Publish, Goto, NoneEscapes, Alive, connVars
<1>9. ClosedIsSilent'
  BY DEF Publish, ClosedIsSilent, serverVars, connVars
<1> QED
  BY <1>1, <1>2, <1>3, <1>4, <1>5, <1>6, <1>7, <1>8, <1>9

\* A client connects.
LEMMA ConnectStep ==
    ASSUME IInv, NEW c \in Conns, Connect(c)
    PROVE  IInv'
<1> USE DEF IInv
<1>1. TypeOK'
  BY DEF Connect, TypeOK, ClosedIsSilent, ConnStates, processVars, serverVars
<1>2. Fresh'
  BY DEF Connect, Fresh, serverVars
<1>3. Locked'
  BY DEF Connect, Locked, processVars, serverVars
<1>4. Owned'
  BY DEF Connect, Owned, processVars, serverVars
<1>5. Stages'
  BY DEF Connect, Owned, Stages, Connected, Alive, processVars, serverVars
<1>6. Connected'
  BY DEF Connect, TypeOK, Connected, Alive, CallerStates, serverVars
<1>7. PublishedServes'
  BY DEF Connect, PublishedServes, processVars, serverVars
<1>8. NoneEscapes'
  BY DEF Connect, NoneEscapes, Alive, processVars
<1>9. ClosedIsSilent'
  BY DEF Connect, ClosedIsSilent, serverVars
<1> QED
  BY <1>1, <1>2, <1>3, <1>4, <1>5, <1>6, <1>7, <1>8, <1>9

\* The loop looks at the flag or at the backlog.
LEMMA PollStep ==
    ASSUME IInv, NEW r \in Runs, Poll(r)
    PROVE  IInv'
<1> USE DEF IInv
<1>1. TypeOK'
  BY DEF Poll, TypeOK, ClosedIsSilent, Loops, processVars, connVars
<1>2. Fresh'
  BY ServerRuntimeAssumption DEF Poll, TypeOK, Fresh
<1>3. Locked'
  BY DEF Poll, Locked, processVars
<1>4. Owned'
  BY DEF Poll, Owned, processVars
<1>5. Stages'
  BY ServerRuntimeAssumption DEF Poll, TypeOK, Owned, Stages, NoneEscapes,
    ClosedIsSilent, Alive, Holding, processVars, connVars
<1>6. Connected'
  BY ServerRuntimeAssumption DEF Poll, TypeOK, Connected, Alive, connVars
<1>7. PublishedServes'
  BY ServerRuntimeAssumption DEF Poll, TypeOK, PublishedServes, processVars
<1>8. NoneEscapes'
  BY DEF Poll, NoneEscapes, Alive, processVars, connVars
<1>9. ClosedIsSilent'
  BY ServerRuntimeAssumption DEF Poll, TypeOK, ClosedIsSilent, connVars
<1> QED
  BY <1>1, <1>2, <1>3, <1>4, <1>5, <1>6, <1>7, <1>8, <1>9

\* The loop tracks a connection: it is not one that the cut has missed, as the
\* loop of a run whose connections were cut has ended.
LEMMA TakeStep ==
    ASSUME IInv, NEW r \in Runs, NEW c \in Conns, Take(r, c)
    PROVE  IInv'
<1> USE DEF IInv
<1>1. TypeOK'
  BY DEF Take, TypeOK, ClosedIsSilent, ConnStates, processVars, serverVars
<1>2. Fresh'
  BY DEF Take, Fresh, serverVars
<1>3. Locked'
  BY DEF Take, Locked, processVars, serverVars
<1>4. Owned'
  BY DEF Take, Owned, processVars, serverVars
<1>5. Stages'
  BY DEF Take, Stages, Alive, processVars, serverVars
<1>6. Connected'
  BY DEF Take, TypeOK, Connected, Alive, CallerStates, serverVars
<1>7. PublishedServes'
  BY DEF Take, PublishedServes, processVars, serverVars
<1>8. NoneEscapes'
  BY DEF Take, Stages, NoneEscapes, Alive, processVars
<1>9. ClosedIsSilent'
  BY DEF Take, ClosedIsSilent, serverVars
<1> QED
  BY <1>1, <1>2, <1>3, <1>4, <1>5, <1>6, <1>7, <1>8, <1>9

\* The loop starts the handler of the connection it took, or cannot.
LEMMA SpawnStep ==
    ASSUME IInv, NEW c \in Conns, Spawn(c)
    PROVE  IInv'
<1> USE DEF IInv
<1>1. TypeOK'
  <2>1. loop' \in [Runs -> Loops]
    BY DEF Spawn, TypeOK, Loops
  <2>2. conn' \in [Conns -> ConnStates] /\ run' \in [Conns -> Runs \cup {None}]
        /\ cut' \subseteq Conns
    BY DEF Spawn, Shut, TypeOK, ConnStates
  <2>3. tracked' \in [Runs -> SUBSET Conns]
    BY DEF Spawn, Shut, TypeOK
  <2> QED
    BY <2>1, <2>2, <2>3 DEF Spawn, TypeOK, processVars
<1>2. Fresh'
  BY DEF Spawn, Fresh, Connected
<1>3. Locked'
  BY DEF Spawn, Locked, processVars
<1>4. Owned'
  BY DEF Spawn, Owned, processVars
<1>5. Stages'
  <2>1. run[c] \in Runs /\ loop[run[c]] = "accepting" /\ Alive(c, run[c])
    BY DEF Spawn, Connected, TypeOK, Alive
  <2>2. \A r \in Runs : loop'[r] = IF r = run[c] THEN "polling" ELSE loop[r]
    BY <2>1 DEF Spawn, TypeOK
  <2>3. ASSUME NEW d \in Conns
        PROVE  \/ conn'[d] = conn[d] /\ run'[d] = run[d]
               \/ conn'[d] = "reading" /\ d = c /\ run'[d] = run[d]
               \/ conn'[d] = "away" /\ run'[d] = None
    <3>1. CASE d = c
      BY <3>1 DEF Spawn, Shut, TypeOK
    <3>2. CASE d # c
      BY <3>2 DEF Spawn, Shut, TypeOK
    <3> QED
      BY <3>1, <3>2
  <2>4. \A d \in Conns, r \in Runs : Alive(d, r)' => Alive(d, r)
    BY <2>1, <2>3, ServerRuntimeAssumption DEF Alive, Runs
  <2>5. UNCHANGED <<runtime, lock, pc, mine, made, bound, asked, store>>
    BY DEF Spawn, processVars
  <2>6. ASSUME NEW t \in Callers, mine[t] \in Runs, loop[mine[t]] # "accepting"
        PROVE  loop'[mine[t]] = loop[mine[t]]
    BY <2>1, <2>2, <2>6
  <2>7. ASSUME NEW t \in Callers PROVE pc[t] \notin {"idle", "run", "bind"} =>
    mine[t] \in Runs
    BY DEF Owned, TypeOK
  <2>8. ASSUME NEW t \in Callers, pc[t] \in {"close", "unbind", "join", "store"}
    \cup {"open", "start"}
        PROVE  loop'[mine[t]] = loop[mine[t]]
    BY <2>6, <2>7, <2>8 DEF Stages
  <2>9. ASSUME NEW t \in Callers, pc[t] = "publish"
        PROVE  loop'[mine[t]] \in {"polling", "accepting"}
    BY <2>2, <2>7, <2>9 DEF Stages
  <2>10. ASSUME NEW t \in Callers, pc[t] \in {"join", "store"}
         PROVE  \A d \in Conns : ~(conn'[d] = "backlog" /\ run'[d] = mine[t])
    BY <2>3, <2>10 DEF Stages
  <2>11. ASSUME NEW t \in Callers, pc[t] = "store"
         PROVE  \A d \in Conns : ~Alive(d, mine[t])'
    <3>1. mine[t] \in Runs
      BY <2>7, <2>11
    <3>2. \A d \in Conns : ~Alive(d, mine[t])
      BY <2>11 DEF Stages
    <3> QED
      BY <2>4, <2>5, <3>1, <3>2 DEF Alive
  <2> QED
    BY <2>5, <2>8, <2>9, <2>10, <2>11 DEF Stages, Holding, Alive
<1>6. Connected'
  <2>1. run[c] \in Runs /\ loop[run[c]] = "accepting" /\ conn[c] = "taken"
        /\ \A d \in Conns \ {c} : ~(conn[d] = "taken" /\ run[d] = run[c])
    BY DEF Spawn, Connected, TypeOK
  <2>2. \A r \in Runs \ {run[c]} : loop'[r] = loop[r] /\ tracked'[r] = tracked[r]
    BY <2>1 DEF Spawn, Shut, TypeOK
  <2>3. \A d \in Conns \ {c} : conn'[d] = conn[d] /\ run'[d] = run[d]
    BY DEF Spawn, Shut, TypeOK
  <2>4. \/ conn'[c] = "reading" /\ run'[c] = run[c] /\ tracked' = tracked
        \/ conn'[c] = "away" /\ run'[c] = None /\ tracked'[run[c]] = tracked[run[c]]
          \ {c}
    BY <2>1 DEF Spawn, Shut, TypeOK
  <2>5. ASSUME NEW d \in Conns \ {c}, conn[d] = "taken"
        PROVE  run[d] \in Runs \ {run[c]} /\ loop'[run[d]] = "accepting"
    BY <2>1, <2>2, <2>5 DEF Connected, TypeOK
  <2>6. ASSUME NEW d \in Conns, NEW r \in Runs PROVE d \in tracked'[r] <=> Alive(d,
    r)'
    <3>1. d \in tracked[r] <=> Alive(d, r)
      BY DEF Connected
    <3> QED
      BY <2>1, <2>2, <2>3, <2>4, <3>1, ServerRuntimeAssumption DEF Alive, Runs
  <2> QED
    BY <2>3, <2>4, <2>5, <2>6, <2>1, ServerRuntimeAssumption DEF Connected, Runs
<1>7. PublishedServes'
  BY DEF Spawn, PublishedServes, processVars
<1>8. NoneEscapes'
  BY DEF Spawn, Shut, TypeOK, NoneEscapes, Alive, CallerStates, processVars
<1>9. ClosedIsSilent'
  BY ServerRuntimeAssumption DEF Spawn, Shut, TypeOK, ClosedIsSilent, Runs
<1> QED
  BY <1>1, <1>2, <1>3, <1>4, <1>5, <1>6, <1>7, <1>8, <1>9

\* A request comes.
LEMMA ReceiveStep ==
    ASSUME IInv, NEW c \in Conns, Receive(c)
    PROVE  IInv'
<1> USE DEF IInv
<1>1. TypeOK'
  BY DEF Receive, TypeOK, ClosedIsSilent, ConnStates, processVars, serverVars
<1>2. Fresh'
  BY DEF Receive, Fresh, serverVars
<1>3. Locked'
  BY DEF Receive, Locked, processVars, serverVars
<1>4. Owned'
  BY DEF Receive, Owned, processVars, serverVars
<1>5. Stages'
  BY DEF Receive, Stages, Alive, processVars, serverVars
<1>6. Connected'
  BY DEF Receive, Connected, Alive, serverVars
<1>7. PublishedServes'
  BY DEF Receive, PublishedServes, processVars, serverVars
<1>8. NoneEscapes'
  BY DEF Receive, NoneEscapes, Alive, processVars
<1>9. ClosedIsSilent'
  BY DEF Receive, ClosedIsSilent, serverVars
<1> QED
  BY <1>1, <1>2, <1>3, <1>4, <1>5, <1>6, <1>7, <1>8, <1>9

\* A client leaves.
LEMMA LeaveStep ==
    ASSUME IInv, NEW c \in Conns, Leave(c)
    PROVE  IInv'
<1> USE DEF IInv
<1>1. TypeOK'
  BY DEF Leave, TypeOK, ClosedIsSilent, ConnStates, processVars, serverVars
<1>2. Fresh'
  BY DEF Leave, Fresh, serverVars
<1>3. Locked'
  BY DEF Leave, Locked, processVars, serverVars
<1>4. Owned'
  BY DEF Leave, Owned, processVars, serverVars
<1>5. Stages'
  BY DEF Leave, Stages, Alive, processVars, serverVars
<1>6. Connected'
  BY DEF Leave, Connected, Alive, serverVars
<1>7. PublishedServes'
  BY DEF Leave, PublishedServes, processVars, serverVars
<1>8. NoneEscapes'
  BY DEF Leave, NoneEscapes, Alive, processVars
<1>9. ClosedIsSilent'
  BY DEF Leave, ClosedIsSilent, serverVars
<1> QED
  BY <1>1, <1>2, <1>3, <1>4, <1>5, <1>6, <1>7, <1>8, <1>9

\* A handler finds its connection cut.
LEMMA ReadCutStep ==
    ASSUME IInv, NEW c \in Conns, ReadCut(c)
    PROVE  IInv'
<1> USE DEF IInv
<1>1. TypeOK'
  BY DEF ReadCut, TypeOK, ClosedIsSilent, ConnStates, processVars, serverVars
<1>2. Fresh'
  BY DEF ReadCut, Fresh, serverVars
<1>3. Locked'
  BY DEF ReadCut, Locked, processVars, serverVars
<1>4. Owned'
  BY DEF ReadCut, Owned, processVars, serverVars
<1>5. Stages'
  BY DEF ReadCut, Stages, Alive, processVars, serverVars
<1>6. Connected'
  BY DEF ReadCut, Connected, Alive, serverVars
<1>7. PublishedServes'
  BY DEF ReadCut, PublishedServes, processVars, serverVars
<1>8. NoneEscapes'
  BY DEF ReadCut, NoneEscapes, Alive, processVars
<1>9. ClosedIsSilent'
  BY DEF ReadCut, ClosedIsSilent, serverVars
<1> QED
  BY <1>1, <1>2, <1>3, <1>4, <1>5, <1>6, <1>7, <1>8, <1>9

\* A handler answers.
LEMMA ServeStep ==
    ASSUME IInv, NEW c \in Conns, Serve(c)
    PROVE  IInv'
<1> USE DEF IInv
<1>1. TypeOK'
  BY DEF Serve, TypeOK, ClosedIsSilent, ConnStates, processVars, serverVars
<1>2. Fresh'
  BY DEF Serve, Fresh, serverVars
<1>3. Locked'
  BY DEF Serve, Locked, processVars, serverVars
<1>4. Owned'
  BY DEF Serve, Owned, processVars, serverVars
<1>5. Stages'
  BY DEF Serve, Stages, Alive, processVars, serverVars
<1>6. Connected'
  BY DEF Serve, Connected, Alive, serverVars
<1>7. PublishedServes'
  BY DEF Serve, PublishedServes, processVars, serverVars
<1>8. NoneEscapes'
  BY DEF Serve, NoneEscapes, Alive, processVars
<1>9. ClosedIsSilent'
  BY DEF Serve, ClosedIsSilent, serverVars
<1> QED
  BY <1>1, <1>2, <1>3, <1>4, <1>5, <1>6, <1>7, <1>8, <1>9

\* A handler ends.
LEMMA EndHandlerStep ==
    ASSUME IInv, NEW c \in Conns, EndHandler(c)
    PROVE  IInv'
<1> USE DEF IInv
<1>1. TypeOK'
  BY DEF EndHandler, Shut, TypeOK, Connected, ConnStates, processVars, serverVars
<1>2. Fresh'
  BY DEF EndHandler, Fresh, serverVars
<1>3. Locked'
  BY DEF EndHandler, Locked, processVars, serverVars
<1>4. Owned'
  BY DEF EndHandler, Owned, processVars, serverVars
<1>5. Stages'
  BY DEF EndHandler, Shut, Owned, Stages, Alive, processVars, serverVars
<1>6. Connected'
  BY DEF EndHandler, Shut, TypeOK, Connected, Alive, CallerStates, serverVars
<1>7. PublishedServes'
  BY DEF EndHandler, PublishedServes, processVars, serverVars
<1>8. NoneEscapes'
  BY DEF EndHandler, Shut, TypeOK, NoneEscapes, Alive, CallerStates, processVars
<1>9. ClosedIsSilent'
  BY ServerRuntimeAssumption DEF EndHandler, Shut, ClosedIsSilent, Runs, serverVars
<1> QED
  BY <1>1, <1>2, <1>3, <1>4, <1>5, <1>6, <1>7, <1>8, <1>9

\* A stop takes the published run as its own.
LEMMA PopStep ==
    ASSUME IInv, NEW t \in Callers, Pop(t)
    PROVE  IInv'
<1> USE DEF IInv
<1>1. TypeOK'
  BY DEF Pop, TypeOK, ClosedIsSilent, CallerStates, serverVars, connVars
<1>2. Fresh'
  BY DEF Pop, Fresh, serverVars
<1>3. Locked'
  BY DEF Pop, Locked, serverVars
<1>4. Owned'
  BY DEF Pop, TypeOK, Fresh, Owned, PublishedServes, serverVars
<1>5. Stages'
  BY DEF Pop, TypeOK, Stages, PublishedServes, Alive, serverVars, connVars
<1>6. Connected'
  BY DEF Pop, Connected, Alive, serverVars, connVars
<1>7. PublishedServes'
  BY DEF Pop, PublishedServes
<1>8. NoneEscapes'
  BY DEF Pop, NoneEscapes, Alive, connVars
<1>9. ClosedIsSilent'
  BY DEF Pop, ClosedIsSilent, serverVars, connVars
<1> QED
  BY <1>1, <1>2, <1>3, <1>4, <1>5, <1>6, <1>7, <1>8, <1>9

\* A stop asks the loop to end.
LEMMA AskShutdownStep ==
    ASSUME IInv, NEW t \in Callers, AskShutdown(t)
    PROVE  IInv'
<1> USE DEF IInv
<1>1. TypeOK'
  BY DEF AskShutdown, Goto, TypeOK, Owned, CallerStates, connVars
<1>2. Fresh'
  BY DEF AskShutdown, Goto, TypeOK, Fresh, Owned, Runs
<1>3. Locked'
  BY DEF AskShutdown, Goto, Locked
<1>4. Owned'
  BY DEF AskShutdown, Goto, Owned
<1>5. Stages'
  BY DEF AskShutdown, Goto, Owned, Stages, Alive, Holding, connVars
<1>6. Connected'
  BY DEF AskShutdown, Connected, Alive, connVars
<1>7. PublishedServes'
  BY DEF AskShutdown, PublishedServes
<1>8. NoneEscapes'
  BY DEF AskShutdown, Goto, NoneEscapes, Alive, connVars
<1>9. ClosedIsSilent'
  BY DEF AskShutdown, ClosedIsSilent, connVars
<1> QED
  BY <1>1, <1>2, <1>3, <1>4, <1>5, <1>6, <1>7, <1>8, <1>9

\* A stop has seen the loop end.
LEMMA AwaitLoopStep ==
    ASSUME IInv, NEW t \in Callers, AwaitLoop(t)
    PROVE  IInv'
<1> USE DEF IInv
<1>1. TypeOK'
  BY DEF AwaitLoop, Goto, TypeOK, ClosedIsSilent, CallerStates, serverVars, connVars
<1>2. Fresh'
  BY DEF AwaitLoop, Fresh, serverVars
<1>3. Locked'
  BY DEF AwaitLoop, Goto, Locked, serverVars
<1>4. Owned'
  BY DEF AwaitLoop, Goto, Owned, serverVars
<1>5. Stages'
  BY DEF AwaitLoop, Goto, Stages, Alive, Holding, serverVars, connVars
<1>6. Connected'
  BY DEF AwaitLoop, Connected, Alive, serverVars, connVars
<1>7. PublishedServes'
  BY DEF AwaitLoop, PublishedServes, serverVars
<1>8. NoneEscapes'
  BY DEF AwaitLoop, Goto, NoneEscapes, Alive, connVars
<1>9. ClosedIsSilent'
  BY DEF AwaitLoop, ClosedIsSilent, serverVars, connVars
<1> QED
  BY <1>1, <1>2, <1>3, <1>4, <1>5, <1>6, <1>7, <1>8, <1>9

\* A stop cuts what is tracked, which is all that is alive.
LEMMA CloseConnectionsStep ==
    ASSUME IInv, NEW t \in Callers, CloseConnections(t)
    PROVE  IInv'
<1> USE DEF IInv
<1>1. TypeOK'
  BY DEF CloseConnections, Goto, TypeOK, Owned, CallerStates, serverVars
<1>2. Fresh'
  BY DEF CloseConnections, Fresh, serverVars
<1>3. Locked'
  BY DEF CloseConnections, Goto, Locked, serverVars
<1>4. Owned'
  BY DEF CloseConnections, Goto, Owned, serverVars
<1>5. Stages'
  BY DEF CloseConnections, Goto, Stages, Alive, Holding, serverVars
<1>6. Connected'
  BY DEF CloseConnections, Connected, Alive, serverVars
<1>7. PublishedServes'
  BY DEF CloseConnections, PublishedServes, serverVars
<1>8. NoneEscapes'
  BY DEF CloseConnections, Goto, TypeOK, Connected, NoneEscapes, Alive
<1>9. ClosedIsSilent'
  BY DEF CloseConnections, ClosedIsSilent, serverVars
<1> QED
  BY <1>1, <1>2, <1>3, <1>4, <1>5, <1>6, <1>7, <1>8, <1>9

\* A stop gives the port up, with the backlog.
LEMMA UnbindStep ==
    ASSUME IInv, NEW t \in Callers, Unbind(t)
    PROVE  IInv'
<1> USE DEF IInv
<1>1. TypeOK'
  BY DEF Unbind, Goto, ResetBacklog, TypeOK, ClosedIsSilent, ConnStates,
    CallerStates
<1>2. Fresh'
  BY DEF Unbind, Fresh
<1>3. Locked'
  BY DEF Unbind, Goto, Locked
<1>4. Owned'
  BY DEF Unbind, Goto, Owned
<1>5. Stages'
  BY DEF Unbind, Goto, ResetBacklog, TypeOK, Owned, Stages, Alive, Holding
<1>6. Connected'
  BY DEF Unbind, ResetBacklog, Connected, Alive
<1>7. PublishedServes'
  BY DEF Unbind, Goto, Stages, PublishedServes, Holding
<1>8. NoneEscapes'
  BY DEF Unbind, Goto, ResetBacklog, NoneEscapes, Alive
<1>9. ClosedIsSilent'
  BY ServerRuntimeAssumption DEF Unbind, ResetBacklog, ClosedIsSilent, Runs
<1> QED
  BY <1>1, <1>2, <1>3, <1>4, <1>5, <1>6, <1>7, <1>8, <1>9

\* A stop has seen the last handler end.
LEMMA JoinHandlersStep ==
    ASSUME IInv, NEW t \in Callers, JoinHandlers(t)
    PROVE  IInv'
<1> USE DEF IInv
<1>1. TypeOK'
  BY DEF JoinHandlers, Goto, TypeOK, Alive, CallerStates, serverVars, connVars
<1>2. Fresh'
  BY DEF JoinHandlers, Fresh, serverVars
<1>3. Locked'
  BY DEF JoinHandlers, Goto, Locked, serverVars
<1>4. Owned'
  BY DEF JoinHandlers, Goto, Owned, serverVars
<1>5. Stages'
  BY DEF JoinHandlers, Goto, Stages, Alive, Holding, serverVars, connVars
<1>6. Connected'
  BY DEF JoinHandlers, Connected, Alive, serverVars, connVars
<1>7. PublishedServes'
  BY DEF JoinHandlers, PublishedServes, serverVars
<1>8. NoneEscapes'
  BY DEF JoinHandlers, Goto, NoneEscapes, Alive, connVars
<1>9. ClosedIsSilent'
  BY DEF JoinHandlers, ClosedIsSilent, serverVars, connVars
<1> QED
  BY <1>1, <1>2, <1>3, <1>4, <1>5, <1>6, <1>7, <1>8, <1>9

\* A stop closes the store, which nobody can ask any more.
LEMMA CloseStoreStep ==
    ASSUME IInv, NEW t \in Callers, CloseStore(t)
    PROVE  IInv'
<1> USE DEF IInv
<1>1. TypeOK'
  BY DEF CloseStore, Goto, TypeOK, Owned, CallerStates, connVars
<1>2. Fresh'
  BY DEF CloseStore, Goto, Fresh, Stages
<1>3. Locked'
  BY DEF CloseStore, Goto, Locked
<1>4. Owned'
  BY DEF CloseStore, Goto, TypeOK, Owned, CallerStates
<1>5. Stages'
  BY DEF CloseStore, Goto, TypeOK, Stages, Alive, Holding, CallerStates, connVars
<1>6. Connected'
  BY DEF CloseStore, Connected, Alive, connVars
<1>7. PublishedServes'
  BY DEF CloseStore, PublishedServes
<1>8. NoneEscapes'
  BY DEF CloseStore, Goto, Connected, NoneEscapes, Alive, connVars
<1>9. ClosedIsSilent'
  BY DEF CloseStore, Goto, TypeOK, Owned, Stages, Connected, ClosedIsSilent, Alive,
    ConnStates, connVars
<1> QED
  BY <1>1, <1>2, <1>3, <1>4, <1>5, <1>6, <1>7, <1>8, <1>9

-----------------------------------------------------------------------------
\* Every step keeps the invariant.
LEMMA InvStep == IInv /\ [Next]_vars => IInv'
<1> SUFFICES ASSUME IInv, [Next]_vars PROVE IInv'
  OBVIOUS
<1>1. ASSUME NEW t \in Callers, Start(t) PROVE IInv'
  BY <1>1, RunStep, FindRuntimeStep, BindStep, OpenStoreStep,
     StartBackgroundStep, PublishStep DEF Start
<1>2. ASSUME NEW t \in Callers, StopSteps(t) PROVE IInv'
  BY <1>2, AskShutdownStep, AwaitLoopStep, CloseConnectionsStep, UnbindStep,
     JoinHandlersStep, CloseStoreStep DEF StopSteps
<1>3. ASSUME NEW r \in Runs, Accept(r) PROVE IInv'
  BY <1>3, PollStep, TakeStep DEF Accept
<1>4. ASSUME NEW c \in Conns, Handle(c) PROVE IInv'
  BY <1>4, SpawnStep, ReadCutStep, ServeStep, EndHandlerStep DEF Handle
<1>5. ASSUME NEW c \in Conns, Client(c) PROVE IInv'
  BY <1>5, ConnectStep, ReceiveStep, LeaveStep DEF Client
<1>6. ASSUME NEW t \in Callers, Pop(t) PROVE IInv'
  BY <1>6, PopStep
<1>7. CASE UNCHANGED vars
  BY <1>7 DEF vars, processVars, serverVars, connVars, IInv, TypeOK, Fresh, Locked, Owned,
    Stages, Connected, PublishedServes, NoneEscapes, ClosedIsSilent, Alive
<1> QED
  BY <1>1, <1>2, <1>3, <1>4, <1>5, <1>6, <1>7 DEF Next

\* The invariant holds in every reachable state.
THEOREM InvAlways == Spec => []IInv
  BY InvInit, InvStep, PTL DEF Spec

\* server.py:703-751: whatever several threads start and stop and clients do,
\* a store is closed only when its run has no port, no connection and no handler.
THEOREM SilentBeforeClose == Spec => []ClosedIsSilent
<1>1. IInv => ClosedIsSilent
  BY DEF IInv
<1> QED
  BY InvAlways, <1>1, PTL

\* server.py:703-751: the state is well formed, the published runtime serves,
\* and a stop that has cut the connections of its run has missed none.
THEOREM AlwaysConsistent == Spec => []Consistent
<1>1. IInv => Consistent
  BY DEF IInv, Consistent
<1> QED
  BY InvAlways, <1>1, PTL
=============================================================================
