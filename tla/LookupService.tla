--------------------------- MODULE LookupService ---------------------------
(***************************************************************************)
(* What the lookup store promises its clients.  There is one configuration *)
(* in force: a database, a pack built for that database or none, and the   *)
(* source roots.  It changes atomically.  An answer is the configuration   *)
(* in force at one moment between the call and its return; after the store *)
(* is closed nothing is answered any more.                                 *)
(***************************************************************************)
EXTENDS Naturals

CONSTANTS Readers, Versions, DbOf, None

VARIABLES served, answer, down

serviceVars == <<served, answer, down>>

Coherent(c) == c.pack # None => DbOf[c.pack] = c.db

Init ==
    /\ Coherent(served)
    /\ answer = [r \in Readers |-> None]
    /\ down = FALSE

\* An answer is served from the configuration in force.
Answer(r) ==
    /\ ~down
    /\ answer[r] = None
    /\ answer' = [answer EXCEPT ![r] = served]
    /\ UNCHANGED <<served, down>>

Return(r) ==
    /\ answer[r] # None
    /\ answer' = [answer EXCEPT ![r] = None]
    /\ UNCHANGED <<served, down>>

\* A publication, a reload, a source replacement: databases and source roots
\* only advance, and the new configuration is coherent.
Reconfigure ==
    /\ Coherent(served')
    /\ served'.db >= served.db
    /\ served'.src >= served.src
    /\ UNCHANGED <<answer, down>>

Shutdown ==
    /\ ~down
    /\ down' = TRUE
    /\ UNCHANGED <<served, answer>>

Next ==
    \/ \E r \in Readers : Answer(r) \/ Return(r)
    \/ Reconfigure
    \/ Shutdown

Spec == Init /\ [][Next]_serviceVars
=============================================================================
