---------------------------- MODULE ThreadProofs ----------------------------
(***************************************************************************)
(* The guards of the login server protect what they are meant to, for any  *)
(* number of sockets and maps.                                             *)
(***************************************************************************)
EXTENDS ServerThreads, TLAPS

\* A guard is held from its declaration to the end of its block and by one thread: what the
\* threads are doing and what is locked agree, over nested blocks and between any two steps.
LocksHeld ==
    /\ owner["incomingConnections"] = "main" <=> main = "adding"
    /\ owner["incomingConnections"] = "incoming" <=> incoming # "between passes"
    /\ owner["playerSession"] = "incoming" <=> incoming = "adding session"
    /\ owner["playerSession"] = "connected" <=> connected # "between passes"
    /\ owner["mapServers"] = "incoming" <=> incoming = "publishing"

\* Beside the program counters the owners need a domain.
LockInv ==
    /\ owner \in [Mutexes -> {None, "main", "incoming", "connected"}]
    /\ LocksHeld

LEMMA LockInvStep ==
    ASSUME LockInv, [Next]_vars
    PROVE  LockInv'
<1> USE DEF LockInv, LocksHeld, Mutexes, None, vars, mainVars, incomingVars, connectedVars, shared
<1>1. CASE Accept
  BY <1>1 DEF Accept
<1>2. CASE LockList
  BY <1>2 DEF LockList, Lock
<1>3. CASE Add
  BY <1>3 DEF Add
<1>4. CASE AcceptorError
  BY <1>4 DEF AcceptorError
<1>5. CASE BeginVisits
  BY <1>5 DEF BeginVisits, Lock
<1>6. CASE VisitAlone
  BY <1>6 DEF VisitAlone
<1>7. CASE BeginHandOver
  BY <1>7 DEF BeginHandOver
<1>8. CASE LockSessions
  BY <1>8 DEF LockSessions, Lock
<1>9. CASE AddSession
  BY <1>9 DEF AddSession
<1>10. CASE AddServer
  BY <1>10 DEF AddServer, Lock
<1>11. CASE Publish
  BY <1>11 DEF Publish
<1>12. CASE Published
  BY <1>12 DEF Published, Unlock
<1>13. CASE EndVisits
  BY <1>13 DEF EndVisits, Unlock
<1>14. CASE BeginServices
  BY <1>14 DEF BeginServices, Lock
<1>15. CASE ServeAlone \/ Found
  BY <1>15 DEF ServeAlone, Found
<1>16. CASE BeginFind
  BY <1>16 DEF BeginFind
<1>17. CASE EndServices
  BY <1>17 DEF EndServices, Unlock
<1>18. CASE UNCHANGED vars
  BY <1>18
<1>19. QED
  BY <1>1, <1>2, <1>3, <1>4, <1>5, <1>6, <1>7, <1>8, <1>9, <1>10, <1>11, <1>12, <1>13, <1>14, <1>15, <1>16, <1>17, <1>18
     DEF Next, MainThread, IncomingThread, ConnectedThread

LEMMA LockInvAlways == Spec => []LockInv
<1>1. Init => LockInv
  BY DEF Init, LockInv, LocksHeld, Mutexes, None
<1>2. LockInv /\ [Next]_vars => LockInv'
  BY LockInvStep
<1>3. QED
  BY <1>1, <1>2, PTL DEF Spec

\* The guards are held where the code declares them, in every reachable state.
THEOREM LocksHeldCorrect == Spec => []LocksHeld
<1>1. LockInv => LocksHeld
  BY DEF LockInv
<1>2. QED
  BY <1>1, LockInvAlways, PTL

\* Only Add and AddSession lengthen a list: the owner of the mutex decides who is not inside.
LEMMA AddsAlone ==
    ASSUME LockInv, Next
    PROVE  /\ incoming # "between passes" => incomingConnections' \subseteq incomingConnections
           /\ connected # "between passes" => playerSessions' \subseteq playerSessions
<1> USE DEF LockInv, LocksHeld, shared
<1>1. CASE Add
  <2>1. incoming = "between passes"
    BY <1>1 DEF Add
  <2>2. QED
    BY <1>1, <2>1 DEF Add
<1>2. CASE AddSession
  <2>1. connected = "between passes"
    BY <1>2 DEF AddSession
  <2>2. QED
    BY <1>2, <2>1 DEF AddSession
<1>3. CASE VisitAlone \/ Published \/ ServeAlone
  BY <1>3 DEF VisitAlone, Published, ServeAlone
<1>4. CASE Accept \/ LockList \/ AcceptorError \/ BeginVisits \/ BeginHandOver \/ LockSessions
  BY <1>4 DEF Accept, LockList, AcceptorError, BeginVisits, BeginHandOver, LockSessions
<1>5. CASE AddServer \/ Publish \/ EndVisits \/ BeginServices \/ BeginFind \/ Found \/ EndServices
  BY <1>5 DEF AddServer, Publish, EndVisits, BeginServices, BeginFind, Found, EndServices
<1>6. QED
  BY <1>1, <1>2, <1>3, <1>4, <1>5 DEF Next, MainThread, IncomingThread, ConnectedThread

\* No pass over connections or sessions has its list lengthened under it.
THEOREM PassesUndisturbedCorrect == Spec => PassesUndisturbed
<1> DEFINE Undisturbed ==
        /\ incoming # "between passes" => incomingConnections' \subseteq incomingConnections
        /\ connected # "between passes" => playerSessions' \subseteq playerSessions
<1>1. LockInv /\ [Next]_vars => [Undisturbed]_vars
  BY AddsAlone
<1>2. QED
  BY <1>1, LockInvAlways, PTL DEF Spec, PassesUndisturbed

=============================================================================
