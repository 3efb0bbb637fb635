---------------------------- MODULE LoginServer ----------------------------
(***************************************************************************)
(* The login server: its main thread, which fills the account table and    *)
(* then accepts connections, the two worker threads, and the peers.        *)
(***************************************************************************)
EXTENDS LoginIncoming, LoginConnected

\* The main thread, before it accepts anyone: an empty account table gets its
\* super-user.
initDB ==
    /\ pc = "initDB"
    /\ players' = IF players = {} THEN {SuperUser} ELSE players
    /\ pc' = "accepting"
    /\ UNCHANGED <<socketVars, owner, entryVars, sessionVars, registryVars>>

\* acceptSocket() has returned a socket that is not one of those still held.
AcceptConnection(c) ==
    /\ pc = "accepting"
    /\ state[c] = "ABSENT" /\ owner[c] = "none"
    /\ OpenSocket(c)
    /\ owner' = [owner EXCEPT ![c] = "incoming"]
    /\ state' = [state EXCEPT ![c] = "FRESH"]
    /\ UNCHANGED <<attempts, hello, maps, sessionVars, registryVars, processVars>>

\* An error of the acceptor: the main thread leaves its loop and waits for two
\* threads whose loops run until `done`, which nothing sets.
AcceptorFails ==
    /\ AcceptorMayFail
    /\ pc = "accepting"
    /\ pc' = "joining"
    /\ UNCHANGED <<socketVars, owner, entryVars, sessionVars, registryVars, players>>

run == initDB \/ AcceptorFails \/ \E c \in Conns : AcceptConnection(c)

\* A map server's socket is held but never read again, so what it sends is left out.
Peer(c) ==
    /\ \/ owner[c] \in {"incoming", "session"} /\ PeerSends(c)
       \/ PeerReads(c)
       \/ PeerCloses(c)
    /\ UNCHANGED <<owner, entryVars, sessionVars, registryVars, processVars>>

Init == InitState

ServerNext == run \/ processIncoming \/ processConnected

Next == ServerNext \/ \E c \in Conns : Peer(c)

Spec == Init /\ [][Next]_vars

(* The worker loops go on for ever and reach every connection and every    *)
(* session in each pass.  Nothing is assumed of the peers, of the acceptor *)
(* or of the choices a send leaves open.                                   *)
Fairness ==
    /\ WF_vars(PurgeDone)
    /\ \A c \in Conns : WF_vars(processConnection(c))
    /\ \A c \in Conns : WF_vars(ReapSession(c) \/ OpcodeMissing(c) \/ UnhandledOpcode(c)
                                   \/ OpcodeCutShort(c) \/ OpcodeOutOfStep(c)
                                   \/ processCharacterRequest(c) \/ processCharacterSelect(c))

FairSpec == Spec /\ Fairness

=============================================================================
