------------------------------- MODULE World -------------------------------
(***************************************************************************)
(* The login server with real map servers and real clients instead of      *)
(* peers that may do anything.  Every behaviour of this world is one of    *)
(* LoginServer's (Spec), so what holds there holds here; what the programs *)
(* on both sides make of each other is stated in WorldProperties.          *)
(***************************************************************************)
EXTENDS MapServer, LoginClient

ASSUME WorldAssumption ==
    /\ Programs = MapServers \cup Clients
    /\ MapServers \cap Clients = {}
    /\ Buffered

\* All that the programs ever send.
ProgramMessages ==
    {[kind |-> "identity", user |-> n, right |-> n \in PasswordTesta] : n \in Names}
        \cup [kind : {"mapList"}, maps : SUBSET Maps]
        \cup [kind : {"characterSelect"}, character : Characters]
        \cup [kind : {"versionMismatch", "registration", "ack", "requestCharacters"}]

ASSUME MessagesAssumption == ProgramMessages \subseteq PeerMessages

programVars == <<line, build, mapServerVars, clientVars>>
worldVars   == <<vars, programVars>>

WorldInit == InitPeers /\ InitMapServers /\ InitClients

LoginServerStep ==
    /\ initDB \/ AcceptorFails \/ processIncoming \/ processConnected
    /\ UNCHANGED programVars

MapServerStep == (\E p \in MapServers : RunMapServer(p)) /\ UNCHANGED <<build, clientVars>>

ClientStep == (\E u \in Clients : render(u)) /\ UNCHANGED <<build, mapServerVars>>

WorldNext == LoginServerStep \/ MapServerStep \/ ClientStep

WorldSpec == WorldInit /\ [][WorldNext]_worldVars

(* Blocking calls return when there is something to receive, and those with *)
(* a limit when there is not.  Nothing is assumed of the user, of somebody  *)
(* who starts a map server, nor that a program lives on.                    *)
WorldFairness ==
    /\ Fairness
    /\ \A p \in MapServers :
          /\ WF_worldVars(Register(p) /\ UNCHANGED <<build, clientVars>>)
          /\ WF_worldVars(stage[p] = "leaving" /\ Leave(p) /\ UNCHANGED <<build, clientVars>>)
    /\ \A u \in Clients :
          WF_worldVars((GiveUpWaiting(u) \/ ClientChallenge(u) \/ ReceiveAnswer(u) \/ ReceiveCharacters(u)
                           \/ CharactersMissing(u) \/ ReceiveInstructions(u)) /\ UNCHANGED <<build, mapServerVars>>)

FairWorldSpec == WorldSpec /\ WorldFairness

=============================================================================
