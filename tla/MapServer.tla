----------------------------- MODULE MapServer -----------------------------
(***************************************************************************)
(* The map server: MapServer::run and registerWithMasterServer, one        *)
(* blocking call after the other.  Whatever goes wrong ends the program;   *)
(* somebody may start it again.  Once registered it accepts players, of    *)
(* whom it does nothing more than log their arrival.                       *)
(***************************************************************************)
EXTENDS Peers

CONSTANTS
    MapServers,     \* the map server programs
    Supported,      \* Supported[p]: the maps its list names with the login server's hash
    MaxStarts       \* bound: how often one is started

ASSUME MapServersAssumption ==
    /\ MapServers \subseteq Programs
    /\ Supported \in [MapServers -> SUBSET Maps]
    /\ MaxStarts \in Nat

VARIABLES
    stage,      \* stage[p]: the call the program is in
    starts      \* starts[p]: how often it was started

mapServerVars == <<stage, starts>>

Waiting == {"challenge", "registered", "required"}
Stages  == Waiting \cup {"stopped", "accepting", "leaving"}

InitMapServers ==
    /\ stage = [p \in MapServers |-> "stopped"]
    /\ starts = [p \in MapServers |-> 0]

Enter(p, s) == stage' = [stage EXCEPT ![p] = s] /\ UNCHANGED starts

\* parseMaps, and connect().  A program that fails in either has done nothing.
Start(p) ==
    /\ stage[p] = "stopped"
    /\ starts[p] < MaxStarts
    /\ Dial(p)
    /\ stage' = [stage EXCEPT ![p] = "challenge"]
    /\ starts' = [starts EXCEPT ![p] = @ + 1]

\* Five or three seconds, or the end of the stream.
TimeOut(p) ==
    /\ stage[p] \in Waiting
    /\ ~Heard(p)
    /\ Enter(p, "leaving")
    /\ Silent
    /\ UNCHANGED <<line, toPeer>>

\* A reply the step does not expect.
Reject(p) == Silent /\ Enter(p, "leaving")

\* MUTANT: the request and the list are sent without waiting in between.
RequestAndList(p) ==
    /\ Tell(p, [kind |-> "mapList", maps |-> Supported[p]])
    /\ Enter(p, "registered")

RequestRegistration(p) ==
    /\ Tell(p, [kind |-> "registration"])
    /\ Enter(p, "registered")

ReceiveChallenge(p) ==
    /\ stage[p] = "challenge" /\ Heard(p)
    /\ TakeAll(p)
    /\ \/ (First(p).kind # "challenge" \/ build[p] = "wrongKey") /\ Reject(p)
       \/ /\ First(p).kind = "challenge" /\ build[p] = "wrongVersion"
          /\ Tell(p, [kind |-> "versionMismatch"])
          /\ Enter(p, "leaving")
       \/ /\ First(p).kind = "challenge" /\ build[p] = "right"
          /\ RequestRegistration(p)
    /\ UNCHANGED line

ReceiveRegistered(p) ==
    /\ stage[p] = "registered" /\ Heard(p)
    /\ TakeAll(p)
    /\ \/ First(p).kind # "registrationResponse" /\ Reject(p)
       \/ /\ First(p).kind = "registrationResponse"
          /\ Tell(p, [kind |-> "mapList", maps |-> Supported[p]])
          /\ Enter(p, "required")
    /\ UNCHANGED line

\* MUTANT: an answer that the server is not needed is overlooked.
ReceiveAnyRequired(p) ==
    /\ stage[p] = "required" /\ Heard(p)
    /\ TakeAll(p)
    /\ Tell(p, [kind |-> "ack"])
    /\ Enter(p, "accepting")
    /\ UNCHANGED line

\* MUTANT: the list is sent once more in place of the acknowledgement.
ReceiveRequiredRelist(p) ==
    /\ stage[p] = "required" /\ Heard(p)
    /\ TakeAll(p)
    /\ \/ First(p).kind # "requiredMaps" /\ Reject(p)
       \/ /\ First(p).kind = "requiredMaps"
          /\ Tell(p, [kind |-> "mapList", maps |-> Supported[p]])
          /\ Enter(p, "accepting")
    /\ UNCHANGED line

ReceiveRequired(p) ==
    /\ stage[p] = "required" /\ Heard(p)
    /\ TakeAll(p)
    /\ \/ First(p).kind # "requiredMaps" /\ Reject(p)
       \/ /\ First(p).kind = "requiredMaps"
          /\ Tell(p, [kind |-> "ack"])
          /\ Enter(p, "accepting")
    /\ UNCHANGED line

\* The program ends: it returns from run(), its acceptor fails, or it is killed.
Leave(p) ==
    /\ stage[p] # "stopped"
    /\ HangUp(p)
    /\ Enter(p, "stopped")

Register(p) == TimeOut(p) \/ ReceiveChallenge(p) \/ ReceiveRegistered(p) \/ ReceiveRequired(p)

RunMapServer(p) == Start(p) \/ Register(p) \/ Leave(p)

=============================================================================
