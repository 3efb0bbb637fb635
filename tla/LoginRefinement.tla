--------------------------- MODULE LoginRefinement ---------------------------
(***************************************************************************)
(* The login server keeps the contract: who holds a socket, and the state  *)
(* of its entry, say what the visitor behind it is.                        *)
(***************************************************************************)
EXTENDS LoginProperties

\* What the visitor is whose socket is held by `holder` and whose entry is in state `entry`.
StandingOf(holder, entry) ==
    CASE holder = "session" -> "player"
      [] holder = "mapServer" -> "host"
      [] holder = "incoming" /\ entry = "DONE" -> "out"
      [] holder = "incoming" /\ entry # "DONE" -> "guest"
      [] OTHER -> "absent"

Standing == [c \in Conns |-> StandingOf(owner[c], state[c])]

\* An entry keeps its count when it is done with; the contract forgets it.
Counted == [c \in Conns |-> IF Standing[c] = "guest" THEN attempts[c] ELSE 0]

\* The server that the directory leads to, or was meant to lead to.
Hosts == [m \in Maps |->
    IF HasServer(m) THEN mapServers[directory[m].slot].connection ELSE None]

Contract == INSTANCE LoginContract WITH
    Visitors <- Conns,
    Strikes <- MAX_ATTEMPTS_ALLOWED,
    accounts <- players,
    standing <- Standing,
    strikes <- Counted,
    account <- user,
    seat <- character,
    host <- Hosts

\* The login server implements LoginContract: every handler, of either thread, makes at
\* most one of the moves the contract knows for one visitor, and a purge clears those
\* that were shown out and nobody else.  In particular a DONE entry is never heard
\* again, no attempt is given back over the two handlers that count them, a map server
\* that has failed before cannot register, and a map keeps its host.
KeepsContract == Contract!Spec

=============================================================================
