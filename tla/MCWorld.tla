------------------------------ MODULE MCWorld ------------------------------
(***************************************************************************)
(* Small worlds.                                                           *)
(***************************************************************************)
EXTENDS WorldProperties, TLC

CONSTANTS c1, c2, m1, m2, alice, admin, rook, pawn, none, s1, s2, u1

TwoConns == {c1, c2}

AllNames == {alice, admin}

\* Two characters of one player on one map, which an answer that comes late could confuse.
OwnerOf == [ch \in Characters |-> alice]
MapOf   == [ch \in Characters |-> m1]

\* The first server has both maps, the other one of them.
SupportedBy == [p \in MapServers |-> IF p = s1 THEN Maps ELSE {m2}]

\* Only map servers have a key file.  Where two of them register one may be of any build.
SoundBuilds == [p \in Programs |-> {"right"}]
ServerBuilds == [p \in Programs |-> IF p = s1 THEN Build ELSE {"right"}]
ClientBuilds == [p \in Programs |-> IF p \in MapServers THEN {"right"} ELSE {"right", "wrongVersion"}]

=============================================================================
