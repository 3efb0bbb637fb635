------------------------------ MODULE MCLogin ------------------------------
(***************************************************************************)
(* Small instances of the login server.                                    *)
(***************************************************************************)
EXTENDS LoginRefinement, TLC

CONSTANTS c1, c2, c3, m1, m2, alice, bob, admin, rook, pawn, none

TwoConns   == {c1, c2}
ThreeConns == {c1, c2, c3}

AllNames == {alice, bob, admin}
Identity(n, right) == [kind |-> "identity", user |-> n, right |-> right]
Plain(kind) == [kind |-> kind]
List(S) == [kind |-> "mapList", maps |-> S]
Select(ch) == [kind |-> "characterSelect", character |-> ch]

\* alice owns a character on a map of the server, bob one on another server's map.
OwnerOf == (rook :> alice) @@ (pawn :> bob)
MapOf   == (rook :> m1) @@ (pawn :> "elsewhere")

\* A login, right and wrong, of an account that is locked and of one that is not, a
\* selection, and a map server.
LoginMessages ==
    {Identity(alice, TRUE), Identity(alice, FALSE), Identity(bob, TRUE),
     Plain("requestCharacters"), Select(rook), Select(pawn),
     Plain("registration"), List({m1})}

\* Two map servers and a player.
RegistryMessages ==
    {Identity(alice, TRUE), Select(rook),
     Plain("registration"), List({m1}), List({m1, m2})}

PlacementMessages ==
    {Identity(alice, TRUE), Select(rook), Plain("registration"), List({m1})}

\* What lies behind an odd byte is followed where nobody else is there.
OddAlone ==
    \A c \in Conns : toServer[c] # <<>> /\ toServer[c][1] = OddByte => \A d \in Conns \ {c} : owner[d] = "none"

\* After a failure of the acceptor things go on as if nobody arrived any more, which is
\* followed from where nobody has arrived yet.
AcceptorOnce == pc = "joining" => \A c \in Conns : owner[c] = "none"

\* Failed attempts are not followed where the question is not about them.
NoFailures == \A c \in Conns : attempts[c] = 0

\* One peer at a time has gone and is still to be noticed.
OneGone == NoFailures /\ Cardinality({c \in Conns : link[c] = "closed"}) =< 1

Interchangeable == Permutations(Conns)

=============================================================================
