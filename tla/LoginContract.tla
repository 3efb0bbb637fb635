---------------------------- MODULE LoginContract ----------------------------
(***************************************************************************)
(* What the login server promises, whatever becomes of sockets, vectors    *)
(* and threads: a visitor is a guest until it is admitted as the player of *)
(* an account, becomes the host of some maps, or is shown out, at the      *)
(* latest for its last strike.  A map keeps its first host, and players    *)
(* are seated, with a character of their own, on maps that have one.       *)
(***************************************************************************)
EXTENDS Naturals

CONSTANTS
    Visitors,
    Names,          \* of accounts
    Locked,         \* accounts nobody is admitted to
    Maps,
    Characters,
    CharacterOwner, \* CharacterOwner[ch]: the account a character belongs to
    CharacterMap,   \* CharacterMap[ch]: its map, perhaps none of Maps
    Strikes,        \* how many failed attempts end a visit
    None            \* no account, no character, no host

VARIABLES
    accounts,   \* the accounts there are
    standing,   \* standing[v]: what visitor v is at present
    strikes,    \* strikes[v]: the failed attempts of a guest
    account,    \* account[v]: the account of a player
    seat,       \* seat[v]: the character a player was sent into the world with
    host        \* host[m]: the visitor that serves map m

contractVars == <<accounts, standing, strikes, account, seat, host>>

Standings == {"absent", "guest", "out", "player", "host"}

Init ==
    /\ accounts \subseteq Names
    /\ standing = [v \in Visitors |-> "absent"]
    /\ strikes = [v \in Visitors |-> 0]
    /\ account = [v \in Visitors |-> None]
    /\ seat = [v \in Visitors |-> None]
    /\ host = [m \in Maps |-> None]

Become(v, s) == standing' = [standing EXCEPT ![v] = s]

\* Where there is no account at all, one is made.
Found ==
    /\ accounts = {}
    /\ \E n \in Names \ Locked : accounts' = {n}
    /\ UNCHANGED <<standing, strikes, account, seat, host>>

Arrive(v) ==
    /\ standing[v] = "absent"
    /\ Become(v, "guest")
    /\ UNCHANGED <<accounts, strikes, account, seat, host>>

\* A failed attempt that leaves another one.
Strike(v) ==
    /\ standing[v] = "guest"
    /\ strikes[v] + 1 < Strikes
    /\ strikes' = [strikes EXCEPT ![v] = @ + 1]
    /\ UNCHANGED <<accounts, standing, account, seat, host>>

\* The last failed attempt, a locked account, the wrong version, nothing for the host
\* to do, or the visitor has gone.
ShowOut(v) ==
    /\ standing[v] = "guest"
    /\ Become(v, "out")
    /\ strikes' = [strikes EXCEPT ![v] = 0]
    /\ UNCHANGED <<accounts, account, seat, host>>

\* All those that were shown out go at once.
Clear ==
    /\ standing' = [v \in Visitors |-> IF standing[v] = "out" THEN "absent" ELSE standing[v]]
    /\ UNCHANGED <<accounts, strikes, account, seat, host>>

Admit(v, n) ==
    /\ standing[v] = "guest"
    /\ n \in accounts \ Locked
    /\ Become(v, "player")
    /\ strikes' = [strikes EXCEPT ![v] = 0]
    /\ account' = [account EXCEPT ![v] = n]
    /\ UNCHANGED <<accounts, seat, host>>

\* A host has not failed before, and takes those of the maps that nobody has.
TakeMaps(v, S) ==
    /\ standing[v] = "guest"
    /\ strikes[v] = 0
    /\ Become(v, "host")
    /\ host' = [m \in Maps |-> IF m \in S /\ host[m] = None THEN v ELSE host[m]]
    /\ UNCHANGED <<accounts, strikes, account, seat>>

Seat(v, ch) ==
    /\ standing[v] = "player"
    /\ CharacterOwner[ch] = account[v]
    /\ CharacterMap[ch] \in Maps /\ host[CharacterMap[ch]] # None
    /\ seat' = [seat EXCEPT ![v] = ch]
    /\ UNCHANGED <<accounts, standing, strikes, account, host>>

Part(v) ==
    /\ standing[v] = "player"
    /\ Become(v, "absent")
    /\ account' = [account EXCEPT ![v] = None]
    /\ seat' = [seat EXCEPT ![v] = None]
    /\ UNCHANGED <<accounts, strikes, host>>

Visit(v) ==
    \/ Arrive(v)
    \/ Strike(v)
    \/ ShowOut(v)
    \/ \E n \in Names : Admit(v, n)
    \/ \E S \in (SUBSET Maps) \ {{}} : TakeMaps(v, S)
    \/ \E ch \in Characters : Seat(v, ch)
    \/ Part(v)

Next == Found \/ Clear \/ \E v \in Visitors : Visit(v)

Spec == Init /\ [][Next]_contractVars

=============================================================================
