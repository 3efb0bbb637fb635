------------------------------ MODULE KeyFiles ------------------------------
(***************************************************************************)
(* The server program from its command line to the moment it serves, and   *)
(* the key pair that all its processes share through two files.  A login   *)
(* server takes its port, then makes a pair and writes it, one file after  *)
(* the other, or loads what is there; a map server loads the same files    *)
(* and compares the public key with the challenge; a client only knows the *)
(* challenge.  Processes may be killed between any two steps.              *)
(*                                                                         *)
(* Every process uses the default port and the default files, the keys of  *)
(* a pair bear the pair's name, and sessions, attempts and versions are    *)
(* LoginIncoming's: here a password is only decrypted.                     *)
(***************************************************************************)
CONSTANTS
    Processes,  \* the server processes that run at a time; their names are used again
    Clients,
    Keys,       \* the pairs that can be made; bounds RSA_generate_key
    Commands,   \* the command lines the server program is started with
    Absent,     \* no key, or a file that does not exist
    Empty,      \* a file without content
    None        \* no process

CommandLines ==
    [parses : BOOLEAN,          \* the options are known and have values of their type
     shows : BOOLEAN,           \* --help or --version
     login : BOOLEAN,           \* --login-server
     world : BOOLEAN,           \* --world-server
     regenerate : BOOLEAN,      \* --regenerate-keys
     ports : BOOLEAN,           \* valid ports
     password : BOOLEAN,        \* --database-password
     maps : BOOLEAN,            \* the map directory exists and has maps
     master : BOOLEAN]          \* --master-address

ASSUME KeyFilesAssumption ==
    /\ Commands \subseteq CommandLines
    /\ Absent # Empty /\ {Absent, Empty} \cap Keys = {}
    /\ Processes \cap Clients = {} /\ None \notin Processes

VARIABLES
    file,       \* login.pub and login.prv
    made,       \* the pairs that were generated
    role,       \* role[p]: which server process p is
    step,       \* step[p]: where its start has got to
    held,       \* held[p]: the key texts in its memory
    warned,     \* warned[p]: it has logged a fatal error and goes on
    port,       \* the process that listens on the login port
    link,       \* link[x]: the login server that x, a client or a map server, talks to
    crypto,     \* crypto[c]: the public key client c has loaded
    challenged, \* challenged[c]: on this connection
    verdict     \* verdict[c]: on the password of the last attempt on this connection

processVars == <<role, step, held, warned>>
clientVars == <<crypto, challenged, verdict>>
vars == <<file, made, processVars, port, link, clientVars>>

Texts == Keys \cup {Absent, Empty}
Steps == {"off", "openPub", "fillPub", "openPrv", "fillPrv", "readPub", "readPrv", "run", "accepting"}
NoKeys == [pub |-> Absent, prv |-> Absent]

Init ==
    /\ file = NoKeys
    /\ made = {}
    /\ role = [p \in Processes |-> "login"]
    /\ step = [p \in Processes |-> "off"]
    /\ held = [p \in Processes |-> NoKeys]
    /\ warned = [p \in Processes |-> FALSE]
    /\ port = None
    /\ link = [x \in Processes \cup Clients |-> None]
    /\ crypto = [c \in Clients |-> Absent]
    /\ challenged = [c \in Clients |-> FALSE]
    /\ verdict = [c \in Clients |-> "none"]

Step(p, s) == step' = [step EXCEPT ![p] = s]

\* A process ends, or is killed: its port is free and its connections are closed.
End(p) ==
    /\ Step(p, "off")
    /\ held' = [held EXCEPT ![p] = NoKeys]
    /\ warned' = [warned EXCEPT ![p] = FALSE]
    /\ port' = IF port = p THEN None ELSE port
    /\ link' = [x \in Processes \cup Clients |-> IF x = p \/ link[x] = p THEN None ELSE link[x]]
    /\ verdict' = [c \in Clients |-> IF link[c] = p THEN "none" ELSE verdict[c]]
    /\ UNCHANGED <<file, made, role, crypto, challenged>>

Kill(p) == step[p] # "off" /\ End(p)

\* logger->fatal(): the logging library ends the process, unless it was told not to.
Fatal(p, next) ==
    \/ End(p)
    \/ /\ Step(p, next)
       /\ warned' = [warned EXCEPT ![p] = TRUE]
       /\ UNCHANGED <<file, made, role, held, port, link, clientVars>>

-----------------------------------------------------------------------------
(* servermain *)

\* Command lines that do not parse end the process too: at once, or for want of the
\* options' default values.
Starts(o) ==
    /\ o.parses /\ ~o.shows
    /\ ~(o.login /\ o.world)
    /\ o.ports /\ o.password /\ o.maps
    /\ o.world => o.master

\* A login server is the default.  It takes its port before anything else and does not look
\* whether it got it.
startLoginServer(p, o) ==
    /\ ~o.world
    /\ role' = [role EXCEPT ![p] = "login"]
    /\ port' = IF port = None THEN p ELSE port
    /\ IF o.regenerate
       THEN \E k \in Keys \ made :
               /\ made' = made \cup {k}
               /\ held' = [held EXCEPT ![p] = [pub |-> k, prv |-> k]]
               /\ Step(p, "openPub")
       ELSE Step(p, "readPub") /\ UNCHANGED <<made, held>>

\* --regenerate-keys means nothing to a map server.
startWorldServer(p, o) ==
    /\ o.world
    /\ role' = [role EXCEPT ![p] = "map"]
    /\ Step(p, "readPub")
    /\ UNCHANGED <<made, held, port>>

Launch(p) ==
    /\ step[p] = "off"
    /\ \E o \in Commands :
          /\ Starts(o)
          /\ startLoginServer(p, o) \/ startWorldServer(p, o)
    /\ UNCHANGED <<file, warned, link, clientVars>>

-----------------------------------------------------------------------------
(* RSACrypto *)

\* The file is emptied when it is opened, and written when it is closed.  Of two that write
\* it at a time the last one's key is read: what may be left behind its end is no part of it.
WriteKeyFile(p, f, opening, filling, after) ==
    \/ /\ step[p] = opening
       /\ file' = [file EXCEPT ![f] = Empty]
       /\ Step(p, filling)
       /\ UNCHANGED <<made, role, held, warned, port, link, clientVars>>
    \/ step[p] = opening /\ Fatal(p, after)
    \/ /\ step[p] = filling
       /\ file' = [file EXCEPT ![f] = held[p][f]]
       /\ Step(p, after)
       /\ UNCHANGED <<made, role, held, warned, port, link, clientVars>>

\* MUTANT: nobody asks whether the two belong together.
ValidApart(pub, prv) == prv \in Keys

\* RSA_check_key: the private key fills in all of the pair, and a public key that can be
\* read replaces its part.
Valid(pub, prv) == prv \in Keys /\ pub \in {prv, Empty}

\* fromFiles.  A file that is not there leaves no crypto at all, which is used all the same.
LoadPublic(p) ==
    /\ step[p] = "readPub"
    /\ \/ file.pub = Absent /\ End(p)
       \/ /\ file.pub # Absent
          /\ held' = [held EXCEPT ![p].pub = file.pub]
          /\ Step(p, "readPrv")
          /\ UNCHANGED <<file, made, role, warned, port, link, clientVars>>

LoadPrivate(p) ==
    /\ step[p] = "readPrv"
    /\ \/ file.prv = Absent /\ End(p)
       \/ /\ file.prv # Absent
          /\ held' = [held EXCEPT ![p].prv = file.prv]
          /\ warned' = [warned EXCEPT ![p] = @ \/ ~Valid(held[p].pub, file.prv)]
          /\ Step(p, "run")
          /\ UNCHANGED <<file, made, role, port, link, clientVars>>
       \/ /\ file.prv # Absent
          /\ ~Valid(held[p].pub, file.prv)
          /\ End(p)

\* decryptStringPrivate returns what was encrypted with public key k.
Opens(p, k) == held[p].prv = k /\ held[p].pub \in {k, Empty}

-----------------------------------------------------------------------------
(* The login server and those who connect to it *)

\* run() of a login server without the port joins its threads, and meets nobody.
Serving(l) == role[l] = "login" /\ step[l] = "run" /\ port = l

\* registerWithMasterServer, its challenge; all else that may go wrong in it is Kill.
Register(p, l) ==
    /\ role[p] = "map" /\ step[p] = "run"
    /\ Serving(l)
    /\ \/ /\ held[l].pub = held[p].pub
          /\ Step(p, "accepting")
          /\ link' = [link EXCEPT ![p] = l]
          /\ UNCHANGED <<file, made, role, held, warned, port, clientVars>>
       \/ held[l].pub # held[p].pub /\ End(p)

\* The client crashes, or is closed and started again.
Quit(c) ==
    /\ crypto' = [crypto EXCEPT ![c] = Absent]
    /\ challenged' = [challenged EXCEPT ![c] = FALSE]
    /\ verdict' = [verdict EXCEPT ![c] = "none"]
    /\ link' = [link EXCEPT ![c] = None]
    /\ UNCHANGED <<file, made, processVars, port>>

\* MUTANT: the key of the first challenge is kept.
LoadChallengeOnce(c, k) == crypto' = [crypto EXCEPT ![c] = IF @ = Absent THEN k ELSE @]

LoadChallenge(c, k) == crypto' = [crypto EXCEPT ![c] = k]

\* After a refusal the client has hung up, if it was the last that it may have.
Apart(c) == link[c] = None \/ verdict[c] = "wrong"

\* The challenge comes in time; a client of another version hangs up once it has the key.
Hear(c, l) ==
    /\ Apart(c) /\ Serving(l)
    /\ held[l].pub # Empty
    /\ LoadChallenge(c, held[l].pub)
    /\ \E x \in {l, None} :
          /\ link' = [link EXCEPT ![c] = x]
          /\ challenged' = [challenged EXCEPT ![c] = (x = l)]
    /\ verdict' = [verdict EXCEPT ![c] = "none"]
    /\ UNCHANGED <<file, made, processVars, port>>

\* A challenge without a key: encryptStringPublic is called without one.
HearEmpty(c) ==
    /\ Apart(c)
    /\ \E l \in Processes : Serving(l) /\ held[l].pub = Empty
    /\ Quit(c)

\* The challenge comes after two seconds, and is dropped by the next attempt.
HearNothing(c, l) ==
    /\ Apart(c) /\ Serving(l)
    /\ link' = [link EXCEPT ![c] = l]
    /\ challenged' = [challenged EXCEPT ![c] = FALSE]
    /\ verdict' = [verdict EXCEPT ![c] = "none"]
    /\ UNCHANGED <<file, made, processVars, port, crypto>>

\* The right password goes out under whatever key there is; without one the client dies, and
\* a login server that has no private key may die of it.
Attempt(c) ==
    /\ link[c] # None /\ verdict[c] # "right"
    /\ \/ /\ crypto[c] # Absent
          /\ verdict' = [verdict EXCEPT ![c] = IF Opens(link[c], crypto[c]) THEN "right" ELSE "wrong"]
          /\ UNCHANGED <<file, made, processVars, port, link, crypto, challenged>>
       \/ crypto[c] # Absent /\ held[link[c]].prv = Empty /\ End(link[c])
       \/ crypto[c] = Absent /\ Quit(c)

-----------------------------------------------------------------------------
Next ==
    \/ \E p \in Processes :
          \/ Launch(p) \/ Kill(p)
          \/ WriteKeyFile(p, "pub", "openPub", "fillPub", "openPrv")
          \/ WriteKeyFile(p, "prv", "openPrv", "fillPrv", "run")
          \/ LoadPublic(p) \/ LoadPrivate(p)
          \/ \E l \in Processes : Register(p, l)
    \/ \E c \in Clients :
          \/ Attempt(c) \/ Quit(c) \/ HearEmpty(c)
          \/ \E l \in Processes : Hear(c, l) \/ HearNothing(c, l)

Spec == Init /\ [][Next]_vars

-----------------------------------------------------------------------------
(* Properties *)

\* A map server that a login server has accepted holds that server's private key, which is
\* what LoginServerIncomingHandler.cpp relies on when it trusts who asks to register: the
\* public keys agreeing is enough, whoever wrote the files, in which order and with which
\* crashes, unless one of the two has logged a fatal error or the public key was empty.
AcceptedHoldsPrivateKey ==
    \A p \in Processes :
        step[p] = "accepting" /\ link[p] # None =>
            LET l == link[p] IN
            \/ held[p].prv = held[l].prv
            \/ held[l].pub = Empty
            \/ warned[p] \/ warned[l]

\* The right password is refused only where this connection's challenge was not read, so
\* that an older server's key may have been used, or by a login server that has logged a
\* fatal error: keys are never mixed up otherwise, over restarts of server and client.
RefusedForStaleKey ==
    \A c \in Clients :
        verdict[c] = "wrong" => ~challenged[c] \/ warned[link[c]]

=============================================================================
