----------------------------- MODULE KeyProofs -----------------------------
(***************************************************************************)
(* Keys are not mixed up, for any processes, clients and keys.  The        *)
(* invariant says of every process what its place in the start tells of    *)
(* the keys that it holds, and of every connection that its server runs,   *)
(* and holds what was compared or loaded when the connection was made.     *)
(***************************************************************************)
EXTENDS KeyFiles, TLAPS

Peer == Processes \cup Clients

KeyTypes ==
    /\ file \in [pub : Texts, prv : Texts]
    /\ role \in [Processes -> {"login", "map"}]
    /\ step \in [Processes -> Steps]
    /\ held \in [Processes -> [pub : Texts, prv : Texts]]
    /\ warned \in [Processes -> BOOLEAN]
    /\ link \in [Peer -> Processes \cup {None}]
    /\ crypto \in [Clients -> Keys \cup {Absent}]
    /\ challenged \in [Clients -> BOOLEAN]
    /\ verdict \in [Clients -> {"none", "right", "wrong"}]

\* Who runs without a warning has a pair.
PairHeld(p) ==
    /\ step[p] \in {"openPub", "fillPub", "openPrv", "fillPrv"} =>
           held[p].prv \in Keys /\ held[p].pub = held[p].prv
    /\ step[p] \in {"run", "accepting"} /\ ~warned[p] => Valid(held[p].pub, held[p].prv)

\* Connections lead to login servers that run.
Leads(x) == link[x] # None => step[link[x]] = "run" /\ role[link[x]] = "login"

PublicAgreed(p) ==
    /\ step[p] = "accepting" => role[p] = "map"
    /\ step[p] = "accepting" /\ link[p] # None => held[p].pub = held[link[p]].pub

ClientInformed(c) ==
    /\ link[c] # None /\ challenged[c] => crypto[c] = held[link[c]].pub
    /\ verdict[c] = "wrong" => link[c] # None /\ crypto[c] \in Keys /\ ~Opens(link[c], crypto[c])

KeyInv ==
    /\ KeyTypes
    /\ \A p \in Processes : PairHeld(p)
    /\ \A x \in Peer : Leads(x)
    /\ \A p \in Processes : PublicAgreed(p)
    /\ \A c \in Clients : ClientInformed(c)

-----------------------------------------------------------------------------
\* The initial states.
LEMMA KeyInit == Init => KeyInv
<1> USE KeyFilesAssumption
<1> SUFFICES ASSUME Init PROVE KeyInv
  OBVIOUS
<1>1. KeyTypes
  BY DEF Init, KeyTypes, NoKeys, Texts, Steps, Peer
<1>2. \A p \in Processes : PairHeld(p) /\ PublicAgreed(p)
  BY DEF Init, PairHeld, PublicAgreed
<1>3. \A x \in Peer : Leads(x)
  BY DEF Init, Leads, Peer
<1>4. \A c \in Clients : ClientInformed(c)
  BY DEF Init, ClientInformed
<1> QED
  BY <1>1, <1>2, <1>3, <1>4 DEF KeyInv

\* Whoever ends takes its connections along.
LEMMA EndKeeps ==
    ASSUME KeyInv, NEW q \in Processes, End(q)
    PROVE  KeyInv'
<1> USE KeyFilesAssumption
<1>1. KeyTypes'
  <2>1. held' \in [Processes -> [pub : Texts, prv : Texts]]
    BY DEF KeyInv, KeyTypes, End, NoKeys, Texts
  <2>2. link' \in [Peer -> Processes \cup {None}] /\ verdict' \in [Clients -> {"none", "right", "wrong"}]
    BY DEF KeyInv, KeyTypes, End, Peer
  <2> QED
    BY <2>1, <2>2 DEF KeyInv, KeyTypes, End, Step, Steps
<1>2. \A p \in Processes : p # q => step'[p] = step[p] /\ held'[p] = held[p] /\ warned'[p] = warned[p]
  BY DEF KeyInv, KeyTypes, End, Step
<1>3. step'[q] = "off"
  BY DEF KeyInv, KeyTypes, End, Step
<1>4. \A p \in Processes : PairHeld(p)'
  BY <1>2, <1>3 DEF KeyInv, PairHeld
<1>5. \A x \in Peer : link'[x] # None => link'[x] = link[x] /\ link[x] # q /\ x # q
  BY DEF End, Peer
<1>6. \A x \in Peer : link[x] \in Processes \cup {None}
  BY DEF KeyInv, KeyTypes
<1>7. role' = role /\ crypto' = crypto /\ challenged' = challenged
  BY DEF End
<1>8. \A x \in Peer : Leads(x)'
  BY <1>2, <1>5, <1>6, <1>7 DEF KeyInv, Leads
<1>9. \A p \in Processes : PublicAgreed(p)'
  <2> TAKE p \in Processes
  <2>1. step'[p] = "accepting" => step[p] = "accepting"
    BY <1>2, <1>3
  <2>2. p \in Peer
    BY DEF Peer
  <2> QED
    BY <1>2, <1>5, <1>6, <1>7, <2>1, <2>2 DEF KeyInv, PublicAgreed
<1>10. \A c \in Clients : ClientInformed(c)'
  <2> TAKE c \in Clients
  <2>1. c \in Peer /\ c # q
    BY DEF Peer
  <2>2. link'[c] # None /\ challenged'[c] => crypto'[c] = held'[link'[c]].pub
    BY <1>2, <1>5, <1>6, <1>7, <2>1 DEF KeyInv, ClientInformed
  <2>3. ASSUME verdict'[c] = "wrong"
        PROVE  link'[c] = link[c] /\ link[c] # q /\ verdict[c] = "wrong"
    BY <2>1, <2>3 DEF End, Peer
  <2>4. (verdict[c] = "wrong" => link[c] # None /\ crypto[c] \in Keys /\ ~Opens(link[c], crypto[c]))'
    BY <1>2, <1>6, <1>7, <2>1, <2>3 DEF KeyInv, ClientInformed, Opens
  <2> QED
    BY <2>2, <2>4 DEF ClientInformed
<1> QED
  BY <1>1, <1>4, <1>8, <1>9, <1>10 DEF KeyInv

\* A process that does not run yet may change its step, its keys and its role as it likes, as
\* long as what it holds fits the step: nobody is connected to it.
LEMMA StartKeeps ==
    ASSUME KeyInv, NEW q \in Processes,
           step[q] \notin {"run", "accepting"}, step'[q] # "accepting",
           KeyTypes', PairHeld(q)',
           \A p \in Processes \ {q} :
               step'[p] = step[p] /\ held'[p] = held[p] /\ warned'[p] = warned[p] /\ role'[p] = role[p],
           link' = link, crypto' = crypto, challenged' = challenged, verdict' = verdict
    PROVE  KeyInv'
<1> USE KeyFilesAssumption
<1>1. \A x \in Peer : link[x] # q /\ link[x] \in Processes \cup {None}
  BY DEF KeyInv, KeyTypes, Leads
<1>2. \A p \in Processes : PairHeld(p)'
  BY DEF KeyInv, PairHeld
<1>3. \A x \in Peer : Leads(x)'
  BY <1>1 DEF KeyInv, Leads
<1>4. \A p \in Processes : PublicAgreed(p)'
  <2> TAKE p \in Processes
  <2>1. p \in Peer
    BY DEF Peer
  <2>2. CASE p = q
    BY <2>2 DEF PublicAgreed
  <2>3. CASE p # q
    BY <1>1, <2>1, <2>3 DEF KeyInv, PublicAgreed
  <2> QED
    BY <2>2, <2>3
<1>5. \A c \in Clients : ClientInformed(c)'
  <2> TAKE c \in Clients
  <2>1. c \in Peer
    BY DEF Peer
  <2> QED
    BY <1>1, <2>1 DEF KeyInv, ClientInformed, Opens
<1> QED
  BY <1>2, <1>3, <1>4, <1>5 DEF KeyInv

-----------------------------------------------------------------------------
\* The steps of a start.
LEMMA LaunchKeeps ==
    ASSUME KeyInv, NEW p \in Processes, Launch(p)
    PROVE  KeyInv'
<1> USE KeyFilesAssumption
<1>1. PICK o \in Commands : startLoginServer(p, o) \/ startWorldServer(p, o)
  BY DEF Launch
<1>2. UNCHANGED <<file, warned, link, crypto, challenged, verdict>> /\ step[p] = "off"
  BY DEF Launch, clientVars
<1>3. CASE startLoginServer(p, o) /\ o.regenerate
  <2>1. PICK k \in Keys : held' = [held EXCEPT ![p] = [pub |-> k, prv |-> k]] /\ Step(p, "openPub")
    BY <1>3 DEF startLoginServer
  <2>2. KeyTypes'
    <3>1. held' \in [Processes -> [pub : Texts, prv : Texts]]
      BY <2>1 DEF KeyInv, KeyTypes, Texts
    <3> QED
      BY <1>2, <1>3, <2>1, <3>1 DEF KeyInv, KeyTypes, startLoginServer, Step, Steps
  <2>3. PairHeld(p)'
    BY <2>1 DEF KeyInv, KeyTypes, PairHeld, Step
  <2>4. step'[p] = "openPub"
    BY <2>1 DEF KeyInv, KeyTypes, Step
  <2>5. \A q \in Processes \ {p} :
            step'[q] = step[q] /\ held'[q] = held[q] /\ warned'[q] = warned[q] /\ role'[q] = role[q]
    BY <1>2, <1>3, <2>1 DEF KeyInv, KeyTypes, startLoginServer, Step
  <2> QED
    BY <1>2, <2>2, <2>3, <2>4, <2>5, StartKeeps
<1>4. CASE Step(p, "readPub") /\ held' = held /\ (\E r \in {"login", "map"} : role' = [role EXCEPT ![p] = r])
  <2>1. KeyTypes'
    BY <1>2, <1>4 DEF KeyInv, KeyTypes, Step, Steps
  <2>2. PairHeld(p)' /\ step'[p] = "readPub"
    BY <1>4 DEF KeyInv, KeyTypes, PairHeld, Step
  <2>3. \A q \in Processes \ {p} :
            step'[q] = step[q] /\ held'[q] = held[q] /\ warned'[q] = warned[q] /\ role'[q] = role[q]
    BY <1>2, <1>4 DEF KeyInv, KeyTypes, Step
  <2> QED
    BY <1>2, <2>1, <2>2, <2>3, StartKeeps
<1> QED
  BY <1>1, <1>3, <1>4 DEF startLoginServer, startWorldServer

LEMMA WriteKeeps ==
    ASSUME KeyInv, NEW p \in Processes,
           \/ WriteKeyFile(p, "pub", "openPub", "fillPub", "openPrv")
           \/ WriteKeyFile(p, "prv", "openPrv", "fillPrv", "run")
    PROVE  KeyInv'
<1> USE KeyFilesAssumption
<1>1. CASE End(p)
  BY <1>1, EndKeeps
<1>2. CASE ~End(p)
  <2>1. /\ step[p] \in {"openPub", "fillPub", "openPrv", "fillPrv"}
        /\ UNCHANGED <<role, held, link, crypto, challenged, verdict>>
        /\ \E s \in {"fillPub", "openPrv", "fillPrv", "run"} : Step(p, s)
    BY <1>2 DEF WriteKeyFile, Fatal, clientVars
  <2>2. warned' = warned \/ warned' = [warned EXCEPT ![p] = TRUE]
    BY <1>2 DEF WriteKeyFile, Fatal
  <2>3. file' \in [pub : Texts, prv : Texts]
    <3>1. file' \in {file, [file EXCEPT !["pub"] = Empty], [file EXCEPT !["pub"] = held[p]["pub"]],
                     [file EXCEPT !["prv"] = Empty], [file EXCEPT !["prv"] = held[p]["prv"]]}
      BY <1>2 DEF WriteKeyFile, Fatal
    <3>2. held[p] \in [pub : Texts, prv : Texts] /\ file \in [pub : Texts, prv : Texts] /\ Empty \in Texts
      BY DEF KeyInv, KeyTypes, Texts
    <3> QED
      BY <3>1, <3>2
  <2>4. KeyTypes'
    <3>1. warned' \in [Processes -> BOOLEAN]
      BY <2>2 DEF KeyInv, KeyTypes
    <3>2. step' \in [Processes -> Steps]
      BY <2>1 DEF KeyInv, KeyTypes, Step, Steps
    <3> QED
      BY <2>1, <2>3, <3>1, <3>2 DEF KeyInv, KeyTypes
  <2>5. PairHeld(p)'
    BY <2>1 DEF KeyInv, KeyTypes, PairHeld, Valid, Step
  <2>6. step'[p] # "accepting"
    BY <2>1 DEF KeyInv, KeyTypes, Step
  <2>7. \A q \in Processes \ {p} :
            step'[q] = step[q] /\ held'[q] = held[q] /\ warned'[q] = warned[q] /\ role'[q] = role[q]
    BY <2>1, <2>2 DEF KeyInv, KeyTypes, Step
  <2> QED
    BY <2>1, <2>4, <2>5, <2>6, <2>7, StartKeeps
<1> QED
  BY <1>1, <1>2

LEMMA LoadKeeps ==
    ASSUME KeyInv, NEW p \in Processes, LoadPublic(p) \/ LoadPrivate(p)
    PROVE  KeyInv'
<1> USE KeyFilesAssumption
<1>1. CASE End(p)
  BY <1>1, EndKeeps
<1>2. CASE ~End(p) /\ LoadPublic(p)
  <2>1. /\ step[p] = "readPub" /\ Step(p, "readPrv")
        /\ held' = [held EXCEPT ![p].pub = file.pub]
        /\ UNCHANGED <<file, role, warned, link, crypto, challenged, verdict>>
    BY <1>2 DEF LoadPublic, clientVars
  <2>2. held' \in [Processes -> [pub : Texts, prv : Texts]]
    BY <2>1 DEF KeyInv, KeyTypes
  <2>3. KeyTypes'
    BY <2>1, <2>2 DEF KeyInv, KeyTypes, Step, Steps
  <2>4. PairHeld(p)' /\ step'[p] = "readPrv"
    BY <2>1 DEF KeyInv, KeyTypes, PairHeld, Step
  <2>5. \A q \in Processes \ {p} :
            step'[q] = step[q] /\ held'[q] = held[q] /\ warned'[q] = warned[q] /\ role'[q] = role[q]
    BY <2>1 DEF KeyInv, KeyTypes, Step
  <2> QED
    BY <2>1, <2>3, <2>4, <2>5, StartKeeps
<1>3. CASE ~End(p) /\ LoadPrivate(p)
  <2>1. /\ step[p] = "readPrv" /\ Step(p, "run")
        /\ held' = [held EXCEPT ![p].prv = file.prv]
        /\ warned' = [warned EXCEPT ![p] = @ \/ ~Valid(held[p].pub, file.prv)]
        /\ UNCHANGED <<file, role, link, crypto, challenged, verdict>>
    BY <1>3 DEF LoadPrivate, clientVars
  <2>2. held' \in [Processes -> [pub : Texts, prv : Texts]]
    BY <2>1 DEF KeyInv, KeyTypes
  <2>3. warned' \in [Processes -> BOOLEAN]
    BY <2>1 DEF KeyInv, KeyTypes, Valid
  <2>4. KeyTypes'
    BY <2>1, <2>2, <2>3 DEF KeyInv, KeyTypes, Step, Steps
  <2>5. held'[p].pub = held[p].pub /\ held'[p].prv = file.prv
    BY <2>1 DEF KeyInv, KeyTypes
  <2>6. step'[p] = "run"
    BY <2>1 DEF KeyInv, KeyTypes, Step
  <2>7. ~warned'[p] => Valid(held[p].pub, file.prv)
    BY <2>1 DEF KeyInv, KeyTypes
  <2>8. PairHeld(p)'
    BY <2>5, <2>6, <2>7 DEF PairHeld, Valid
  <2>9. \A q \in Processes \ {p} :
            step'[q] = step[q] /\ held'[q] = held[q] /\ warned'[q] = warned[q] /\ role'[q] = role[q]
    BY <2>1 DEF KeyInv, KeyTypes, Step
  <2> QED
    BY <2>1, <2>4, <2>6, <2>8, <2>9, StartKeeps
<1> QED
  BY <1>1, <1>2, <1>3

-----------------------------------------------------------------------------
\* The steps of those who connect.
LEMMA RegisterKeeps ==
    ASSUME KeyInv, NEW p \in Processes, NEW l \in Processes, Register(p, l)
    PROVE  KeyInv'
<1> USE KeyFilesAssumption
<1>1. CASE End(p)
  BY <1>1, EndKeeps
<1>2. CASE ~End(p)
  <2>1. /\ role[p] = "map" /\ step[p] = "run" /\ Serving(l) /\ held[l].pub = held[p].pub
        /\ Step(p, "accepting")
        /\ link' = [link EXCEPT ![p] = l]
        /\ UNCHANGED <<file, role, held, warned, crypto, challenged, verdict>>
    BY <1>2 DEF Register, clientVars
  <2>2. step' = [step EXCEPT ![p] = "accepting"] /\ p # l /\ step[l] = "run" /\ role[l] = "login"
    BY <2>1 DEF Step, Serving
  <2>3. KeyTypes'
    BY <2>1, <2>2 DEF KeyInv, KeyTypes, Steps, Peer
  <2>4. \A q \in Processes : PairHeld(q)'
    BY <2>1, <2>2 DEF KeyInv, KeyTypes, PairHeld
  <2>5. \A x \in Peer : link[x] # p /\ link[x] \in Processes \cup {None}
    BY <2>1 DEF KeyInv, KeyTypes, Leads
  <2>6. \A x \in Peer : Leads(x)'
    BY <2>1, <2>2, <2>5 DEF KeyInv, KeyTypes, Leads
  <2>7. \A q \in Processes : PublicAgreed(q)'
    BY <2>1, <2>2 DEF KeyInv, KeyTypes, PublicAgreed, Peer
  <2>8. \A c \in Clients : link'[c] = link[c]
    BY <2>1 DEF KeyInv, KeyTypes, Peer
  <2>9. \A c \in Clients : ClientInformed(c)'
    BY <2>1, <2>8 DEF KeyInv, ClientInformed, Opens
  <2> QED
    BY <2>3, <2>4, <2>6, <2>7, <2>9 DEF KeyInv
<1> QED
  BY <1>1, <1>2

\* A client that changes what it knows and whom it talks to disturbs nobody.
LEMMA ClientKeeps ==
    ASSUME KeyInv, NEW c \in Clients,
           UNCHANGED <<file, role, step, held, warned>>,
           KeyTypes', Leads(c)', ClientInformed(c)',
           \A x \in Peer \ {c} : link'[x] = link[x],
           \A d \in Clients \ {c} :
               crypto'[d] = crypto[d] /\ challenged'[d] = challenged[d] /\ verdict'[d] = verdict[d]
    PROVE  KeyInv'
<1> USE KeyFilesAssumption
<1>1. \A p \in Processes : PairHeld(p)'
  BY DEF KeyInv, PairHeld
<1>2. \A x \in Peer : Leads(x)'
  BY DEF KeyInv, Leads
<1>3. \A p \in Processes : PublicAgreed(p)'
  BY DEF KeyInv, PublicAgreed, Peer
<1>4. \A d \in Clients : ClientInformed(d)'
  BY DEF KeyInv, ClientInformed, Opens, Peer
<1> QED
  BY <1>1, <1>2, <1>3, <1>4 DEF KeyInv

LEMMA QuitKeeps ==
    ASSUME KeyInv, NEW c \in Clients, Quit(c)
    PROVE  KeyInv'
<1> USE KeyFilesAssumption
<1>1. KeyTypes'
  BY DEF KeyInv, KeyTypes, Quit, processVars, Peer
<1>2. Leads(c)' /\ ClientInformed(c)'
  BY DEF KeyInv, KeyTypes, Quit, Leads, ClientInformed, Peer
<1>3. /\ UNCHANGED <<file, role, step, held, warned>>
      /\ \A x \in Peer \ {c} : link'[x] = link[x]
      /\ \A d \in Clients \ {c} :
             crypto'[d] = crypto[d] /\ challenged'[d] = challenged[d] /\ verdict'[d] = verdict[d]
  BY DEF KeyInv, KeyTypes, Quit, processVars
<1> QED
  BY <1>1, <1>2, <1>3, ClientKeeps

LEMMA HearKeeps ==
    ASSUME KeyInv, NEW c \in Clients, NEW l \in Processes, Hear(c, l) \/ HearNothing(c, l)
    PROVE  KeyInv'
<1> USE KeyFilesAssumption
<1>1. /\ UNCHANGED <<file, role, step, held, warned>>
      /\ step[l] = "run" /\ role[l] = "login"
      /\ verdict' = [verdict EXCEPT ![c] = "none"]
  BY DEF Hear, HearNothing, processVars, Serving
<1>2. PICK x \in {l, None} :
          /\ link' = [link EXCEPT ![c] = x]
          /\ \/ /\ held[l].pub # Empty
                /\ crypto' = [crypto EXCEPT ![c] = held[l].pub]
                /\ challenged' = [challenged EXCEPT ![c] = (x = l)]
             \/ crypto' = crypto /\ challenged' = [challenged EXCEPT ![c] = FALSE]
  BY DEF Hear, HearNothing, LoadChallenge
<1>3. held[l].pub # Empty => held[l].pub \in Keys \cup {Absent}
  BY DEF KeyInv, KeyTypes, Texts
<1>4. KeyTypes'
  BY <1>1, <1>2, <1>3 DEF KeyInv, KeyTypes, Peer
<1>5. link'[c] = x /\ verdict'[c] = "none"
  BY <1>1, <1>2 DEF KeyInv, KeyTypes, Peer
<1>6. Leads(c)'
  BY <1>1, <1>5 DEF Leads
<1>7. ClientInformed(c)'
  BY <1>1, <1>2, <1>5 DEF KeyInv, KeyTypes, ClientInformed
<1>8. /\ \A y \in Peer \ {c} : link'[y] = link[y]
      /\ \A d \in Clients \ {c} :
             crypto'[d] = crypto[d] /\ challenged'[d] = challenged[d] /\ verdict'[d] = verdict[d]
  BY <1>1, <1>2 DEF KeyInv, KeyTypes
<1> QED
  BY <1>1, <1>4, <1>6, <1>7, <1>8, ClientKeeps

LEMMA AttemptKeeps ==
    ASSUME KeyInv, NEW c \in Clients, Attempt(c)
    PROVE  KeyInv'
<1> USE KeyFilesAssumption
<1>1. c \in Peer /\ link[c] \in Processes
  BY DEF Attempt, KeyInv, KeyTypes, Peer
<1>2. CASE Quit(c)
  BY <1>2, QuitKeeps
<1>3. CASE End(link[c])
  BY <1>1, <1>3, EndKeeps
<1>4. CASE ~Quit(c) /\ ~End(link[c])
  <2>1. /\ link[c] # None /\ crypto[c] # Absent
        /\ verdict' = [verdict EXCEPT ![c] = IF Opens(link[c], crypto[c]) THEN "right" ELSE "wrong"]
        /\ UNCHANGED <<file, role, step, held, warned, link, crypto, challenged>>
    BY <1>4 DEF Attempt, processVars
  <2>2. KeyTypes'
    BY <2>1 DEF KeyInv, KeyTypes
  <2>3. verdict'[c] = "wrong" => ~Opens(link[c], crypto[c])
    BY <2>1 DEF KeyInv, KeyTypes
  <2>4. crypto[c] \in Keys
    BY <2>1 DEF KeyInv, KeyTypes
  <2>5. ClientInformed(c)'
    BY <2>1, <2>3, <2>4 DEF KeyInv, ClientInformed, Opens
  <2>6. Leads(c)'
    BY <1>1, <2>1 DEF KeyInv, Leads
  <2>7. \A d \in Clients \ {c} : verdict'[d] = verdict[d]
    BY <2>1 DEF KeyInv, KeyTypes
  <2> QED
    BY <2>1, <2>2, <2>5, <2>6, <2>7, ClientKeeps
<1> QED
  BY <1>2, <1>3, <1>4

-----------------------------------------------------------------------------
\* Every step keeps the invariant.
LEMMA KeyStep == KeyInv /\ [Next]_vars => KeyInv'
<1> SUFFICES ASSUME KeyInv, [Next]_vars PROVE KeyInv'
  OBVIOUS
<1>1. CASE UNCHANGED vars
  BY <1>1 DEF vars, processVars, clientVars, KeyInv, KeyTypes, PairHeld, Leads, PublicAgreed,
              ClientInformed, Opens
<1>2. ASSUME NEW p \in Processes, Launch(p) PROVE KeyInv'
  BY <1>2, LaunchKeeps
<1>3. ASSUME NEW p \in Processes, Kill(p) PROVE KeyInv'
  BY <1>3, EndKeeps DEF Kill
<1>4. ASSUME NEW p \in Processes,
             \/ WriteKeyFile(p, "pub", "openPub", "fillPub", "openPrv")
             \/ WriteKeyFile(p, "prv", "openPrv", "fillPrv", "run")
      PROVE  KeyInv'
  BY <1>4, WriteKeeps
<1>5. ASSUME NEW p \in Processes, LoadPublic(p) \/ LoadPrivate(p) PROVE KeyInv'
  BY <1>5, LoadKeeps
<1>6. ASSUME NEW p \in Processes, NEW l \in Processes, Register(p, l) PROVE KeyInv'
  BY <1>6, RegisterKeeps
<1>7. ASSUME NEW c \in Clients, Attempt(c) PROVE KeyInv'
  BY <1>7, AttemptKeeps
<1>8. ASSUME NEW c \in Clients, Quit(c) \/ HearEmpty(c) PROVE KeyInv'
  BY <1>8, QuitKeeps DEF HearEmpty
<1>9. ASSUME NEW c \in Clients, NEW l \in Processes, Hear(c, l) \/ HearNothing(c, l) PROVE KeyInv'
  BY <1>9, HearKeeps
<1> QED
  BY <1>1, <1>2, <1>3, <1>4, <1>5, <1>6, <1>7, <1>8, <1>9 DEF Next

LEMMA KeyInvariant == Spec => []KeyInv
<1> QED
  BY KeyInit, KeyStep, PTL DEF Spec

\* Whatever becomes of the files, a map server that was accepted by a login server holds its
\* private key, unless one of them has logged a fatal error or the public key is empty:
\* comparing public keys in MapServer.cpp and checking pairs in RSACrypto.cpp is enough.
THEOREM AcceptedHoldsPrivateKeyCorrect == Spec => []AcceptedHoldsPrivateKey
<1> USE KeyFilesAssumption
<1>1. KeyInv => AcceptedHoldsPrivateKey
  <2> SUFFICES ASSUME KeyInv, NEW p \in Processes, step[p] = "accepting", link[p] # None,
                      held[link[p]].pub # Empty, ~warned[p], ~warned[link[p]]
               PROVE  held[p].prv = held[link[p]].prv
    BY DEF AcceptedHoldsPrivateKey
  <2>1. p \in Peer /\ link[p] \in Processes
    BY DEF KeyInv, KeyTypes, Peer
  <2>2. held[p].pub = held[link[p]].pub /\ step[link[p]] = "run"
    BY <2>1 DEF KeyInv, PublicAgreed, Leads
  <2>3. Valid(held[p].pub, held[p].prv) /\ Valid(held[link[p]].pub, held[link[p]].prv)
    BY <2>1, <2>2 DEF KeyInv, PairHeld
  <2> QED
    BY <2>2, <2>3 DEF Valid
<1> QED
  BY <1>1, KeyInvariant, PTL

\* The right password is refused only for a key of an older challenge, or by a login server
\* that has logged a fatal error: doLogin in PlayPG.cpp loads the key of every challenge it
\* reads, and a login server decrypts what is encrypted with the key that it offers.
THEOREM RefusedForStaleKeyCorrect == Spec => []RefusedForStaleKey
<1> USE KeyFilesAssumption
<1>1. KeyInv => RefusedForStaleKey
  <2> SUFFICES ASSUME KeyInv, NEW c \in Clients, verdict[c] = "wrong", challenged[c], ~warned[link[c]]
               PROVE  FALSE
    BY DEF RefusedForStaleKey
  <2>1. link[c] # None /\ crypto[c] \in Keys /\ ~Opens(link[c], crypto[c]) /\ crypto[c] = held[link[c]].pub
    BY DEF KeyInv, ClientInformed
  <2>2. c \in Peer /\ link[c] \in Processes
    BY <2>1 DEF KeyInv, KeyTypes, Peer
  <2>3. step[link[c]] = "run"
    BY <2>1, <2>2 DEF KeyInv, Leads
  <2>4. Valid(held[link[c]].pub, held[link[c]].prv)
    BY <2>2, <2>3 DEF KeyInv, PairHeld
  <2> QED
    BY <2>1, <2>4 DEF Valid, Opens
<1> QED
  BY <1>1, KeyInvariant, PTL

=============================================================================
