---------------------------- MODULE MCKeyFiles ----------------------------
(***************************************************************************)
(* A small instance of KeyFiles: the command lines of a login server, of   *)
(* one that makes new keys and of a map server, and what each may get      *)
(* wrong.                                                                  *)
(***************************************************************************)
EXTENDS KeyFiles, TLC

CONSTANTS p1, p2, p3, k1, k2, k3, c1

LoginServer ==
    [parses |-> TRUE, shows |-> FALSE, login |-> TRUE, world |-> FALSE, regenerate |-> FALSE,
     ports |-> TRUE, password |-> TRUE, maps |-> TRUE, master |-> FALSE]
Regenerating == [LoginServer EXCEPT !.login = FALSE, !.regenerate = TRUE]
WorldServer == [LoginServer EXCEPT !.login = FALSE, !.world = TRUE, !.master = TRUE]

CommandsTyped ==
    {LoginServer, Regenerating, WorldServer,
     [WorldServer EXCEPT !.regenerate = TRUE],
     [WorldServer EXCEPT !.login = TRUE, !.regenerate = TRUE],
     [WorldServer EXCEPT !.master = FALSE],
     [Regenerating EXCEPT !.parses = FALSE],
     [Regenerating EXCEPT !.maps = FALSE]}

Interchangeable == Permutations(Processes) \cup Permutations(Keys)

=============================================================================
