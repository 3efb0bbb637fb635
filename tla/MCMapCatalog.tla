---------------------------- MODULE MCMapCatalog ----------------------------
(* Small instances of MapCatalog.                                          *)
EXTENDS MapCatalog

TwoPaths == <<"maps/a.tmx", "maps/b.tmx">>

\* A map that both files may be, in three versions, the first of which has two contents;
\* and a file with neither name nor version.
SmallFiles == {[name |-> "Zone", version |-> 1, content |-> "c1"],
               [name |-> "Zone", version |-> 1, content |-> "c2"],
               [name |-> "Zone", version |-> 2, content |-> "c3"],
               [name |-> "Zone", version |-> 3, content |-> "c4"],
               [name |-> NoName, version |-> -1, content |-> "c5"]}

=============================================================================
