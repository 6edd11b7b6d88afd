------------------------------ MODULE MCListing ------------------------------
(* A root that holds a directory, a file and a link, and what is in the       *)
(* directory.  The names are those an escape could confuse: "%80" and the     *)
(* byte 0x80, a marker alone, and a marker at the end.                        *)
EXTENDS Listing

MCNode == {"dir", "file", "link", "inner", "last"}
MCParent == [n \in MCNode |-> IF n \in {"inner", "last"} THEN "dir" ELSE "root"]
MCName == [dir |-> <<"%", "8", "0">>, file |-> <<"x80">>, link |-> <<"a", "%">>,
           inner |-> <<"%">>, last |-> <<"a">>]
MCKind == [n \in MCNode |-> CASE n = "dir" -> "Directory"
                              [] n = "link" -> "Symlink"
                              [] OTHER -> "File"]
MCTarget == [n \in MCNode |-> IF n = "link" THEN "dir" ELSE "root"]
MCModified == [dir |-> -5, file |-> -4, link |-> 0, inner |-> 3, last |-> 9]
MCHome == <<"/", "h">>
MCRootAt == <<<<"h">>, <<"r">>>>
MCTyped == {<<"/", "h", "/", ".", "/", "r", "/">>, <<"$", "a">>}
==============================================================================
