----------------------------- MODULE MCBrowser -----------------------------
(* A file system for the browser's runs.  The top 1 has two directories, 2 and  *)
(* 3, so that two listings can stream side by side and one below the other; 2   *)
(* has the directory 4, so that one can stream inside another, and both end in a *)
(* file.  The names of 2 and 4 read alike.                                      *)
EXTENDS Browser

MCNode == 1..6
MCNavigable == {1, 2, 3, 4}
MCParent == <<1, 1, 1, 2, 3, 4>>
MCName == << <<"r">>, <<"a", "b">>, <<"b">>, <<"a", "c">>, <<"b", "b">>, <<"a">> >>
MCEntries == << <<2, 3>>, <<4>>, <<5>>, <<6>> >>
=============================================================================
