------------------------------ MODULE MCPull ------------------------------
(***************************************************************************)
(* A directory with two names, one of which may be a directory with a name *)
(* of its own.  The copy starts with a file in the first directory's       *)
(* place, with the directory (read-only or not) and one file in it, or     *)
(* with an empty directory in it; the longer run takes the two with a file *)
(* in the directory only.                                                  *)
(***************************************************************************)
EXTENDS Pull

d == <<"d">>
x == <<"d", "x">>
y == <<"d", "y">>
z == <<"d", "x", "z">>
MCPaths == {d, x, y, z}

OneFile == [Nowhere EXCEPT ![d] = File(1, "all", 0)]
DirWithFile == [Nowhere EXCEPT ![d] = Dir("all", 0), ![x] = File(1, "all", 0)]
ReadOnlyDir == [DirWithFile EXCEPT ![d].mode = "ro"]
DirInDir == [DirWithFile EXCEPT ![x] = Dir("all", 0)]
MCTrees == {OneFile, DirWithFile, ReadOnlyDir, DirInDir}
MCTwoTrees == {DirWithFile, ReadOnlyDir}
=============================================================================
