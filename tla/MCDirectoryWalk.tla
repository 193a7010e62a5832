-------------------------- MODULE MCDirectoryWalk --------------------------
(* Trees small enough for TLC: a root with a file, a directory, a hidden   *)
(* directory and a link to a directory, each holding a file, and a hidden  *)
(* link that cannot be resolved.  A configuration picks its nodes.         *)
EXTENDS DirectoryWalk

MCParent == [n \in Nodes \ {Root} |->
               CASE n = "dir/file" -> "dir"
                 [] n = ".dir/file" -> ".dir"
                 [] n = "link/file" -> "link"
                 [] OTHER -> Root]

MCKind == [n \in Nodes |->
             CASE n \in {Root, "dir", ".dir"} -> "directory"
               [] n = "link" -> "link"
               [] n = ".loop" -> "loop"
               [] OTHER -> "file"]

MCHiddenNames == Nodes \cap {".dir", ".loop"}

=============================================================================
