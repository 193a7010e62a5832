-------------------------- MODULE MCCrawlSession ---------------------------
(* A tree small enough for TLC: a root with a directory that holds a file, *)
(* and a hidden link that cannot be resolved.                              *)
EXTENDS CrawlSession

MCParent == [n \in Paths \ {TreeRoot} |->
               IF n = "dir/file" THEN "dir" ELSE TreeRoot]

MCKind == [n \in Paths |->
             CASE n \in {TreeRoot, "dir"} -> "directory"
               [] n = ".loop" -> "loop"
               [] OTHER -> "file"]

MCHiddenNames == Paths \cap {".loop"}

=============================================================================
