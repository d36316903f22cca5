--------------------------- MODULE MCRebuildRoot ---------------------------
(* Instance of RebuildRoot for TLC: two directories with others in them.   *)
EXTENDS RebuildRoot

Tree == [p \in Paths |->
           CASE p \in {"/a/b", "/a/c"} -> {p, "/a", "/"}
             [] p = "/d/e" -> {p, "/d", "/"}
             [] OTHER -> {p, "/"}]
=============================================================================
