-------------------------- MODULE MCCatalogPages ---------------------------
(* A directory "/w" that holds "_" and "a", which is now a file and now a  *)
(* directory; crawled as "/", "/w", "/w/" and "/w/.".                      *)
EXTENDS CatalogPages, TLC

MCModes == <<>> :> {"S_IFDIR"} @@ <<"w">> :> {"S_IFDIR"}
           @@ <<"w", "a">> :> {"S_IFREG", "S_IFDIR"}
           @@ <<"w", "_">> :> {"S_IFREG"}

MCRoots == {<<>>, <<"w">>, <<"w", "">>, <<"w", ".">>}

MCOrder == <<"%", ".", "/", "A", "_", "a", "w">>

MCLower == [c \in ToSet(MCOrder) |-> IF c = "A" THEN "a" ELSE c]

MCPageSizes == {-1, 0, 2}

MCPhrases == {<<>>, <<"A">>, <<"_">>, <<"/", "%">>, <<"a", "/">>}

=============================================================================
