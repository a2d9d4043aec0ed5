---------------------------- MODULE MCRustServer ----------------------------
(* The values of RustServer's constants for its run.                       *)
EXTENDS RustServer, TLC

CONSTANTS a, b, p1, p2

\* A source with readings, one with speakers, and one with either reading.
MCValues ==
    [reading : 0 .. 2, source : {1}, speaker : {0}]
    \cup [reading : {0}, source : {2}, speaker : 1 .. 2]
    \cup [reading : 1 .. 2, source : {3}, speaker : {0}]

\* Lists that are absent, reversed, with duplicates, or with unknown names.
MCRequests ==
    [reading : {None, 1}, sources : {None}, users : {None, <<2, 1, 2>>}]
    \cup [reading : {2}, sources : {<<2, 4, 1, 2>>, <<3, 2>>}, users : {None, <<3, 2>>}]

\* Two databases, the bundles of both and one whose table is not in order.
MCTables == {(1 :> 2 @@ 2 :> 1), (1 :> 1 @@ 3 :> 1)}
MCBundles == [count : {2}, table : {<<1, 2>>, <<1>>, <<2, 1>>}]
=============================================================================
