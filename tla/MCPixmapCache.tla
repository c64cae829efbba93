--------------------------- MODULE MCPixmapCache ----------------------------
(* Small instances of PixmapCache for TLC.                                  *)
EXTENDS PixmapCache, TLC

CONSTANTS x1, x2, x3, x4

\* x3 takes the room of two others; x4 is larger than the cache, so that adding it
\* evicts all that may go and then gives up.
MCSizeOf == [x \in Images |-> CASE x = x4 -> 3 [] x = x3 -> 2 [] OTHER -> 1]
MCSerials == <<3, 2>>
MCSymmetry == Permutations({x1, x2})
=============================================================================
