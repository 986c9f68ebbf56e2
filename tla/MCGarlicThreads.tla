-------------------------- MODULE MCGarlicThreads --------------------------
(* Two application threads sending to one destination.                    *)
EXTENDS GarlicThreads

CONSTANTS d1, t1, t2

MC_Dests == {d1}
MC_Threads == {t1, t2}

=============================================================================
