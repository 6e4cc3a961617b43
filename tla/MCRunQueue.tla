----------------------------- MODULE MCRunQueue -----------------------------
EXTENDS RunQueue, TLC

\* Goroutines are interchangeable: the queues never compare two ids.
GidSymmetry == Permutations(Gids)
=============================================================================
