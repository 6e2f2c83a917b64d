----------------------------- MODULE ProviderSyncMC -----------------------------
EXTENDS ProviderSync, TLC

CONSTANTS a1, a2, p1, p2, g1, g2, g3

MCOwner  == g1 :> a1 @@ g2 :> a1 @@ g3 :> a2
MCPlayed == g1 :> 1 @@ g2 :> 2 @@ g3 :> 1
MCWanted == p1 :> {g1, g2, g3} @@ p2 :> {g2}

\* The user has linked a1, and imports some of the games.
MCInit == Init /\ conn = a1 /\ policy = p2

MCSpec == MCInit /\ [][Next]_vars /\ Fairness
==============================================================================
