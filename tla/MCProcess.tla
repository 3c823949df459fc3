----------------------------- MODULE MCProcess -----------------------------
(***************************************************************************)
(* What the threads of a process share without a lock, for TLC: the        *)
(* limiter's hits, and each app's configuration and client.  The two have  *)
(* nothing to do with one another, so a behaviour takes up one of them.    *)
(***************************************************************************)
EXTENDS MCRateLimiter, CoreConfiguration

OneKeyOnly == \A c \in Checks : key[c] = k1
OneAppOnly == \A t, u \in Requests : app[t] = app[u]

ProcessInit == Init /\ CoreInit

ProcessNext ==
    \/ CoreInit /\ OneAppOnly /\ Next /\ UNCHANGED coreVars
    \/ Init /\ OneKeyOnly /\ CoreNext /\ UNCHANGED vars

ProcessSpec == ProcessInit /\ [][ProcessNext]_<<vars, coreVars>>

SomeAlike ==
    Permutations({c1, c2, c3}) \cup Permutations(Apps) \cup Permutations(Requests)
=============================================================================
