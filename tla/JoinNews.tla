------------------------------ MODULE JoinNews ------------------------------
(***************************************************************************)
(* What the server promises its clients about the news of joining players, *)
(* without its threads, queues and locks: whoever hears of a player is     *)
(* another client, the player has joined by then, and he hears of him only *)
(* once and behind all that he heard of before.  Two things can go wrong,  *)
(* and the server goes down with each: news for a client that has not      *)
(* joined itself (packetHandler.cpp:374), and news that closes a client    *)
(* while the main loop destroys it (Client.cpp:63 and 30).                 *)
(***************************************************************************)
EXTENDS SequencesExt

CONSTANT Client   \* who may join

VARIABLES
  joined,     \* the clients that have joined
  heard,      \* of whom each client hears, in that order
  crashed     \* whether the server has gone down

newsVars == <<joined, heard, crashed>>

NewsInit == joined = {} /\ heard = [c \in Client |-> <<>>] /\ crashed = FALSE

Join(c) ==
  /\ c \notin joined
  /\ joined' = joined \cup {c}
  /\ UNCHANGED <<heard, crashed>>

Hear(d, c) ==
  /\ c \in joined \ ({d} \cup ToSet(heard[d]))
  /\ heard' = [heard EXCEPT ![d] = Append(@, c)]
  /\ UNCHANGED <<joined, crashed>>

\* The news that was about to be sent to one who has not joined is lost.
Crash(d) ==
  /\ heard[d] # <<>>
  /\ heard' = IF d \in joined THEN heard ELSE [heard EXCEPT ![d] = Tail(@)]
  /\ crashed' = TRUE
  /\ UNCHANGED joined

NewsNext == /\ ~crashed
            /\ \E c \in Client : \/ Join(c)
                                 \/ Crash(c)
                                 \/ \E d \in Client : Hear(d, c)

NewsSpec == NewsInit /\ [][NewsNext]_newsVars
=============================================================================
