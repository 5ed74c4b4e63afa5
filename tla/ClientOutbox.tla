--------------------------- MODULE ClientOutbox ---------------------------
(***************************************************************************)
(* What a Client promises the main loop about the updates queued for it    *)
(* (Network/Client.h: clientUpdates), without its threads and locks: an    *)
(* update is delivered at most once and behind all that were queued before *)
(* it; a closed client takes and delivers updates for a while, is freed    *)
(* only after it closed, and delivers nothing from then on.                *)
(***************************************************************************)
EXTENDS Sequences

CONSTANT Updates   \* what may be queued

VARIABLES
  state,      \* "open", "closed", "freed", or "crashed": the process is gone
  waiting,    \* updates queued and not delivered
  delivered   \* updates delivered, in that order

outboxVars == <<state, waiting, delivered>>

Running == state \in {"open", "closed"}

OutboxInit == state = "open" /\ waiting = <<>> /\ delivered = <<>>

Queue ==
  /\ Running
  /\ \E u \in Updates : waiting' = Append(waiting, u)
  /\ UNCHANGED <<state, delivered>>

Deliver ==
  /\ Running
  /\ waiting # <<>>
  /\ delivered' = Append(delivered, Head(waiting))
  /\ waiting' = Tail(waiting)
  /\ UNCHANGED state

Move(from, to) == /\ state = from
                  /\ state' = to
                  /\ UNCHANGED <<waiting, delivered>>

Close == Move("open", "closed")

Free == Move("closed", "freed")

\* What had not been delivered is lost with the process.
Crash ==
  /\ Running
  /\ state' = "crashed"
  /\ waiting' = <<>>
  /\ UNCHANGED delivered

OutboxNext == Queue \/ Deliver \/ Close \/ Free \/ Crash

OutboxSpec == OutboxInit /\ [][OutboxNext]_outboxVars
=============================================================================
