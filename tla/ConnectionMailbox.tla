------------------------- MODULE ConnectionMailbox -------------------------
(***************************************************************************)
(* What the connection intake promises, without threads and flags: a       *)
(* mailbox of capacity one from the accept loop to the main loop.  Clients *)
(* are numbered in the order they are accepted; each is offered once,      *)
(* taken over once and in that order, and reaped only after it was taken.  *)
(* ConnectionIntake implements this specification.                         *)
(***************************************************************************)
EXTENDS Naturals, SequencesExt

VARIABLES
  offered,    \* number of clients put into the mailbox so far
  mailbox,    \* the clients waiting to be taken over
  live,       \* the clients the main loop owns, in the order it took them
  reaped      \* the clients it has destroyed

mvars == <<offered, mailbox, live, reaped>>

MInit == /\ offered = 0
         /\ mailbox = <<>>
         /\ live = <<>>
         /\ reaped = {}

Offer == /\ mailbox = <<>>
         /\ offered' = offered + 1
         /\ mailbox' = <<offered + 1>>
         /\ UNCHANGED <<live, reaped>>

Take == /\ mailbox # <<>>
        /\ live' = Append(live, Head(mailbox))
        /\ mailbox' = Tail(mailbox)
        /\ UNCHANGED <<offered, reaped>>

Reap == \E i \in DOMAIN live :
          /\ live' = RemoveAt(live, i)
          /\ reaped' = reaped \cup {live[i]}
          /\ UNCHANGED <<offered, mailbox>>

MNext == Offer \/ Take \/ Reap

MSpec == MInit /\ [][MNext]_mvars
=============================================================================
