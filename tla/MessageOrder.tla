----------------------------- MODULE MessageOrder -----------------------------
(***************************************************************************)
(* What a sender on a web socket relies on, without tasks: the messages it *)
(* accepts, numbered in the order it does, go out in that order and none   *)
(* twice, and as long as the socket is open none stays behind for ever.    *)
(* SendQueue implements it.                                                *)
(***************************************************************************)
EXTENDS Naturals, Sequences

VARIABLES open,            \* whether the socket is open
          accepted,        \* how many messages have been accepted
          carried          \* the numbers of the messages that went out

vars == <<open, accepted, carried>>

Init == open = TRUE /\ accepted = 0 /\ carried = <<>>

Accept ==
  /\ accepted' = accepted + 1
  /\ UNCHANGED <<open, carried>>

Carry ==
  /\ open
  /\ Len(carried) < accepted
  /\ carried' = Append(carried, Len(carried) + 1)
  /\ UNCHANGED <<open, accepted>>

\* What has not been carried by then is lost.
Close ==
  /\ open
  /\ open' = FALSE
  /\ UNCHANGED <<accepted, carried>>

Next == Accept \/ Carry \/ Close

Spec == Init /\ [][Next]_vars

FairSpec == Spec /\ WF_vars(Carry)
=============================================================================
