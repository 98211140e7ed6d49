------------------------------ MODULE SendQueue ------------------------------
(***************************************************************************)
(* How the gateway sends on a web socket, SendMessageAsync of              *)
(* Extensions/WebSocketResult.cs: under a lock each message's task is      *)
(* chained to that of the message before.  The first message's task is the *)
(* send itself; each later one is a continuation that calls SendAsync and  *)
(* is completed when the call returns, be the send finished or not.        *)
(*                                                                         *)
(* The socket is System.Net.WebSockets': sends that were called while      *)
(* another was pending wait their turn, in the order of the calls, and on  *)
(* a socket that is closed all of them fail.                               *)
(***************************************************************************)
EXTENDS Naturals, Sequences

CONSTANT MaxMessages       \* bound: how many messages are sent

ASSUME MessagesAssumption == MaxMessages \in Nat

VARIABLES task,            \* the state of each message's task
          pending,         \* the sends the socket has not finished
          sent,            \* the messages that went out
          open             \* whether the socket is open

vars == <<task, pending, sent, open>>

Init ==
  /\ task = <<>>
  /\ pending = <<>>
  /\ sent = <<>>
  /\ open = TRUE

\* SendAsync is called for message n; it fails on a socket that is closed.
SendAsync(n) == pending' = IF open THEN Append(pending, n) ELSE pending

\* Mutant: a continuation of a task that is completed already is not run.
SendMessageAsync_MissesCompleted ==
  LET n == Len(task) + 1
  IN  /\ n <= MaxMessages
      /\ \/ /\ n = 1
            /\ SendAsync(n)
            /\ task' = <<IF open THEN "sending" ELSE "completed">>
         \/ /\ n > 1
            /\ task' = Append(task, IF task[n - 1] = "completed" THEN "missed"
                                                                 ELSE "chained")
            /\ UNCHANGED pending
      /\ UNCHANGED <<sent, open>>

SendMessageAsync ==
  LET n == Len(task) + 1
  IN  /\ n <= MaxMessages
      /\ \/ /\ n = 1
            /\ SendAsync(n)
            /\ task' = <<IF open THEN "sending" ELSE "completed">>
         \/ /\ n > 1
            /\ task' = Append(task, "chained")
            /\ UNCHANGED pending
      /\ UNCHANGED <<sent, open>>

\* Mutant: the continuation does not wait for the task before.
RunContinuation_Unchained(n) ==
  /\ task[n] = "chained"
  /\ SendAsync(n)
  /\ task' = [task EXCEPT ![n] = "completed"]
  /\ UNCHANGED <<sent, open>>

\* ContinueWith: the thread pool runs the continuation once the task before
\* is completed, also when it failed.
RunContinuation(n) ==
  /\ task[n] = "chained"
  /\ task[n - 1] = "completed"
  /\ SendAsync(n)
  /\ task' = [task EXCEPT ![n] = "completed"]
  /\ UNCHANGED <<sent, open>>

\* The tasks when the first one's send is over.
FirstCompleted ==
  [n \in DOMAIN task |-> IF n = 1 THEN "completed" ELSE task[n]]

\* The socket finishes a send: from the third message on there may be others
\* pending behind it.
FinishSend ==
  /\ pending # <<>>
  /\ sent' = Append(sent, Head(pending))
  /\ pending' = Tail(pending)
  /\ task' = FirstCompleted
  /\ UNCHANGED open

\* The connection is lost or the client closes it: what is pending fails.
Close ==
  /\ open
  /\ open' = FALSE
  /\ pending' = <<>>
  /\ task' = FirstCompleted
  /\ UNCHANGED sent

Next ==
  \/ SendMessageAsync
  \/ \E n \in DOMAIN task : RunContinuation(n)
  \/ FinishSend
  \/ Close

Spec == Init /\ [][Next]_vars

\* The thread pool runs what can run, and the socket finishes its sends.
FairSpec ==
  /\ Spec
  /\ \A n \in 1 .. MaxMessages :
       WF_vars(n \in DOMAIN task /\ RunContinuation(n))
  /\ WF_vars(FinishSend)

-----------------------------------------------------------------------------
\* Messages go out in the order in which SendMessageAsync took its lock,
\* although sends overlap and tasks complete before them (lines 98-110); none
\* stays behind while the socket is open.
Order == INSTANCE MessageOrder WITH
  accepted <- Len(task), carried <- sent

InOrder == Order!FairSpec

Completed(n) == n \in DOMAIN task /\ task[n] = "completed"

\* Whoever awaits SendMessageAsync goes on, also when the socket closes with
\* sends pending or continuations still to run (line 110).
AwaitsEnd == \A n \in 1 .. MaxMessages : n \in DOMAIN task ~> Completed(n)
=============================================================================
