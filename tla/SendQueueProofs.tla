--------------------------- MODULE SendQueueProofs ---------------------------
(***************************************************************************)
(* SendQueue implements the safety part of MessageOrder, however many      *)
(* messages are sent: overlapping sends leave in the order in which        *)
(* SendMessageAsync took its lock.                                         *)
(*                                                                         *)
(* A continuation runs when the task before is completed, which from the   *)
(* third message on says nothing of the sends before.  What keeps the      *)
(* order is that SendAsync has been called for a prefix of the messages    *)
(* whenever the socket is open, CalledInOrder, and that the socket works   *)
(* on them in the order of the calls, Numbered.                            *)
(***************************************************************************)
EXTENDS SendQueue, SequenceTheorems, TLAPS

States == {"sending", "chained", "completed"}

QueueTypeOK ==
  /\ task \in Seq(States)
  /\ pending \in Seq(Nat)
  /\ sent \in Seq(Nat)
  /\ open \in BOOLEAN
  /\ Len(sent) <= Len(task)

\* The sends that have been called, those finished and those pending.
Called == Len(sent) + Len(pending)

\* What went out and what is pending are the first messages, in order.
Numbered ==
  /\ \A i \in 1 .. Len(sent) : sent[i] = i
  /\ \A i \in 1 .. Len(pending) : pending[i] = Len(sent) + i

\* On an open socket the continuations yet to run are those of the messages
\* after the ones called; on a closed one nothing is pending.
CalledInOrder ==
  /\ Len(task) > 0 => task[1] # "chained"
  /\ open => /\ Called <= Len(task)
             /\ \A n \in 1 .. Len(task) : task[n] = "chained" <=> n > Called
  /\ ~ open => pending = <<>>

QueueInv == QueueTypeOK /\ Numbered /\ CalledInOrder

-----------------------------------------------------------------------------
\* Nothing is sent at first.
LEMMA QueueInvInit == Init => QueueInv /\ Order!Init
  BY DEF Init, QueueInv, QueueTypeOK, Numbered, CalledInOrder, Called, States,
         Order!Init

\* A message enters the queue: the first one's send is called, a later one's
\* continuation waits (WebSocketResult.cs:96-108).
LEMMA QueueSend ==
  ASSUME QueueInv, SendMessageAsync
  PROVE  QueueInv' /\ Order!Accept
<1> USE DEF QueueInv, QueueTypeOK, States
<1>1. CASE Len(task) = 0
  <2>1. /\ task = <<>> /\ sent = <<>>
        /\ task' = <<IF open THEN "sending" ELSE "completed">>
        /\ pending' = IF open THEN Append(pending, 1) ELSE pending
        /\ UNCHANGED <<sent, open>>
    BY <1>1 DEF SendMessageAsync, SendAsync
  <2>2. pending = <<>>
    BY <2>1 DEF CalledInOrder, Called
  <2>3. QueueTypeOK' /\ Len(task') = 1 /\ task'[1] # "chained"
    BY <2>1, <2>2
  <2>4. Numbered' /\ CalledInOrder'
    BY <2>1, <2>2, <2>3 DEF Numbered, CalledInOrder, Called
  <2>5. QED BY <2>1, <2>3, <2>4 DEF Order!Accept
<1>2. CASE Len(task) > 0
  <2>1. /\ task' = Append(task, "chained")
        /\ UNCHANGED <<pending, sent, open>>
    BY <1>2 DEF SendMessageAsync
  <2>2. QueueTypeOK' /\ Len(task') = Len(task) + 1
    BY <2>1
  <2>3. Numbered' /\ CalledInOrder'
    BY <1>2, <2>1, <2>2 DEF Numbered, CalledInOrder, Called
  <2>4. QED BY <2>1, <2>2, <2>3 DEF Order!Accept
<1>3. QED BY <1>1, <1>2

\* A continuation runs: it is that of the first message not called yet
\* (WebSocketResult.cs:104-106).
LEMMA QueueContinuation ==
  ASSUME QueueInv, NEW n \in DOMAIN task, RunContinuation(n)
  PROVE  QueueInv' /\ UNCHANGED <<open, Len(task), sent>>
<1> USE DEF QueueInv, QueueTypeOK, States
<1>1. /\ task[n] = "chained" /\ task[n - 1] = "completed"
      /\ task' = [task EXCEPT ![n] = "completed"]
      /\ pending' = IF open THEN Append(pending, n) ELSE pending
      /\ UNCHANGED <<sent, open>>
  BY DEF RunContinuation, SendAsync
<1>2. n \in 2 .. Len(task)
  BY <1>1 DEF CalledInOrder
<1>3. /\ task' \in Seq(States) /\ Len(task') = Len(task)
      /\ \A i \in 1 .. Len(task) :
           task'[i] = IF i = n THEN "completed" ELSE task[i]
  BY <1>1
<1>4. ASSUME open PROVE n = Called + 1
  <2>1. Called \in Nat
    BY DEF Called
  <2>2. \A i \in 1 .. Len(task) : task[i] = "chained" <=> i > Called
    BY <1>4 DEF CalledInOrder
  <2>3. n > Called /\ ~ (n - 1 > Called)
    <3>1. n \in 1 .. Len(task) /\ n - 1 \in 1 .. Len(task)
      BY <1>2
    <3>2. QED BY <1>1, <2>2, <3>1
  <2>4. QED BY <1>2, <2>1, <2>3
<1>5. QueueTypeOK'
  BY <1>1, <1>2, <1>3
<1>6. Numbered'
  BY <1>1, <1>2, <1>4 DEF Numbered, Called
<1>7. CalledInOrder'
  BY <1>1, <1>2, <1>3, <1>4 DEF CalledInOrder, Called
<1>8. QED BY <1>1, <1>3, <1>5, <1>6, <1>7

\* Completing the first task makes no continuation run or wait.
LEMMA FirstCompletedTask ==
  ASSUME QueueInv, task' = FirstCompleted
  PROVE  /\ task' \in Seq(States) /\ Len(task') = Len(task)
         /\ \A n \in 1 .. Len(task) : task'[n] = "chained" <=> task[n] = "chained"
<1> USE DEF QueueInv, QueueTypeOK
<1>1. DOMAIN task = 1 .. Len(task) /\ Len(task) \in Nat
  BY LenProperties
<1>2. task' \in [1 .. Len(task) -> States]
  BY <1>1 DEF FirstCompleted, States
<1>3. task' \in Seq(States) /\ Len(task') = Len(task)
  <2>1. task' \in Seq(States)
    <3>1. Seq(States) = UNION {[1 .. n -> States] : n \in Nat}
      BY SeqDef
    <3>2. QED BY <1>1, <1>2, <3>1, Zenon
  <2>2. DOMAIN task' = 1 .. Len(task') /\ Len(task') \in Nat
    BY <2>1, LenProperties
  <2>3. QED BY <1>1, <1>2, <2>1, <2>2
<1>4. \A n \in 1 .. Len(task) : task'[n] = "chained" <=> task[n] = "chained"
  BY <1>1 DEF FirstCompleted, CalledInOrder
<1>5. QED BY <1>3, <1>4

\* The socket finishes the send called first: the next message in order.
LEMMA QueueFinish ==
  ASSUME QueueInv, FinishSend
  PROVE  QueueInv' /\ Order!Carry
<1> USE DEF QueueInv, QueueTypeOK, States
<1>1. /\ pending # <<>> /\ task' = FirstCompleted
      /\ sent' = Append(sent, Head(pending)) /\ pending' = Tail(pending)
      /\ UNCHANGED open
  BY DEF FinishSend
<1>2. open /\ Len(pending) > 0 /\ Head(pending) = Len(sent) + 1
  BY <1>1 DEF Numbered, CalledInOrder
<1>3. /\ sent' \in Seq(Nat) /\ Len(sent') = Len(sent) + 1
      /\ pending' \in Seq(Nat) /\ Len(pending') = Len(pending) - 1
  BY <1>1, <1>2
<1>4. /\ task' \in Seq(States) /\ Len(task') = Len(task)
      /\ \A n \in 1 .. Len(task) : task'[n] = "chained" <=> task[n] = "chained"
  BY <1>1, FirstCompletedTask
<1>5. Called' = Called /\ Len(sent) < Len(task)
  BY <1>2, <1>3 DEF Called, CalledInOrder
<1>6. QueueTypeOK'
  BY <1>1, <1>3, <1>4, <1>5
<1>7. Numbered'
  BY <1>1, <1>2, <1>3 DEF Numbered
<1>8. CalledInOrder'
  BY <1>1, <1>2, <1>4, <1>5 DEF CalledInOrder
<1>9. QED BY <1>1, <1>2, <1>4, <1>5, <1>6, <1>7, <1>8 DEF Order!Carry

\* The socket closes: what is pending fails, and nothing is pending any more.
LEMMA QueueClose ==
  ASSUME QueueInv, Close
  PROVE  QueueInv' /\ Order!Close
<1> USE DEF QueueInv, QueueTypeOK, States
<1>1. /\ open /\ open' = FALSE /\ pending' = <<>> /\ task' = FirstCompleted
      /\ UNCHANGED sent
  BY DEF Close
<1>2. /\ task' \in Seq(States) /\ Len(task') = Len(task)
      /\ \A n \in 1 .. Len(task) : task'[n] = "chained" <=> task[n] = "chained"
  BY <1>1, FirstCompletedTask
<1>3. QueueTypeOK' /\ Len(pending') = 0
  <2>1. pending' \in Seq(Nat) /\ Len(pending') = 0
    BY <1>1, EmptySeq
  <2>2. open' \in BOOLEAN /\ sent' \in Seq(Nat) /\ Len(sent') <= Len(task')
    BY <1>1, <1>2
  <2>3. QED BY <1>2, <2>1, <2>2
<1>4. Numbered'
  BY <1>1, <1>3 DEF Numbered
<1>5. CalledInOrder'
  BY <1>1, <1>2 DEF CalledInOrder
<1>6. QED BY <1>1, <1>2, <1>3, <1>4, <1>5 DEF Order!Close

-----------------------------------------------------------------------------
\* A step of the queue keeps its invariant and is a step of MessageOrder or
\* changes nothing there.
LEMMA QueueNext ==
  QueueInv /\ [Next]_vars => QueueInv' /\ [Order!Next]_Order!vars
<1> SUFFICES ASSUME QueueInv, [Next]_vars
             PROVE  QueueInv' /\ [Order!Next]_Order!vars
  OBVIOUS
<1>1. CASE SendMessageAsync
  BY <1>1, QueueSend DEF Order!Next
<1>2. ASSUME NEW n \in DOMAIN task, RunContinuation(n)
      PROVE  QueueInv' /\ [Order!Next]_Order!vars
  BY <1>2, QueueContinuation DEF Order!vars
<1>3. CASE FinishSend
  BY <1>3, QueueFinish DEF Order!Next
<1>4. CASE Close
  BY <1>4, QueueClose DEF Order!Next
<1>5. CASE UNCHANGED vars
  BY <1>5 DEF vars, QueueInv, QueueTypeOK, Numbered, CalledInOrder, Called,
              Order!vars
<1>6. QED BY <1>1, <1>2, <1>3, <1>4, <1>5 DEF Next

\* The sends called are a prefix of the messages, and are worked on in order.
THEOREM QueueInvariant == Spec => []QueueInv
<1>1. Init => QueueInv
  BY QueueInvInit
<1>2. QueueInv /\ [Next]_vars => QueueInv'
  BY QueueNext
<1>3. QED BY <1>1, <1>2, PTL DEF Spec

\* Every behaviour of SendMessageAsync and the socket is one of MessageOrder:
\* messages leave in the order accepted and none twice, although sends
\* overlap and the socket may close at any point (WebSocketResult.cs:98-110).
THEOREM SendsInOrder == Spec => Order!Spec
<1>1. Init => Order!Init
  BY QueueInvInit
<1>2. QueueInv /\ [Next]_vars => [Order!Next]_Order!vars
  BY QueueNext
<1>3. QED BY <1>1, <1>2, QueueInvariant, PTL DEF Spec, Order!Spec
=============================================================================
