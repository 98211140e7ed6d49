----------------------------- MODULE MCFragments -----------------------------
(***************************************************************************)
(* An instance for TLC of both directions, StreamFragments to the viewer   *)
(* and AuxFragments to the source.  The two share nothing in the code, so  *)
(* a behaviour is one direction's, chosen at the start.                    *)
(***************************************************************************)
EXTENDS StreamFragments

VARIABLES toViewer, nextIndex, assembler, dropped

Aux == INSTANCE AuxFragments

auxVars == <<nextIndex, assembler, dropped>>

EitherInit ==
  /\ Init /\ Aux!Init
  /\ toViewer \in BOOLEAN
  /\ lossy => toViewer

ToViewer == toViewer /\ Next /\ UNCHANGED <<toViewer, auxVars>>

ToSource == ~ toViewer /\ Aux!Next /\ UNCHANGED <<toViewer, lossy, builders>>

EitherSpec ==
  EitherInit /\ [][ToViewer \/ ToSource]_<<vars, auxVars, toViewer>>

\* Both assemblers hold at most what they may (MessageAssembler.cpp:11-60,
\* message-assembler.ts:49-76).
AssemblersOK == IF toViewer THEN TypeOK ELSE Aux!TypeOK

\* Over a reliable channel messages come whole and in the order sent, although
\* the source gives all the same index (MessageSplitter.cpp:42-62) and the
\* viewer starts from index 0 with each connection (message-splitter.ts:11-48).
WholeInOrder == IF toViewer THEN DeliveredInOrder ELSE Aux!DeliveredInOrder

\* Once a reliable channel is empty, all that was sent over it has come but
\* for empty messages, which no fragment is sent of (MessageSplitter.cpp:50,
\* message-splitter.ts:36).
AllArrive == IF toViewer THEN NothingLost ELSE Aux!NothingLost
=============================================================================
