---------------------------- MODULE UploadPromise ----------------------------
(***************************************************************************)
(* What a resumable upload promises its client: chunks are accepted one    *)
(* after another, an accepted chunk stays what it was, and what is stored  *)
(* in the end is the accepted chunks, all of them.                         *)
(***************************************************************************)
EXTENDS Naturals

CONSTANTS
  Bodies,      \* what a chunk may hold
  Empty,       \* a position without a chunk
  NoDigest,    \* nothing stored
  ChunkCount   \* chunks of the declared size

VARIABLES
  accepted,  \* the accepted chunk at each position
  stored     \* the stored content, or NoDigest

promiseVars == <<accepted, stored>>

Positions == 0..(ChunkCount - 1)

Init ==
  /\ accepted = [i \in Positions |-> Empty]
  /\ stored = NoDigest

Accept(i, b) ==
  /\ accepted[i] = Empty
  /\ \A j \in Positions : j < i => accepted[j] # Empty
  /\ accepted' = [accepted EXCEPT ![i] = b]
  /\ UNCHANGED stored

Store ==
  /\ \A i \in Positions : accepted[i] # Empty
  /\ stored' = accepted
  /\ UNCHANGED accepted

Next == Store \/ \E i \in Positions, b \in Bodies : Accept(i, b)

Spec == Init /\ [][Next]_promiseVars
=============================================================================
