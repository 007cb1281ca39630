------------------------------- MODULE Queues -------------------------------
(***************************************************************************)
(* Queues of the event loops, as far as several modules speak of them.     *)
(***************************************************************************)
EXTENDS Integers, Sequences

(* The numbers in a queue, where 0 stands for anything else, are those     *)
(* from `from' up to `upto', each once and in order.                       *)
Numbered(queue, from, upto) ==
  LET at == {i \in DOMAIN queue : queue[i] # 0}
  IN  /\ from <= upto + 1
      /\ {queue[i] : i \in at} = from .. upto
      /\ \A i, j \in at : i < j => queue[i] < queue[j]

(* The elements of a queue that are in S: SelectSeq, written so that the   *)
(* proofs can expand it.                                                   *)
Only(queue, S) ==
  LET kept[n \in 0 .. Len(queue)] ==
        IF n = 0 THEN <<>>
          ELSE IF queue[n] \in S THEN Append(kept[n - 1], queue[n]) ELSE kept[n - 1]
  IN  kept[Len(queue)]
=============================================================================
