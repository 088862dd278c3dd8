------------------------------ MODULE WireQueue ------------------------------
(***************************************************************************)
(* What the packer promises its callers, and all that ChunkPipeline relies *)
(* on: submitted wires wait in order; a flush takes some of the oldest     *)
(* ones; each of those is answered once, in order, or all of them fail     *)
(* together; and a wire no flush has taken may be dropped with its inode.  *)
(***************************************************************************)
EXTENDS Naturals, Sequences, Sublists

CONSTANT Wires

VARIABLES
    queue,   \* wires not answered yet, oldest first
    taken,   \* how many at its front the current flush has taken
    result   \* what the wire's result channel holds

vars == <<queue, taken, result>>

Init == queue = <<>> /\ taken = 0 /\ result = [w \in Wires |-> "none"]

Submit(w) ==
    /\ result[w] = "none"
    /\ queue' = Append(queue, w)
    /\ result' = [result EXCEPT ![w] = "waiting"]
    /\ UNCHANGED taken

Take ==
    /\ taken = 0
    /\ taken' \in 1..Len(queue)
    /\ UNCHANGED <<queue, result>>

AnswerFirst(r) ==
    /\ taken > 0
    /\ queue' = Tail(queue)
    /\ taken' = taken - 1
    /\ result' = [result EXCEPT ![Head(queue)] = r]

FailAll ==
    /\ taken > 0
    /\ queue' = SubSeq(queue, taken + 1, Len(queue))
    /\ taken' = 0
    /\ result' = [w \in Wires |-> IF \E m \in 1..taken : queue[m] = w
                                  THEN "failed" ELSE result[w]]

\* Some wires that no flush has taken leave the queue, all others keep their
\* order.
Drop(S) ==
    LET rest == SubSeq(queue, taken + 1, Len(queue))
    IN /\ S \subseteq {rest[m] : m \in 1..Len(rest)}
       /\ queue' = SubSeq(queue, 1, taken)
                     \o Keep(rest, Wires \ S)
       /\ result' = [w \in Wires |-> IF w \in S THEN "done" ELSE result[w]]
       /\ UNCHANGED taken

Next == \/ \E w \in Wires : Submit(w)
        \/ Take \/ FailAll
        \/ AnswerFirst("done") \/ AnswerFirst("failed")
        \/ \E S \in SUBSET Wires : Drop(S)

Spec == Init /\ [][Next]_vars

=============================================================================
