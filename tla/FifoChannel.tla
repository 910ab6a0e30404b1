----------------------------- MODULE FifoChannel -----------------------------
(***************************************************************************)
(* What a queue between threads promises: values are taken one by one, in  *)
(* the order in which they were put in, each once.                         *)
(***************************************************************************)
EXTENDS Sequences

CONSTANT Values

VARIABLES
    queue,      \* put in and not yet taken
    taken       \* everything taken so far

Init == queue = << >> /\ taken = << >>

Put(v) == queue' = Append(queue, v) /\ UNCHANGED taken

Take ==
    /\ queue # << >>
    /\ queue' = Tail(queue) /\ taken' = Append(taken, Head(queue))

Next == Take \/ \E v \in Values : Put(v)

Spec == Init /\ [][Next]_<<queue, taken>>
=============================================================================
