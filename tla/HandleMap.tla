------------------------------ MODULE HandleMap ------------------------------
(***************************************************************************)
(* What a handle table promises the emulated process: a partial map from   *)
(* handles to kernel objects.  A new handle is one that is not in use; a   *)
(* handle keeps naming the same object until it is closed.                 *)
(***************************************************************************)
CONSTANTS Handle, Objects

VARIABLE map        \* the open handles and the object each one names

Init == map = [h \in {} |-> {}]

Create(h, o) ==
    /\ h \notin DOMAIN map
    /\ map' = [g \in DOMAIN map \cup {h} |-> IF g = h THEN o ELSE map[g]]

Close(h) ==
    /\ h \in DOMAIN map
    /\ map' = [g \in DOMAIN map \ {h} |-> map[g]]

Clear == map' = [h \in {} |-> {}]

Next ==
    \/ \E h \in Handle, o \in Objects : Create(h, o)
    \/ \E h \in Handle : Close(h)
    \/ Clear

Spec == Init /\ [][Next]_map
=============================================================================
