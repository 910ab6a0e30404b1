------------------------------ MODULE PageMap ------------------------------
(***************************************************************************)
(* What an address space is to its users: every page is free, or backed by *)
(* a page of memory with permissions and a state.  A call names a range    *)
(* and changes exactly its pages, or nothing.                              *)
(***************************************************************************)
EXTENDS Integers

CONSTANTS MAX_ADDRESS, Perms, States, Memory

VARIABLE page

Pages == 0 .. MAX_ADDRESS - 1
Unmapped == [type |-> "Free", perm |-> {}, state |-> "Free", mem |-> 0]

Range(a, n) == {p \in Pages : a <= p /\ p < a + n}
Mapped(attr) == attr # Unmapped
Change(range, to(_)) == page' = [p \in Pages |-> IF p \in range THEN to(p) ELSE page[p]]

Init == page = [p \in Pages |-> Unmapped]

MapMemory(a, n, type, state, mem) ==
    /\ \A p \in Range(a, n) : ~Mapped(page[p])
    /\ LET To(p) == [type |-> type, perm |-> {"r", "w"}, state |-> state,
                    mem |-> mem + p - a]
       IN  Change(Range(a, n), To)

UnmapRange(a, n) ==
    /\ \A p \in Range(a, n) : Mapped(page[p])
    /\ LET To(p) == Unmapped IN Change(Range(a, n), To)

ReprotectRange(a, n, perm) ==
    /\ \A p \in Range(a, n) : Mapped(page[p])
    /\ LET To(p) == [page[p] EXCEPT !.perm = perm] IN Change(Range(a, n), To)

ChangeMemoryState(a, n, from, atLeast, to, perm) ==
    /\ \A p \in Range(a, n) : /\ Mapped(page[p]) /\ page[p].state = from
                              /\ atLeast \subseteq page[p].perm
    /\ LET To(p) == [page[p] EXCEPT !.state = to, !.perm = perm] IN Change(Range(a, n), To)

Next ==
    \E a \in Pages : \E n \in 1 .. MAX_ADDRESS - a :
        \/ \E type \in {"BackingMemory", "MMIO"}, state \in States, mem \in Memory :
              MapMemory(a, n, type, state, mem)
        \/ UnmapRange(a, n)
        \/ \E perm \in Perms : ReprotectRange(a, n, perm)
        \/ \E from, to \in States, atLeast, perm \in Perms :
              ChangeMemoryState(a, n, from, atLeast, to, perm)

Spec == Init /\ [][Next]_page
=============================================================================
