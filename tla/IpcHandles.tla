----------------------------- MODULE IpcHandles -----------------------------
(***************************************************************************)
(* The handles in a command buffer: TranslateCommandBuffer between two     *)
(* processes (ipc.cpp), and HLERequestContext between a process and a      *)
(* service of the emulator (hle_ipc.cpp).  A handle table is taken by its  *)
(* promise, a partial map from handles to objects with a limited number of *)
(* entries.                                                                *)
(***************************************************************************)
EXTENDS Integers, FiniteSets, Sequences, SequencesExt, FiniteSetsExt

CONSTANTS
    Processes, Objects, NoObject,
    MAX_COUNT,     \* entries of a handle table
    MaxHandles     \* bound: handles under one descriptor

HandlesAssumption == MAX_COUNT \in Nat \ {0} /\ NoObject \notin Objects

VARIABLES
    table,   \* the handle table of each process
    sent     \* history: the last translation, word by word; for a service of
             \* the emulator, its request_handles

vars == <<table, sent>>

Handle == 1 .. MAX_COUNT
CurrentThread == MAX_COUNT + 1     \* the pseudo-handle; the object is named by the process
Nothing == [from |-> "none", to |-> "none", type |-> "none", words |-> <<>>]
Open(t) == {h \in Handle : t[h] # NoObject}
Full(t) == Open(t) = Handle
\* HandleTable::Close and Create
Closed(t, h) == [t EXCEPT ![h] = NoObject]
NewHandle(t) == Min(Handle \ Open(t))

\* A mutant: a copied handle is closed as well.
Closes_Copied(type, n) == n > 0

\* Whether the source handle is closed: the whole descriptor, which holds the
\* number of handles less one, is compared with MoveHandle.
Closes(type, n) == type = "MoveHandle" /\ n = 1

\* The object of one handle, and the source table after it
Get(p, src, h, type, n) ==
    [object |-> IF h = CurrentThread THEN p ELSE IF h = 0 THEN NoObject ELSE src[h],
     src    |-> IF h \in Handle /\ Closes(type, n) THEN Closed(src, h) ELSE src]

Word(h, object, out) == [from |-> h, object |-> object, out |-> out]

\* One handle of TranslateCommandBuffer; a failed Create gives 0.
Translate(p, acc, h, type, n) ==
    LET g == Get(p, acc.src, h, type, n)
        lost == g.object = NoObject \/ Full(acc.dst)
    IN  [src   |-> g.src,
         dst   |-> IF lost THEN acc.dst ELSE [acc.dst EXCEPT ![NewHandle(acc.dst)] = g.object],
         words |-> Append(acc.words, Word(h, g.object, IF lost THEN 0 ELSE NewHandle(acc.dst)))]

TranslateCommandBuffer(p, q, type, handles) ==
    LET r == FoldLeft(LAMBDA acc, h : Translate(p, acc, h, type, Len(handles)),
                      [src |-> table[p], dst |-> table[q], words |-> <<>>], handles)
    IN  /\ p # q
        /\ table' = [table EXCEPT ![p] = r.src, ![q] = r.dst]
        /\ sent' = [from |-> p, to |-> q, type |-> type, words |-> r.words]

\* A request to a service of the emulator: PopulateFromIncomingCommandBuffer
\* asserts that a handle that is not 0 is valid.
Populate(p, type, handles) ==
    LET One(acc, h) == LET g == Get(p, acc.src, h, type, Len(handles)) IN
                       [src   |-> g.src,
                        words |-> Append(acc.words, Word(h, g.object, Len(acc.words) + 1))]
        r == FoldLeft(One, [src |-> table[p], words |-> <<>>], handles)
    IN  /\ \A h \in ToSet(handles) \cap Handle : table[p][h] # NoObject
        /\ table' = [table EXCEPT ![p] = r.src]
        /\ sent' = [from |-> p, to |-> "service", type |-> type, words |-> r.words]

\* The reply creates handles for objects of the service; it unwraps the result
\* of Create, so there must be room.
WriteToOutgoing(p, objects) ==
    LET One(acc, o) == [dst   |-> [acc.dst EXCEPT ![NewHandle(acc.dst)] = o],
                        words |-> Append(acc.words, Word(0, o, NewHandle(acc.dst)))]
        r == FoldLeft(One, [dst |-> table[p], words |-> <<>>], objects)
    IN  /\ Cardinality(Open(table[p])) + Len(objects) <= MAX_COUNT
        /\ table' = [table EXCEPT ![p] = r.dst]
        /\ sent' = [from |-> "service", to |-> p, type |-> "CopyHandle", words |-> r.words]

\* A system call of the process creates an object or closes a handle.
CreateObject(p, o) ==
    /\ ~Full(table[p])
    /\ \A q \in Processes : o \notin {table[q][h] : h \in Handle}
    /\ table' = [table EXCEPT ![p][NewHandle(table[p])] = o]
    /\ sent' = Nothing
CloseHandle(p, h) ==
    /\ table[p][h] # NoObject
    /\ table' = [table EXCEPT ![p] = Closed(table[p], h)]
    /\ sent' = Nothing

Init ==
    /\ table = [p \in Processes |-> [h \in Handle |-> NoObject]]
    /\ sent = Nothing

Next ==
    \E p \in Processes :
        \/ \E o \in Objects : CreateObject(p, o)
        \/ \E h \in Handle : CloseHandle(p, h)
        \/ \E type \in {"CopyHandle", "MoveHandle"}, n \in 1 .. MaxHandles :
              \E handles \in [1 .. n -> Handle \cup {0, CurrentThread}] :
                  \/ Populate(p, type, handles)
                  \/ \E q \in Processes : TranslateCommandBuffer(p, q, type, handles)
        \/ \E n \in 1 .. MaxHandles : \E objects \in [1 .. n -> Objects] : WriteToOutgoing(p, objects)

Spec == Init /\ [][Next]_vars
-----------------------------------------------------------------------------
Between == sent.from \in Processes /\ sent.to \in Processes
NamedBy(p, h) == IF h = 0 THEN NoObject ELSE IF h = CurrentThread THEN p ELSE table[p][h]
Named == {table[p][h] : p \in Processes, h \in Handle} \ {NoObject}

(* Each word the receiver gets names the object the sender's word named    *)
(* when the command was sent, under a handle of its own; a word is 0 only  *)
(* if the sender's named nothing or the receiver has no room.              *)
HandlesArrive ==
    [][Between' => LET words == sent'.words IN
        \A i \in DOMAIN words :
            /\ words[i].out # 0 =>
                  /\ table'[sent'.to][words[i].out] = words[i].object
                  /\ table[sent'.to][words[i].out] = NoObject
                  /\ words[i].object = NamedBy(sent'.from, words[i].from)
                  /\ \A j \in DOMAIN words : words[j].out = words[i].out => i = j
            /\ words[i].out = 0 =>
                  NamedBy(sent'.from, words[i].from) = NoObject \/ Full(table'[sent'.to])]_vars

(* An object in transit is not lost: between two processes it keeps a      *)
(* handle on one side, unless the receiver's table is full.                *)
ObjectsKept ==
    [][Between' => Named \subseteq Named' \/ Full(table'[sent'.to])]_vars

(* The tests require of a moved handle that it is gone from the sender.    *)
MovedIsGone ==
    sent.type = "MoveHandle" => \A w \in ToSet(sent.words) :
        w.from \in Handle => table[sent.from][w.from] = NoObject
=============================================================================
