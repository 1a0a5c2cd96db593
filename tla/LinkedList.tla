------------------------------ MODULE LinkedList ------------------------------
(***************************************************************************)
(* kernel/modules/misc/linked_list.c: a circular doubly linked list, its   *)
(* handle a pointer to the first node or NULL, its nodes from kmalloc.     *)
(* The callers run with interrupts disabled: a call is one action.         *)
(*                                                                         *)
(* pop_back and remove test `list' where pop_front tests `*list', and read *)
(* through NULL on an empty list; a caller must not do that.               *)
(***************************************************************************)
EXTENDS Integers, Sequences, FiniteSets

CONSTANTS
    Nodes,      \* the memory for list_t objects
    Objects,    \* what is linked; numbers, compared with <=
    NULL

ASSUME LinkedListAssumption ==
    /\ IsFiniteSet(Nodes)
    /\ NULL \notin Nodes

VARIABLES
    head,               \* *list
    prev, next, obj,    \* the fields of the nodes
    used,               \* the nodes that kmalloc returned and kfree did not get
    result              \* the value of the last pop

vars == <<head, prev, next, obj, used, result>>

Pointer == Nodes \cup {NULL}

\* Links lead to nodes or are NULL, and a pop returns an object, never a node
\* (pop_front, linked_list.c:64).
TypeOK ==
    /\ head \in Pointer
    /\ prev \in [Nodes -> Pointer]
    /\ next \in [Nodes -> Pointer]
    /\ obj \in [Nodes -> Objects \cup {NULL}]
    /\ used \subseteq Nodes
    /\ result \in Objects \cup {NULL}

-----------------------------------------------------------------------------
(* Walking the list *)

Next1(node) == IF node = NULL THEN NULL ELSE next[node]

\* The i-th node the do loops of remove and insert_with_compare visit.
Walk[i \in 0..Cardinality(Nodes)] ==
    IF i = 0 THEN head ELSE Next1(Walk[i - 1])

\* They stop when they are back at the head (or lost, in a broken list).
Length ==
    IF head = NULL THEN 0
    ELSE CHOOSE n \in 1..Cardinality(Nodes) :
            /\ Walk[n] \in {head, NULL} \/ n = Cardinality(Nodes)
            /\ \A m \in 1..(n - 1) : Walk[m] \notin {head, NULL}

Contents == [i \in 1..Length |-> obj[Walk[i - 1]]]

-----------------------------------------------------------------------------
(* Linking and unlinking *)

\* kmalloc; the node gets its object.
NewNode(n, o) ==
    /\ n \notin used
    /\ used' = used \cup {n}
    /\ obj' = [obj EXCEPT ![n] = o]

\* push_back with *list == NULL.
LinkAlone(n) ==
    /\ prev' = [prev EXCEPT ![n] = n]
    /\ next' = [next EXCEPT ![n] = n]

\* Mutant: node->prev is not set, so that the links differ by direction.
MutLinkBefore(n, node) ==
    /\ prev' = [prev EXCEPT ![n] = prev[node]]
    /\ next' = [next EXCEPT ![n] = node, ![prev[node]] = n]

\* push_back with *list == node: n goes between node->prev and node.
LinkBefore(n, node) ==
    /\ prev' = [prev EXCEPT ![n] = prev[node], ![node] = n]
    /\ next' = [next EXCEPT ![n] = node, ![prev[node]] = n]

\* kfree: the memory is reused, so that its fields mean nothing any more.
\* newprev and newnext are the fields once the node is unlinked.
FreeNode(n, newprev, newnext) ==
    /\ used' = used \ {n}
    /\ prev' = [newprev EXCEPT ![n] = NULL]
    /\ next' = [newnext EXCEPT ![n] = NULL]
    /\ obj' = [obj EXCEPT ![n] = NULL]

\* node->prev->next = node->next; node->next->prev = node->prev
Unlink(n) ==
    FreeNode(n, [prev EXCEPT ![next[n]] = prev[n]],
                [next EXCEPT ![prev[n]] = next[n]])

-----------------------------------------------------------------------------
(* Operations *)

PushBack(n, o) ==
    /\ NewNode(n, o)
    /\ \/ head = NULL /\ LinkAlone(n) /\ head' = n
       \/ head # NULL /\ LinkBefore(n, head) /\ UNCHANGED head
    /\ UNCHANGED result

\* push_back, then *list = (*list)->prev
PushFront(n, o) ==
    /\ NewNode(n, o)
    /\ \/ head = NULL /\ LinkAlone(n)
       \/ head # NULL /\ LinkBefore(n, head)
    /\ head' = IF head = NULL THEN n ELSE prev'[head]
    /\ UNCHANGED result

\* Mutant: the node is returned instead of its object.
MutPopFrontNode ==
    \/ /\ head = NULL
       /\ result' = NULL
       /\ UNCHANGED <<head, prev, next, obj, used>>
    \/ /\ head # NULL
       /\ result' = head
       /\ head' = IF next[head] = head THEN NULL ELSE next[head]
       /\ Unlink(head)

\* Mutant: the handle is not moved on.
MutPopFront ==
    /\ head # NULL
    /\ result' = obj[head]
    /\ head' = IF next[head] = head THEN NULL ELSE head
    /\ Unlink(head)

PopFront ==
    \/ /\ head = NULL
       /\ result' = NULL
       /\ UNCHANGED <<head, prev, next, obj, used>>
    \/ /\ head # NULL
       /\ result' = obj[head]
       /\ head' = IF next[head] = head THEN NULL ELSE next[head]
       /\ Unlink(head)

PopBack ==
    /\ head # NULL
    /\ result' = obj[prev[head]]
    /\ head' = IF next[head] = head THEN NULL ELSE head
    /\ Unlink(prev[head])

\* Mutant: any object that equals o is removed, not the first.
MutRemove(o) ==
    /\ head # NULL
    /\ \E i \in 1..Length :
          /\ Contents[i] = o
          /\ Unlink(Walk[i - 1])
          /\ head' = IF i > 1 THEN head
                     ELSE IF next[head] = head THEN NULL ELSE next[head]
    /\ UNCHANGED result

\* remove: the head is popped, any other node is unlinked where it is found.
Remove(o) ==
    /\ head # NULL
    /\ \/ /\ \E i \in 1..Length :
                /\ Contents[i] = o
                /\ \A j \in 1..(i - 1) : Contents[j] # o
                /\ Unlink(Walk[i - 1])
                /\ head' = IF i > 1 THEN head
                           ELSE IF next[head] = head THEN NULL ELSE next[head]
       \/ /\ \A i \in 1..Length : Contents[i] # o
          /\ UNCHANGED <<head, prev, next, obj, used>>
    /\ UNCHANGED result

\* The comparator sees the node before, the new object and the node; the only
\* one there is, add_comparator, compares the last two.
Comparator(o, node) == o <= obj[node]

InsertWithCompare(n, o) ==
    /\ NewNode(n, o)
    /\ \/ /\ head = NULL
          /\ LinkAlone(n)
          /\ head' = n
       \/ \E i \in 1..Length :
             /\ Comparator(o, Walk[i - 1])
             /\ \A j \in 1..(i - 1) : ~Comparator(o, Walk[j - 1])
             /\ LinkBefore(n, Walk[i - 1])
             /\ head' = IF i = 1 THEN prev'[head] ELSE head
       \/ /\ head # NULL
          /\ \A i \in 1..Length : ~Comparator(o, Walk[i - 1])
          /\ LinkBefore(n, head)
          /\ UNCHANGED head
    /\ UNCHANGED result

Init ==
    /\ head = NULL
    /\ prev = [n \in Nodes |-> NULL]
    /\ next = [n \in Nodes |-> NULL]
    /\ obj = [n \in Nodes |-> NULL]
    /\ used = {}
    /\ result = NULL

Next ==
    \/ \E n \in Nodes, o \in Objects :
          PushBack(n, o) \/ PushFront(n, o) \/ InsertWithCompare(n, o)
    \/ \E o \in Objects : Remove(o)
    \/ PopFront
    \/ PopBack

Spec == Init /\ [][Next]_vars

-----------------------------------------------------------------------------
(* Properties *)

\* The nodes in use are those on the list, linked both ways in one circle:
\* no operation leaves a node behind (leaked, or freed and still linked), not
\* even the one that empties the list.
OneCircle ==
    /\ used = {Walk[i] : i \in 0..(Length - 1)}
    /\ \A n \in used :
          /\ {next[n], prev[n]} \subseteq used
          /\ prev[next[n]] = n
          /\ next[prev[n]] = n

Abstract == INSTANCE ObjectList
    WITH list <- Contents, NoObject <- NULL, MaxLen <- Cardinality(Nodes)

\* Every operation on the links does to the objects, in their order from the
\* head, what ObjectList says, and pops return the objects it says.
ImplementsObjectList == Abstract!Spec

=============================================================================
