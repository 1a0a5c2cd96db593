------------------------------ MODULE ObjectList ------------------------------
(***************************************************************************)
(* What linked_list.h promises: a sequence of objects that grows and       *)
(* shrinks at both ends, gives up an object wherever it is, and takes one  *)
(* in front of the first that compares.  `result' is the value of the last *)
(* pop.  Scheduler uses its lists at this level.                           *)
(***************************************************************************)
EXTENDS Integers, Sequences, SequencesExt

CONSTANTS
    Objects,    \* numbers; the comparator of InsertWithCompare is <=
    NoObject,   \* NULL
    MaxLen      \* bound on the length of the list

VARIABLES list, result

vars == <<list, result>>

Room == Len(list) < MaxLen

PushBack(o) ==
    /\ Room
    /\ list' = Append(list, o)
    /\ UNCHANGED result

PushFront(o) ==
    /\ Room
    /\ list' = <<o>> \o list
    /\ UNCHANGED result

PopFront ==
    \/ /\ list = <<>>
       /\ result' = NoObject
       /\ UNCHANGED list
    \/ /\ list # <<>>
       /\ result' = Head(list)
       /\ list' = Tail(list)

PopBack ==
    /\ list # <<>>
    /\ result' = Last(list)
    /\ list' = Front(list)

\* Position of the first element that Test accepts, or the one after the end.
First(Test(_)) ==
    CHOOSE i \in 1..(Len(list) + 1) :
        /\ i <= Len(list) => Test(list[i])
        /\ \A j \in 1..(i - 1) : ~Test(list[j])

Remove1(o) ==
    LET Is(x) == x = o
        i == First(Is)
    IN  /\ list # <<>>
        /\ list' = IF i <= Len(list) THEN RemoveAt(list, i) ELSE list
        /\ UNCHANGED result

InsertWithCompare(o) ==
    LET After(x) == o <= x
    IN  /\ Room
        /\ list' = InsertAt(list, First(After), o)
        /\ UNCHANGED result

Init == list = <<>> /\ result = NoObject

Next ==
    \/ \E o \in Objects :
          PushBack(o) \/ PushFront(o) \/ Remove1(o) \/ InsertWithCompare(o)
    \/ PopFront
    \/ PopBack

Spec == Init /\ [][Next]_vars

=============================================================================
