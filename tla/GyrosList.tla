----------------------------- MODULE GyrosList -----------------------------
(***************************************************************************)
(* The circular doubly linked lists of include/gyros/private/list.h, seen  *)
(* as sequences: element 1 is head->next and the last element head->prev.  *)
(* A node is in at most one list of a kind, so an element occurs at most   *)
(* once in a sequence; that the kernel keeps it so is a property of the    *)
(* modules that use this one, not an assumption of the operators.          *)
(*                                                                         *)
(* Everything here is non-recursive, so that it can be reasoned about in   *)
(* proofs (see GyrosKernelProofs).                                         *)
(***************************************************************************)
EXTENDS Integers, Sequences, SequencesExt

\* gyros__list_remove: unlinks a node; a node that is not linked points to
\* itself, and removing it changes nothing.
ListRemove(list, node) == RemoveFirst(list, node)

\* gyros__list_insert_before: the new node takes position i, where i is
\* Len(list) + 1 when it is inserted before the list head, that is, last.
ListInsertBefore(list, i, node) == InsertAt(list, i, node)

\* The loops "for (i = list->next; i != list; i = i->next) if (...) break":
\* the first of the positions in hits, where the condition holds, or the head.
FirstPosition(list, hits) == IF hits = {} THEN Len(list) + 1 ELSE Min(hits)

Elements(list) == ToSet(list)

\* No node is linked twice in the list.
Distinct(list) == \A i, j \in 1..Len(list) : i < j => list[i] # list[j]

\* The keys of the nodes fall from head to tail.
Falling(list, key) ==
    \A i, j \in 1..Len(list) : i < j => key[list[i]] >= key[list[j]]

\* The nodes of list that are in nodes, in the order of the list.
Keep(list, nodes) ==
    LET kept[n \in 0..Len(list)] ==
            IF n = 0 THEN <<>>
            ELSE IF list[n] \in nodes THEN Append(kept[n - 1], list[n])
            ELSE kept[n - 1]
    IN  kept[Len(list)]

\* x stands before y in list.
Precedes(list, x, y) ==
    \E i, j \in 1..Len(list) : i < j /\ list[i] = x /\ list[j] = y
=============================================================================
