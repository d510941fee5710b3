------------------------------- MODULE UtList -------------------------------
(***************************************************************************)
(* The doubly-linked lists of utlist.h, as every list of the firmware uses *)
(* them: the head's prev is the tail and the tail's next is NULL.  A list  *)
(* head and the links of the elements are values; an operation gives the   *)
(* new ones.                                                               *)
(***************************************************************************)
EXTENDS Naturals, FiniteSets

CONSTANT NULL

(* A memory: m.next and m.prev are functions on the elements. *)
Link(m, x, n, p) == [next |-> [m.next EXCEPT ![x] = n],
                     prev |-> [m.prev EXCEPT ![x] = p]]
SetNext(m, x, n) == [m EXCEPT !.next[x] = n]
SetPrev(m, x, p) == [m EXCEPT !.prev[x] = p]

(* DL_APPEND(head, add) *)
Appended(head, m, x) ==
    IF head = NULL
    THEN [head |-> x, mem |-> Link(m, x, NULL, x)]
    ELSE LET m1 == SetPrev(m, x, m.prev[head])
             m2 == SetNext(m1, m1.prev[head], x)
             m3 == SetPrev(m2, head, x)
         IN  [head |-> head, mem |-> SetNext(m3, x, NULL)]

(* DL_DELETE(head, del), when its assertions hold. *)
Deleted(head, m, x) ==
    IF m.prev[x] = x THEN [head |-> NULL, mem |-> m]
    ELSE IF x = head
    THEN [head |-> m.next[x], mem |-> SetPrev(m, m.next[x], m.prev[x])]
    ELSE LET m1 == SetNext(m, m.prev[x], m.next[x])
         IN  [head |-> head,
              mem  |-> SetPrev(m1, IF m1.next[x] # NULL THEN m1.next[x] ELSE head,
                               m1.prev[x])]

(* DL_FOREACH: the elements a walk from head meets. *)
Walked(head, m) ==
    LET Elements == DOMAIN m.next
        reach[i \in 0 .. Cardinality(Elements)] ==
            IF i = 0 THEN {head} \ {NULL}
            ELSE reach[i-1] \cup ({m.next[x] : x \in reach[i-1]} \ {NULL})
    IN  reach[Cardinality(Elements)]
=============================================================================
