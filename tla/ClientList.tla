----------------------------- MODULE ClientList -----------------------------
(***************************************************************************)
(* src/lib/list.h: the circular list with a head that server.c keeps its   *)
(* clients in, as the two pointer fields of every node.                    *)
(***************************************************************************)
EXTENDS Naturals, FiniteSets

CONSTANTS
  Node,                 \* the nodes, one in each client
  ListHead,             \* the list itself
  Gone                  \* what list_del leaves in the removed node

EmptyList ==
  LET self == [n \in Node \cup {ListHead} |-> IF n = ListHead THEN ListHead ELSE Gone]
  IN  [next |-> self, prev |-> self]

\* list_add_tail takes the head for the last node whatever the list holds.
AddTail(l, n) ==
  LET prev == ListHead
  IN  [next |-> [l.next EXCEPT ![n] = ListHead, ![prev] = n],
       prev |-> [l.prev EXCEPT ![ListHead] = n, ![n] = prev]]

\* Mutant: the successor keeps its pointer to the removed node.
DelForward(l, n) ==
  LET next == l.next[n]
      prev == l.prev[n]
  IN  [next |-> [l.next EXCEPT ![prev] = next, ![n] = Gone],
       prev |-> [l.prev EXCEPT ![n] = prev]]

\* list_del.
Del(l, n) ==
  LET next == l.next[n]
      prev == l.prev[n]
  IN  [next |-> [l.next EXCEPT ![prev] = next, ![n] = Gone],
       prev |-> [l.prev EXCEPT ![next] = prev, ![n] = Gone]]

\* Where a walk along next is after i steps from the head.
Walk(l, n) ==
  LET at[i \in 0 .. n] == IF i = 0 THEN ListHead
                          ELSE IF at[i - 1] = Gone THEN Gone ELSE l.next[at[i - 1]]
  IN  at

\* The nodes that a walk over the whole list meets.
Members(l) ==
  LET at == Walk(l, Cardinality(Node))
  IN  {n \in Node : \E i \in DOMAIN at : at[i] = n}
=============================================================================
