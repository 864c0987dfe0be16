------------------------------ MODULE LruCache ------------------------------
(***************************************************************************)
(* LRUCache of src/recommend/FeatureStore.hpp: a map from keys to the nodes *)
(* of a doubly linked list between two sentinels. A cache is a record of    *)
(* the pointers of the list and of what the map refers to; a node is known  *)
(* by its key, since the map never refers to two nodes of one key. A node   *)
(* that has left the list keeps its own pointers, as in the code, and goes  *)
(* when the map forgets it.                                                 *)
(***************************************************************************)
EXTENDS Integers, FiniteSets, Sequences, Functions

CONSTANT Keys
ASSUME KeysAssumption == Keys \subseteq Nat

Head0 == -1      \* head_
Tail0 == -2      \* tail_

NewCache ==
    [next  |-> [n \in {Head0} |-> Tail0],
     prev  |-> [n \in {Tail0} |-> Head0],
     value |-> <<>>]

Cached(c) == DOMAIN c.value
Size(c)   == Cardinality(Cached(c))

\* The map f with y under x.
Binding(f, x, y) == [z \in DOMAIN f \union {x} |-> IF z = x THEN y ELSE f[z]]

InsertToHead(c, k) ==
    LET first == c.next[Head0] IN
    [c EXCEPT !.next = Binding(Binding(@, k, first), Head0, k),
              !.prev = Binding(Binding(@, k, Head0), first, k)]

RemoveNode(c, k) ==
    [c EXCEPT !.next[c.prev[k]] = c.next[k],
              !.prev[c.next[k]] = c.prev[k]]

MoveToHead(c, k) == InsertToHead(RemoveNode(c, k), k)

RemoveTail(c) == RemoveNode(c, c.prev[Tail0])

\* The map forgets a key, and with it goes the last reference to its node.
Erase(c, k) ==
    [next  |-> Restrict(c.next, DOMAIN c.next \ {k}),
     prev  |-> Restrict(c.prev, DOMAIN c.prev \ {k}),
     value |-> Restrict(c.value, Cached(c) \ {k})]

\* A slip: a node that is found stays where it is.
GetInPlace(c, k) == c

Get(c, k) == IF k \in Cached(c) THEN MoveToHead(c, k) ELSE c

\* The new node is linked in first; then the last one goes, which is the new
\* one itself when the capacity is zero.
Put(c, k, v, capacity) ==
    LET more == InsertToHead([c EXCEPT !.value = Binding(@, k, v)], k)
        last == more.prev[Tail0]
    IN  CASE k \in Cached(c) -> MoveToHead([c EXCEPT !.value[k] = v], k)
          [] k \notin Cached(c) /\ Size(more) <= capacity -> more
          [] OTHER -> Erase(RemoveTail(more), last)

\* The list is empty again; the map's nodes go.
Clear == NewCache

-----------------------------------------------------------------------------
\* The keys met on the way along the pointers p from one sentinel to the other,
\* of no more steps than there are nodes.
Walk(p, from, to) ==
    LET steps == 0 .. Cardinality(DOMAIN p)
        at[n \in steps] ==
            IF n = 0 THEN p[from]
            ELSE IF at[n - 1] = to THEN to ELSE p[at[n - 1]]
        length == Cardinality({n \in steps : at[n] # to})
    IN  [i \in 1 .. length |-> at[i - 1]]

Order(c) == Walk(c.next, Head0, Tail0)

=============================================================================
