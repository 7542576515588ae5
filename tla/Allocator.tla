----------------------------- MODULE Allocator ------------------------------
(***************************************************************************)
(* What a pool of memory promises its users: whoever gets memory gets some *)
(* inside the pool that nobody else holds, until it is given back.         *)
(***************************************************************************)
EXTENDS Integers

CONSTANT Size

VARIABLE held    \* the regions in use: records [at, size]

Disjoint(r, s) == r.at + r.size <= s.at \/ s.at + s.size <= r.at
Inside(r) == r.at \in Nat /\ r.size \in Nat \ {0} /\ r.at + r.size <= Size

Init == held = {}
Get(r) ==
    /\ Inside(r)
    /\ \A s \in held : Disjoint(r, s)
    /\ held' = held \union {r}
GiveBack == held' \subseteq held
Next == GiveBack \/ \E r \in held' : Get(r)
Spec == Init /\ [][Next]_held

=============================================================================
