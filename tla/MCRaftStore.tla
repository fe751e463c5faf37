----------------------------- MODULE MCRaftStore -----------------------------
(* RaftStore for TLC: histories that start with a membership and a placement.   *)
(* They go on with every sequence of entries about membership and requests, or  *)
(* with one about expected indexes, reused request ids and repeated commits.    *)
EXTENDS RaftStore

Start == <<Membership("a"), Normal(Command("s", 1, {}, Transition("a")))>>

Rebind == Normal(Command("t", 2, {}, Transition("a")))
Work == Normal(Command("p", 1, {}, Probe("x")))
WorkAfter(n) == Normal(Command("p", 1, {n}, Probe("x")))
Publish(id, commit) == Normal(Command(id, 1, {}, Runtime(commit, 0)))

Tails ==
    {<<x, y, z>> : x, y, z \in {Membership("a"), Membership("b"), Rebind, Work}}
      \cup {<<Publish("q", "c"), Publish("r", x), Publish("q", y)>> : x, y \in {"c", "d"}}
      \cup {<<WorkAfter(n), x, Blank>> : n \in 1..2, x \in {Work, WorkAfter(2)}}

MCHistories ==
    {[i \in DOMAIN h |-> [term |-> IF i <= Len(Start) THEN 1 ELSE 2, payload |-> h[i]]] :
        h \in {Start \o t : t \in Tails}}
=============================================================================
