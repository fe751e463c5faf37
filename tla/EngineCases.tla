----------------------------- MODULE EngineCases -----------------------------
(***************************************************************************)
(* What Engines is called with: a claim, its retirement and successor, a   *)
(* claim of another subject, one that is refused, and commits under a      *)
(* schema that lets an item have one outgoing link.                        *)
(***************************************************************************)
EXTENDS RuntimeGraph

ClaimAt(subject, object, from, to, tx) ==
  [subject |-> subject, predicate |-> 1, object |-> object, from |-> from, to |-> to, tx |-> tx]
First == ClaimAt(1, "a", 1, NoEnd, 1)
Retirement == ClaimAt(1, "a", 1, 2, 2)
Successor == ClaimAt(1, "b", 2, 3, 2)
Other == ClaimAt(2, "a", 1, NoEnd, 1)
Backwards == ClaimAt(1, "c", 2, 1, 3)

MCBatches == {<<First>>, <<Retirement, Successor>>, <<Other, First>>, <<First, Backwards>>}

Item(id) == [kind |-> "item", id |-> id]
ItemOf(id) == RecordOf([reference |-> Item(id), valid_from |-> 0, valid_to |-> NoEnd, properties |-> <<>>])
Link(id, from, to) ==
  RelationOf([reference |-> [kind |-> "link", id |-> id], from |-> Item(from), to |-> Item(to),
              valid_from |-> 0, valid_to |-> NoEnd])
Govern(revision) ==
  SchemaOf(Registry(revision, [item |-> RecordSchema(<<>>, FALSE, {})],
                    [link |-> RelationSchema({"item"}, {"item"}, FALSE, 1, NoEnd)],
                    [noted |-> EventSchema(TRUE, {"item"})]))
Note(id) == EventOf([kind |-> "noted", subject |-> {Item(id)}, content |-> <<>>])

MCBodies == {<<Govern(1), ItemOf("x"), ClaimOf(Other)>>,
             <<Govern(2), Note("x"), DataOf("vector", "d", {Item("x")})>>,
             <<ItemOf("y"), Link("l", "x", "y")>>,
             <<ItemOf("y"), Link("m", "x", "y")>>}
=============================================================================
