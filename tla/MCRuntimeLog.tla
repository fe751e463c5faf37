----------------------------- MODULE MCRuntimeLog ----------------------------
(***************************************************************************)
(* RuntimeLog with two items that share a unique name, a link between them *)
(* with a cardinality limit, and a vector on one of them.                  *)
(***************************************************************************)
EXTENDS RuntimeLog

CONSTANTS x, y, l, d, n1, n2, g1, g2

Item(id) == [kind |-> "item", id |-> id]
Named(id, from, to, name) ==
    RecordOf([reference |-> Item(id), valid_from |-> from, valid_to |-> to,
              properties |-> [name |-> name]])
Link(from, to) ==
    RelationOf([reference |-> [kind |-> "link", id |-> l], from |-> from, to |-> to,
                valid_from |-> 0, valid_to |-> NoEnd])

ItemSchema == RecordSchema([name |-> Property(TRUE, {n1, n2})], FALSE, {"name"})
LinkSchema == RelationSchema({"item"}, {"item"}, TRUE, 1, NoEnd)
Noted == EventSchema(TRUE, {"item"})
Govern(revision) ==
    SchemaOf(Registry(revision, [item |-> ItemSchema], [link |-> LinkSchema], [noted |-> Noted]))
Note(id) == EventOf([kind |-> "noted", subject |-> {Item(id)}, content |-> <<>>])

MCBodies ==
    {<<Govern(1), Named(x, 0, NoEnd, n1), Note(x), DataOf("vector", d, {Item(x)})>>,
     <<Govern(1), Named(y, 0, 1, n2)>>,
     <<Named(x, 1, NoEnd, n2), Link(Item(x), Item(y))>>,
     <<Named(y, 0, NoEnd, n1)>>}

\* Run g1 waits for its outcome in the former format.
MCRunOrder == <<g1, g2>>
MCLegacy ==
    [run \in {g1, g2} |->
       IF run = g2 THEN <<>>
       ELSE LET payloads == <<"goal", "plan", "attempt", "observation", "verify", "checks passed">>
            IN  [i \in 1..6 |-> [ordinal |-> i, payload |-> payloads[i]]]]

\* Records alone, for what readers see.
UniqueBodies ==
    {<<Govern(1)>>} \cup
    {<<Named(id, from, NoEnd, name)>> : id \in {x, y}, from \in {0, 1}, name \in {n1, n2}}

ClientSymmetry == Permutations(Reasoners)
=============================================================================
