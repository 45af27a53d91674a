----------------------------- MODULE MCDataNode -----------------------------
(***************************************************************************)
(* The instances of the parts of a data node.                              *)
(***************************************************************************)
EXTENDS DataNode

\* Two vectors with two embeddings, each of which another vector can have.
MCEmbOf == [vx |-> {0, 1}, vy |-> {1}, vz |-> {3}, vw |-> {7, 0}]

\* Similarity on a line: the negative distance.
MCSim == [p \in Emb \X Emb |-> IF p[1] < p[2] THEN p[1] - p[2] ELSE p[2] - p[1]]

MCEntry == {[emb |-> <<1, 0>>, meta |-> [tag |-> "a", tier |-> "x"]],
            [emb |-> <<3, 3>>, meta |-> [tag |-> "b"]],
            [emb |-> <<0, 2>>, meta |-> NoMeta]}

MCQuery == {<<1, 0>>, <<1, 2, 3>>}

Cl(op, key, val) == [op |-> op, key |-> key, val |-> val]

\* No filter, filters in the known syntax, one joined by "And", one with ">".
MCFilter ==
    {[join |-> "AND", clauses |-> <<>>],
     [join |-> "AND", clauses |-> <<Cl("==", "tag", "a"), Cl("!=", "tier", "y")>>],
     [join |-> "AND", clauses |-> <<Cl("=", "tag", "b"), Cl("=", "tier", "x")>>],
     [join |-> "And", clauses |-> <<Cl("=", "tag", "a"), Cl("!=", "tier", "x")>>],
     [join |-> "AND", clauses |-> <<Cl(">", "tag", "a")>>]}
=============================================================================
