-------------------------------- MODULE Hnsw --------------------------------
(***************************************************************************)
(* The approximate vector index (services/node-agent/src/storage/vector,   *)
(* hnsw.rs): a graph in layers.  A node is linked, on each of its layers,  *)
(* to the nearest nodes it found there when it was inserted; those link    *)
(* back and keep their m_max nearest, so that links become one-way; the    *)
(* removal of a node takes it from the lists of the nodes it links to and  *)
(* leaves it in the lists of the others.                                   *)
(*                                                                         *)
(* The level of a node is random, and so is the entry point after a        *)
(* removal (the first key of a hash map).  Embeddings are values, and a    *)
(* similarity is an integer.  Nodes that are equally similar are sorted in *)
(* some order: in the code, that in which the walk met them.               *)
(***************************************************************************)
EXTENDS Integers, Sequences, FiniteSets, SequencesExt

CONSTANTS
    VecId,          \* the ids of vectors
    NoEntry,        \* entry_point == None
    Emb,            \* embeddings, of vectors and of queries
    EmbOf,          \* the embeddings that inserts give to each vector
    Sim,            \* cosine_similarity, as a function of two embeddings
    M,              \* m and m_max
    EfConstruction, \* how many candidates an insert keeps
    EfSearch,       \* how many a search keeps, if it is not asked for more
    MaxLevel,       \* bound on the random level
    MaxChanges      \* bound on inserts and removals

ASSUME HnswConstants ==
    /\ NoEntry \notin VecId
    /\ EmbOf \in [VecId -> SUBSET Emb]
    /\ Sim \in [Emb \X Emb -> Int]
    /\ M \in Nat \ {0} /\ MaxLevel \in Nat /\ MaxChanges \in Nat
    /\ EfConstruction \in Nat /\ EfConstruction > M   \* 64 and 16
    /\ EfSearch \in Nat /\ EfSearch > M               \* 32 and 16

VARIABLES
    index,          \* nodes, entry_point and max_level
    simple,         \* history: at most M + 1 nodes since the last clear
    answer,         \* the last search, with its result
    changes         \* how much of MaxChanges is used up

hnswVars == <<index, simple, answer, changes>>

Ids(ix) == DOMAIN ix.nodes

Empty == [nodes |-> [v \in {} |-> 0], entry |-> NoEntry, max |-> 0]

NoAnswer == [query |-> NoEntry, k |-> 0, ids |-> <<>>]

\* The list of node x on a level, empty when x has no such level.
Links(ix, x, level) ==
    IF level <= ix.nodes[x].level THEN ix.nodes[x].nb[level] ELSE <<>>

\* The neighbours that a walk follows: an id that is gone is passed over.
Alive(ix, x, level) == ToSet(Links(ix, x, level)) \cap Ids(ix)

SimTo(ix, q, x) == Sim[<<q, ix.nodes[x].emb>>]

\* One of those of a set that are the most similar to q.
Nearest(ix, q, S) ==
    CHOOSE x \in S : \A y \in S : SimTo(ix, q, x) >= SimTo(ix, q, y)

\* The ids of a set, the most similar to q first.
Ranked(ix, q, S) ==
    LET first[i \in 0..Cardinality(S)] ==
            IF i = 0 THEN <<>>
            ELSE LET s == first[i - 1]
                 IN Append(s, Nearest(ix, q, S \ ToSet(s)))
    IN first[Cardinality(S)]

\* The first n of a list, or all of it: take, truncate.
Take(s, n) == SubSeq(s, 1, IF Len(s) > n THEN n ELSE Len(s))

-----------------------------------------------------------------------------
(* Walking the graph *)

\* search_layer_closest: the best neighbour, as long as there is a better one.
SearchLayerClosest(ix, q, start, level) ==
    LET better(x) == {y \in Alive(ix, x, level) : SimTo(ix, q, y) > SimTo(ix, q, x)}
        step[i \in 0..Cardinality(Ids(ix))] ==
            IF i = 0 THEN start
            ELSE LET x == step[i - 1]
                 IN IF better(x) = {} THEN x ELSE Nearest(ix, q, better(x))
    IN step[Cardinality(Ids(ix))]

\* What can be reached from a node on a level, itself included.
Reach(ix, start, level) ==
    LET step[i \in 0..Cardinality(Ids(ix))] ==
            IF i = 0 THEN {start}
            ELSE LET T == step[i - 1]
                 IN T \cup UNION {Alive(ix, x, level) : x \in T}
    IN step[Cardinality(Ids(ix))]

\* search_layer: the ef best that can be reached, best first.
SearchLayer(ix, q, start, ef, level) == Take(Ranked(ix, q, Reach(ix, start, level)), ef)

\* From the top layer down to `last' + 1, one walk each.
Descend(ix, q, start, top, last) ==
    LET walk[i \in 0..(top - last)] ==
            IF i = 0 THEN start
            ELSE SearchLayerClosest(ix, q, walk[i - 1], top + 1 - i)
    IN IF top > last THEN walk[top - last] ELSE start

\* search: down to layer 0, and the best top_k of what is reached there.
Search(ix, q, k) ==
    IF ix.entry = NoEntry \/ Ids(ix) = {} THEN <<>>
    ELSE Take(SearchLayer(ix, q, Descend(ix, q, ix.entry, ix.max, 0),
                          IF k > EfSearch THEN k ELSE EfSearch, 0), k)

-----------------------------------------------------------------------------
(* remove *)

\* retain(|x| x != id)
Without(s, id) ==
    LET kept[i \in 0..Len(s)] ==
            IF i = 0 THEN <<>>
            ELSE IF s[i] = id THEN kept[i - 1] ELSE Append(kept[i - 1], s[i])
    IN kept[Len(s)]

\* A node with other lists.
Rewired(node, nb) == [emb |-> node.emb, level |-> node.level, nb |-> nb]

\* The nodes without id, which leaves the lists of the nodes that it links to.
Unlinked(ix, id) ==
    [x \in Ids(ix) \ {id} |->
       LET nb == ix.nodes[x].nb
       IN Rewired(ix.nodes[x], [l \in DOMAIN nb |->
            IF x \in ToSet(Links(ix, id, l)) THEN Without(nb[l], id) ELSE nb[l]])]

\* The entry points after a removal: any node, if the entry point was removed.
EntryAfter(ix, id) ==
    IF ix.entry # id THEN {ix.entry}
    ELSE IF Ids(ix) = {id} THEN {NoEntry} ELSE Ids(ix) \ {id}

\* remove: the possible results; max_level stays.
Removed(ix, id) ==
    {[nodes |-> Unlinked(ix, id), entry |-> e, max |-> ix.max] :
       e \in EntryAfter(ix, id)}

-----------------------------------------------------------------------------
(* insert *)

\* A list that is too long keeps the M most similar of those still there.
Prune(ix, x, id, emb, list) ==
    IF Len(list) <= M THEN list
    ELSE LET sim(y) == Sim[<<ix.nodes[x].emb,
                             IF y = id THEN emb ELSE ix.nodes[y].emb>>]
             there == SelectSeq(list, LAMBDA y : y = id \/ y \in Ids(ix))
         IN Take(SortSeq(there, LAMBDA y, z : sim(y) > sim(z)), M)

\* Mutant: the neighbours do not link back.
LinkOneWay(ix, nbs, level, id, emb) == ix

\* Each chosen neighbour that has the level links back.
LinkBack(ix, nbs, level, id, emb) ==
    [ix EXCEPT !.nodes = [x \in Ids(ix) |->
       IF x \in ToSet(nbs) /\ level <= ix.nodes[x].level
       THEN [ix.nodes[x] EXCEPT !.nb[level] =
               Prune(ix, x, id, emb, Append(ix.nodes[x].nb[level], id))]
       ELSE ix.nodes[x]]]

\* One layer of the insertion: its nearest m become the neighbours there.
Connect(s, level, id, emb) ==
    LET nbs == Take(SearchLayer(s.ix, emb, s.cur, EfConstruction, level), M)
    IN [ix |-> LinkBack(s.ix, nbs, level, id, emb),
        cur |-> IF nbs = <<>> THEN s.cur ELSE nbs[1],
        nb |-> [s.nb EXCEPT ![level] = nbs]]

\* insert of an id that is not there, on a given level.
Inserted(ix, id, emb, level) ==
    LET none == [l \in 0..level |-> <<>>]
        node(nb) == [emb |-> emb, level |-> level, nb |-> nb]
        add(jx, nb) == [v \in Ids(ix) \cup {id} |->
                          IF v = id THEN node(nb)
                          ELSE Rewired(ix.nodes[v], jx.nodes[v].nb)]
        start == IF level < ix.max THEN level ELSE ix.max
        s0 == [ix |-> ix, nb |-> none,
               cur |-> Descend(ix, emb, ix.entry, ix.max, level)]
        after[i \in 0..(start + 1)] ==
            IF i = 0 THEN s0 ELSE Connect(after[i - 1], start + 1 - i, id, emb)
        s == after[start + 1]
    IN IF ix.entry = NoEntry
       THEN [nodes |-> add(ix, none), entry |-> id, max |-> level]
       ELSE [nodes |-> add(s.ix, s.nb),
             entry |-> IF level > ix.max THEN id ELSE ix.entry,
             max |-> IF level > ix.max THEN level ELSE ix.max]

-----------------------------------------------------------------------------
(* The calls *)

Change == changes < MaxChanges /\ changes' = changes + 1 /\ answer' = NoAnswer

\* insert: an id that is there is removed first.
InsertCall(id, emb, level) ==
    /\ Change
    /\ \E ix \in IF id \in Ids(index) THEN Removed(index, id) ELSE {index} :
          /\ index' = Inserted(ix, id, emb, level)
          /\ simple' = (simple /\ Cardinality(Ids(ix)) <= M)

RemoveCall(id) ==
    /\ Change
    /\ id \in Ids(index)
    /\ index' \in Removed(index, id)
    /\ UNCHANGED simple

Clear ==
    /\ Change
    /\ index' = Empty /\ simple' = TRUE

\* search, by one caller after another: it changes nothing.
SearchCall(q, k) ==
    /\ answer = NoAnswer
    /\ answer' = [query |-> q, k |-> k, ids |-> Search(index, q, k)]
    /\ UNCHANGED <<index, simple, changes>>

HnswInit == index = Empty /\ simple = TRUE /\ answer = NoAnswer /\ changes = 0

HnswNext ==
    \/ \E id \in VecId, level \in 0..MaxLevel : \E emb \in EmbOf[id] :
          InsertCall(id, emb, level)
    \/ \E id \in VecId : RemoveCall(id)
    \/ Clear
    \/ \E q \in Emb, k \in 1..2 : SearchCall(q, k)

HnswSpec == HnswInit /\ [][HnswNext]_hnswVars

-----------------------------------------------------------------------------
(* Properties *)

\* No walk starts from an id that is gone (the unwrap of hnsw.rs:153 and 183):
\* the entry point is an indexed node, none exactly when the index is empty;
\* and no node is above the layer at which a search starts.
EntryIndexed ==
    /\ index.entry = NoEntry <=> Ids(index) = {}
    /\ Ids(index) # {} => index.entry \in Ids(index)
    /\ \A x \in Ids(index) : index.nodes[x].level <= index.max

\* Whether ids are the k most similar to q of an index, or all of it, in order.
Exact(ix, q, k, ids) ==
    /\ Len(ids) = IF Cardinality(Ids(ix)) > k THEN k ELSE Cardinality(Ids(ix))
    /\ \A i, j \in 1..Len(ids) :
          i < j => ids[i] # ids[j] /\ SimTo(ix, q, ids[i]) >= SimTo(ix, q, ids[j])
    /\ ToSet(ids) \subseteq Ids(ix)
    /\ \A x \in Ids(ix) \ ToSet(ids), y \in ToSet(ids) :
          SimTo(ix, q, y) >= SimTo(ix, q, x)

\* As long as the index has held no more than m + 1 vectors, the search is
\* exact: it finds the top_k best, whatever the levels, the order of inserts
\* and removals and the entry points chosen (hnsw.rs, search).
ExactWhileSmall ==
    simple /\ answer # NoAnswer => Exact(index, answer.query, answer.k, answer.ids)

\* No search panics for want of its entry point, and a small index answers
\* exactly (hnsw.rs, insert, remove, search).
IndexSound == EntryIndexed /\ ExactWhileSmall
=============================================================================
