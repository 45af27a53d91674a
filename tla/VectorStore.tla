---------------------------- MODULE VectorStore -----------------------------
(***************************************************************************)
(* The vectors of a worker agent (services/worker-node/agent): InsertVector*)
(* and SearchVector over a map from databases to vectors, in memory only   *)
(* and independent of which databases the agent hosts.                     *)
(*                                                                         *)
(* A search copies the entries that match the filter under the mutex and   *)
(* scores them afterwards; since entries are replaced and never changed,   *)
(* the answer is that of the moment of the copy, and one step.  Embeddings *)
(* are short sequences of integers; two cosines are compared exactly,      *)
(* without the square roots and the rounding of float32.                   *)
(***************************************************************************)
EXTENDS Integers, Sequences, FiniteSets, SequencesExt, Sums

CONSTANTS
    VecDb,          \* database ids, "default" among them
    Vec,            \* vector ids
    Entry,          \* the entries of inserts: embedding, and metadata as a
                    \* function from keys to values
    Query,          \* the embeddings of searches
    Filter,         \* the filter expressions of searches
    MaxInserts      \* bound on the number of inserts

ASSUME VectorConstants ==
    Query \subseteq Seq(Int) /\ \A entry \in Entry : entry.emb \in Seq(Int)

NoMeta == [k \in {} |-> ""]

\* The zero value of a Go string.
NoValue == ""

VARIABLES
    vectors,        \* database -> vector id -> entry; an absent id has none
    nextLSN,        \* the LSN of the last insert
    found           \* the last search, with its answer

vectorVars == <<vectors, nextLSN, found>>

-----------------------------------------------------------------------------
(* cosineSimilarity *)

Dot(a, b) == Product(a, b)

\* A cosine, as the dot product over the root of the two squared lengths;
\* 0 over 1 when the lengths differ, are 0, or a vector is null.
cosineSimilarity(a, b) ==
    IF Len(a) # Len(b) \/ Len(a) = 0 \/ Dot(a, a) = 0 \/ Dot(b, b) = 0
    THEN [dot |-> 0, sq |-> 1]
    ELSE [dot |-> Dot(a, b), sq |-> Dot(a, a) * Dot(b, b)]

\* Whether the cosine s is greater than t: compare the signed squares.
Exceeds(s, t) ==
    LET signed(d) == IF d < 0 THEN - d * d ELSE d * d
    IN signed(s.dot) * t.sq > signed(t.dot) * s.sq

-----------------------------------------------------------------------------
(* matchesFilter *)

\* The value of a key in the lookup map, "" for a key that is not there.
Lookup(meta, key) == IF key \in DOMAIN meta THEN meta[key] ELSE NoValue

\* One clause.  Text without any of the three operators is passed over; ">="
\* is read as "=" with a key that no metadata has.
MatchesClause(meta, c) ==
    CASE c.op = "!=" -> Lookup(meta, c.key) # c.val
      [] c.op \in {"==", "="} -> Lookup(meta, c.key) = c.val
      [] c.op = ">=" -> FALSE
      [] c.op = ">" -> TRUE

\* Mutant: one matching clause is enough.
MatchesAnyClause(meta, expr) ==
    \/ expr.clauses = <<>>
    \/ \E i \in 1..Len(expr.clauses) : MatchesClause(meta, expr.clauses[i])

\* A filter is a list of clauses and what joins them.  The word "And" in mixed
\* case is recognised but not split at, which leaves one clause whose key and
\* value match nothing: "!=" holds, "=" does not.
matchesFilter(meta, expr) ==
    \/ expr.clauses = <<>>
    \/ /\ meta # NoMeta
       /\ LET ops == {expr.clauses[i].op : i \in 1..Len(expr.clauses)}
          IN IF expr.join = "And" /\ Len(expr.clauses) > 1
             THEN "!=" \in ops \/ ops \subseteq {">"}
             ELSE \A i \in 1..Len(expr.clauses) :
                     MatchesClause(meta, expr.clauses[i])

-----------------------------------------------------------------------------
(* The calls *)

\* Before the first search after an insert.
NoSearch == [query |-> <<>>, k |-> 0, filter |-> [join |-> "AND", clauses |-> <<>>],
             store |-> [v \in {} |-> 0], ids |-> <<>>]

\* The entry of v is set, the others stay.
Store(store, db, v, entry) ==
    [store EXCEPT ![db] = [u \in DOMAIN @ \cup {v} |->
                             IF u = v THEN entry ELSE @[u]]]

\* The LSN of the next insert, of any database.
NextLsn(db) == nextLSN + 1

\* InsertVector: an empty database id means "default"; under the mutex.
InsertVector(db, v, entry) ==
    /\ nextLSN < MaxInserts
    /\ vectors' = Store(vectors, db, v, entry)
    /\ nextLSN' = NextLsn(db)
    /\ found' = NoSearch

\* top_k: 10 unless it is positive, and at most the number of candidates.
TopK(k, n) == LET want == IF k <= 0 THEN 10 ELSE k
              IN IF want > n THEN n ELSE want

\* The ids that a search of a collection returns, best first.  The map is
\* walked in any order, so that entries of equal similarity come in any order.
Results(store, q, k, expr) ==
    LET matching == {v \in DOMAIN store : matchesFilter(store[v].meta, expr)}
        sim(v) == cosineSimilarity(q, store[v].emb)
        sorted == {s \in SetToSeqs(matching) :
                     \A i, j \in 1..Len(s) :
                        i < j => ~ Exceeds(sim(s[j]), sim(s[i]))}
    IN {SubSeq(s, 1, TopK(k, Len(s))) : s \in sorted}

\* A search changes nothing that another one sees: one between two inserts.
SearchVector(db, q, k, expr) ==
    /\ found = NoSearch
    /\ \E r \in Results(vectors[db], q, k, expr) :
          found' = [query |-> q, k |-> k, filter |-> expr,
                    store |-> vectors[db], ids |-> r]
    /\ UNCHANGED <<vectors, nextLSN>>

\* The process restarts: the vectors were nowhere else.
VectorsLost ==
    /\ vectors' = [db \in VecDb |-> [v \in {} |-> 0]]
    /\ nextLSN' = 0
    /\ found' = NoSearch

VectorInit ==
    /\ vectors = [db \in VecDb |-> [v \in {} |-> 0]]
    /\ nextLSN = 0 /\ found = NoSearch

VectorNext ==
    \/ \E db \in VecDb, v \in Vec, entry \in Entry : InsertVector(db, v, entry)
    \/ \E db \in VecDb, q \in Query, k \in 0..2, expr \in Filter :
          SearchVector(db, q, k, expr)
    \/ VectorsLost

VectorSpec == VectorInit /\ [][VectorNext]_vectorVars

-----------------------------------------------------------------------------
(* Properties *)

\* Whether an embedding points in the direction of the query.
Aligned(q, e) ==
    /\ Len(q) = Len(e) /\ Dot(q, e) > 0
    /\ \A i, j \in 1..Len(q) : q[i] * e[j] = q[j] * e[i]

\* A search never leaves out a matching vector that points along the query for
\* the sake of one that does not, whatever their lengths, and returns as many
\* as there are up to top_k (server.go, SearchVector, cosineSimilarity).
AlignedFirst ==
    LET ids == ToSet(found.ids)
        aligned(v) == Aligned(found.query, found.store[v].emb)
        left == {v \in DOMAIN found.store \ ids :
                   matchesFilter(found.store[v].meta, found.filter)}
    IN /\ \A v \in left : aligned(v) => \A w \in ids : aligned(w)
       /\ left # {} => Len(found.ids) = IF found.k <= 0 THEN 10 ELSE found.k

\* "Pre-filtered vector search guaranteeing 0% non-matching record leakage"
\* (docs/benchmarks.md:87): for a filter in the syntax that the code knows, a
\* search returns only vectors that satisfy every clause (server.go,
\* matchesFilter).
NoLeakage ==
    LET clauses == found.filter.clauses
        known == /\ found.filter.join = "AND"
                 /\ \A i \in 1..Len(clauses) : clauses[i].op \in {"=", "==", "!="}
    IN known => \A v \in ToSet(found.ids) : \A i \in 1..Len(clauses) :
                  LET meta == found.store[v].meta
                      c == clauses[i]
                  IN (c.op # "!=") <=> (c.key \in DOMAIN meta
                                         /\ meta[c.key] = c.val)

\* What a search returns matches its filter, and nothing nearer was left out
\* (server.go, SearchVector).
SearchSound == AlignedFirst /\ NoLeakage
=============================================================================
