------------------------ MODULE FaultTreeEditorProofs ------------------------
(***************************************************************************)
(* What the operations do to a fault tree, for every graph a user may have *)
(* saved, every number of nodes and every length of a batch.               *)
(*                                                                         *)
(* A set of edges is seen as a relation on node ids first, and the shape   *)
(* of a graph (no cycle, all under the top, who is below whom) by the sets *)
(* of ids closed under the relation.  Each operation changes the relation  *)
(* in one of four ways: it hangs a new id under another, puts a new id in  *)
(* between, takes an id out, or hangs an id elsewhere.                     *)
(***************************************************************************)
EXTENDS FaultTreeEditor, FiniteSetTheorems, TLAPS

\* The links of a graph, as a relation.
Links(g) == {<<e.from, e.to>> : e \in g.edges}

IsLinks(R) == R \subseteq Nodes \X Nodes

ClosedUnder(R, S) == \A a, b \in Nodes : <<a, b>> \in R /\ a \in S => b \in S

NoCycle(R) ==
  \A S \in SUBSET Nodes : S # {} => \E n \in S : \A m \in S : <<n, m>> \notin R

\* The ids a relation leads to from n, n included.
From(R, n) == {m \in Nodes : \A S \in SUBSET Nodes : n \in S /\ ClosedUnder(R, S) => m \in S}

-----------------------------------------------------------------------------
(* The four ways to change a relation.                                     *)

\* A new id below p.
Hang(R, p, n) == R \union {<<p, n>>}

\* A new id between p and some of the ids below it.
Between(R, p, n, C) == (R \ {<<p, c>> : c \in C}) \union {<<p, n>>} \union {<<n, c>> : c \in C}

\* Without the ids of a set.
Without(R, gone) == {l \in R : l[1] \notin gone /\ l[2] \notin gone}

\* What is above n is linked to what is below it.
Through(R, n) == {l \in Nodes \X Nodes : <<l[1], n>> \in R /\ <<n, l[2]>> \in R /\ l[1] # l[2]}

\* n below p and nothing else.
Rehang(R, p, n) == {l \in R : l[2] # n} \union {<<p, n>>}

\* n is at no end of R.
New(R, n) == \A m \in Nodes : <<n, m>> \notin R /\ <<m, n>> \notin R

\* The ids below n are closed.
LEMMA FromClosed ==
  ASSUME NEW R, IsLinks(R), NEW n \in Nodes
  PROVE  n \in From(R, n) /\ From(R, n) \subseteq Nodes /\ ClosedUnder(R, From(R, n))
  BY DEF From, ClosedUnder, IsLinks

\* ... and in every closed set that has n.
LEMMA FromLeast ==
  ASSUME NEW R, NEW n, NEW S \in SUBSET Nodes, n \in S, ClosedUnder(R, S)
  PROVE  From(R, n) \subseteq S
  BY DEF From

\* A new id below another draws no cycle.
LEMMA HangNoCycle ==
  ASSUME NEW R, IsLinks(R), NoCycle(R), NEW n \in Nodes, NEW p \in Nodes, New(R, n), p # n
  PROVE  NoCycle(Hang(R, p, n))
  <1> SUFFICES ASSUME NEW S \in SUBSET Nodes, S # {}
               PROVE  \E k \in S : \A m \in S : <<k, m>> \notin Hang(R, p, n)
    BY DEF NoCycle
  <1>1. CASE n \in S
    <2>1. \A m \in S : <<n, m>> \notin Hang(R, p, n)
      BY DEF Hang, New
    <2> QED BY <1>1, <2>1
  <1>2. CASE n \notin S
    <2>1. PICK k \in S : \A m \in S : <<k, m>> \notin R
      BY DEF NoCycle
    <2>2. \A m \in S : <<k, m>> \notin Hang(R, p, n)
      BY <1>2, <2>1 DEF Hang
    <2> QED BY <2>2
  <1> QED BY <1>1, <1>2

\* A new id in between draws no cycle.
LEMMA BetweenNoCycle ==
  ASSUME NEW R, IsLinks(R), NoCycle(R), NEW n \in Nodes, NEW p \in Nodes, New(R, n), p # n,
         NEW C \in SUBSET Nodes, n \notin C, \A c \in C : <<p, c>> \in R
  PROVE  NoCycle(Between(R, p, n, C))
  <1> SUFFICES ASSUME NEW S \in SUBSET Nodes, S # {}
               PROVE  \E k \in S : \A m \in S : <<k, m>> \notin Between(R, p, n, C)
    BY DEF NoCycle
  <1>1. CASE S \ {n} = {}
    <2>1. S = {n}
      BY <1>1
    <2>2. <<n, n>> \notin Between(R, p, n, C)
      BY DEF Between, New
    <2> QED BY <2>1, <2>2
  <1>2. CASE S \ {n} # {}
    <2>1. S \ {n} \in SUBSET Nodes
      OBVIOUS
    <2>2. PICK k \in S \ {n} : \A m \in S \ {n} : <<k, m>> \notin R
      BY <1>2, <2>1 DEF NoCycle
    <2>3. CASE k # p \/ n \notin S
      <3>1. \A m \in S : <<k, m>> \notin Between(R, p, n, C)
        BY <2>2, <2>3 DEF Between, New
      <3> QED BY <3>1
    <2>4. CASE k = p /\ n \in S
      <3>1. C \intersect S = {}
        BY <2>2, <2>4
      <3>2. \A m \in S : <<n, m>> \notin Between(R, p, n, C)
        BY <3>1 DEF Between, New
      <3> QED BY <2>4, <3>2
    <2> QED BY <2>3, <2>4
  <1> QED BY <1>1, <1>2

\* A relation with fewer pairs has no more cycles.
LEMMA FewerNoCycle ==
  ASSUME NEW R, NEW Q, Q \subseteq R, NoCycle(R)
  PROVE  NoCycle(Q)
  BY DEF NoCycle

\* Without a cycle nothing is linked to itself.
LEMMA NoLoop ==
  ASSUME NEW R, NoCycle(R), NEW n \in Nodes
  PROVE  <<n, n>> \notin R
  <1>1. {n} \in SUBSET Nodes /\ {n} # {}
    OBVIOUS
  <1>2. \E k \in {n} : \A m \in {n} : <<k, m>> \notin R
    BY <1>1 DEF NoCycle
  <1> QED BY <1>2

\* Linking what was above an id to what was below it draws no cycle.
LEMMA ThroughNoCycle ==
  ASSUME NEW R, IsLinks(R), NoCycle(R), NEW n \in Nodes
  PROVE  NoCycle(Without(R, {n}) \union Through(R, n))
  <1> DEFINE Q == Without(R, {n}) \union Through(R, n)
  <1> SUFFICES ASSUME NEW S \in SUBSET Nodes, S # {}
               PROVE  \E k \in S : \A m \in S : <<k, m>> \notin Q
    BY DEF NoCycle
  <1>0. <<n, n>> \notin R
    BY NoLoop
  <1>1. \A m \in Nodes : <<n, m>> \notin Q /\ <<m, n>> \notin Q
    BY <1>0 DEF Without, Through
  <1>2. CASE n \in S
    BY <1>1, <1>2
  <1>3. CASE n \notin S
    <2>0. S \union {n} \in SUBSET Nodes /\ S \union {n} # {}
      OBVIOUS
    <2>1. PICK k \in S \union {n} : \A m \in S \union {n} : <<k, m>> \notin R
      BY <2>0 DEF NoCycle
    <2>2. CASE k # n
      <3>1. \A m \in S : <<k, m>> \notin Q
        BY <2>1, <2>2 DEF Without, Through
      <3> QED BY <2>2, <3>1
    <2>3. CASE k = n
      <3>1. PICK j \in S : \A m \in S : <<j, m>> \notin R
        BY DEF NoCycle
      <3>2. \A m \in S : <<j, m>> \notin Q
        BY <2>1, <2>3, <3>1 DEF Without, Through
      <3> QED BY <3>2
    <2> QED BY <2>2, <2>3
  <1> QED BY <1>2, <1>3

\* An id hung below one that is not below it draws no cycle.
LEMMA RehangNoCycle ==
  ASSUME NEW R, IsLinks(R), NoCycle(R), NEW n \in Nodes, NEW p \in Nodes, p \notin From(R, n)
  PROVE  NoCycle(Rehang(R, p, n))
  <1> SUFFICES ASSUME NEW S \in SUBSET Nodes, S # {}
               PROVE  \E k \in S : \A m \in S : <<k, m>> \notin Rehang(R, p, n)
    BY DEF NoCycle
  <1>1. CASE n \in S
    <2> DEFINE B == S \intersect From(R, n)
    <2>1. B \in SUBSET Nodes /\ B # {}
      BY <1>1, FromClosed
    <2>2. PICK k \in B : \A m \in B : <<k, m>> \notin R
      BY <2>1 DEF NoCycle
    <2>3. \A m \in S : <<k, m>> \notin R
      BY <2>2, FromClosed DEF ClosedUnder, IsLinks
    <2>4. k # p
      BY <2>2
    <2>5. \A m \in S : <<k, m>> \notin Rehang(R, p, n)
      BY <2>3, <2>4 DEF Rehang
    <2> QED BY <2>2, <2>5
  <1>2. CASE n \notin S
    <2>1. PICK k \in S : \A m \in S : <<k, m>> \notin R
      BY DEF NoCycle
    <2>2. \A m \in S : <<k, m>> \notin Rehang(R, p, n)
      BY <1>2, <2>1 DEF Rehang
    <2> QED BY <2>2
  <1> QED BY <1>1, <1>2

-----------------------------------------------------------------------------
(* What is closed after the change, and what was before.                   *)

\* Every set that Q closes is, among the ids of K, one that R closes.
Follows(R, Q, K) ==
  \A S \in SUBSET Nodes : ClosedUnder(Q, S) =>
    \E Z \in SUBSET Nodes : ClosedUnder(R, Z) /\ Z \intersect K = S \intersect K

\* So what R leads to among K, Q leads to as well.
LEMMA FollowsFrom ==
  ASSUME NEW R, NEW Q, NEW K, Follows(R, Q, K), NEW x \in K
  PROVE  From(R, x) \intersect K \subseteq From(Q, x)
  <1> SUFFICES ASSUME NEW m \in From(R, x), m \in K, NEW S \in SUBSET Nodes, x \in S,
                      ClosedUnder(Q, S)
               PROVE  m \in S
    BY DEF From
  <1>1. PICK Z \in SUBSET Nodes : ClosedUnder(R, Z) /\ Z \intersect K = S \intersect K
    BY DEF Follows
  <1>2. m \in Z
    BY <1>1 DEF From
  <1> QED BY <1>1, <1>2

LEMMA HangForth ==
  ASSUME NEW R, NEW n \in Nodes, NEW p \in Nodes, New(R, n),
         NEW S \in SUBSET Nodes, ClosedUnder(R, S)
  PROVE  ClosedUnder(Hang(R, p, n), S \union {n})
  BY DEF ClosedUnder, Hang, New

LEMMA HangBack ==
  ASSUME NEW R, NEW n \in Nodes, NEW p \in Nodes,
         NEW S \in SUBSET Nodes, ClosedUnder(Hang(R, p, n), S)
  PROVE  ClosedUnder(R, S) /\ (p \in S => n \in S)
  BY DEF ClosedUnder, Hang

LEMMA HangSame ==
  ASSUME NEW R, NEW n \in Nodes, NEW p \in Nodes, New(R, n)
  PROVE  Follows(R, Hang(R, p, n), Nodes \ {n}) /\ Follows(Hang(R, p, n), R, Nodes \ {n})
  <1>1. Follows(R, Hang(R, p, n), Nodes \ {n})
    BY HangBack DEF Follows
  <1>2. Follows(Hang(R, p, n), R, Nodes \ {n})
    <2> SUFFICES ASSUME NEW S \in SUBSET Nodes, ClosedUnder(R, S)
                 PROVE  \E Z \in SUBSET Nodes : /\ ClosedUnder(Hang(R, p, n), Z)
                                                /\ Z \intersect (Nodes \ {n}) = S \intersect (Nodes \ {n})
      BY DEF Follows
    <2> WITNESS S \union {n} \in SUBSET Nodes
    <2> QED BY HangForth
  <1> QED BY <1>1, <1>2

LEMMA BetweenForth ==
  ASSUME NEW R, NEW n \in Nodes, NEW p \in Nodes, New(R, n), p # n,
         NEW C \in SUBSET Nodes, n \notin C, \A c \in C : <<p, c>> \in R,
         NEW S \in SUBSET Nodes, ClosedUnder(R, S)
  PROVE  ClosedUnder(Between(R, p, n, C), IF p \in S THEN S \union {n} ELSE S \ {n})
  <1>1. CASE p \in S
    BY <1>1 DEF ClosedUnder, Between, New
  <1>2. CASE p \notin S
    BY <1>2 DEF ClosedUnder, Between, New
  <1> QED BY <1>1, <1>2

LEMMA BetweenBack ==
  ASSUME NEW R, NEW n \in Nodes, NEW p \in Nodes, NEW C \in SUBSET Nodes,
         NEW S \in SUBSET Nodes, ClosedUnder(Between(R, p, n, C), S)
  PROVE  ClosedUnder(R, S) /\ (p \in S => n \in S)
  <1>1. p \in S => n \in S
    BY DEF ClosedUnder, Between
  <1>2. \A c \in C : n \in S => c \in S
    BY DEF ClosedUnder, Between
  <1>3. ASSUME NEW a \in Nodes, NEW b \in Nodes, <<a, b>> \in R, a \in S
        PROVE  b \in S
    <2>1. CASE a = p /\ b \in C
      BY <1>1, <1>2, <1>3, <2>1
    <2>2. CASE ~(a = p /\ b \in C)
      <3>1. <<a, b>> \in Between(R, p, n, C)
        BY <1>3, <2>2 DEF Between
      <3> QED BY <1>3, <3>1 DEF ClosedUnder
    <2> QED BY <2>1, <2>2
  <1> QED BY <1>1, <1>3 DEF ClosedUnder

LEMMA BetweenSame ==
  ASSUME NEW R, NEW n \in Nodes, NEW p \in Nodes, New(R, n), p # n,
         NEW C \in SUBSET Nodes, n \notin C, \A c \in C : <<p, c>> \in R
  PROVE  /\ Follows(R, Between(R, p, n, C), Nodes \ {n})
         /\ Follows(Between(R, p, n, C), R, Nodes \ {n})
  <1>1. Follows(R, Between(R, p, n, C), Nodes \ {n})
    BY BetweenBack DEF Follows
  <1>2. Follows(Between(R, p, n, C), R, Nodes \ {n})
    <2> SUFFICES ASSUME NEW S \in SUBSET Nodes, ClosedUnder(R, S)
                 PROVE  \E Z \in SUBSET Nodes : /\ ClosedUnder(Between(R, p, n, C), Z)
                                                /\ Z \intersect (Nodes \ {n}) = S \intersect (Nodes \ {n})
      BY DEF Follows
    <2> WITNESS (IF p \in S THEN S \union {n} ELSE S \ {n}) \in SUBSET Nodes
    <2> QED BY BetweenForth
  <1> QED BY <1>1, <1>2

\* What is taken out is closed: the rest is closed without it and with it.
LEMMA WithoutForth ==
  ASSUME NEW R, NEW gone, NEW S \in SUBSET Nodes, ClosedUnder(R, S)
  PROVE  ClosedUnder(Without(R, gone), S)
  BY DEF ClosedUnder, Without

LEMMA WithoutBack ==
  ASSUME NEW R, NEW gone \in SUBSET Nodes, ClosedUnder(R, gone),
         NEW S \in SUBSET Nodes, ClosedUnder(Without(R, gone), S)
  PROVE  ClosedUnder(R, S \union gone)
  <1> SUFFICES ASSUME NEW a \in Nodes, NEW b \in Nodes, <<a, b>> \in R, a \in S \union gone
               PROVE  b \in S \union gone
    BY DEF ClosedUnder
  <1>1. CASE a \in gone
    BY <1>1 DEF ClosedUnder
  <1>2. CASE a \notin gone /\ b \notin gone
    <2>1. <<a, b>> \in Without(R, gone)
      BY <1>2 DEF Without
    <2> QED BY <1>2, <2>1 DEF ClosedUnder
  <1> QED BY <1>1, <1>2

LEMMA WithoutSame ==
  ASSUME NEW R, NEW gone \in SUBSET Nodes, ClosedUnder(R, gone)
  PROVE  /\ Follows(R, Without(R, gone), Nodes \ gone)
         /\ Follows(Without(R, gone), R, Nodes \ gone)
  <1>1. Follows(R, Without(R, gone), Nodes \ gone)
    <2> SUFFICES ASSUME NEW S \in SUBSET Nodes, ClosedUnder(Without(R, gone), S)
                 PROVE  \E Z \in SUBSET Nodes : /\ ClosedUnder(R, Z)
                                                /\ Z \intersect (Nodes \ gone) = S \intersect (Nodes \ gone)
      BY DEF Follows
    <2> WITNESS S \union gone \in SUBSET Nodes
    <2> QED BY WithoutBack
  <1>2. Follows(Without(R, gone), R, Nodes \ gone)
    BY WithoutForth DEF Follows
  <1> QED BY <1>1, <1>2

\* n is taken out, and what was above it is linked to what was below.
LEMMA ThroughForth ==
  ASSUME NEW R, NEW n \in Nodes, NEW S \in SUBSET Nodes, ClosedUnder(R, S)
  PROVE  ClosedUnder(Without(R, {n}) \union Through(R, n), S)
  BY DEF ClosedUnder, Without, Through

LEMMA ThroughBack ==
  ASSUME NEW R, NEW n \in Nodes,
         NEW S \in SUBSET Nodes, ClosedUnder(Without(R, {n}) \union Through(R, n), S)
  PROVE  \E Z \in SUBSET Nodes : /\ ClosedUnder(R, Z)
                                 /\ Z \ {n} = S \ {n}
  <1> DEFINE Q == Without(R, {n}) \union Through(R, n)
  <1>1. CASE \E q \in S \ {n} : <<q, n>> \in R
    <2>1. PICK q \in S \ {n} : <<q, n>> \in R
      BY <1>1
    <2>2. ASSUME NEW a \in Nodes, NEW b \in Nodes, <<a, b>> \in R, a \in S \union {n}
          PROVE  b \in S \union {n}
      <3>1. CASE b = n \/ b = q
        BY <3>1
      <3>2. CASE b # n /\ b # q /\ a = n
        <4>1. <<q, b>> \in Q
          BY <2>1, <2>2, <3>2 DEF Through
        <4> QED BY <2>1, <4>1 DEF ClosedUnder
      <3>3. CASE b # n /\ a # n
        <4>1. <<a, b>> \in Q
          BY <2>2, <3>3 DEF Without
        <4> QED BY <2>2, <3>3, <4>1 DEF ClosedUnder
      <3> QED BY <3>1, <3>2, <3>3
    <2>3. ClosedUnder(R, S \union {n})
      BY <2>2 DEF ClosedUnder
    <2> WITNESS S \union {n} \in SUBSET Nodes
    <2> QED BY <2>3
  <1>2. CASE ~ \E q \in S \ {n} : <<q, n>> \in R
    <2>1. ASSUME NEW a \in Nodes, NEW b \in Nodes, <<a, b>> \in R, a \in S \ {n}
          PROVE  b \in S \ {n}
      <3>1. b # n
        BY <1>2, <2>1
      <3>2. <<a, b>> \in Q
        BY <2>1, <3>1 DEF Without
      <3> QED BY <2>1, <3>1, <3>2 DEF ClosedUnder
    <2>2. ClosedUnder(R, S \ {n})
      BY <2>1 DEF ClosedUnder
    <2> WITNESS S \ {n} \in SUBSET Nodes
    <2> QED BY <2>2
  <1> QED BY <1>1, <1>2

LEMMA ThroughSame ==
  ASSUME NEW R, NEW n \in Nodes
  PROVE  /\ Follows(R, Without(R, {n}) \union Through(R, n), Nodes \ {n})
         /\ Follows(Without(R, {n}) \union Through(R, n), R, Nodes \ {n})
  <1>1. Follows(R, Without(R, {n}) \union Through(R, n), Nodes \ {n})
    <2> SUFFICES ASSUME NEW S \in SUBSET Nodes, ClosedUnder(Without(R, {n}) \union Through(R, n), S)
                 PROVE  \E Z \in SUBSET Nodes : /\ ClosedUnder(R, Z)
                                                /\ Z \intersect (Nodes \ {n}) = S \intersect (Nodes \ {n})
      BY DEF Follows
    <2>1. PICK Z \in SUBSET Nodes : ClosedUnder(R, Z) /\ Z \ {n} = S \ {n}
      BY ThroughBack
    <2> WITNESS Z \in SUBSET Nodes
    <2> QED BY <2>1
  <1>2. Follows(Without(R, {n}) \union Through(R, n), R, Nodes \ {n})
    BY ThroughForth DEF Follows
  <1> QED BY <1>1, <1>2

\* n is hung elsewhere: what is closed and has the new parent is closed as before.
LEMMA RehangBack ==
  ASSUME NEW R, IsLinks(R), NEW n \in Nodes, NEW p \in Nodes,
         NEW S \in SUBSET Nodes, ClosedUnder(Rehang(R, p, n), S)
  PROVE  /\ ClosedUnder(R, S \union From(R, n))
         /\ p \in S => ClosedUnder(R, S)
  <1>1. ASSUME NEW a \in Nodes, NEW b \in Nodes, <<a, b>> \in R, a \in S, b # n
        PROVE  b \in S
    BY <1>1 DEF ClosedUnder, Rehang
  <1>2. ClosedUnder(R, S \union From(R, n))
    BY <1>1, FromClosed DEF ClosedUnder
  <1>3. p \in S => n \in S
    BY DEF ClosedUnder, Rehang
  <1> QED BY <1>1, <1>2, <1>3 DEF ClosedUnder

-----------------------------------------------------------------------------
(* Graphs as relations.                                                    *)

LEMMA LinksTyped ==
  ASSUME NEW g, IsGraph(g)
  PROVE  /\ IsLinks(Links(g)) /\ g.edges \subseteq Edges
         /\ Ids(g) \subseteq Nodes /\ \A n \in Ids(g) : g.kind[n] \in Kinds
         /\ \A p, c : Linked(g, p, c) <=> <<p, c>> \in Links(g)
  BY DEF IsGraph, IsLinks, Links, Linked, Edges, Ids

LEMMA LinksClosed ==
  ASSUME NEW g, IsGraph(g), NEW S
  PROVE  Closed(g, S) <=> ClosedUnder(Links(g), S)
  BY LinksTyped DEF Closed, ClosedUnder, Links, Edges

LEMMA LinksAcyclic ==
  ASSUME NEW g, IsGraph(g)
  PROVE  Acyclic(g) <=> NoCycle(Links(g))
  <1>1. ASSUME NEW S \in SUBSET Nodes, NEW n \in S
        PROVE  Children(g, n) \intersect S = {} <=> \A m \in S : <<n, m>> \notin Links(g)
    BY DEF Children, Links
  <1> QED BY <1>1 DEF Acyclic, NoCycle

LEMMA LinksBelow ==
  ASSUME NEW g, IsGraph(g), NEW n \in Nodes
  PROVE  Below(g, n) = From(Links(g), n) \ {n}
  <1>1. \A S \in SUBSET Nodes : Closed(g, S) <=> ClosedUnder(Links(g), S)
    BY LinksClosed
  <1> QED BY <1>1 DEF Below, From

\* What every operation leaves of the shape.
SameAncestry(g, h) ==
  LET both == Ids(g) \intersect Ids(h)
  IN  \A n \in both : Below(g, n) \intersect both = Below(h, n) \intersect both

ShapeKept(g, h) ==
  /\ Rooted(g) => Rooted(h)
  /\ Acyclic(g) => Acyclic(h)
  /\ Ids(g) # Ids(h) => SameAncestry(g, h)

\* The ancestry follows from the sets closed before and after.
LEMMA FollowsAncestry ==
  ASSUME NEW g, NEW h, IsGraph(g), IsGraph(h), NEW K, Ids(g) \intersect Ids(h) \subseteq K,
         Follows(Links(g), Links(h), K), Follows(Links(h), Links(g), K)
  PROVE  SameAncestry(g, h)
  <1> DEFINE both == Ids(g) \intersect Ids(h)
  <1> SUFFICES ASSUME NEW n \in both
               PROVE  Below(g, n) \intersect both = Below(h, n) \intersect both
    BY DEF SameAncestry
  <1>1. n \in Nodes /\ n \in K /\ both \subseteq K
    BY LinksTyped
  <1>2. /\ From(Links(g), n) \intersect K \subseteq From(Links(h), n)
        /\ From(Links(h), n) \intersect K \subseteq From(Links(g), n)
    BY <1>1, FollowsFrom
  <1>3. Below(g, n) = From(Links(g), n) \ {n} /\ Below(h, n) = From(Links(h), n) \ {n}
    BY <1>1, LinksBelow
  <1> QED BY <1>1, <1>2, <1>3

\* Rooted, said of the relation.
LEMMA LinksRooted ==
  ASSUME NEW g, IsGraph(g)
  PROVE  Rooted(g) <=> \A S \in SUBSET Nodes :
                         Tops(g) \subseteq S /\ ClosedUnder(Links(g), S) => Ids(g) \subseteq S
  BY LinksClosed DEF Rooted

\* Nodes whose kind changes, but for the top events'.
LEMMA SameShape ==
  ASSUME NEW g, NEW h, IsGraph(g), IsGraph(h), Links(h) = Links(g), Ids(h) = Ids(g),
         Tops(g) \subseteq Tops(h)
  PROVE  ShapeKept(g, h)
  BY LinksRooted, LinksAcyclic DEF ShapeKept

\* The top event of an empty tree.
LEMMA TopShape ==
  ASSUME NEW g, NEW h, IsGraph(g), IsGraph(h), Links(h) = Links(g), Ids(g) = {},
         Ids(h) \subseteq Tops(h)
  PROVE  ShapeKept(g, h)
  <1>1. Rooted(h)
    BY LinksRooted
  <1>2. Acyclic(g) => Acyclic(h)
    BY LinksAcyclic
  <1> QED BY <1>1, <1>2 DEF ShapeKept, SameAncestry

\* A node below another.
LEMMA HangShape ==
  ASSUME NEW g, NEW h, IsGraph(g), IsGraph(h), NEW n \in Nodes, NEW p \in Ids(g),
         New(Links(g), n), n \notin Ids(g), Ids(h) = Ids(g) \union {n},
         Links(h) = Hang(Links(g), p, n), Tops(g) \subseteq Tops(h)
  PROVE  ShapeKept(g, h)
  <1>1. p \in Nodes /\ p # n /\ IsLinks(Links(g)) /\ Ids(g) \subseteq Nodes
    BY LinksTyped
  <1>2. Rooted(g) => Rooted(h)
    <2> SUFFICES ASSUME Rooted(g), NEW S \in SUBSET Nodes, Tops(h) \subseteq S,
                        ClosedUnder(Links(h), S)
                 PROVE  Ids(h) \subseteq S
      BY LinksRooted
    <2>1. ClosedUnder(Links(g), S) /\ (p \in S => n \in S)
      BY <1>1, HangBack
    <2>2. Ids(g) \subseteq S
      BY <2>1, LinksRooted
    <2> QED BY <2>1, <2>2
  <1>3. Acyclic(g) => Acyclic(h)
    <2>1. NoCycle(Links(g)) => NoCycle(Links(h))
      BY <1>1, HangNoCycle
    <2> QED BY <2>1, LinksAcyclic
  <1>4. SameAncestry(g, h)
    <2>1. Ids(g) \intersect Ids(h) \subseteq Nodes \ {n}
      BY <1>1
    <2>2. Follows(Links(g), Links(h), Nodes \ {n}) /\ Follows(Links(h), Links(g), Nodes \ {n})
      BY <1>1, HangSame
    <2> QED BY <2>1, <2>2, FollowsAncestry
  <1> QED BY <1>2, <1>3, <1>4 DEF ShapeKept

\* A gate between a node and some of its children.
LEMMA BetweenShape ==
  ASSUME NEW g, NEW h, IsGraph(g), IsGraph(h), NEW n \in Nodes, NEW p \in Ids(g),
         NEW C \in SUBSET Nodes, \A c \in C : <<p, c>> \in Links(g),
         New(Links(g), n), n \notin Ids(g), Ids(h) = Ids(g) \union {n},
         Links(h) = Between(Links(g), p, n, C), Tops(g) \subseteq Tops(h)
  PROVE  ShapeKept(g, h)
  <1>1. p \in Nodes /\ p # n /\ IsLinks(Links(g)) /\ Ids(g) \subseteq Nodes /\ n \notin C
    BY LinksTyped DEF New
  <1>2. Rooted(g) => Rooted(h)
    <2> SUFFICES ASSUME Rooted(g), NEW S \in SUBSET Nodes, Tops(h) \subseteq S,
                        ClosedUnder(Links(h), S)
                 PROVE  Ids(h) \subseteq S
      BY LinksRooted
    <2>1. ClosedUnder(Links(g), S) /\ (p \in S => n \in S)
      BY <1>1, BetweenBack
    <2>2. Ids(g) \subseteq S
      BY <2>1, LinksRooted
    <2> QED BY <2>1, <2>2
  <1>3. Acyclic(g) => Acyclic(h)
    <2>1. NoCycle(Links(g)) => NoCycle(Links(h))
      BY <1>1, BetweenNoCycle
    <2> QED BY <2>1, LinksAcyclic
  <1>4. SameAncestry(g, h)
    <2>1. Ids(g) \intersect Ids(h) \subseteq Nodes \ {n}
      BY <1>1
    <2>2. Follows(Links(g), Links(h), Nodes \ {n}) /\ Follows(Links(h), Links(g), Nodes \ {n})
      BY <1>1, BetweenSame
    <2> QED BY <2>1, <2>2, FollowsAncestry
  <1> QED BY <1>2, <1>3, <1>4 DEF ShapeKept

\* A node goes with all below it.
LEMMA WithoutShape ==
  ASSUME NEW g, NEW h, IsGraph(g), IsGraph(h), NEW gone \in SUBSET Nodes,
         ClosedUnder(Links(g), gone), Ids(h) = Ids(g) \ gone,
         Links(h) = Without(Links(g), gone), Tops(h) = Tops(g) \ gone
  PROVE  ShapeKept(g, h)
  <1>1. IsLinks(Links(g)) /\ Ids(g) \subseteq Nodes
    BY LinksTyped
  <1>2. Rooted(g) => Rooted(h)
    <2> SUFFICES ASSUME Rooted(g), NEW S \in SUBSET Nodes, Tops(h) \subseteq S,
                        ClosedUnder(Links(h), S)
                 PROVE  Ids(h) \subseteq S
      BY LinksRooted
    <2>1. ClosedUnder(Links(g), S \union gone) /\ Tops(g) \subseteq S \union gone
      BY WithoutBack
    <2>2. Ids(g) \subseteq S \union gone
      BY <2>1, LinksRooted
    <2> QED BY <2>2
  <1>3. Acyclic(g) => Acyclic(h)
    <2>1. Links(h) \subseteq Links(g)
      BY DEF Without
    <2> QED BY <2>1, FewerNoCycle, LinksAcyclic
  <1>4. SameAncestry(g, h)
    <2>1. Ids(g) \intersect Ids(h) \subseteq Nodes \ gone
      BY <1>1
    <2>2. Follows(Links(g), Links(h), Nodes \ gone) /\ Follows(Links(h), Links(g), Nodes \ gone)
      BY <1>1, WithoutSame
    <2> QED BY <2>1, <2>2, FollowsAncestry
  <1> QED BY <1>2, <1>3, <1>4 DEF ShapeKept

\* A node goes and its parents take its children.
LEMMA ThroughShape ==
  ASSUME NEW g, NEW h, IsGraph(g), IsGraph(h), NEW n \in Nodes, n \notin Tops(g),
         Ids(h) = Ids(g) \ {n}, Tops(g) \subseteq Tops(h),
         Links(h) = Without(Links(g), {n}) \union Through(Links(g), n)
  PROVE  ShapeKept(g, h)
  <1>1. IsLinks(Links(g)) /\ Ids(g) \subseteq Nodes
    BY LinksTyped
  <1>2. Rooted(g) => Rooted(h)
    <2> SUFFICES ASSUME Rooted(g), NEW S \in SUBSET Nodes, Tops(h) \subseteq S,
                        ClosedUnder(Links(h), S)
                 PROVE  Ids(h) \subseteq S
      BY LinksRooted
    <2>1. PICK Z \in SUBSET Nodes : ClosedUnder(Links(g), Z) /\ Z \ {n} = S \ {n}
      BY ThroughBack
    <2>2. Tops(g) \subseteq Z
      BY <2>1
    <2>3. Ids(g) \subseteq Z
      BY <2>1, <2>2, LinksRooted
    <2> QED BY <2>1, <2>3
  <1>3. Acyclic(g) => Acyclic(h)
    <2>1. NoCycle(Links(g)) => NoCycle(Links(h))
      BY <1>1, ThroughNoCycle
    <2> QED BY <2>1, LinksAcyclic
  <1>4. SameAncestry(g, h)
    <2>1. Ids(g) \intersect Ids(h) \subseteq Nodes \ {n}
      BY <1>1
    <2>2. Follows(Links(g), Links(h), Nodes \ {n}) /\ Follows(Links(h), Links(g), Nodes \ {n})
      BY <1>1, ThroughSame
    <2> QED BY <2>1, <2>2, FollowsAncestry
  <1> QED BY <1>2, <1>3, <1>4 DEF ShapeKept

\* A node with all below it goes below another.
LEMMA RehangShape ==
  ASSUME NEW g, NEW h, IsGraph(g), IsGraph(h), NEW n \in Nodes, NEW p \in Ids(g),
         p \notin From(Links(g), n), Ids(h) = Ids(g), Tops(g) \subseteq Tops(h),
         Links(h) = Rehang(Links(g), p, n)
  PROVE  ShapeKept(g, h)
  <1>1. p \in Nodes /\ IsLinks(Links(g)) /\ Ids(g) \subseteq Nodes
    BY LinksTyped
  <1>2. Rooted(g) => Rooted(h)
    <2> SUFFICES ASSUME Rooted(g), NEW S \in SUBSET Nodes, Tops(h) \subseteq S,
                        ClosedUnder(Links(h), S)
                 PROVE  Ids(h) \subseteq S
      BY LinksRooted
    <2>1. ClosedUnder(Links(g), S \union From(Links(g), n)) /\ (p \in S => ClosedUnder(Links(g), S))
      BY <1>1, RehangBack
    <2>2. S \union From(Links(g), n) \in SUBSET Nodes
      BY DEF From
    <2>3. p \in S
      BY <2>1, <2>2, LinksRooted
    <2> QED BY <2>1, <2>3, LinksRooted
  <1>3. Acyclic(g) => Acyclic(h)
    <2>1. NoCycle(Links(g)) => NoCycle(Links(h))
      BY <1>1, RehangNoCycle
    <2> QED BY <2>1, LinksAcyclic
  <1> QED BY <1>2, <1>3 DEF ShapeKept

-----------------------------------------------------------------------------
(* The operation under way.                                                *)

\* An edge of the copy is no newer than the operations so far, and the copy was made
\* from the stored graph as it was at its revision.
WorkOK ==
  work # None =>
    /\ DOMAIN work = {"mode", "rev", "base", "graph", "patch", "ops", "changed"}
    /\ \A e \in work.base.edges : e.id = 0
    /\ \A e \in work.graph.edges \union work.patch.erase : e.id <= work.ops
    /\ work.rev = saves => work.base = stored

IInv == TypeOK /\ WorkOK /\ PatchRebuilds

\* What an operation puts into its patch: nodes that have not been deleted, nodes and
\* edges there are, and edges under its own id.
GoodPatch(p) ==
  /\ DOMAIN p.upsert \subseteq Nodes \ work.patch.gone
  /\ \A n \in DOMAIN p.upsert : p.upsert[n] \in Kinds
  /\ p.gone \subseteq Ids(Graph)
  /\ p.erase \subseteq Graph.edges
  /\ p.draw \subseteq Edges /\ \A e \in p.draw : e.id = work.ops + 1

\* An operation that succeeds with the patch p.
Does(p) == Apply(p) /\ GoodPatch(p) /\ ShapeKept(Graph, After(Graph, p))

LEMMA AfterIs ==
  ASSUME NEW g, NEW p
  PROVE  /\ Ids(After(g, p)) = (DOMAIN p.upsert \union DOMAIN g.kind) \ p.gone
         /\ \A n \in DOMAIN p.upsert \ p.gone : After(g, p).kind[n] = p.upsert[n]
         /\ \A n \in DOMAIN g.kind \ (DOMAIN p.upsert \union p.gone) : After(g, p).kind[n] = g.kind[n]
         /\ After(g, p).edges = (g.edges \ p.erase) \union p.draw
  <1> DEFINE N == (DOMAIN p.upsert \union DOMAIN g.kind) \ p.gone
             F == Over(p.upsert, g.kind)
  <1>1. /\ After(g, p).kind = [n \in N |-> F[n]]
        /\ After(g, p).edges = (g.edges \ p.erase) \union p.draw
    BY DEF After, Within
  <1>2. /\ \A n \in DOMAIN p.upsert : F[n] = p.upsert[n]
        /\ \A n \in DOMAIN g.kind \ DOMAIN p.upsert : F[n] = g.kind[n]
    BY DEF Over
  <1> HIDE DEF F
  <1>3. \A n \in N : After(g, p).kind[n] = F[n]
    BY <1>1
  <1>4. Ids(After(g, p)) = N
    BY <1>1 DEF Ids
  <1> QED BY <1>1, <1>2, <1>3, <1>4

LEMMA AfterGraph ==
  ASSUME NEW g, IsGraph(g), NEW p, DOMAIN p.upsert \subseteq Nodes,
         \A n \in DOMAIN p.upsert : p.upsert[n] \in Kinds, p.draw \subseteq Edges
  PROVE  IsGraph(After(g, p))
  <1> DEFINE N == (DOMAIN p.upsert \union DOMAIN g.kind) \ p.gone
  <1>1. N \in SUBSET Nodes /\ \A n \in DOMAIN g.kind : g.kind[n] \in Kinds
    BY LinksTyped DEF Ids
  <1>2. After(g, p).kind = [n \in N |-> Over(p.upsert, g.kind)[n]]
    BY DEF After, Within
  <1>3. \A n \in N : Over(p.upsert, g.kind)[n] \in Kinds
    <2>1. ASSUME NEW n \in DOMAIN p.upsert PROVE Over(p.upsert, g.kind)[n] \in Kinds
      BY <2>1 DEF Over
    <2>2. ASSUME NEW n \in DOMAIN g.kind \ DOMAIN p.upsert
          PROVE  Over(p.upsert, g.kind)[n] \in Kinds
      BY <1>1, <2>2 DEF Over
    <2> QED BY <2>1, <2>2
  <1>4. After(g, p).kind \in [N -> Kinds]
    BY <1>2, <1>3
  <1>5. DOMAIN After(g, p) = {"kind", "edges"}
    BY DEF After
  <1>6. After(g, p).edges \subseteq Edges
    BY AfterIs DEF IsGraph
  <1> QED BY <1>1, <1>4, <1>5, <1>6 DEF IsGraph

\* The operation's edges have its own id.
LEMMA DrawnTyped ==
  ASSUME IInv, Ready, NEW g, NEW pairs, IsLinks(pairs)
  PROVE  /\ Drawn(g, pairs) \subseteq Edges
         /\ \A e \in Drawn(g, pairs) : e.id = work.ops + 1
  <1>1. work.ops + 1 \in 0..MaxOps
    BY EditorAssumption DEF IInv, TypeOK, Ready
  <1> QED BY <1>1 DEF Drawn, Edges, IsLinks

\* After the operation the pairs are linked, besides what it did not cut.
LEMMA DrawnLinks ==
  ASSUME NEW g, IsGraph(g), NEW cut, NEW p, NEW pairs, IsLinks(pairs),
         cut.edges = g.edges \ p.erase, p.draw = Drawn(cut, pairs)
  PROVE  Links(After(g, p)) = Links(cut) \union pairs
  <1>1. After(g, p).edges = cut.edges \union Drawn(cut, pairs)
    BY AfterIs
  <1>2. ASSUME NEW q \in pairs
        PROVE  q \in Links(cut) \union Links(After(g, p)) /\ q = <<q[1], q[2]>>
    <2>1. q = <<q[1], q[2]>>
      BY DEF IsLinks
    <2>2. CASE Linked(cut, q[1], q[2])
      BY <2>1, <2>2 DEF Linked, Links
    <2>3. CASE ~Linked(cut, q[1], q[2])
      <3>1. [from |-> q[1], to |-> q[2], id |-> work.ops + 1] \in After(g, p).edges
        BY <1>1, <2>3 DEF Drawn
      <3> QED BY <2>1, <3>1 DEF Links
    <2> QED BY <2>1, <2>2, <2>3
  <1>3. Links(cut) \subseteq Links(After(g, p))
    BY <1>1 DEF Links
  <1>4. Links(After(g, p)) \subseteq Links(cut) \union pairs
    <2> SUFFICES ASSUME NEW e \in After(g, p).edges
                 PROVE  <<e.from, e.to>> \in Links(cut) \union pairs
      BY DEF Links
    <2>1. CASE e \in cut.edges
      BY <2>1 DEF Links
    <2>2. CASE e \in Drawn(cut, pairs)
      <3>1. PICK q \in pairs : e = [from |-> q[1], to |-> q[2], id |-> work.ops + 1]
        BY <2>2 DEF Drawn
      <3> QED BY <1>2, <3>1
    <2> QED BY <1>1, <2>1, <2>2
  <1> QED BY <1>2, <1>3, <1>4

\* A fresh id is at no end of an edge, no node, and none that was deleted.
LEMMA FreshNew ==
  ASSUME NEW n, IsFresh(n)
  PROVE  /\ n \in Nodes /\ n \notin Ids(Graph) /\ n \notin work.patch.gone
         /\ New(Links(Graph), n)
  BY DEF IsFresh, Used, New, Links, Graph

\* The copy is a graph.
LEMMA GraphTyped ==
  ASSUME IInv, work # None
  PROVE  /\ IsGraph(Graph) /\ IsLinks(Links(Graph)) /\ Ids(Graph) \subseteq Nodes
         /\ Ids(Graph) \intersect work.patch.gone = {} /\ Graph.edges \subseteq Edges
         /\ work.patch.gone \subseteq Nodes
         /\ \A n \in Ids(Graph) : Graph.kind[n] \in Kinds
  <1>1. IsGraph(Graph) /\ work.patch.gone \subseteq Nodes
    BY DEF IInv, TypeOK, IsPatch, Graph
  <1>2. Ids(Graph) = (DOMAIN work.patch.upsert \union DOMAIN work.base.kind) \ work.patch.gone
    BY AfterIs DEF IInv, PatchRebuilds, Graph, Ids
  <1> QED BY <1>1, <1>2, LinksTyped

LEMMA UpsertIs ==
  ASSUME NEW n, NEW kind
  PROVE  /\ DOMAIN Upsert(n, kind) = {"upsert", "gone", "draw", "erase"}
         /\ DOMAIN Upsert(n, kind).upsert = {n} /\ Upsert(n, kind).upsert[n] = kind
         /\ Upsert(n, kind).gone = {} /\ Upsert(n, kind).draw = {} /\ Upsert(n, kind).erase = {}
  <1>1. Upsert(n, kind).upsert = [m \in {n} |-> kind]
    BY DEF Upsert, NoPatch
  <1>2. DOMAIN Upsert(n, kind) = {"upsert", "gone", "draw", "erase"}
    BY DEF Upsert, NoPatch
  <1>3. Upsert(n, kind).gone = {} /\ Upsert(n, kind).draw = {} /\ Upsert(n, kind).erase = {}
    BY DEF Upsert, NoPatch
  <1> QED BY <1>1, <1>2, <1>3

-----------------------------------------------------------------------------
(* Each operation.                                                         *)

\* A patch that sets the kind of one node, and no edge.
LEMMA UpsertDoes ==
  ASSUME IInv, work # None, Ready, NEW n \in Nodes \ work.patch.gone, NEW kind \in Kinds,
         Apply(Upsert(n, kind)),
         \/ n \in Ids(Graph) /\ (Graph.kind[n] = "topEvent" => kind = "topEvent")
         \/ Ids(Graph) = {} /\ kind = "topEvent"
  PROVE  \E p : Does(p)
  <1> DEFINE p == Upsert(n, kind)
             h == After(Graph, p)
  <1>1. /\ DOMAIN p.upsert = {n} /\ p.upsert[n] = kind
        /\ p.gone = {} /\ p.draw = {} /\ p.erase = {}
    BY UpsertIs
  <1> HIDE DEF p
  <1>2. GoodPatch(p)
    BY <1>1 DEF GoodPatch
  <1>3. IsGraph(Graph) /\ IsGraph(h)
    BY <1>1, GraphTyped, AfterGraph
  <1>4. /\ Ids(h) = {n} \union Ids(Graph) /\ h.kind[n] = kind
        /\ \A m \in Ids(Graph) \ {n} : h.kind[m] = Graph.kind[m]
    BY <1>1, AfterIs DEF Ids
  <1>5. Links(h) = Links(Graph)
    <2>1. h.edges = (Graph.edges \ p.erase) \union p.draw
      BY AfterIs
    <2>2. h.edges = Graph.edges
      BY <1>1, <2>1
    <2> QED BY <2>2 DEF Links
  <1> HIDE DEF h
  <1>6. ShapeKept(Graph, h)
    <2>1. CASE n \in Ids(Graph) /\ (Graph.kind[n] = "topEvent" => kind = "topEvent")
      <3>1. Ids(h) = Ids(Graph) /\ Tops(Graph) \subseteq Tops(h)
        BY <1>4, <2>1 DEF Tops, Ids
      <3> QED BY <1>3, <1>5, <3>1, SameShape
    <2>2. CASE Ids(Graph) = {} /\ kind = "topEvent"
      <3>1. Ids(h) \subseteq Tops(h)
        BY <1>4, <2>2 DEF Tops, Ids
      <3> QED BY <1>3, <1>5, <2>2, <3>1, TopShape
    <2> QED BY <2>1, <2>2
  <1>7. Apply(p)
    BY DEF p
  <1> QED BY <1>2, <1>6, <1>7 DEF Does, h

LEMMA UpdateDoes ==
  ASSUME IInv, work # None, NEW n \in Nodes,
         \/ UpdateNode(n)
         \/ \E type \in GateTypes : UpdateGate(n, type)
         \/ AddTopEvent(n)
  PROVE  Nothing \/ \E p : Does(p)
  <1>1. Graph.kind = work.graph.kind /\ Ids(Graph) \intersect work.patch.gone = {}
        /\ \A m \in Ids(Graph) : Graph.kind[m] \in Kinds
    BY GraphTyped DEF Graph
  <1>2. CASE UpdateNode(n)
    <2>1. CASE Apply(Upsert(n, Graph.kind[n]))
      <3>1. n \in Ids(Graph) /\ Ready
        BY <1>2 DEF UpdateNode, HasNode, Ids
      <3> QED BY <1>1, <2>1, <3>1, UpsertDoes
    <2> QED BY <1>2, <2>1 DEF UpdateNode
  <1>3. ASSUME NEW type \in GateTypes, UpdateGate(n, type)
        PROVE  Nothing \/ \E p : Does(p)
    <2>1. CASE Apply(Upsert(n, type))
      <3>1. n \in Ids(Graph) /\ Ready /\ Graph.kind[n] # "topEvent" /\ type \in Kinds
        BY <1>3 DEF UpdateGate, Is, Ids, GateKinds, GateTypes, Kinds
      <3> QED BY <1>1, <2>1, <3>1, UpsertDoes
    <2> QED BY <1>3, <2>1 DEF UpdateGate
  <1>4. CASE AddTopEvent(n)
    <2>1. /\ Ready /\ Ids(Graph) = {} /\ Apply(Upsert(n, "topEvent")) /\ "topEvent" \in Kinds
          /\ n \in Nodes \ work.patch.gone
      BY <1>4, FreshNew DEF AddTopEvent, Kinds, EventTypes
    <2> QED BY <2>1, UpsertDoes
  <1> QED BY <1>2, <1>3, <1>4

\* addNode: a new node below a parent.
LEMMA NewNodeDoes ==
  ASSUME IInv, work # None, NEW n, NEW type, NEW parent \in Ids(Graph), NewNode(n, type, parent)
  PROVE  \E p : Does(p)
  <1> DEFINE pairs == {<<parent, n>>}
             draw == Drawn(Graph, pairs)
             p == [Upsert(n, type) EXCEPT !.draw = draw]
             h == After(Graph, p)
  <1>1. /\ Ready /\ n \in Nodes /\ n \notin Ids(Graph) /\ n \notin work.patch.gone
        /\ New(Links(Graph), n) /\ Apply(p) /\ type \in Kinds /\ type # "topEvent"
    BY FreshNew DEF NewNode, Kinds
  <1>2. /\ DOMAIN p.upsert = {n} /\ p.upsert[n] = type
        /\ p.gone = {} /\ p.draw = draw /\ p.erase = {}
    BY UpsertIs
  <1>3. IsLinks(pairs) /\ parent \in Nodes /\ IsGraph(Graph)
    BY <1>1, GraphTyped DEF IsLinks
  <1>4. draw \subseteq Edges /\ \A e \in draw : e.id = work.ops + 1
    BY <1>1, <1>3, DrawnTyped
  <1> HIDE DEF p, pairs
  <1>5. GoodPatch(p)
    BY <1>1, <1>2, <1>4 DEF GoodPatch
  <1>6. IsGraph(h)
    BY <1>1, <1>2, <1>3, <1>4, AfterGraph
  <1>7. Links(h) = Links(Graph) \union pairs
    <2>1. Graph.edges = Graph.edges \ p.erase
      BY <1>2
    <2> QED BY <1>2, <1>3, <2>1, DrawnLinks
  <1>8. /\ Ids(h) = Ids(Graph) \union {n}
        /\ \A m \in Ids(Graph) : h.kind[m] = Graph.kind[m]
    BY <1>1, <1>2, AfterIs DEF Ids
  <1> HIDE DEF h
  <1>9. Tops(Graph) \subseteq Tops(h)
    BY <1>8 DEF Tops, Ids
  <1>10. Links(h) = Hang(Links(Graph), parent, n)
    BY <1>7 DEF Hang, pairs
  <1>11. ShapeKept(Graph, h)
    BY <1>1, <1>3, <1>6, <1>8, <1>9, <1>10, HangShape
  <1> QED BY <1>1, <1>5, <1>11 DEF Does, h

\* addGate: a new gate between a node and some of its children.
LEMMA NewGateDoes ==
  ASSUME IInv, work # None, NEW n, NEW type \in GateTypes, NEW parent,
         NEW C \in SUBSET Children(Graph, parent), NewGate(n, type, parent, C)
  PROVE  \E p : Does(p)
  <1> DEFINE old == {e \in Graph.edges : e.from = parent /\ e.to \in C}
             cut == [Graph EXCEPT !.edges = @ \ old]
             pairs == {<<parent, n>>} \union {<<n, c>> : c \in C}
             draw == Drawn(cut, pairs)
             p == [Upsert(n, type) EXCEPT !.erase = old, !.draw = draw]
             h == After(Graph, p)
  <1>1. /\ Ready /\ n \in Nodes /\ n \notin Ids(Graph) /\ n \notin work.patch.gone
        /\ New(Links(Graph), n) /\ Apply(p) /\ type \in Kinds
        /\ parent \in Ids(Graph)
    BY FreshNew DEF NewGate, Is, Ids, Kinds, GateKinds
  <1>2. /\ DOMAIN p.upsert = {n} /\ p.upsert[n] = type
        /\ p.gone = {} /\ p.draw = draw /\ p.erase = old
    BY UpsertIs
  <1>3. /\ IsGraph(Graph) /\ parent \in Nodes /\ Graph.edges \subseteq Edges
        /\ DOMAIN Graph = {"kind", "edges"}
    BY <1>1, GraphTyped DEF IsGraph
  <1>4. C \in SUBSET Nodes /\ \A c \in C : <<parent, c>> \in Links(Graph)
    BY <1>3 DEF Children, Links, Edges
  <1>5. IsLinks(pairs) /\ cut.edges = Graph.edges \ old
    BY <1>1, <1>3, <1>4 DEF IsLinks
  <1>6. draw \subseteq Edges /\ \A e \in draw : e.id = work.ops + 1
    BY <1>1, <1>5, DrawnTyped
  <1>7. Links(cut) = Links(Graph) \ {<<parent, c>> : c \in C}
    BY <1>5 DEF Links
  <1> HIDE DEF p, pairs, cut, old
  <1>8. GoodPatch(p)
    <2>1. old \subseteq Graph.edges
      BY DEF old
    <2> QED BY <1>1, <1>2, <1>6, <2>1 DEF GoodPatch
  <1>9. IsGraph(h)
    BY <1>1, <1>2, <1>3, <1>6, AfterGraph
  <1>10. Links(h) = Links(cut) \union pairs
    BY <1>2, <1>3, <1>5, DrawnLinks
  <1>11. /\ Ids(h) = Ids(Graph) \union {n}
         /\ \A m \in Ids(Graph) : h.kind[m] = Graph.kind[m]
    BY <1>1, <1>2, AfterIs DEF Ids
  <1> HIDE DEF h
  <1>12. Tops(Graph) \subseteq Tops(h)
    BY <1>11 DEF Tops, Ids
  <1>13. Links(h) = Between(Links(Graph), parent, n, C)
    BY <1>7, <1>10 DEF Between, pairs
  <1>14. ShapeKept(Graph, h)
    BY <1>1, <1>3, <1>4, <1>9, <1>11, <1>12, <1>13, BetweenShape
  <1> QED BY <1>1, <1>8, <1>14 DEF Does, h

LEMMA AddDoes ==
  ASSUME IInv, work # None, NEW n \in Nodes,
         \/ \E type \in EventTypes, parent \in Nodes :
              AddNode(n, type, parent) \/ AddNodePermissive(n, type, parent)
         \/ \E type \in GateTypes, parent \in Nodes :
              \E C \in SUBSET Children(Graph, parent) :
                AddGate(n, type, parent, C) \/ AddGatePermissive(n, type, parent, C)
  PROVE  \E p : Does(p)
  <1>1. ASSUME NEW type \in EventTypes, NEW parent \in Nodes,
               AddNode(n, type, parent) \/ AddNodePermissive(n, type, parent)
        PROVE  \E p : Does(p)
    <2>1. parent \in Ids(Graph) /\ NewNode(n, type, parent)
      BY <1>1 DEF AddNode, AddNodePermissive, Is, Ids
    <2> QED BY <2>1, NewNodeDoes
  <1>2. ASSUME NEW type \in GateTypes, NEW parent \in Nodes, NEW C \in SUBSET Children(Graph, parent),
               AddGate(n, type, parent, C) \/ AddGatePermissive(n, type, parent, C)
        PROVE  \E p : Does(p)
    BY <1>2, NewGateDoes DEF AddGate, AddGatePermissive
  <1> QED BY <1>1, <1>2

\* deleteNode: a node with all below it, or without.
LEMMA DeleteDoes ==
  ASSUME IInv, work # None, NEW n \in Nodes, NEW withChildren \in BOOLEAN,
         DeleteNode(n, withChildren)
  PROVE  \E p : Does(p)
  <1> DEFINE gone == {n} \union (IF withChildren THEN Below(Graph, n) ELSE {})
             old == {e \in Graph.edges : e.from \in gone \/ e.to \in gone}
             cut == [Graph EXCEPT !.edges = @ \ old]
             draw == IF withChildren THEN {} ELSE Drawn(cut, Bypass(n))
             pairs == IF withChildren THEN {} ELSE Bypass(n)
             p == [NoPatch EXCEPT !.gone = gone \intersect Ids(Graph), !.erase = old, !.draw = draw]
             h == After(Graph, p)
  <1>1. Ready /\ n \in Ids(Graph) /\ n \notin Tops(Graph) /\ Apply(p)
    BY DEF DeleteNode, Is, Ids, Tops
  <1>2. /\ DOMAIN p.upsert = {} /\ p.gone = gone \intersect Ids(Graph)
        /\ p.draw = draw /\ p.erase = old
    BY DEF NoPatch
  <1>3. /\ IsGraph(Graph) /\ IsLinks(Links(Graph)) /\ Graph.edges \subseteq Edges
        /\ DOMAIN Graph = {"kind", "edges"}
    BY GraphTyped DEF IsGraph
  <1>4. gone = (IF withChildren THEN From(Links(Graph), n) ELSE {n}) /\ gone \in SUBSET Nodes
    BY <1>3, LinksBelow, FromClosed
  <1>5. Bypass(n) = Through(Links(Graph), n)
    <2>1. /\ Parents(Graph, n) = {m \in Nodes : <<m, n>> \in Links(Graph)}
          /\ Children(Graph, n) = {m \in Nodes : <<n, m>> \in Links(Graph)}
      BY <1>3 DEF Parents, Children, Links, Edges
    <2> QED BY <2>1 DEF Bypass, Through
  <1>6. IsLinks(pairs) /\ draw = Drawn(cut, pairs)
    <2>1. Drawn(cut, {}) = {}
      BY DEF Drawn
    <2>2. IsLinks(pairs)
      BY <1>5 DEF IsLinks, Through
    <2> QED BY <2>1, <2>2
  <1>7. draw \subseteq Edges /\ \A e \in draw : e.id = work.ops + 1
    BY <1>1, <1>6, DrawnTyped
  <1>8. cut.edges = Graph.edges \ old /\ Links(cut) = Without(Links(Graph), gone)
    <2>1. cut.edges = Graph.edges \ old
      BY <1>3
    <2>2. Links(cut) = {<<e.from, e.to>> : e \in Graph.edges \ old}
      BY <2>1 DEF Links
    <2>3. \A e \in Graph.edges : e \notin old <=> e.from \notin gone /\ e.to \notin gone
      OBVIOUS
    <2> HIDE DEF old, gone
    <2> QED BY <2>1, <2>2, <2>3 DEF Links, Without
  <1>9. old \subseteq Graph.edges
    OBVIOUS
  <1> HIDE DEF p, pairs, cut, old, gone, draw
  <1>10. GoodPatch(p)
    BY <1>2, <1>7, <1>9 DEF GoodPatch
  <1>11. IsGraph(h)
    BY <1>2, <1>3, <1>7, AfterGraph
  <1>12. Links(h) = Without(Links(Graph), gone) \union pairs
    BY <1>2, <1>3, <1>6, <1>8, DrawnLinks
  <1>13. /\ Ids(h) = Ids(Graph) \ gone
         /\ \A m \in Ids(h) : h.kind[m] = Graph.kind[m]
    BY <1>2, AfterIs DEF Ids
  <1> HIDE DEF h
  <1>14. Tops(h) = Tops(Graph) \ gone
    BY <1>13 DEF Tops, Ids
  <1>15. ShapeKept(Graph, h)
    <2>1. CASE withChildren
      <3>1. ClosedUnder(Links(Graph), gone)
        BY <1>3, <1>4, <2>1, FromClosed
      <3>2. Links(h) = Without(Links(Graph), gone)
        BY <1>12, <2>1 DEF pairs
      <3> QED BY <1>3, <1>4, <1>11, <1>13, <1>14, <3>1, <3>2, WithoutShape
    <2>2. CASE ~withChildren
      <3>1. /\ Ids(h) = Ids(Graph) \ {n} /\ Tops(Graph) \subseteq Tops(h)
            /\ Links(h) = Without(Links(Graph), {n}) \union Through(Links(Graph), n)
        BY <1>1, <1>4, <1>5, <1>12, <1>13, <1>14, <2>2 DEF pairs
      <3> QED BY <1>1, <1>3, <1>11, <3>1, ThroughShape
    <2> QED BY <2>1, <2>2
  <1> QED BY <1>1, <1>10, <1>15 DEF Does, h

\* moveNode: a node with all below it, to another parent.
LEMMA MoveDoes ==
  ASSUME IInv, work # None, NEW n \in Nodes, NEW parent \in Nodes, MoveNode(n, parent)
  PROVE  \E p : Does(p)
  <1> DEFINE old == {e \in Graph.edges : e.to = n}
             cut == [Graph EXCEPT !.edges = @ \ old]
             pairs == {<<parent, n>>}
             draw == Drawn(cut, pairs)
             p == [NoPatch EXCEPT !.erase = old, !.draw = draw]
             h == After(Graph, p)
  <1>1. /\ Ready /\ parent \in Ids(Graph) /\ n # parent /\ parent \notin Below(Graph, n)
        /\ Apply(p)
    BY DEF MoveNode, Is, Ids
  <1>2. DOMAIN p.upsert = {} /\ p.gone = {} /\ p.draw = draw /\ p.erase = old
    BY DEF NoPatch
  <1>3. /\ IsGraph(Graph) /\ IsLinks(Links(Graph)) /\ Graph.edges \subseteq Edges
        /\ DOMAIN Graph = {"kind", "edges"}
    BY GraphTyped DEF IsGraph
  <1>4. parent \notin From(Links(Graph), n)
    BY <1>1, <1>3, LinksBelow
  <1>5. IsLinks(pairs)
    BY DEF IsLinks
  <1>6. draw \subseteq Edges /\ \A e \in draw : e.id = work.ops + 1
    BY <1>1, <1>5, DrawnTyped
  <1>7. cut.edges = Graph.edges \ old /\ Links(cut) = {l \in Links(Graph) : l[2] # n}
    <2>1. cut.edges = Graph.edges \ old
      BY <1>3
    <2> QED BY <2>1 DEF Links
  <1>8. old \subseteq Graph.edges
    OBVIOUS
  <1> HIDE DEF p, pairs, cut, old, draw
  <1>9. GoodPatch(p)
    BY <1>2, <1>6, <1>8 DEF GoodPatch
  <1>10. IsGraph(h)
    BY <1>2, <1>3, <1>6, AfterGraph
  <1>11. Links(h) = Links(cut) \union pairs
    BY <1>2, <1>3, <1>5, <1>7, DrawnLinks DEF draw
  <1>12. Ids(h) = Ids(Graph) /\ \A m \in Ids(Graph) : h.kind[m] = Graph.kind[m]
    BY <1>2, AfterIs DEF Ids
  <1> HIDE DEF h
  <1>13. Tops(Graph) \subseteq Tops(h)
    BY <1>12 DEF Tops, Ids
  <1>14. Links(h) = Rehang(Links(Graph), parent, n)
    BY <1>7, <1>11 DEF Rehang, pairs
  <1>15. ShapeKept(Graph, h)
    BY <1>1, <1>3, <1>4, <1>10, <1>12, <1>13, <1>14, RehangShape
  <1> QED BY <1>1, <1>9, <1>15 DEF Does, h

\* An operation changes nothing or does one of these.
LEMMA OperationDoes ==
  ASSUME IInv, work # None, Operation
  PROVE  Ready /\ (Nothing \/ \E p : Does(p))
  <1>1. CASE ReadTool \/ \E n \in Nodes : LookAt(n)
    BY <1>1 DEF ReadTool, LookAt
  <1>2. ASSUME NEW n \in Nodes,
               \/ UpdateNode(n)
               \/ \E type \in GateTypes : UpdateGate(n, type)
               \/ AddTopEvent(n)
        PROVE  Ready /\ (Nothing \/ \E p : Does(p))
    <2>1. Ready
      BY <1>2 DEF UpdateNode, UpdateGate, AddTopEvent
    <2> QED BY <1>2, <2>1, UpdateDoes
  <1>3. ASSUME NEW n \in Nodes,
               \/ \E type \in EventTypes, parent \in Nodes :
                    AddNode(n, type, parent) \/ AddNodePermissive(n, type, parent)
               \/ \E type \in GateTypes, parent \in Nodes :
                    \E C \in SUBSET Children(Graph, parent) :
                      AddGate(n, type, parent, C) \/ AddGatePermissive(n, type, parent, C)
        PROVE  Ready /\ \E p : Does(p)
    <2>1. Ready
      BY <1>3 DEF AddNode, AddNodePermissive, NewNode, AddGate, AddGatePermissive, NewGate
    <2> QED BY <1>3, <2>1, AddDoes
  <1>4. ASSUME NEW n \in Nodes, NEW withChildren \in BOOLEAN, DeleteNode(n, withChildren)
        PROVE  Ready /\ \E p : Does(p)
    <2>1. Ready
      BY <1>4 DEF DeleteNode
    <2> QED BY <1>4, <2>1, DeleteDoes
  <1>5. ASSUME NEW n \in Nodes, NEW parent \in Nodes, MoveNode(n, parent)
        PROVE  Ready /\ \E p : Does(p)
    <2>1. Ready
      BY <1>5 DEF MoveNode
    <2> QED BY <1>5, <2>1, MoveDoes
  <1> QED BY <1>1, <1>2, <1>3, <1>4, <1>5 DEF Operation

-----------------------------------------------------------------------------
(* The inductive invariant.                                                *)

\* The fields of the operation under way after a success.
LEMMA ApplyIs ==
  ASSUME IInv, work # None, NEW p, Apply(p)
  PROVE  /\ DOMAIN work' = DOMAIN work
         /\ work'.graph = After(work.graph, p) /\ work'.patch = MergePatch(work.patch, p)
         /\ work'.ops = work.ops + 1 /\ work'.changed = TRUE
         /\ work'.mode = work.mode /\ work'.rev = work.rev /\ work'.base = work.base
         /\ UNCHANGED <<stored, preview, saves>>
  <1>1. DOMAIN work = {"mode", "rev", "base", "graph", "patch", "ops", "changed"}
    BY DEF IInv, WorkOK
  <1> QED BY <1>1 DEF Apply

LEMMA MergeIs ==
  ASSUME NEW p, NEW q
  PROVE  /\ MergePatch(p, q).upsert = Over(q.upsert, p.upsert)
         /\ MergePatch(p, q).gone = p.gone \union q.gone
         /\ MergePatch(p, q).draw = p.draw \union q.draw
         /\ MergePatch(p, q).erase = p.erase \union q.erase
  BY DEF MergePatch

\* Merging the operation's patch is applying it after the others.
LEMMA MergeRebuilds ==
  ASSUME IInv, work # None, Ready, NEW p, GoodPatch(p)
  PROVE  LET seen == After(work.base, MergePatch(work.patch, p))
         IN  /\ seen.kind = After(work.graph, p).kind
             /\ seen.edges \ MergePatch(work.patch, p).erase = After(work.graph, p).edges
  <1> DEFINE q == work.patch
             m == MergePatch(q, p)
             seen == After(work.base, m)
             old == After(work.base, q)
             new == After(work.graph, p)
  <1>1. /\ m.upsert = Over(p.upsert, q.upsert) /\ m.gone = q.gone \union p.gone
        /\ m.draw = q.draw \union p.draw /\ m.erase = q.erase \union p.erase
    BY MergeIs
  <1>2. old.kind = work.graph.kind /\ old.edges \ q.erase = work.graph.edges
    BY DEF IInv, PatchRebuilds
  <1>3. DOMAIN p.upsert \intersect q.gone = {} /\ p.gone \subseteq Ids(work.graph)
    BY DEF GoodPatch, Graph
  <1> DEFINE u == m.upsert
             F == Over(u, work.base.kind)
             G == Over(p.upsert, work.graph.kind)
  <1>4. /\ DOMAIN u = DOMAIN p.upsert \union DOMAIN q.upsert
        /\ \A n \in DOMAIN p.upsert : u[n] = p.upsert[n]
        /\ \A n \in DOMAIN q.upsert \ DOMAIN p.upsert : u[n] = q.upsert[n]
    <2>1. u = Over(p.upsert, q.upsert)
      BY <1>1
    <2> HIDE DEF u, q
    <2> QED BY <2>1 DEF Over
  <1>5. Ids(work.graph) = (DOMAIN q.upsert \union DOMAIN work.base.kind) \ q.gone
    BY <1>2, AfterIs DEF Ids
  <1> DEFINE N == (DOMAIN u \union DOMAIN work.base.kind) \ m.gone
  <1>6. N = (DOMAIN p.upsert \union DOMAIN work.graph.kind) \ p.gone
    BY <1>1, <1>3, <1>4, <1>5 DEF Ids
  <1>7. seen.kind = new.kind
    <2>1. seen.kind = [n \in N |-> F[n]]
      BY DEF After, Within
    <2>2. new.kind = [n \in N |-> G[n]]
      BY <1>6 DEF After, Within
    <2> HIDE DEF u
    <2>3. ASSUME NEW n \in DOMAIN u PROVE F[n] = u[n]
      BY <2>3 DEF Over
    <2>4. ASSUME NEW n \in DOMAIN work.base.kind \ DOMAIN u PROVE F[n] = work.base.kind[n]
      BY <2>4 DEF Over
    <2>5. ASSUME NEW n \in DOMAIN p.upsert PROVE G[n] = p.upsert[n]
      BY <2>5 DEF Over
    <2>6. ASSUME NEW n \in DOMAIN work.graph.kind \ DOMAIN p.upsert PROVE G[n] = old.kind[n]
      BY <1>2, <2>6 DEF Over
    <2>7. ASSUME NEW n \in DOMAIN q.upsert \ q.gone PROVE old.kind[n] = q.upsert[n]
      BY <2>7, AfterIs
    <2>8. ASSUME NEW n \in DOMAIN work.base.kind \ (DOMAIN q.upsert \union q.gone)
          PROVE  old.kind[n] = work.base.kind[n]
      BY <2>8, AfterIs
    <2> HIDE DEF F, G, m, q, old, N
    <2>9. ASSUME NEW n \in N PROVE F[n] = G[n]
      <3>1. CASE n \in DOMAIN p.upsert
        BY <1>4, <2>3, <2>5, <3>1
      <3>2. CASE n \notin DOMAIN p.upsert
        <4>1. n \in Ids(work.graph) /\ G[n] = old.kind[n] /\ n \notin q.gone
          BY <1>5, <1>6, <2>6, <2>9, <3>2 DEF Ids
        <4>2. CASE n \in DOMAIN q.upsert
          BY <1>4, <2>3, <2>7, <3>2, <4>1, <4>2
        <4>3. CASE n \notin DOMAIN q.upsert
          BY <1>4, <1>5, <2>4, <2>8, <3>2, <4>1, <4>3
        <4> QED BY <4>2, <4>3
      <3> QED BY <3>1, <3>2
    <2>10. [n \in N |-> F[n]] = [n \in N |-> G[n]]
      BY <2>9
    <2> QED BY <2>1, <2>2, <2>10
  <1>8. seen.edges \ m.erase = new.edges
    <2>1. /\ seen.edges = (work.base.edges \ m.erase) \union m.draw
          /\ old.edges = (work.base.edges \ q.erase) \union q.draw
          /\ new.edges = (work.graph.edges \ p.erase) \union p.draw
      BY AfterIs
    <2>2. p.draw \intersect m.erase = {}
      <3>1. work.ops \in Int /\ \A e \in p.draw : e.id = work.ops + 1
        BY DEF GoodPatch, IInv, TypeOK
      <3>2. \A e \in m.erase : e.id <= work.ops
        BY <1>1 DEF IInv, WorkOK, GoodPatch, Graph
      <3> QED BY <3>1, <3>2
    <2> HIDE DEF seen, old, new, m
    <2> QED BY <1>1, <1>2, <2>1, <2>2
  <1> QED BY <1>7, <1>8

LEMMA DoesKeeps ==
  ASSUME IInv, work # None, Ready, NEW p, Does(p)
  PROVE  IInv'
  <1>1. /\ DOMAIN work' = DOMAIN work
        /\ work'.graph = After(work.graph, p) /\ work'.patch = MergePatch(work.patch, p)
        /\ work'.ops = work.ops + 1 /\ work'.changed = TRUE
        /\ work'.mode = work.mode /\ work'.rev = work.rev /\ work'.base = work.base
        /\ UNCHANGED <<stored, preview, saves>>
    BY ApplyIs DEF Does
  <1>2. /\ DOMAIN p.upsert \subseteq Nodes /\ \A n \in DOMAIN p.upsert : p.upsert[n] \in Kinds
        /\ p.gone \subseteq Nodes /\ p.draw \subseteq Edges /\ p.erase \subseteq Edges
    BY GraphTyped DEF Does, GoodPatch
  <1>3. IsGraph(work'.graph)
    BY <1>1, <1>2, GraphTyped, AfterGraph DEF Graph
  <1>4. IsPatch(work'.patch)
    <2>1. /\ work'.patch.upsert = Over(p.upsert, work.patch.upsert)
          /\ work'.patch.gone = work.patch.gone \union p.gone
          /\ work'.patch.draw = work.patch.draw \union p.draw
          /\ work'.patch.erase = work.patch.erase \union p.erase
      BY <1>1, MergeIs
    <2>2. /\ DOMAIN work.patch.upsert \subseteq Nodes
          /\ \A n \in DOMAIN work.patch.upsert : work.patch.upsert[n] \in Kinds
          /\ work.patch.gone \subseteq Nodes
          /\ work.patch.draw \subseteq Edges /\ work.patch.erase \subseteq Edges
      BY DEF IInv, TypeOK, IsPatch
    <2>3. /\ DOMAIN Over(p.upsert, work.patch.upsert) \subseteq Nodes
          /\ \A n \in DOMAIN Over(p.upsert, work.patch.upsert) :
               Over(p.upsert, work.patch.upsert)[n] \in Kinds
      BY <1>2, <2>2 DEF Over
    <2> QED BY <1>2, <2>1, <2>2, <2>3 DEF IsPatch
  <1>5. work'.ops \in 0..MaxOps
    BY <1>1, EditorAssumption DEF IInv, TypeOK, Ready
  <1>6. TypeOK'
    BY <1>1, <1>3, <1>4, <1>5 DEF IInv, TypeOK
  <1>7. WorkOK'
    <2>1. /\ work'.graph.edges = (work.graph.edges \ p.erase) \union p.draw
          /\ work'.patch.erase = work.patch.erase \union p.erase
      BY <1>1, AfterIs, MergeIs
    <2>2. /\ \A e \in p.draw : e.id = work.ops + 1
          /\ \A e \in work.graph.edges \union work.patch.erase \union p.erase : e.id <= work.ops
      BY DEF Does, GoodPatch, IInv, WorkOK, Graph
    <2>3. /\ work.ops \in Int /\ work.graph.edges \subseteq Edges
          /\ work.patch.erase \subseteq Edges
      BY DEF IInv, TypeOK, IsGraph, IsPatch
    <2>4. \A e \in work.graph.edges \union work.patch.erase \union p.erase : e.id <= work.ops + 1
      BY <1>2, <2>2, <2>3, EditorAssumption DEF Edges
    <2>5. \A e \in work'.graph.edges \union work'.patch.erase : e.id <= work'.ops
      BY <1>1, <2>1, <2>2, <2>3, <2>4
    <2> QED BY <1>1, <2>5 DEF IInv, WorkOK
  <1>8. PatchRebuilds'
    <2>1. GoodPatch(p)
      BY DEF Does
    <2> QED BY <1>1, <2>1, MergeRebuilds DEF PatchRebuilds
  <1> QED BY <1>6, <1>7, <1>8 DEF IInv

LEMMA NothingKeeps ==
  ASSUME IInv, work # None, Ready, Nothing
  PROVE  IInv' /\ work'.graph = work.graph /\ work'.base = work.base
  <1>1. DOMAIN work = {"mode", "rev", "base", "graph", "patch", "ops", "changed"}
    BY DEF IInv, WorkOK
  <1>2. /\ DOMAIN work' = DOMAIN work
        /\ work'.graph = work.graph /\ work'.patch = work.patch
        /\ work'.ops = work.ops + 1 /\ work'.changed = work.changed
        /\ work'.mode = work.mode /\ work'.rev = work.rev /\ work'.base = work.base
        /\ UNCHANGED <<stored, preview, saves>>
    BY <1>1 DEF Nothing
  <1>3. work'.ops \in 0..MaxOps
    BY <1>2, EditorAssumption DEF IInv, TypeOK, Ready
  <1>4. TypeOK'
    BY <1>2, <1>3 DEF IInv, TypeOK
  <1>5. WorkOK'
    <2>1. /\ work.ops \in Int /\ work.graph.edges \subseteq Edges
          /\ work.patch.erase \subseteq Edges
      BY DEF IInv, TypeOK, IsGraph, IsPatch
    <2>2. \A e \in work.graph.edges \union work.patch.erase : e.id <= work.ops + 1
      BY <2>1, EditorAssumption DEF IInv, WorkOK, Edges
    <2> QED BY <1>2, <2>2 DEF IInv, WorkOK
  <1>6. PatchRebuilds'
    BY <1>2 DEF IInv, PatchRebuilds
  <1> QED BY <1>2, <1>4, <1>5, <1>6 DEF IInv

\* The graph as it is stored, its edges under the ids of the table.
Erased(g) == [g EXCEPT !.edges = {[e EXCEPT !.id = 0] : e \in g.edges}]

LEMMA ErasedIs ==
  ASSUME NEW g, IsGraph(g)
  PROVE  /\ IsGraph(Erased(g)) /\ Links(Erased(g)) = Links(g) /\ Erased(g).kind = g.kind
         /\ \A e \in Erased(g).edges : e.id = 0
         /\ Erased(g).edges = {[from |-> e.from, to |-> e.to, id |-> 0] : e \in g.edges}
  <1> DEFINE cleared == {[e EXCEPT !.id = 0] : e \in g.edges}
             E == {[from |-> e.from, to |-> e.to, id |-> 0] : e \in g.edges}
  <1>1. DOMAIN g = {"kind", "edges"} /\ g.edges \subseteq Edges
    BY DEF IsGraph
  <1>2. \A e \in g.edges : [e EXCEPT !.id = 0] = [from |-> e.from, to |-> e.to, id |-> 0]
    BY <1>1 DEF Edges
  <1>3. cleared = E
    <2>1. ASSUME NEW x PROVE x \in cleared <=> x \in E
      BY <1>2
    <2> QED BY <2>1
  <1>4. Erased(g).kind = g.kind /\ Erased(g).edges = E /\ DOMAIN Erased(g) = {"kind", "edges"}
    BY <1>1, <1>3 DEF Erased
  <1>5. E \subseteq Edges
    BY <1>1, EditorAssumption DEF Edges
  <1>6. IsGraph(Erased(g))
    <2>1. PICK N \in SUBSET Nodes : g.kind \in [N -> Kinds]
      BY DEF IsGraph
    <2>2. Erased(g).kind \in [N -> Kinds] /\ Erased(g).edges \subseteq Edges
      BY <1>4, <1>5, <2>1
    <2> QED BY <1>4, <2>2 DEF IsGraph
  <1>7. Links(Erased(g)) = Links(g)
    <2>1. Links(Erased(g)) = {<<e.from, e.to>> : e \in E}
      BY <1>4 DEF Links
    <2>2. ASSUME NEW e \in g.edges PROVE <<e.from, e.to>> \in {<<d.from, d.to>> : d \in E}
      <3>1. [from |-> e.from, to |-> e.to, id |-> 0] \in E
        BY <2>2
      <3> HIDE DEF E
      <3> QED BY <3>1
    <2>3. ASSUME NEW d \in E PROVE <<d.from, d.to>> \in Links(g)
      <3>1. PICK e \in g.edges : d = [from |-> e.from, to |-> e.to, id |-> 0]
        BY <2>3
      <3> QED BY <3>1 DEF Links
    <2> HIDE DEF E
    <2> QED BY <2>1, <2>2, <2>3 DEF Links
  <1> QED BY <1>4, <1>6, <1>7

LEMMA OpenKeeps ==
  ASSUME IInv, NEW mode \in Modes, Open(mode)
  PROVE  IInv' /\ work'.graph = work'.base
  <1> DEFINE w == [mode |-> mode, rev |-> saves, base |-> stored, graph |-> stored,
                   patch |-> NoPatch, ops |-> 0, changed |-> FALSE]
  <1>1. work' = w /\ UNCHANGED <<stored, preview, saves>>
    BY DEF Open
  <1>2. /\ w.mode \in {"single", "batch", "repair"} /\ w.rev = saves
        /\ w.base = stored /\ w.graph = stored /\ w.patch = NoPatch /\ w.ops = 0
        /\ w.changed = FALSE
        /\ DOMAIN w = {"mode", "rev", "base", "graph", "patch", "ops", "changed"}
    BY EditorAssumption
  <1> HIDE DEF w
  <1>3. /\ DOMAIN NoPatch.upsert = {} /\ NoPatch.gone = {} /\ NoPatch.draw = {}
        /\ NoPatch.erase = {}
    BY DEF NoPatch
  <1>4. saves \in 0..saves /\ 0 \in 0..MaxOps
    BY EditorAssumption DEF IInv, TypeOK
  <1>5. TypeOK'
    BY <1>1, <1>2, <1>3, <1>4 DEF IInv, TypeOK, IsPatch
  <1>6. WorkOK'
    BY <1>1, <1>2, <1>3 DEF IInv, TypeOK, WorkOK
  <1>7. PatchRebuilds'
    <2>1. /\ Ids(After(stored, NoPatch)) = Ids(stored)
          /\ After(stored, NoPatch).edges = (stored.edges \ NoPatch.erase) \union NoPatch.draw
          /\ \A n \in Ids(stored) : After(stored, NoPatch).kind[n] = stored.kind[n]
      <3>1. After(stored, NoPatch).edges = (stored.edges \ NoPatch.erase) \union NoPatch.draw
        BY AfterIs
      <3>2. /\ Ids(After(stored, NoPatch)) = Ids(stored)
            /\ \A n \in Ids(stored) : After(stored, NoPatch).kind[n] = stored.kind[n]
        <4>1. /\ Ids(After(stored, NoPatch))
                   = (DOMAIN NoPatch.upsert \union DOMAIN stored.kind) \ NoPatch.gone
              /\ \A n \in DOMAIN stored.kind \ (DOMAIN NoPatch.upsert \union NoPatch.gone) :
                   After(stored, NoPatch).kind[n] = stored.kind[n]
          BY AfterIs
        <4> QED BY <1>3, <4>1 DEF Ids
      <3> QED BY <3>1, <3>2
    <2>2. After(stored, NoPatch).kind = stored.kind
      <3>1. PICK N \in SUBSET Nodes : stored.kind \in [N -> Kinds]
        BY DEF IInv, TypeOK, IsGraph
      <3>2. After(stored, NoPatch).kind = [n \in N |-> After(stored, NoPatch).kind[n]]
        BY <1>3, <3>1 DEF After, Within
      <3> QED BY <2>1, <3>1, <3>2 DEF Ids
    <2> QED BY <1>1, <1>2, <1>3, <2>1, <2>2 DEF PatchRebuilds
  <1> QED BY <1>1, <1>2, <1>5, <1>6, <1>7 DEF IInv

LEMMA CommitKeeps ==
  ASSUME IInv, preview # None, NEW approved \in SUBSET preview, CommitPreview(approved)
  PROVE  IInv' /\ work'.graph.edges = work'.base.edges /\ ShapeKept(work'.base, work'.graph)
  <1> DEFINE items == IF approved = {} THEN preview ELSE approved
             todo == {n \in items : stored.kind[n] # "OR"}
             p == [NoPatch EXCEPT !.upsert = [n \in todo |-> "OR"]]
             w == [mode |-> "batch", rev |-> saves, base |-> stored, graph |-> After(stored, p),
                   patch |-> p, ops |-> MaxOps, changed |-> todo # {}]
  <1>1. /\ work' = w /\ preview' = None /\ UNCHANGED <<stored, saves>>
        /\ \A n \in items : Is(stored, n, GateKinds)
    BY DEF CommitPreview
  <1>2. /\ w.mode \in {"single", "batch", "repair"} /\ w.rev = saves
        /\ w.base = stored /\ w.graph = After(stored, p) /\ w.patch = p /\ w.ops = MaxOps
        /\ w.changed \in BOOLEAN
        /\ DOMAIN w = {"mode", "rev", "base", "graph", "patch", "ops", "changed"}
    BY DEF w
  <1>3. /\ p.upsert = [n \in todo |-> "OR"] /\ p.gone = {} /\ p.draw = {} /\ p.erase = {}
    BY DEF NoPatch
  <1>4. /\ todo \subseteq Ids(stored) /\ IsGraph(stored) /\ "OR" \in Kinds
        /\ \A n \in todo : stored.kind[n] # "topEvent"
    BY <1>1 DEF Is, Ids, IInv, TypeOK, Kinds, GateKinds, GateTypes
  <1> HIDE DEF w, p, todo
  <1>5. DOMAIN p.upsert = todo /\ \A n \in todo : p.upsert[n] = "OR"
    BY <1>3
  <1>6. Ids(stored) \subseteq Nodes /\ stored.edges \subseteq Edges
    BY <1>4, LinksTyped
  <1>7. IsGraph(After(stored, p)) /\ IsPatch(p)
    <2>1. IsPatch(p)
      BY <1>3, <1>4, <1>5, <1>6 DEF IsPatch
    <2> QED BY <1>4, <2>1, AfterGraph DEF IsPatch
  <1>8. /\ Ids(After(stored, p)) = Ids(stored) /\ After(stored, p).edges = stored.edges
        /\ \A n \in Ids(stored) \ todo : After(stored, p).kind[n] = stored.kind[n]
    <2>1. After(stored, p).edges = (stored.edges \ p.erase) \union p.draw
      BY AfterIs
    <2>2. Ids(After(stored, p)) = Ids(stored)
      <3>1. Ids(After(stored, p)) = (DOMAIN p.upsert \union DOMAIN stored.kind) \ p.gone
        BY AfterIs
      <3> QED BY <1>3, <1>4, <1>5, <3>1 DEF Ids
    <2>3. \A n \in Ids(stored) \ todo : After(stored, p).kind[n] = stored.kind[n]
      BY <1>3, <1>5, AfterIs DEF Ids
    <2> QED BY <1>3, <2>1, <2>2, <2>3
  <1>9. saves \in 0..saves /\ MaxOps \in 0..MaxOps
    BY EditorAssumption DEF IInv, TypeOK
  <1>10. TypeOK'
    BY <1>1, <1>2, <1>7, <1>9 DEF IInv, TypeOK
  <1>11. WorkOK'
    <2>1. \A e \in stored.edges : e.id = 0 /\ e.id <= MaxOps
      BY EditorAssumption DEF IInv, TypeOK
    <2> QED BY <1>1, <1>2, <1>3, <1>8, <2>1 DEF WorkOK
  <1>12. PatchRebuilds'
    BY <1>1, <1>2, <1>3 DEF PatchRebuilds
  <1>13. ShapeKept(stored, After(stored, p))
    <2>1. Tops(stored) \subseteq Tops(After(stored, p))
      BY <1>4, <1>8 DEF Tops, Ids
    <2>2. Links(After(stored, p)) = Links(stored)
      BY <1>8 DEF Links
    <2> QED BY <1>4, <1>7, <1>8, <2>1, <2>2, SameShape
  <1> QED BY <1>1, <1>2, <1>8, <1>10, <1>11, <1>12, <1>13 DEF IInv

\* A step that ends the call, or leaves it alone.
LEMMA OtherKeeps ==
  ASSUME IInv,
         Refuse \/ Unchanged \/ Persist \/ SaveGraph \/ GeneratePreview \/ DropPreview
           \/ UNCHANGED vars
  PROVE  IInv' /\ (work' = None \/ work' = work)
  <1>1. CASE Refuse \/ Unchanged \/ Persist
    <2>1. work' = None /\ preview' = preview
      BY <1>1 DEF Refuse, Unchanged, Persist
    <2>2. IsGraph(stored') /\ (\A e \in stored'.edges : e.id = 0) /\ saves' \in 0..MaxSaves + 1
      <3>1. CASE Refuse \/ Unchanged
        BY <3>1 DEF Refuse, Unchanged, IInv, TypeOK
      <3>2. CASE Persist
        <4>1. IsGraph(work.graph) /\ stored' = Erased(work.graph)
          BY <3>2 DEF Persist, IInv, TypeOK, Erased
        <4>2. saves' \in 0..MaxSaves + 1
          BY <3>2, EditorAssumption DEF Persist, IInv, TypeOK
        <4> QED BY <4>1, <4>2, ErasedIs
      <3> QED BY <1>1, <3>1, <3>2
    <2> QED BY <2>1, <2>2 DEF IInv, TypeOK, WorkOK, PatchRebuilds
  <1>2. CASE SaveGraph
    <2>1. IsGraph(stored') /\ (\A e \in stored'.edges : e.id = 0)
      BY <1>2, EditorAssumption DEF SaveGraph
    <2>2. saves' \in 0..MaxSaves + 1 /\ saves' = saves + 1 /\ saves \in Nat
      BY <1>2, EditorAssumption DEF SaveGraph, IInv, TypeOK
    <2>3. UNCHANGED <<work, preview>>
      BY <1>2 DEF SaveGraph
    <2>4. work # None => work.rev \in 0..saves' /\ work.rev # saves'
      BY <2>2 DEF IInv, TypeOK
    <2>5. TypeOK'
      BY <2>1, <2>2, <2>3, <2>4 DEF IInv, TypeOK
    <2>6. WorkOK'
      BY <2>3, <2>4 DEF IInv, WorkOK
    <2> QED BY <2>3, <2>5, <2>6 DEF IInv, PatchRebuilds
  <1>3. CASE GeneratePreview \/ DropPreview
    <2>1. UNCHANGED <<stored, work, saves>>
      BY <1>3 DEF GeneratePreview, DropPreview
    <2>2. preview' # None => preview' \subseteq Nodes
      <3>1. Ids(stored) \subseteq Nodes
        BY LinksTyped DEF IInv, TypeOK
      <3> QED BY <1>3, <3>1 DEF GeneratePreview, DropPreview
    <2> QED BY <2>1, <2>2 DEF IInv, TypeOK, WorkOK, PatchRebuilds
  <1>4. CASE UNCHANGED vars
    BY <1>4 DEF vars, IInv, TypeOK, WorkOK, PatchRebuilds
  <1> QED BY <1>1, <1>2, <1>3, <1>4

-----------------------------------------------------------------------------
(* The theorems.                                                           *)

LEMMA InitIInv == Init => IInv /\ RootedKept /\ AcyclicKept
  BY EditorAssumption
     DEF Init, IInv, TypeOK, WorkOK, PatchRebuilds, RootedKept, AcyclicKept

\* A step begins a call on a graph of the same shape, ends it, leaves it alone, or goes
\* on with a graph of the same shape.
LEMMA StepDoes ==
  ASSUME IInv, [Next]_vars
  PROVE  /\ IInv'
         /\ \/ work' = None \/ work' = work
            \/ work = None /\ ShapeKept(work'.base, work'.graph)
            \/ /\ work # None /\ work'.base = work.base
               /\ ShapeKept(work.graph, work'.graph)
  <1>1. \A g : ShapeKept(g, g)
    BY DEF ShapeKept
  <1>2. ASSUME NEW mode \in Modes, Open(mode)
        PROVE  IInv' /\ work = None /\ ShapeKept(work'.base, work'.graph)
    BY <1>1, <1>2, OpenKeeps DEF Open
  <1>3. ASSUME work # None, Operation
        PROVE  /\ IInv' /\ work'.base = work.base
               /\ ShapeKept(work.graph, work'.graph)
    <2>1. Ready /\ (Nothing \/ \E p : Does(p))
      BY <1>3, OperationDoes
    <2>2. CASE Nothing
      BY <1>1, <1>3, <2>1, <2>2, NothingKeeps
    <2>3. ASSUME NEW p, Does(p)
          PROVE  /\ IInv' /\ work'.base = work.base
                 /\ ShapeKept(work.graph, work'.graph)
      <3>1. Apply(p) /\ ShapeKept(work.graph, After(work.graph, p))
        BY <2>3 DEF Does, Graph
      <3>2. work'.base = work.base /\ work'.graph = After(work.graph, p)
        BY <1>3, <3>1, ApplyIs
      <3>3. IInv'
        BY <1>3, <2>1, <2>3, DoesKeeps
      <3> QED BY <3>1, <3>2, <3>3
    <2> QED BY <2>1, <2>2, <2>3
  <1>4. ASSUME preview # None, NEW approved \in SUBSET preview, CommitPreview(approved)
        PROVE  IInv' /\ work = None /\ ShapeKept(work'.base, work'.graph)
    BY <1>4, CommitKeeps DEF CommitPreview
  <1>5. CASE Refuse \/ Unchanged \/ Persist \/ SaveGraph \/ GeneratePreview \/ DropPreview
               \/ UNCHANGED vars
    BY <1>5, OtherKeeps
  <1> QED BY <1>2, <1>3, <1>4, <1>5 DEF Next

LEMMA Inductive == Spec => [](IInv /\ RootedKept /\ AcyclicKept)
  <1>1. IInv /\ RootedKept /\ AcyclicKept /\ [Next]_vars => (IInv /\ RootedKept /\ AcyclicKept)'
    <2> SUFFICES ASSUME IInv, RootedKept, AcyclicKept, [Next]_vars
                 PROVE  (IInv /\ RootedKept /\ AcyclicKept)'
      OBVIOUS
    <2>1. IInv' /\ (work' = None \/ work' = work => (RootedKept /\ AcyclicKept)')
      BY StepDoes DEF RootedKept, AcyclicKept
    <2>2. CASE work = None /\ ShapeKept(work'.base, work'.graph)
      BY <2>1, <2>2 DEF RootedKept, AcyclicKept, ShapeKept
    <2>3. CASE /\ work # None /\ work'.base = work.base
               /\ ShapeKept(work.graph, work'.graph)
      BY <2>1, <2>3 DEF RootedKept, AcyclicKept, ShapeKept
    <2> QED BY <2>1, <2>2, <2>3, StepDoes
  <1> QED BY <1>1, InitIInv, PTL DEF Spec

\* Whatever graph users save, every copy an operation works on is a graph, within the
\* bounds, and the call was opened on a revision there has been.
THEOREM TypeCorrect == Spec => []TypeOK
  <1>1. IInv => TypeOK
    BY DEF IInv
  <1> QED BY <1>1, Inductive, PTL

\* A client that applies the patch of any batch to the graph it began with has the graph
\* the server stores.
THEOREM PatchRebuildsCorrect == Spec => []PatchRebuilds
  <1>1. IInv => PatchRebuilds
    BY DEF IInv
  <1> QED BY <1>1, Inductive, PTL

\* No operation, in any mode and on any graph, cuts a node off the top event.
THEOREM RootedKeptCorrect == Spec => []RootedKept
  <1> QED BY Inductive, PTL

\* No operation, in any mode and on any graph without a cycle, draws one.
THEOREM AcyclicKeptCorrect == Spec => []AcyclicKept
  <1> QED BY Inductive, PTL

\* Adding and removing nodes leaves the others above and below each other as they were,
\* on any graph, cyclic ones and edges to nothing included.
THEOREM AncestryKeptCorrect == Spec => AncestryKept
  <1> DEFINE Same ==
        work # None /\ work' # None =>
          LET g == work.graph
              h == work'.graph
              both == Ids(g) \intersect Ids(h)
          IN  Ids(g) # Ids(h) =>
                \A n \in both : Below(g, n) \intersect both = Below(h, n) \intersect both
  <1>1. IInv /\ [Next]_vars => Same
    BY StepDoes DEF ShapeKept, SameAncestry
  <1>2. IInv /\ [Next]_vars => [Same]_vars
    BY <1>1
  <1> HIDE DEF Same
  <1>3. Spec => [][Same]_vars
    BY <1>2, Inductive, PTL DEF Spec
  <1> QED BY <1>3 DEF Same, AncestryKept

\* A step that stores what a call made is Persist.
LEMMA StoresByPersist ==
  ASSUME IInv, [Next]_vars, work # None, work' = None, saves' # saves
  PROVE  Persist
  <1>1. ~ UNCHANGED saves /\ ~ UNCHANGED work
    OBVIOUS
  <1>2. CASE Operation
    <2>1. Nothing \/ \E p : Apply(p)
      BY <1>2, OperationDoes DEF Does
    <2> QED BY <1>1, <2>1 DEF Nothing, Apply
  <1>3. CASE \E mode \in Modes : Open(mode)
    BY <1>1, <1>3 DEF Open
  <1>4. CASE Refuse \/ Unchanged \/ SaveGraph \/ GeneratePreview \/ DropPreview \/ UNCHANGED vars
    BY <1>1, <1>4 DEF Refuse, Unchanged, SaveGraph, GeneratePreview, DropPreview, vars
  <1>5. CASE \E approved \in SUBSET preview : CommitPreview(approved)
    BY <1>1, <1>5 DEF CommitPreview
  <1> QED BY <1>2, <1>3, <1>4, <1>5 DEF Next

\* What passes the check has one top event, no cycle and no edge to nothing.
LEMMA SafeTree ==
  ASSUME NEW g, IsGraph(g), NEW mode, Safe(g, mode)
  PROVE  Cardinality(Tops(g)) = 1 /\ Acyclic(g) /\ Sound(g) = g.edges
  <1>1. Issues(g) \intersect Fatal = {}
    BY DEF Safe
  <1>2. TreeIssues(g) \intersect Fatal = {} /\ EdgeIssues(g) \intersect Fatal = {}
    BY <1>1 DEF Issues
  <1>3. Acyclic(g)
    BY <1>2 DEF TreeIssues, Fatal
  <1>4. Cardinality(Tops(g)) # 0 /\ ~(Cardinality(Tops(g)) > 1)
    BY <1>2 DEF TreeIssues, Fatal
  <1>5. Cardinality(Tops(g)) \in Nat
    <2>1. Tops(g) \subseteq Nodes
      BY LinksTyped DEF Tops, Ids
    <2> QED BY <2>1, EditorAssumption, FS_Subset, FS_CardinalityType
  <1>6. \A e \in g.edges : HasNode(g, e.from) /\ HasNode(g, e.to)
    <2>1. ~ \E e \in g.edges : ~HasNode(g, e.from)
      BY <1>2 DEF EdgeIssues, Fatal
    <2>2. ~ \E e \in g.edges : HasNode(g, e.from) /\ ~HasNode(g, e.to)
      BY <1>2 DEF EdgeIssues, Fatal
    <2> QED BY <2>1, <2>2
  <1> QED BY <1>3, <1>4, <1>5, <1>6 DEF Sound

\* The stored graph has the shape of the copy.
LEMMA ErasedShape ==
  ASSUME NEW g, IsGraph(g), Sound(g) = g.edges
  PROVE  /\ Tops(Erased(g)) = Tops(g) /\ (Acyclic(g) => Acyclic(Erased(g)))
         /\ (Rooted(g) => Rooted(Erased(g))) /\ Sound(Erased(g)) = Erased(g).edges
  <1>1. /\ IsGraph(Erased(g)) /\ Links(Erased(g)) = Links(g) /\ Erased(g).kind = g.kind
        /\ Erased(g).edges = {[from |-> e.from, to |-> e.to, id |-> 0] : e \in g.edges}
    BY ErasedIs
  <1>2. Tops(Erased(g)) = Tops(g) /\ Ids(Erased(g)) = Ids(g)
    BY <1>1 DEF Tops, Ids
  <1>3. \A e \in g.edges : HasNode(g, e.from) /\ HasNode(g, e.to)
    BY DEF Sound
  <1>4. Sound(Erased(g)) = Erased(g).edges
    BY <1>1, <1>3 DEF Sound, HasNode
  <1> QED BY <1>1, <1>2, <1>4, LinksAcyclic, LinksRooted

\* What a call stores, repairs included, is one tree, made from the graph it replaces.
THEOREM SavesATreeCorrect == Spec => SavesATree
  <1> DEFINE Tree ==
        work # None /\ work' = None /\ saves' # saves =>
          /\ Cardinality(Tops(stored')) = 1 /\ Acyclic(stored') /\ Sound(stored') = stored'.edges
          /\ Rooted(stored) => Rooted(stored')
  <1>1. IInv /\ RootedKept /\ [Next]_vars => Tree
    <2> SUFFICES ASSUME IInv, RootedKept, [Next]_vars, work # None, work' = None, saves' # saves
                 PROVE  /\ Cardinality(Tops(stored')) = 1 /\ Acyclic(stored')
                        /\ Sound(stored') = stored'.edges
                        /\ Rooted(stored) => Rooted(stored')
      OBVIOUS
    <2>1. /\ Safe(work.graph, work.mode) /\ work.rev = saves
          /\ stored' = Erased(work.graph) /\ IsGraph(work.graph)
      BY StoresByPersist DEF Persist, Erased, IInv, TypeOK
    <2>2. /\ Cardinality(Tops(work.graph)) = 1 /\ Acyclic(work.graph)
          /\ Sound(work.graph) = work.graph.edges
      BY <2>1, SafeTree
    <2>3. Rooted(stored) => Rooted(work.graph)
      BY <2>1 DEF IInv, WorkOK, RootedKept
    <2> QED BY <2>1, <2>2, <2>3, ErasedShape
  <1>2. IInv /\ RootedKept /\ [Next]_vars => [Tree]_vars
    BY <1>1
  <1> HIDE DEF Tree
  <1>3. Spec => [][Tree]_vars
    BY <1>2, Inductive, PTL DEF Spec
  <1> QED BY <1>3 DEF Tree, SavesATree

\* On what a call stores, the gate check of the agent's verification and the one before
\* the save agree.
THEOREM VerifiedAsStoredCorrect == Spec => VerifiedAsStored
  <1> DEFINE Agree ==
        work # None /\ work' = None /\ saves' # saves =>
          CheckGateSemantics(stored') = GateIssues(stored')
  <1>1. IInv /\ [Next]_vars => Agree
    <2> SUFFICES ASSUME IInv, [Next]_vars, work # None, work' = None, saves' # saves
                 PROVE  CheckGateSemantics(stored') = GateIssues(stored')
      OBVIOUS
    <2>1. /\ Safe(work.graph, work.mode)
          /\ stored' = Erased(work.graph) /\ IsGraph(work.graph)
      BY StoresByPersist DEF Persist, Erased, IInv, TypeOK
    <2>2. Sound(stored') = stored'.edges
      BY <2>1, SafeTree, ErasedShape
    <2> QED BY <2>2 DEF CheckGateSemantics, GateIssues, OutDegree
  <1>2. IInv /\ [Next]_vars => [Agree]_vars
    BY <1>1
  <1> HIDE DEF Agree
  <1>3. Spec => [][Agree]_vars
    BY <1>2, Inductive, PTL DEF Spec
  <1> QED BY <1>3 DEF Agree, VerifiedAsStored
=============================================================================
