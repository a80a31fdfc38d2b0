--------------------------- MODULE VersionStoreProofs ---------------------------
(***************************************************************************)
(* Proofs about VersionStore, for any set of requests and any bounds: by   *)
(* how much the limit can be exceeded, when the cached list may be out of  *)
(* date, and that the copy made before a rollback is of the graph it       *)
(* replaces.  Each of the three has an invariant of its own, on top of the *)
(* types; none of them needs to know which version is the oldest.          *)
(***************************************************************************)
EXTENDS VersionStore, FiniteSetTheorems, WellFoundedInduction, TLAPS

Places == {"idle", "counting", "picking", "trimming", "purging", "unindexing",
           "copying", "saving", "caching", "indexing"}
Jobs == [base : Int \union {None}, copy : Int \union {None}, whole : BOOLEAN,
         pick : Int \union {None}, seen : SUBSET Ids]

\* Every variable has its type.
TypeOK ==
  /\ versions \subseteq Ids /\ made \in 0..MaxVersions /\ \A v \in versions : v <= made
  /\ graph \in Nat /\ list \in {None} \union SUBSET Ids /\ index \in BOOLEAN
  /\ at \in [Handlers -> Places] /\ job \in [Handlers -> Jobs]
  /\ errors \in Nat /\ slips \in Nat /\ overlapped \in BOOLEAN

\* Each request still to trim was counted when it inserted; and only finitely many are.
LimitInv == IsFiniteSet(Untrimmed) /\ LimitHeld

\* A list is cached before the index names it, by a request that still has to add it; and
\* what a list request has read is what the table has, until the versions change.
IndexedInv == list # None /\ ~ overlapped => index \/ \E h \in Handlers : at[h] = "indexing"
SeenInv ==
  ~ overlapped /\ ~ Purging =>
    \A h \in Handlers : at[h] = "caching" => job[h].seen = versions
ListInv == IndexedInv /\ SeenInv /\ ListFresh

\* A rollback reads the revision before the graph it copies.
CopyInv ==
  \A h \in Handlers :
    /\ at[h] = "copying" => job[h].base \in Int /\ job[h].base <= graph
    /\ job[h].whole => /\ job[h].base \in Int /\ job[h].copy \in Int
                       /\ job[h].base <= job[h].copy /\ job[h].copy <= graph

IInv == TypeOK /\ LimitInv /\ ListInv /\ CopyInv

-----------------------------------------------------------------------------
(* A request moves alone.                                                  *)

\* Request h, alone, goes on to the place with the job.
Moved(h, place, what) ==
  /\ at'[h] = place /\ job'[h] = what
  /\ \A g \in Handlers : g # h => at'[g] = at[g] /\ job'[g] = job[g]

LEMMA GotoMoves ==
  ASSUME TypeOK, NEW h \in Handlers, NEW place \in Places, NEW what \in Jobs, Goto(h, place, what)
  PROVE  /\ Moved(h, place, what)
         /\ at' \in [Handlers -> Places] /\ job' \in [Handlers -> Jobs]
  <1>1. at \in [Handlers -> Places] /\ job \in [Handlers -> Jobs]
    BY DEF TypeOK
  <1> QED BY <1>1 DEF Goto, Moved

\* What requests hold in hand is a job.
LEMMA JobTypes ==
  /\ NoJob \in Jobs /\ ~ NoJob.whole
  /\ \A j \in Jobs, x \in Int \union {None} : [j EXCEPT !.pick = x] \in Jobs
  /\ \A r \in Int : [NoJob EXCEPT !.base = r] \in Jobs
  /\ \A s \in SUBSET Ids : [NoJob EXCEPT !.seen = s] \in Jobs
  /\ \A j \in Jobs, r \in Int : [j EXCEPT !.copy = r, !.whole = TRUE] \in Jobs
  BY DEF Jobs, NoJob

-----------------------------------------------------------------------------
(* The types.                                                              *)

LEMMA InsertTyped ==
  ASSUME TypeOK, NEW h \in Handlers, NEW next \in Jobs, Insert(h, next)
  PROVE  /\ versions' \subseteq Ids /\ made' \in 0..MaxVersions /\ \A v \in versions' : v <= made'
         /\ versions' = versions \union {made + 1} /\ Moved(h, "counting", next)
         /\ at' \in [Handlers -> Places] /\ job' \in [Handlers -> Jobs]
  <1>1. /\ made \in 0..MaxVersions /\ made < MaxVersions /\ made' = made + 1
        /\ versions \subseteq Ids /\ versions' = versions \union {made + 1}
        /\ \A v \in versions : v <= made
    BY DEF TypeOK, Insert
  <1>2. made + 1 \in Ids /\ made' \in 0..MaxVersions
    BY <1>1, VersionsAssumption DEF Ids
  <1>3. \A v \in versions' : v <= made'
    BY <1>1 DEF Ids
  <1>4. "counting" \in Places /\ Goto(h, "counting", next)
    BY DEF Places, Insert
  <1> QED BY <1>1, <1>2, <1>3, <1>4, GotoMoves

\* The oldest of some versions.
LEMMA OldestExists ==
  ASSUME NEW S \in SUBSET Ids, S # {}
  PROVE  Min(S) \in S
  <1> DEFINE Less == {p \in Nat \X Nat : p[1] < p[2]}
  <1>1. IsWellFoundedOn(Less, Nat)
    BY NatLessThanWellFounded DEF OpToRel
  <1>2. S \subseteq Nat
    BY VersionsAssumption DEF Ids
  <1> HIDE DEF Less
  <1>3. PICK x \in S : \A y \in S : <<y, x>> \notin Less
    BY <1>1, <1>2, WFMin
  <1>4. ASSUME NEW y \in S PROVE x <= y
    <2>1. x \in Nat /\ y \in Nat /\ <<y, x>> \in Nat \X Nat
      BY <1>2
    <2>2. ~ (y < x)
      BY <1>3, <2>1 DEF Less
    <2> QED BY <2>1, <2>2
  <1> QED BY <1>3, <1>4 DEF Min

LEMMA InitTyped == Init => TypeOK
  <1> SUFFICES ASSUME Init PROVE TypeOK
    OBVIOUS
  <1>1. /\ at \in [Handlers -> Places] /\ job \in [Handlers -> Jobs]
    BY JobTypes DEF Init, Places
  <1>2. made \in 0..MaxVersions /\ graph \in Nat /\ errors \in Nat /\ slips \in Nat
    BY VersionsAssumption DEF Init
  <1> QED BY <1>1, <1>2 DEF Init, TypeOK

\* Where a request may be is unchanged by a purge that takes it on to its save.
LEMMA StepTyped ==
  ASSUME TypeOK, NEW h \in Handlers, Step(h)
  PROVE  TypeOK'
  <1> USE VersionsAssumption DEF Move, Done
  <1>a. job[h] \in Jobs /\ NoJob \in Jobs
    BY JobTypes DEF TypeOK
  <1>1. CASE Create(h)
    BY <1>1, <1>a, InsertTyped DEF Create, Insert, TypeOK
  <1>2. CASE CountVersions(h)
    <2>1. at' \in [Handlers -> Places] /\ job' \in [Handlers -> Jobs]
      BY <1>2, <1>a, GotoMoves DEF CountVersions, Places
    <2>2. errors' \in Nat /\ slips' \in Nat
      BY <1>2 DEF CountVersions, Ignore, TypeOK
    <2> QED BY <1>2, <2>1, <2>2 DEF CountVersions, TypeOK
  <1>3. CASE GetOldest(h)
    <2>1. versions # {} => Min(versions) \in Int
      <3> SUFFICES ASSUME versions # {} PROVE Min(versions) \in Int
        OBVIOUS
      <3>1. versions \in SUBSET Ids /\ Ids \subseteq Int
        BY DEF TypeOK, Ids
      <3>2. Min(versions) \in versions
        BY <3>1, OldestExists
      <3> QED BY <3>1, <3>2
    <2>2. at' \in [Handlers -> Places] /\ job' \in [Handlers -> Jobs]
      BY <1>3, <1>a, <2>1, JobTypes, GotoMoves DEF GetOldest, Places
    <2> QED BY <1>3, <2>2 DEF GetOldest, TypeOK
  <1>4. CASE Trim(h)
    <2>1. at' \in [Handlers -> Places] /\ job' \in [Handlers -> Jobs]
      BY <1>4, <1>a, JobTypes, GotoMoves DEF Trim, Places
    <2>2. errors' \in Nat /\ slips' \in Nat /\ versions' \subseteq versions
      BY <1>4 DEF Trim, Ignore, TypeOK
    <2> QED BY <1>4, <2>1, <2>2 DEF Trim, TypeOK
  <1>5. CASE PurgeList(h)
    <2>1. at' \in [Handlers -> Places] /\ job' \in [Handlers -> Jobs]
      BY <1>5, <1>a, GotoMoves DEF PurgeList, Places
    <2> QED BY <1>5, <2>1 DEF PurgeList, TypeOK, Listing
  <1>6. CASE DropIndex(h)
    <2>1. at' \in [Handlers -> Places] /\ job' \in [Handlers -> Jobs]
      BY <1>6, <1>a, GotoMoves DEF DropIndex, Places
    <2> QED BY <1>6, <2>1 DEF DropIndex, TypeOK, Listing
  <1>7. ASSUME NEW v \in Ids, Delete(h, v) PROVE TypeOK'
    <2>1. at' \in [Handlers -> Places] /\ job' \in [Handlers -> Jobs]
      BY <1>7, <1>a, GotoMoves DEF Delete, Places
    <2> QED BY <1>7, <2>1 DEF Delete, TypeOK
  <1>8. ASSUME NEW v \in Ids, Rollback(h, v) PROVE TypeOK'
    <2>1. graph \in Int /\ Behind \in Int
      BY DEF TypeOK, Behind
    <2>2. at' \in [Handlers -> Places] /\ job' \in [Handlers -> Jobs]
      BY <1>8, <2>1, JobTypes, GotoMoves DEF Rollback, Places
    <2> QED BY <1>8, <2>2 DEF Rollback, TypeOK
  <1>9. CASE Copy(h)
    <2>0. graph \in Int
      BY DEF TypeOK
    <2>1. [job[h] EXCEPT !.copy = graph, !.whole = TRUE] \in Jobs
      BY <1>a, <2>0, JobTypes
    <2>2. ASSUME NEW next \in Jobs, Insert(h, next) PROVE TypeOK'
      <3>1. errors' \in Nat
        BY <1>9 DEF Copy, Ignore, TypeOK
      <3> QED BY <2>2, <3>1, InsertTyped DEF Insert, TypeOK
    <2>3. ASSUME Ignore, Move(h, "saving"), UNCHANGED <<versions, made, graph, list, index, slips, overlapped>>
          PROVE  TypeOK'
      <3>1. at' \in [Handlers -> Places] /\ job' \in [Handlers -> Jobs]
        BY <2>3, <1>a, GotoMoves DEF Places
      <3> QED BY <2>3, <3>1 DEF Ignore, TypeOK
    <2> QED BY <1>9, <1>a, <2>1, <2>2, <2>3 DEF Copy
  <1>10. CASE Restore(h)
    <2>1. at' \in [Handlers -> Places] /\ job' \in [Handlers -> Jobs]
      BY <1>10, <1>a, GotoMoves DEF Restore, Places
    <2>2. graph' \in Nat
      BY <1>10 DEF Restore, TypeOK
    <2> QED BY <1>10, <2>1, <2>2 DEF Restore, TypeOK
  <1>11. CASE List(h)
    <2>1. at' \in [Handlers -> Places] /\ job' \in [Handlers -> Jobs]
      BY <1>11, JobTypes, GotoMoves DEF List, Places, TypeOK
    <2> QED BY <1>11, <2>1 DEF List, TypeOK
  <1>12. CASE CacheList(h)
    <2>1. at' \in [Handlers -> Places] /\ job' \in [Handlers -> Jobs] /\ job[h].seen \in SUBSET Ids
      BY <1>12, <1>a, GotoMoves DEF CacheList, Places, Jobs
    <2> QED BY <1>12, <2>1 DEF CacheList, TypeOK
  <1>13. CASE AddIndex(h)
    <2>1. at' \in [Handlers -> Places] /\ job' \in [Handlers -> Jobs]
      BY <1>13, <1>a, GotoMoves DEF AddIndex, Places
    <2> QED BY <1>13, <2>1 DEF AddIndex, TypeOK
  <1> QED BY <1>1, <1>2, <1>3, <1>4, <1>5, <1>6, <1>7, <1>8, <1>9, <1>10, <1>11, <1>12, <1>13
          DEF Step

-----------------------------------------------------------------------------
(* The limit.                                                              *)

Trims == {"counting", "picking", "trimming"}

LEMMA VersionsFinite ==
  ASSUME NEW S \in SUBSET Ids
  PROVE  IsFiniteSet(S) /\ Cardinality(S) \in Nat
  <1>1. 1 \in Int /\ MaxVersions \in Int
    BY VersionsAssumption
  <1>2. IsFiniteSet(Ids)
    BY <1>1, FS_Interval DEF Ids
  <1>3. IsFiniteSet(S)
    BY <1>2, FS_Subset
  <1> QED BY <1>3, FS_CardinalityType

\* A request joins those still to trim, leaves them, or neither.
LEMMA UntrimmedMoves ==
  ASSUME TypeOK, IsFiniteSet(Untrimmed), NEW h \in Handlers, NEW place, NEW what, Moved(h, place, what)
  PROVE  /\ IsFiniteSet(Untrimmed') /\ Cardinality(Untrimmed) \in Nat /\ Cardinality(Untrimmed') \in Nat
         /\ at[h] \notin Trims /\ place \in Trims => Cardinality(Untrimmed') = Cardinality(Untrimmed) + 1
         /\ at[h] \in Trims /\ place \notin Trims => Cardinality(Untrimmed') = Cardinality(Untrimmed) - 1
         /\ (at[h] \in Trims <=> place \in Trims) => Cardinality(Untrimmed') = Cardinality(Untrimmed)
  <1>0. Untrimmed = {g \in Handlers : at[g] \in Trims} /\ Untrimmed' = {g \in Handlers : at'[g] \in Trims}
    BY DEF Untrimmed, Trims
  <1>1. CASE at[h] \notin Trims /\ place \in Trims
    <2>1. Untrimmed' = Untrimmed \union {h} /\ h \notin Untrimmed
      BY <1>0, <1>1 DEF Moved
    <2> QED BY <1>1, <2>1, FS_AddElement, FS_CardinalityType
  <1>2. CASE at[h] \in Trims /\ place \notin Trims
    <2>1. Untrimmed' = Untrimmed \ {h} /\ h \in Untrimmed
      BY <1>0, <1>2 DEF Moved
    <2> QED BY <1>2, <2>1, FS_RemoveElement, FS_CardinalityType
  <1>3. CASE at[h] \in Trims <=> place \in Trims
    <2>1. Untrimmed' = Untrimmed
      BY <1>0, <1>3 DEF Moved
    <2> QED BY <1>3, <2>1, FS_CardinalityType
  <1> QED BY <1>1, <1>2, <1>3

\* An insert counts against a request that has joined.
LEMMA InsertLimited ==
  ASSUME TypeOK, LimitInv, NEW h \in Handlers, NEW next \in Jobs, at[h] \notin Trims, Insert(h, next)
  PROVE  LimitInv'
  <1>1. /\ versions \in SUBSET Ids /\ versions' = versions \union {made + 1} /\ Moved(h, "counting", next)
        /\ slips' = slips
    BY InsertTyped DEF TypeOK, Insert
  <1>2. IsFiniteSet(versions) /\ Cardinality(versions) \in Nat
    BY <1>1, VersionsFinite
  <1>3. Cardinality(versions') <= Cardinality(versions) + 1 /\ Cardinality(versions') \in Nat
    <2>1. Cardinality(versions') = IF made + 1 \in versions THEN Cardinality(versions)
                                  ELSE Cardinality(versions) + 1
      BY <1>1, <1>2, FS_AddElement
    <2> QED BY <1>2, <2>1
  <1>4. /\ IsFiniteSet(Untrimmed') /\ Cardinality(Untrimmed) \in Nat
        /\ Cardinality(Untrimmed') = Cardinality(Untrimmed) + 1
    BY <1>1, UntrimmedMoves DEF LimitInv, Trims
  <1>5. slips \in Nat /\ MaxVersionCount \in Nat
    BY VersionsAssumption DEF TypeOK
  <1> QED BY <1>1, <1>2, <1>3, <1>4, <1>5 DEF LimitInv, LimitHeld

\* A step with no version more and no trim left undone.
LEMMA FewerLimited ==
  ASSUME TypeOK, LimitInv, NEW h \in Handlers, NEW place, NEW what, Moved(h, place, what),
         versions' \subseteq versions, slips' \in Nat, slips <= slips',
         at[h] \in Trims <=> place \in Trims
  PROVE  LimitInv'
  <1>1. versions \in SUBSET Ids /\ slips \in Nat /\ MaxVersionCount \in Nat
    BY VersionsAssumption DEF TypeOK
  <1>2. /\ IsFiniteSet(versions) /\ Cardinality(versions) \in Nat /\ Cardinality(versions') \in Nat
        /\ Cardinality(versions') <= Cardinality(versions)
    BY <1>1, VersionsFinite, FS_Subset
  <1>3. /\ IsFiniteSet(Untrimmed') /\ Cardinality(Untrimmed) \in Nat
        /\ Cardinality(Untrimmed') = Cardinality(Untrimmed)
    BY UntrimmedMoves DEF LimitInv
  <1> QED BY <1>1, <1>2, <1>3 DEF LimitInv, LimitHeld

\* A request is done with trimming: it has deleted one, or counted a slip, or there was
\* nothing to delete.
LEMMA TrimmedLimited ==
  ASSUME TypeOK, LimitInv, NEW h \in Handlers, NEW place, NEW what, Moved(h, place, what),
         at[h] \in Trims, place \notin Trims, slips' \in Nat,
         \/ versions' \subseteq versions /\ slips' = slips + 1
         \/ /\ slips' = slips
            /\ \E v \in versions : versions' = versions \ {v}
         \/ versions' = versions /\ slips' = slips /\ Cardinality(versions) <= MaxVersionCount
  PROVE  LimitInv'
  <1>1. versions \in SUBSET Ids /\ slips \in Nat /\ MaxVersionCount \in Nat
    BY VersionsAssumption DEF TypeOK
  <1>2. /\ IsFiniteSet(versions) /\ Cardinality(versions) \in Nat
    BY <1>1, VersionsFinite
  <1>3. /\ IsFiniteSet(Untrimmed') /\ Cardinality(Untrimmed) \in Nat /\ Cardinality(Untrimmed') \in Nat
        /\ Cardinality(Untrimmed') = Cardinality(Untrimmed) - 1
    BY UntrimmedMoves DEF LimitInv
  <1>4. Cardinality(versions) <= MaxVersionCount + Cardinality(Untrimmed) + slips
    BY DEF LimitInv, LimitHeld
  <1>5. Cardinality(versions') <= MaxVersionCount + Cardinality(Untrimmed') + slips'
    <2>1. CASE versions' \subseteq versions /\ slips' = slips + 1
      <3>1. Cardinality(versions') \in Nat /\ Cardinality(versions') <= Cardinality(versions)
        BY <1>1, <1>2, <2>1, VersionsFinite, FS_Subset
      <3> QED BY <1>1, <1>2, <1>3, <1>4, <2>1, <3>1
    <2>2. CASE slips' = slips /\ \E v \in versions : versions' = versions \ {v}
      <3>1. Cardinality(versions') = Cardinality(versions) - 1
        BY <1>2, <2>2, FS_RemoveElement
      <3> QED BY <1>1, <1>2, <1>3, <1>4, <2>2, <3>1
    <2>3. CASE versions' = versions /\ slips' = slips /\ Cardinality(versions) <= MaxVersionCount
      BY <1>1, <1>2, <1>3, <2>3
    <2> QED BY <2>1, <2>2, <2>3
  <1> QED BY <1>3, <1>5 DEF LimitInv, LimitHeld

LEMMA StepLimited ==
  ASSUME TypeOK, LimitInv, NEW h \in Handlers, Step(h)
  PROVE  LimitInv'
  <1> USE DEF Move, Done
  <1>a. job[h] \in Jobs /\ NoJob \in Jobs /\ slips \in Nat /\ graph \in Int
    <2>1. job[h] \in Jobs /\ slips \in Nat /\ graph \in Nat
      BY DEF TypeOK
    <2>2. NoJob \in Jobs
      BY JobTypes
    <2>3. graph \in Int
      BY <2>1
    <2> QED BY <2>1, <2>2, <2>3
  <1>b. ASSUME NEW place \in Places, NEW what \in Jobs, Goto(h, place, what),
               at[h] \in Trims <=> place \in Trims, versions' \subseteq versions, slips' = slips
        PROVE  LimitInv'
    <2>1. Moved(h, place, what) /\ slips' \in Nat /\ slips <= slips'
      BY <1>a, <1>b, GotoMoves
    <2> QED BY <1>b, <2>1, FewerLimited
  <1>1. CASE Create(h)
    BY <1>1, <1>a, InsertLimited DEF Create, Trims
  <1>2. CASE CountVersions(h)
    <2>1. CASE OverLimit /\ slips' = slips /\ Move(h, "picking")
      BY <1>2, <2>1, <1>a, <1>b DEF CountVersions, Places, Trims
    <2>2. CASE ~ OverLimit /\ slips' = slips /\ Move(h, "purging")
      <3>1. Moved(h, "purging", job[h])
        BY <2>2, <1>a, GotoMoves DEF Places
      <3>2. Cardinality(versions) \in Nat /\ MaxVersionCount \in Nat
        BY VersionsAssumption, VersionsFinite DEF TypeOK
      <3>3. Cardinality(versions) <= MaxVersionCount
        BY <2>2, <3>2 DEF OverLimit
      <3> QED BY <1>2, <1>a, <2>2, <3>1, <3>3, TrimmedLimited DEF CountVersions, Trims
    <2>3. CASE slips' = slips + 1 /\ Move(h, "purging")
      <3>1. Moved(h, "purging", job[h]) /\ slips' \in Nat
        BY <2>3, <1>a, GotoMoves DEF Places
      <3>2. at[h] \in Trims /\ "purging" \notin Trims /\ versions' \subseteq versions
        BY <1>2 DEF CountVersions, Trims
      <3> QED BY <2>3, <3>1, <3>2, TrimmedLimited
    <2> QED BY <1>2, <2>1, <2>2, <2>3 DEF CountVersions
  <1>3. CASE GetOldest(h)
    <2>1. CASE versions = {}
      <3>1. Moved(h, "purging", job[h]) /\ slips' = slips /\ versions' = versions
        BY <1>3, <2>1, <1>a, GotoMoves DEF GetOldest, Places
      <3>2. Cardinality(versions) <= MaxVersionCount
        BY <2>1, FS_EmptySet, VersionsAssumption
      <3>3. at[h] \in Trims /\ "purging" \notin Trims
        BY <1>3 DEF GetOldest, Trims
      <3> QED BY <1>a, <3>1, <3>2, <3>3, TrimmedLimited
    <2>2. CASE versions # {}
      <3>1. [job[h] EXCEPT !.pick = Min(versions)] \in Jobs
        <4>1. versions \in SUBSET Ids /\ Ids \subseteq Int
          BY DEF TypeOK, Ids
        <4>2. Min(versions) \in Int
          BY <2>2, <4>1, OldestExists
        <4> QED BY <1>a, <4>2, JobTypes
      <3> QED BY <1>3, <2>2, <3>1, <1>b DEF GetOldest, Places, Trims
    <2> QED BY <2>1, <2>2
  <1>4. CASE Trim(h)
    <2>1. Moved(h, "purging", [job[h] EXCEPT !.pick = None])
      BY <1>4, <1>a, JobTypes, GotoMoves DEF Trim, Places
    <2>2. at[h] \in Trims /\ "purging" \notin Trims
      BY <1>4 DEF Trim, Trims
    <2>3. \/ versions' \subseteq versions /\ slips' = slips + 1
          \/ /\ slips' = slips
             /\ \E v \in versions : versions' = versions \ {v}
      BY <1>4 DEF Trim
    <2>4. slips' \in Nat
      BY <1>a, <2>3
    <2> QED BY <2>1, <2>2, <2>3, <2>4, TrimmedLimited
  <1>5. CASE PurgeList(h)
    BY <1>5, <1>a, <1>b DEF PurgeList, Places, Trims
  <1>6. CASE DropIndex(h)
    BY <1>6, <1>a, <1>b DEF DropIndex, Places, Trims
  <1>7. ASSUME NEW v \in Ids, Delete(h, v) PROVE LimitInv'
    BY <1>7, <1>a, <1>b DEF Delete, Places, Trims
  <1>8. ASSUME NEW v \in Ids, Rollback(h, v) PROVE LimitInv'
    <2>1. Behind \in Int
      BY DEF Behind
    <2>2. PICK r \in Int, place \in {"copying", "saving"} : Goto(h, place, [NoJob EXCEPT !.base = r])
      BY <1>8, <1>a, <2>1 DEF Rollback
    <2>3. [NoJob EXCEPT !.base = r] \in Jobs
      BY JobTypes
    <2> QED BY <1>8, <2>2, <2>3, <1>b DEF Rollback, Places, Trims
  <1>9. CASE Copy(h)
    <2>1. [job[h] EXCEPT !.copy = graph, !.whole = TRUE] \in Jobs
      BY <1>a, JobTypes
    <2>2. ASSUME NEW next \in Jobs, Insert(h, next) PROVE LimitInv'
      BY <1>9, <2>2, InsertLimited DEF Copy, Trims
    <2>3. ASSUME Move(h, "saving"), UNCHANGED <<versions, slips>> PROVE LimitInv'
      BY <1>9, <2>3, <1>a, <1>b DEF Copy, Places, Trims
    <2> QED BY <1>9, <1>a, <2>1, <2>2, <2>3 DEF Copy
  <1>10. CASE Restore(h)
    BY <1>10, <1>a, <1>b DEF Restore, Places, Trims
  <1>11. CASE List(h)
    <2>1. [NoJob EXCEPT !.seen = versions] \in Jobs
      BY JobTypes DEF TypeOK
    <2> QED BY <1>11, <2>1, <1>b DEF List, Places, Trims
  <1>12. CASE CacheList(h)
    BY <1>12, <1>a, <1>b DEF CacheList, Places, Trims
  <1>13. CASE AddIndex(h)
    BY <1>13, <1>a, <1>b DEF AddIndex, Places, Trims
  <1> QED BY <1>1, <1>2, <1>3, <1>4, <1>5, <1>6, <1>7, <1>8, <1>9, <1>10, <1>11, <1>12, <1>13
          DEF Step

-----------------------------------------------------------------------------
(* The list.                                                               *)

\* A request that is not in the middle of listing moves, and neither the table nor the
\* cached list changes before the invalidation.
LEMMA QuietList ==
  ASSUME TypeOK, ListInv, NEW h \in Handlers, NEW place, NEW what, Moved(h, place, what),
         UNCHANGED <<versions, list, index, overlapped>>,
         at[h] # "indexing", place # "caching", place # "indexing",
         at[h] \in Trims => place \in Trims \union {"purging"},
         at[h] # "purging"
  PROVE  ListInv'
  <1>1. Purging' = TRUE \/ ~ Purging
    BY DEF Purging, Moved, Trims
  <1>2. IndexedInv'
    BY DEF ListInv, IndexedInv, Moved
  <1>3. SeenInv'
    BY <1>1 DEF ListInv, SeenInv, Moved, Purging
  <1>4. ListFresh'
    BY <1>1 DEF ListInv, ListFresh
  <1> QED BY <1>2, <1>3, <1>4 DEF ListInv

\* The table changes, and an invalidation is due.
LEMMA PurgeDue ==
  ASSUME TypeOK, ListInv, NEW h \in Handlers, NEW place, NEW what, Moved(h, place, what),
         UNCHANGED <<list, index, overlapped>>, at[h] # "indexing",
         place \in Trims \union {"purging"}
  PROVE  ListInv'
  <1>1. Purging'
    BY DEF Purging, Moved, Trims
  <1>2. IndexedInv'
    BY DEF ListInv, IndexedInv, Moved
  <1> QED BY <1>1, <1>2 DEF ListInv, SeenInv, ListFresh

LEMMA StepListed ==
  ASSUME TypeOK, ListInv, NEW h \in Handlers, Step(h)
  PROVE  ListInv'
  <1> USE DEF Move, Done
  <1>a. job[h] \in Jobs /\ NoJob \in Jobs /\ graph \in Int
    <2>1. job[h] \in Jobs /\ graph \in Nat
      BY DEF TypeOK
    <2>2. NoJob \in Jobs
      BY JobTypes
    <2>3. graph \in Int
      BY <2>1
    <2> QED BY <2>1, <2>2, <2>3
  <1>b. ASSUME NEW place \in Places, NEW what \in Jobs, Goto(h, place, what),
               UNCHANGED <<versions, list, index, overlapped>>,
               at[h] # "indexing", place # "caching", place # "indexing",
               at[h] \in Trims => place \in Trims \union {"purging"}, at[h] # "purging"
        PROVE  ListInv'
    BY <1>b, GotoMoves, QuietList
  <1>c. ASSUME NEW place \in Places, NEW what \in Jobs, Goto(h, place, what),
               UNCHANGED <<list, index, overlapped>>, at[h] # "indexing",
               place \in Trims \union {"purging"}
        PROVE  ListInv'
    BY <1>c, GotoMoves, PurgeDue
  <1>d. ASSUME NEW next \in Jobs, Insert(h, next), at[h] # "indexing" PROVE ListInv'
    BY <1>c, <1>d DEF Insert, Places, Trims
  <1>1. CASE Create(h)
    BY <1>1, <1>a, <1>d DEF Create
  <1>2. CASE CountVersions(h)
    BY <1>2, <1>a, <1>c DEF CountVersions, Places, Trims
  <1>3. CASE GetOldest(h)
    <2>1. CASE versions = {}
      BY <1>3, <2>1, <1>a, <1>c DEF GetOldest, Places, Trims
    <2>2. CASE versions # {}
      <3>1. [job[h] EXCEPT !.pick = Min(versions)] \in Jobs
        <4>1. versions \in SUBSET Ids /\ Ids \subseteq Int
          BY DEF TypeOK, Ids
        <4>2. Min(versions) \in Int
          BY <2>2, <4>1, OldestExists
        <4> QED BY <1>a, <4>2, JobTypes
      <3> QED BY <1>3, <2>2, <3>1, <1>c DEF GetOldest, Places, Trims
    <2> QED BY <2>1, <2>2
  <1>4. CASE Trim(h)
    <2>1. [job[h] EXCEPT !.pick = None] \in Jobs
      BY <1>a, JobTypes
    <2> QED BY <1>4, <2>1, <1>c DEF Trim, Places, Trims
  <1>5. CASE PurgeList(h)
    <2>1. Moved(h, "unindexing", job[h])
      BY <1>5, <1>a, GotoMoves DEF PurgeList, Places
    <2>2. SUFFICES ASSUME ~ overlapped' PROVE ListInv'
      BY DEF ListInv, IndexedInv, SeenInv, ListFresh
    <2>3. ~ overlapped /\ \A g \in Handlers : at[g] \notin {"caching", "indexing"}
      BY <1>5, <2>2 DEF PurgeList, Listing
    <2>4. list' = None
      BY <1>5, <2>3 DEF PurgeList, ListInv, IndexedInv
    <2>5. \A g \in Handlers : at'[g] # "caching"
      BY <2>1, <2>3 DEF Moved
    <2> QED BY <2>4, <2>5 DEF ListInv, IndexedInv, SeenInv, ListFresh
  <1>6. CASE DropIndex(h)
    <2>1. PICK place \in {"idle", "saving"}, what \in Jobs : Moved(h, place, what)
      BY <1>6, <1>a, GotoMoves DEF DropIndex, Places
    <2>2. SUFFICES ASSUME ~ overlapped' PROVE ListInv'
      BY DEF ListInv, IndexedInv, SeenInv, ListFresh
    <2>3. /\ ~ overlapped /\ \A g \in Handlers : at[g] \notin {"caching", "indexing"}
          /\ ~ (index /\ list # None) /\ list' = list
      BY <1>6, <2>2 DEF DropIndex, Listing
    <2>4. list' = None
      BY <2>3 DEF ListInv, IndexedInv
    <2>5. \A g \in Handlers : at'[g] # "caching"
      BY <2>1, <2>3 DEF Moved
    <2> QED BY <2>4, <2>5 DEF ListInv, IndexedInv, SeenInv, ListFresh
  <1>7. ASSUME NEW v \in Ids, Delete(h, v) PROVE ListInv'
    BY <1>7, <1>a, <1>c DEF Delete, Places, Trims
  <1>8. ASSUME NEW v \in Ids, Rollback(h, v) PROVE ListInv'
    <2>1. Behind \in Int
      BY DEF Behind
    <2>2. PICK r \in Int, place \in {"copying", "saving"} : Goto(h, place, [NoJob EXCEPT !.base = r])
      BY <1>8, <1>a, <2>1 DEF Rollback
    <2>3. [NoJob EXCEPT !.base = r] \in Jobs
      BY JobTypes
    <2> QED BY <1>8, <2>2, <2>3, <1>b DEF Rollback, Places, Trims
  <1>9. CASE Copy(h)
    <2>1. [job[h] EXCEPT !.copy = graph, !.whole = TRUE] \in Jobs
      BY <1>a, JobTypes
    <2>2. ASSUME NEW next \in Jobs, Insert(h, next) PROVE ListInv'
      BY <1>9, <2>2, <1>d DEF Copy
    <2>3. ASSUME Move(h, "saving"), UNCHANGED <<versions, list, index, overlapped>> PROVE ListInv'
      BY <1>9, <2>3, <1>a, <1>b DEF Copy, Places, Trims
    <2> QED BY <1>9, <1>a, <2>1, <2>2, <2>3 DEF Copy
  <1>10. CASE Restore(h)
    BY <1>10, <1>a, <1>b DEF Restore, Places, Trims
  <1>11. CASE List(h)
    <2>1. Moved(h, "caching", [NoJob EXCEPT !.seen = versions]) /\ at[h] = "idle"
      <3>1. [NoJob EXCEPT !.seen = versions] \in Jobs
        BY JobTypes DEF TypeOK
      <3> QED BY <1>11, <3>1, GotoMoves DEF List, Places
    <2>2. [NoJob EXCEPT !.seen = versions].seen = versions
      BY DEF NoJob
    <2>3. UNCHANGED <<versions, list, index, overlapped>> /\ (Purging' <=> Purging)
      BY <1>11, <2>1 DEF List, Purging, Moved
    <2>4. IndexedInv' /\ ListFresh'
      BY <2>1, <2>3 DEF ListInv, IndexedInv, ListFresh, Moved
    <2>5. SeenInv'
      BY <2>1, <2>2, <2>3 DEF ListInv, SeenInv, Moved
    <2> QED BY <2>4, <2>5 DEF ListInv
  <1>12. CASE CacheList(h)
    <2>1. Moved(h, "indexing", job[h]) /\ at[h] = "caching" /\ list' = job[h].seen
      BY <1>12, <1>a, GotoMoves DEF CacheList, Places
    <2>2. UNCHANGED <<versions, index, overlapped>> /\ (Purging' <=> Purging)
      BY <1>12, <2>1 DEF CacheList, Purging, Moved
    <2>3. IndexedInv' /\ SeenInv'
      BY <2>1, <2>2 DEF ListInv, IndexedInv, SeenInv, Moved
    <2>4. ListFresh'
      BY <2>1, <2>2 DEF ListInv, SeenInv, ListFresh
    <2> QED BY <2>3, <2>4 DEF ListInv
  <1>13. CASE AddIndex(h)
    <2>1. Moved(h, "idle", NoJob) /\ at[h] = "indexing" /\ index'
      BY <1>13, <1>a, GotoMoves DEF AddIndex, Places
    <2>2. UNCHANGED <<versions, list, overlapped>> /\ (Purging' <=> Purging)
      BY <1>13, <2>1 DEF AddIndex, Purging, Moved
    <2> QED BY <2>1, <2>2 DEF ListInv, IndexedInv, SeenInv, ListFresh, Moved
  <1> QED BY <1>1, <1>2, <1>3, <1>4, <1>5, <1>6, <1>7, <1>8, <1>9, <1>10, <1>11, <1>12, <1>13
          DEF Step

-----------------------------------------------------------------------------
(* The copy.                                                               *)

\* The graph only grows, and one request may take new work in hand.
LEMMA CopyKept ==
  ASSUME TypeOK, CopyInv, NEW h \in Handlers, NEW place, NEW what, Moved(h, place, what),
         graph' \in Nat, graph <= graph',
         place = "copying" => what.base \in Int /\ what.base <= graph,
         what.whole => /\ what.base \in Int /\ what.copy \in Int
                       /\ what.base <= what.copy /\ what.copy <= graph
  PROVE  CopyInv'
  <1> SUFFICES ASSUME NEW g \in Handlers
               PROVE  /\ at'[g] = "copying" => job'[g].base \in Int /\ job'[g].base <= graph'
                      /\ job'[g].whole => /\ job'[g].base \in Int /\ job'[g].copy \in Int
                                          /\ job'[g].base <= job'[g].copy /\ job'[g].copy <= graph'
    BY DEF CopyInv
  <1>1. graph \in Nat
    BY DEF TypeOK
  <1>2. CASE g = h
    BY <1>1, <1>2 DEF Moved
  <1>3. CASE g # h
    BY <1>1, <1>3 DEF Moved, CopyInv
  <1> QED BY <1>2, <1>3

LEMMA StepCopied ==
  ASSUME TypeOK, CopyInv, NEW h \in Handlers, Step(h)
  PROVE  CopyInv'
  <1> USE DEF Move, Done
  <1>a. job[h] \in Jobs /\ NoJob \in Jobs /\ ~ NoJob.whole /\ graph \in Int /\ graph \in Nat
    <2>1. job[h] \in Jobs /\ graph \in Nat
      BY DEF TypeOK
    <2>2. NoJob \in Jobs /\ ~ NoJob.whole
      BY JobTypes
    <2>3. graph \in Int
      BY <2>1
    <2> QED BY <2>1, <2>2, <2>3
  <1>b. job[h].whole => /\ job[h].base \in Int /\ job[h].copy \in Int
                        /\ job[h].base <= job[h].copy /\ job[h].copy <= graph
    BY DEF CopyInv
  \* The request goes on with what it has, less a version to delete.
  <1>c. ASSUME NEW place \in Places, place # "copying", NEW what \in Jobs, Goto(h, place, what),
               graph' \in Nat, graph <= graph',
               what.whole = FALSE \/ (what.whole = job[h].whole /\ what.base = job[h].base /\ what.copy = job[h].copy)
        PROVE  CopyInv'
    <2>1. Moved(h, place, what)
      BY <1>c, GotoMoves
    <2>2. what.whole => /\ what.base \in Int /\ what.copy \in Int
                        /\ what.base <= what.copy /\ what.copy <= graph
      BY <1>b, <1>c
    <2> QED BY <1>c, <2>1, <2>2, CopyKept
  <1>d. graph <= graph
    BY <1>a
  <1>e. \A x \in Int \union {None} :
          LET j == [job[h] EXCEPT !.pick = x]
          IN  j \in Jobs /\ j.whole = job[h].whole /\ j.base = job[h].base /\ j.copy = job[h].copy
    BY <1>a DEF Jobs
  <1>1. CASE Create(h)
    BY <1>1, <1>a, <1>c, <1>d DEF Create, Insert, Places, NoJob
  <1>2. CASE CountVersions(h)
    BY <1>2, <1>a, <1>c, <1>d DEF CountVersions, Places
  <1>3. CASE GetOldest(h)
    <2>1. CASE versions = {}
      BY <1>3, <2>1, <1>a, <1>c, <1>d DEF GetOldest, Places
    <2>2. CASE versions # {}
      <3>1. Min(versions) \in Int
        <4>1. versions \in SUBSET Ids /\ Ids \subseteq Int
          BY DEF TypeOK, Ids
        <4> QED BY <2>2, <4>1, OldestExists
      <3> QED BY <1>3, <2>2, <3>1, <1>a, <1>c, <1>d, <1>e DEF GetOldest, Places
    <2> QED BY <2>1, <2>2
  <1>4. CASE Trim(h)
    BY <1>4, <1>a, <1>c, <1>d, <1>e DEF Trim, Places
  <1>5. CASE PurgeList(h)
    BY <1>5, <1>a, <1>c, <1>d DEF PurgeList, Places
  <1>6. CASE DropIndex(h)
    BY <1>6, <1>a, <1>c, <1>d DEF DropIndex, Places, NoJob
  <1>7. ASSUME NEW v \in Ids, Delete(h, v) PROVE CopyInv'
    BY <1>7, <1>a, <1>c, <1>d DEF Delete, Places
  <1>8. ASSUME NEW v \in Ids, Rollback(h, v) PROVE CopyInv'
    <2>1. PICK r \in {graph, Behind}, place \in {"copying", "saving"} : Goto(h, place, [NoJob EXCEPT !.base = r])
      BY <1>8 DEF Rollback
    <2>2. r \in Int /\ r <= graph
      BY <1>a DEF Behind
    <2>3. [NoJob EXCEPT !.base = r] \in Jobs
      BY <2>2, JobTypes
    <2>4. Moved(h, place, [NoJob EXCEPT !.base = r])
      BY <2>1, <2>3, GotoMoves DEF Places
    <2>5. [NoJob EXCEPT !.base = r].base = r /\ ~ [NoJob EXCEPT !.base = r].whole
      BY DEF NoJob
    <2>6. graph' = graph
      BY <1>8 DEF Rollback
    <2> QED BY <1>a, <1>d, <2>2, <2>4, <2>5, <2>6, CopyKept
  <1>9. CASE Copy(h)
    <2> DEFINE made1 == [job[h] EXCEPT !.copy = graph, !.whole = TRUE]
    <2>1. job[h].base \in Int /\ job[h].base <= graph
      BY <1>9 DEF Copy, CopyInv
    <2>2. made1 \in Jobs /\ made1.base = job[h].base /\ made1.copy = graph
      BY <1>a DEF Jobs
    <2>3. ASSUME Insert(h, made1) PROVE CopyInv'
      <3>1. Moved(h, "counting", made1) /\ graph' = graph
        BY <2>2, <2>3, GotoMoves DEF Insert, Places
      <3> HIDE DEF made1
      <3> QED BY <1>a, <1>d, <2>1, <2>2, <3>1, CopyKept
    <2> HIDE DEF made1
    <2>4. ASSUME Insert(h, job[h]) PROVE CopyInv'
      BY <2>4, <1>a, <1>c, <1>d DEF Insert, Places
    <2>5. ASSUME Move(h, "saving"), graph' = graph PROVE CopyInv'
      BY <2>5, <1>a, <1>c, <1>d DEF Places
    <2>6. Insert(h, made1) \/ Insert(h, job[h]) \/ (Move(h, "saving") /\ graph' = graph)
      BY <1>9 DEF Copy, made1
    <2> QED BY <2>3, <2>4, <2>5, <2>6
  <1>10. CASE Restore(h)
    <2>1. graph' \in Nat /\ graph <= graph'
      BY <1>10, <1>a DEF Restore
    <2>2. Goto(h, "idle", NoJob)
      BY <1>10 DEF Restore
    <2>3. "idle" \in Places /\ NoJob.whole = FALSE
      BY DEF Places, NoJob
    <2> QED BY <2>1, <2>2, <2>3, <1>a, <1>c
  <1>11. CASE List(h)
    <2>1. [NoJob EXCEPT !.seen = versions] \in Jobs /\ ~ [NoJob EXCEPT !.seen = versions].whole
      BY JobTypes DEF TypeOK, NoJob
    <2> QED BY <1>11, <2>1, <1>a, <1>c, <1>d DEF List, Places, NoJob
  <1>12. CASE CacheList(h)
    BY <1>12, <1>a, <1>c, <1>d DEF CacheList, Places
  <1>13. CASE AddIndex(h)
    BY <1>13, <1>a, <1>c, <1>d DEF AddIndex, Places, NoJob
  <1> QED BY <1>1, <1>2, <1>3, <1>4, <1>5, <1>6, <1>7, <1>8, <1>9, <1>10, <1>11, <1>12, <1>13
          DEF Step

-----------------------------------------------------------------------------
(* The invariant, and what follows.                                        *)

LEMMA InitInv == Init => IInv
  <1> SUFFICES ASSUME Init PROVE IInv
    OBVIOUS
  <1>1. TypeOK
    BY InitTyped
  <1>2. LimitInv
    <2>1. Untrimmed = {} /\ versions = {} /\ slips = 0
      BY DEF Init, Untrimmed
    <2>2. IsFiniteSet({}) /\ Cardinality({}) = 0 /\ MaxVersionCount \in Nat
      BY FS_EmptySet, VersionsAssumption
    <2> QED BY <2>1, <2>2 DEF LimitInv, LimitHeld
  <1>3. ListInv
    BY DEF Init, ListInv, IndexedInv, SeenInv, ListFresh
  <1>4. CopyInv
    BY DEF Init, CopyInv, NoJob
  <1> QED BY <1>1, <1>2, <1>3, <1>4 DEF IInv

\* No request takes part: a save from elsewhere, and the expiry of the list.
LEMMA OutsideInv ==
  ASSUME IInv, SaveGraph \/ Expire
  PROVE  IInv'
  <1>1. /\ graph \in Nat /\ graph' \in Nat /\ graph <= graph'
        /\ UNCHANGED <<versions, made, index, at, job, errors, slips, overlapped>>
        /\ list' = list \/ list' = None
    BY DEF IInv, TypeOK, SaveGraph, Expire
  <1>2. TypeOK'
    BY <1>1 DEF IInv, TypeOK
  <1>3. LimitInv'
    BY <1>1 DEF IInv, LimitInv, LimitHeld, Untrimmed
  <1>4. ListInv'
    BY <1>1 DEF IInv, ListInv, IndexedInv, SeenInv, ListFresh, Purging
  <1>5. CopyInv'
    <2> SUFFICES ASSUME NEW g \in Handlers
                 PROVE  /\ at'[g] = "copying" => job'[g].base \in Int /\ job'[g].base <= graph'
                        /\ job'[g].whole => /\ job'[g].base \in Int /\ job'[g].copy \in Int
                                            /\ job'[g].base <= job'[g].copy /\ job'[g].copy <= graph'
      BY DEF CopyInv
    <2>1. /\ at[g] = "copying" => job[g].base \in Int /\ job[g].base <= graph
          /\ job[g].whole => /\ job[g].base \in Int /\ job[g].copy \in Int
                             /\ job[g].base <= job[g].copy /\ job[g].copy <= graph
      BY DEF IInv, CopyInv
    <2> QED BY <1>1, <2>1
  <1> QED BY <1>2, <1>3, <1>4, <1>5 DEF IInv

LEMMA StutterInv ==
  ASSUME IInv, UNCHANGED vars
  PROVE  IInv'
  <1> USE DEF vars
  <1>1. TypeOK' /\ CopyInv'
    BY DEF IInv, TypeOK, CopyInv
  <1>2. LimitInv'
    BY DEF IInv, LimitInv, LimitHeld, Untrimmed
  <1>3. ListInv'
    BY DEF IInv, ListInv, IndexedInv, SeenInv, ListFresh, Purging
  <1> QED BY <1>1, <1>2, <1>3 DEF IInv

LEMMA NextInv == IInv /\ [Next]_vars => IInv'
  <1> SUFFICES ASSUME IInv, [Next]_vars PROVE IInv'
    OBVIOUS
  <1>1. CASE SaveGraph \/ Expire
    BY <1>1, OutsideInv
  <1>2. ASSUME NEW h \in Handlers, Step(h) PROVE IInv'
    <2>1. TypeOK /\ LimitInv /\ ListInv /\ CopyInv
      BY DEF IInv
    <2>2. TypeOK'
      BY <1>2, <2>1, StepTyped
    <2>3. LimitInv'
      BY <1>2, <2>1, StepLimited
    <2>4. ListInv'
      BY <1>2, <2>1, StepListed
    <2>5. CopyInv'
      BY <1>2, <2>1, StepCopied
    <2> QED BY <2>2, <2>3, <2>4, <2>5 DEF IInv
  <1>3. CASE UNCHANGED vars
    BY <1>3, StutterInv
  <1> QED BY <1>1, <1>2, <1>3 DEF Next

LEMMA Invariance == Spec => []IInv
  BY InitInv, NextInv, PTL DEF Spec

(***************************************************************************)
(* trimVersions after Create and after a rollback's copy: however requests *)
(* interleave, the versions exceed the limit by no more than the requests  *)
(* that still have to trim and the trims that deleted nothing.             *)
(***************************************************************************)
THEOREM LimitHeldCorrect == Spec => []LimitHeld
  <1>1. IInv => LimitHeld
    BY DEF IInv, LimitInv
  <1> QED BY <1>1, Invariance, PTL

(***************************************************************************)
(* The cached list is what the table has whenever no request still has to  *)
(* invalidate it, until a list request overlaps an invalidation.           *)
(***************************************************************************)
THEOREM ListFreshCorrect == Spec => []ListFresh
  <1>1. IInv => ListFresh
    BY DEF IInv, ListInv
  <1> QED BY <1>1, Invariance, PTL

(***************************************************************************)
(* RollbackVersion: a rollback that made its copy replaces exactly the     *)
(* graph the copy holds.  It reads the revision before the graph, and its  *)
(* save is refused once the graph has gone on.                             *)
(***************************************************************************)
THEOREM CopyHoldsReplacedCorrect == Spec => CopyHoldsReplaced
  <1> DEFINE Replaces ==
        \A h \in Handlers :
          at[h] = "saving" /\ at'[h] = "idle" /\ graph' # graph /\ job[h].whole => job[h].copy = graph
  <1>1. IInv /\ [Next]_vars => Replaces
    <2> SUFFICES ASSUME IInv, [Next]_vars, NEW h \in Handlers,
                        at[h] = "saving", at'[h] = "idle", graph' # graph, job[h].whole
                 PROVE  job[h].copy = graph
      OBVIOUS
    <2>1. /\ graph \in Nat /\ job[h].base \in Int /\ job[h].copy \in Int
          /\ job[h].base <= job[h].copy /\ job[h].copy <= graph
      BY DEF IInv, TypeOK, CopyInv
    <2>2. PICK g \in Handlers : Restore(g) /\ CurrentRevision(g)
      BY DEF Next, Step, SaveGraph, Expire, Create, Insert, CountVersions, GetOldest, Trim,
         PurgeList,
             DropIndex, Delete, Rollback, Copy, Restore, List, CacheList, AddIndex, vars
    <2>3. g = h
      <3>1. TypeOK /\ "idle" \in Places /\ NoJob \in Jobs /\ Goto(g, "idle", NoJob)
        BY <2>2, JobTypes DEF IInv, Places, Restore, Done
      <3>2. Moved(g, "idle", NoJob)
        BY <3>1, GotoMoves
      <3> QED BY <3>2 DEF Moved
    <2>4. job[h].base = graph
      BY <2>2, <2>3 DEF CurrentRevision
    <2> QED BY <2>1, <2>4
  <1>2. IInv /\ [Next]_vars => [Replaces]_vars
    BY <1>1
  <1> HIDE DEF Replaces
  <1>3. Spec => [][Replaces]_vars
    BY <1>2, Invariance, PTL DEF Spec
  <1> QED BY <1>3 DEF Replaces, CopyHoldsReplaced
=============================================================================
