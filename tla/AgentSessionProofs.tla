--------------------------- MODULE AgentSessionProofs ---------------------------
(***************************************************************************)
(* Proofs about AgentSession, for any answers of the model, any mode and   *)
(* any bounds: the types, that the rows agree when a run is over, that a   *)
(* change has the user's consent, and that the rounds were granted.  The   *)
(* last two are about a client that names the call it confirms, and        *)
(* consent about calls with ids of their own: where two requests share an  *)
(* id, a confirmation of one passes for a confirmation of the other.       *)
(***************************************************************************)
EXTENDS AgentSession, SequenceTheorems, WellFoundedInduction, TLAPS

-----------------------------------------------------------------------------
(* The calls of a round.                                                   *)

Fresh == [tool : Tools, by : {"fresh"}]

MergeStep(a, f, i) ==
  CASE i = 0 -> <<>>
    [] i > 0 /\ Mergeable(a, i - 1) /\ Mergeable(a, i) ->
         [f[i - 1] EXCEPT ![Len(f[i - 1])] = Item("batch", "fresh")]
    [] OTHER -> Append(f[i - 1], Item(a[i].tool, "fresh"))

\* The calls of an answer, and the first of a set of places among them.
LEMMA AnswerTypes ==
  ASSUME NEW a \in Answers
  PROVE  /\ a \in Seq([tool : Tools]) /\ Len(a) \in Nat /\ DOMAIN a = 1..Len(a)
         /\ \A i \in 1..Len(a) : a[i].tool \in Tools
  <1>1. a \in Seq([tool : Tools])
    BY SessionAssumption
  <1>2. Len(a) \in Nat /\ DOMAIN a = 1..Len(a) /\ \A i \in 1..Len(a) : a[i] \in [tool : Tools]
    BY <1>1, LenProperties, ElementOfSeq
  <1> QED BY <1>1, <1>2

LEMMA LeastExists ==
  ASSUME NEW n \in Nat, NEW S \in SUBSET (0..n), S # {}
  PROVE  \E m \in S : \A k \in 0..n : k < m => k \notin S
  <1> DEFINE Less == {p \in Nat \X Nat : p[1] < p[2]}
  <1>1. IsWellFoundedOn(Less, Nat)
    BY NatLessThanWellFounded DEF OpToRel
  <1>2. S \subseteq Nat
    OBVIOUS
  <1> HIDE DEF Less
  <1>3. PICK m \in S : \A k \in S : <<k, m>> \notin Less
    BY <1>1, <1>2, WFMin
  <1>4. ASSUME NEW k \in 0..n, k < m PROVE k \notin S
    <2>1. k \in Nat /\ m \in Nat /\ <<k, m>> \in Nat \X Nat
      BY <1>2
    <2>2. <<k, m>> \in Less
      BY <1>4, <2>1 DEF Less
    <2> QED BY <1>3, <2>2
  <1> QED BY <1>4

\* One more call merged.
LEMMA MergeStepTyped ==
  ASSUME NEW a \in Answers, NEW i \in 0..Len(a), NEW f, i > 0 => f[i - 1] \in Seq(Fresh)
  PROVE  MergeStep(a, f, i) \in Seq(Fresh)
  <1>1. CASE i = 0
    BY <1>1 DEF MergeStep
  <1>2. CASE i > 0 /\ Mergeable(a, i - 1) /\ Mergeable(a, i)
    <2>1. Item("batch", "fresh") \in Fresh
      BY DEF Item, Fresh, Tools
    <2>2. f[i - 1] \in Seq(Fresh) /\ i # 0
      BY <1>2
    <2>3. \A s \in Seq(Fresh), x \in Fresh, k \in Nat : [s EXCEPT ![k] = x] \in Seq(Fresh)
      <3> SUFFICES ASSUME NEW s \in Seq(Fresh), NEW x \in Fresh, NEW k \in Nat
                   PROVE  [s EXCEPT ![k] = x] \in Seq(Fresh)
        OBVIOUS
      <3>1. PICK n \in Nat : s \in [1..n -> Fresh]
        BY SeqDef
      <3>2. [s EXCEPT ![k] = x] \in [1..n -> Fresh]
        BY <3>1
      <3> QED BY <3>2, SeqDef
    <2>4. Len(f[i - 1]) \in Nat
      BY <2>2, LenProperties
    <2> QED BY <1>2, <2>1, <2>2, <2>3, <2>4 DEF MergeStep
  <1>3. CASE i > 0 /\ ~ (Mergeable(a, i - 1) /\ Mergeable(a, i))
    <2>1. Item(a[i].tool, "fresh") \in Fresh
      BY <1>3, AnswerTypes DEF Item, Fresh
    <2>2. f[i - 1] \in Seq(Fresh) /\ i # 0
      BY <1>3
    <2>3. Append(f[i - 1], Item(a[i].tool, "fresh")) \in Seq(Fresh)
      BY <2>1, <2>2, AppendProperties
    <2> QED BY <1>3, <2>2, <2>3 DEF MergeStep
  <1> QED BY <1>1, <1>2, <1>3

\* The recursion has a solution ...
LEMMA MergedExists ==
  ASSUME NEW a \in Answers
  PROVE  Merged(a) = [i \in 0..Len(a) |-> MergeStep(a, Merged(a), i)]
  <1> DEFINE Solves(f, n) == f \in [0..n -> Seq(Fresh)] /\ \A i \in 0..n : f[i] = MergeStep(a, f, i)
             S == {n \in 0..Len(a) : ~ \E f : Solves(f, n)}
  <1>0. Len(a) \in Nat
    BY AnswerTypes
  <1>1. S = {}
    <2> SUFFICES ASSUME S # {} PROVE FALSE
      OBVIOUS
    <2>1. PICK m \in S : \A k \in 0..Len(a) : k < m => k \notin S
      BY <1>0, LeastExists
    <2>2. m \in 0..Len(a) /\ ~ \E f : Solves(f, m)
      BY <2>1
    <2>3. \E f : m > 0 => Solves(f, m - 1)
      <3>1. CASE m = 0
        BY <3>1
      <3>2. CASE m > 0
        <4>1. m - 1 \in 0..Len(a) /\ m - 1 < m
          BY <1>0, <2>2, <3>2
        <4> QED BY <2>1, <4>1
      <3> QED BY <2>2, <3>1, <3>2
    <2>4. PICK f : m > 0 => Solves(f, m - 1)
      BY <2>3
    <2>5. m > 0 => f[m - 1] \in Seq(Fresh)
      BY <2>2, <2>4
    <2>6. MergeStep(a, f, m) \in Seq(Fresh)
      BY <2>2, <2>5, MergeStepTyped
    <2> DEFINE g == [i \in 0..m |-> IF i = m THEN MergeStep(a, f, m) ELSE f[i]]
    <2>7. g \in [0..m -> Seq(Fresh)]
      BY <2>2, <2>4, <2>6
    <2>8. \A i \in 0..m : i > 0 => g[i - 1] = f[i - 1]
      BY <2>2
    <2>9. ASSUME NEW i \in 0..m PROVE MergeStep(a, g, i) = MergeStep(a, f, i)
      <3> HIDE DEF g
      <3>1. CASE i = 0
        BY <3>1 DEF MergeStep
      <3>2. CASE i > 0
        <4>1. g[i - 1] = f[i - 1]
          BY <2>8, <3>2
        <4> QED BY <4>1 DEF MergeStep
      <3> QED BY <2>2, <3>1, <3>2
    <2>10. ASSUME NEW i \in 0..m PROVE g[i] = MergeStep(a, g, i)
      <3>1. CASE i = m
        BY <2>9, <3>1
      <3>2. CASE i # m
        <4>1. i \in 0..(m - 1) /\ m > 0
          BY <2>2, <3>2
        <4>2. f[i] = MergeStep(a, f, i)
          BY <2>4, <4>1
        <4> QED BY <2>9, <3>2, <4>2
      <3> QED BY <3>1, <3>2
    <2> HIDE DEF g
    <2> QED BY <2>2, <2>7, <2>10
  <1>2. PICK f : Solves(f, Len(a))
    BY <1>0, <1>1
  <1>3. f = [i \in 0..Len(a) |-> MergeStep(a, f, i)]
    BY <1>2
  <1>4. Merged(a) = CHOOSE h : h = [i \in 0..Len(a) |-> MergeStep(a, h, i)]
    BY DEF Merged, MergeStep
  <1> QED BY <1>3, <1>4

\* ... and merging makes calls of calls, none of them the engine's.
LEMMA MergeTyped ==
  ASSUME NEW a \in Answers
  PROVE  Merge(a) \in Seq(Fresh)
  <1> DEFINE S == {n \in 0..Len(a) : Merged(a)[n] \notin Seq(Fresh)}
  <1>0. Len(a) \in Nat
    BY AnswerTypes
  <1>1. S = {}
    <2> SUFFICES ASSUME S # {} PROVE FALSE
      OBVIOUS
    <2>1. PICK m \in S : \A k \in 0..Len(a) : k < m => k \notin S
      BY <1>0, LeastExists
    <2>2. m \in 0..Len(a) /\ Merged(a)[m] \notin Seq(Fresh)
      BY <2>1
    <2>3. m > 0 => Merged(a)[m - 1] \in Seq(Fresh)
      BY <1>0, <2>1, <2>2
    <2>4. MergeStep(a, Merged(a), m) \in Seq(Fresh)
      BY <2>2, <2>3, MergeStepTyped
    <2>5. Merged(a)[m] = MergeStep(a, Merged(a), m)
      BY <2>2, MergedExists
    <2> QED BY <2>2, <2>4, <2>5
  <1>2. Len(a) \in 0..Len(a)
    BY <1>0
  <1> QED BY <1>1, <1>2 DEF Merge

\* Calls the engine may have before it: of a round to line up, and lined up, where the
\* read that it adds has the change after it.
Plain(t) == t \in Seq(Items) /\ \A i \in 1..Len(t) : t[i].by # "auto"
Lawful(t) == t \in Seq(Items) /\ \A i \in 1..Len(t) : t[i].by = "auto" => i = 1 /\ Len(t) > 1

LEMMA TailPlain ==
  ASSUME NEW t, Lawful(t), t # <<>>
  PROVE  /\ Plain(Tail(t)) /\ t[1] \in Items /\ Len(t) \in Nat \ {0} /\ Len(Tail(t)) = Len(t) - 1
         /\ t[1].by = "auto" => Tail(t) # <<>>
  <1>1. t \in Seq(Items) /\ \A i \in 1..Len(t) : t[i].by = "auto" => i = 1 /\ Len(t) > 1
    BY DEF Lawful
  <1>2. /\ Len(t) \in Nat \ {0} /\ Tail(t) \in Seq(Items) /\ Len(Tail(t)) = Len(t) - 1
        /\ \A i \in 1..Len(Tail(t)) : Tail(t)[i] = t[i + 1]
    BY <1>1, HeadTailProperties, LenProperties, EmptySeq
  <1>3. t[1] \in Items
    BY <1>1, <1>2, ElementOfSeq
  <1>4. \A i \in 1..Len(Tail(t)) : Tail(t)[i].by # "auto"
    <2> SUFFICES ASSUME NEW i \in 1..Len(Tail(t)) PROVE t[i + 1].by # "auto"
      BY <1>2
    <2>1. i + 1 \in 1..Len(t) /\ i + 1 # 1
      BY <1>2
    <2> QED BY <1>1, <2>1
  <1>5. t[1].by = "auto" => Tail(t) # <<>>
    <2>1. 1 \in 1..Len(t)
      BY <1>2
    <2>2. t[1].by = "auto" => Len(Tail(t)) > 0
      BY <1>1, <1>2, <2>1
    <2> QED BY <2>2
  <1> QED BY <1>2, <1>3, <1>4, <1>5 DEF Plain

LEMMA ConcatPlain ==
  ASSUME NEW s, NEW t, Plain(s), Plain(t)
  PROVE  Plain(s \o t)
  <1>1. s \in Seq(Items) /\ t \in Seq(Items) /\ Len(s) \in Nat /\ Len(t) \in Nat
    BY LenProperties DEF Plain
  <1>2. /\ s \o t \in Seq(Items) /\ Len(s \o t) = Len(s) + Len(t)
        /\ \A i \in 1..(Len(s) + Len(t)) : (s \o t)[i] = IF i <= Len(s) THEN s[i] ELSE t[i - Len(s)]
    BY <1>1, ConcatProperties
  <1>3. ASSUME NEW i \in 1..Len(s \o t) PROVE (s \o t)[i].by # "auto"
    <2>1. CASE i <= Len(s)
      BY <1>1, <1>2, <2>1 DEF Plain
    <2>2. CASE i > Len(s)
      <3>1. i - Len(s) \in 1..Len(t)
        BY <1>1, <1>2, <2>2
      <3> QED BY <1>1, <1>2, <2>2, <3>1 DEF Plain
    <2> QED BY <1>1, <1>2, <2>1, <2>2
  <1> QED BY <1>2, <1>3 DEF Plain

LEMMA PlainIsLawful ==
  ASSUME NEW t, Plain(t)
  PROVE  Lawful(t)
  BY DEF Plain, Lawful

\* A call in front of calls that are still to line up.
LEMMA OneThenPlain ==
  ASSUME NEW x \in Items, NEW t, Plain(t), x.by = "auto" => Len(t) > 0
  PROVE  /\ Lawful(<<x>> \o t)
         /\ x.by # "auto" => Plain(<<x>> \o t)
         /\ Len(<<x>> \o t) = Len(t) + 1
  <1>1. /\ <<x>> \in Seq(Items) /\ Len(<<x>>) = 1 /\ <<x>>[1] = x
        /\ t \in Seq(Items) /\ Len(t) \in Nat
    BY LenProperties DEF Plain
  <1>2. /\ <<x>> \o t \in Seq(Items) /\ Len(<<x>> \o t) = Len(t) + 1
        /\ \A i \in 1..(Len(t) + 1) : (<<x>> \o t)[i] = IF i <= 1 THEN <<x>>[i] ELSE t[i - 1]
    BY <1>1, ConcatProperties
  <1>3. ASSUME NEW i \in 1..(Len(t) + 1) PROVE (<<x>> \o t)[i].by = "auto" => i = 1 /\ x.by = "auto"
    <2>1. CASE i = 1
      BY <1>1, <1>2, <2>1
    <2>2. CASE i > 1
      <3>1. i - 1 \in 1..Len(t)
        BY <1>1, <2>2
      <3> QED BY <1>2, <2>2, <3>1 DEF Plain
    <2> QED BY <1>1, <2>1, <2>2
  <1> QED BY <1>1, <1>2, <1>3 DEF Plain, Lawful

LEMMA ItemTypes ==
  ASSUME NEW tool \in Tools, NEW by \in {"fresh", "model", "checked", "auto", "follow"}
  PROVE  Item(tool, by) \in Items /\ Item(tool, by).by = by
  BY DEF Item, Items

LEMMA LinedLawful ==
  ASSUME NEW t, Plain(t), NEW read
  PROVE  Lawful(Lined(t, read))
  <1>1. CASE t = <<>> \/ t[1].by # "fresh"
    BY <1>1, PlainIsLawful DEF Lined
  <1>2. CASE t # <<>> /\ t[1].by = "fresh"
    <2>1. Lawful(t)
      BY PlainIsLawful
    <2>2. Plain(Tail(t)) /\ t[1] \in Items
      BY <1>2, <2>1, TailPlain
    <2>3. t[1].tool \in Tools /\ "read" \in Tools
      BY <2>2 DEF Items, Tools
    <2>4. Lawful(<<Item(t[1].tool, "model")>> \o Tail(t))
      <3>1. Item(t[1].tool, "model") \in Items /\ Item(t[1].tool, "model").by # "auto"
        BY <2>3, ItemTypes
      <3> QED BY <2>2, <3>1, OneThenPlain
    <2>5. Lawful(<<Item("read", "auto"), Item(t[1].tool, "checked")>> \o Tail(t))
      <3> DEFINE u == <<Item(t[1].tool, "checked")>> \o Tail(t)
      <3>0. Item(t[1].tool, "checked") \in Items /\ Item(t[1].tool, "checked").by # "auto"
        BY <2>3, ItemTypes
      <3>1. Plain(u) /\ Len(u) = Len(Tail(t)) + 1
        BY <2>2, <3>0, OneThenPlain
      <3>2. Len(Tail(t)) \in Nat
        BY <2>2, LenProperties DEF Plain
      <3>3. Item("read", "auto") \in Items
        BY <2>3, ItemTypes
      <3>4. Lawful(<<Item("read", "auto")>> \o u)
        <4> HIDE DEF u
        <4>1. Len(u) > 0
          BY <3>1, <3>2
        <4> QED BY <3>1, <4>1, <3>3, OneThenPlain
      <3>5. <<Item("read", "auto"), Item(t[1].tool, "checked")>> \o Tail(t) = <<Item("read", "auto")>> \o u
        <4>1. Tail(t) \in Seq(Items) /\ Tail(t) \in Seq(Items)
          BY <2>2 DEF Plain
        <4>2. <<Item("read", "auto")>> \in Seq(Items) /\ <<Item(t[1].tool, "checked")>> \in Seq(Items)
          BY <3>0, <3>3
        <4>3. <<Item("read", "auto")>> \o <<Item(t[1].tool, "checked")>>
                = <<Item("read", "auto"), Item(t[1].tool, "checked")>>
          <5> DEFINE x == Item("read", "auto")
                     y == Item(t[1].tool, "checked")
          <5>1. x \in Items /\ y \in Items
            BY <3>0, <3>3
          <5> HIDE DEF x, y
          <5>2. /\ <<x>> \in Seq(Items) /\ Len(<<x>>) = 1 /\ <<x>>[1] = x
                /\ <<y>> \in Seq(Items) /\ Len(<<y>>) = 1 /\ <<y>>[1] = y
                /\ <<x, y>> \in Seq(Items) /\ Len(<<x, y>>) = 2 /\ <<x, y>>[1] = x /\ <<x, y>>[2] = y
            BY <5>1
          <5>3. /\ <<x>> \o <<y>> \in Seq(Items) /\ Len(<<x>> \o <<y>>) = 2
                /\ (<<x>> \o <<y>>)[1] = x /\ (<<x>> \o <<y>>)[2] = y
            BY <5>2, ConcatProperties
          <5>4. \A i \in 1..2 : (<<x>> \o <<y>>)[i] = <<x, y>>[i]
            BY <5>2, <5>3
          <5>5. <<x>> \o <<y>> = <<x, y>>
            <6>1. \A i \in 1..Len(<<x>> \o <<y>>) : (<<x>> \o <<y>>)[i] = <<x, y>>[i]
              BY <5>3, <5>4
            <6>2. Len(<<x>> \o <<y>>) = Len(<<x, y>>)
              BY <5>2, <5>3
            <6> QED BY <5>2, <5>3, <6>1, <6>2, SeqEqual, Zenon
          <5> QED BY <5>5 DEF x, y
        <4> QED BY <4>1, <4>2, <4>3, ConcatAssociative
      <3> QED BY <3>4, <3>5
    <2> QED BY <1>2, <2>4, <2>5 DEF Lined
  <1> QED BY <1>1, <1>2

LEMMA SkipLawful ==
  ASSUME NEW t, Lawful(t), t # <<>>, NEW read
  PROVE  Lawful(Skip(t, read))
  BY TailPlain, LinedLawful DEF Skip

LEMMA SkipCallLawful ==
  ASSUME Lawful(engine.todo), engine.todo # <<>>, NEW read
  PROVE  Lawful(SkipCall(engine.todo, read))
  <1>1. CASE Head1.by = "auto"
    <2>1. Plain(Tail(engine.todo)) /\ Tail(engine.todo) # <<>>
      BY <1>1, TailPlain DEF Head1
    <2>2. Lawful(Skip(Tail(engine.todo), read))
      BY <2>1, PlainIsLawful, SkipLawful
    <2> QED BY <1>1, <2>2 DEF SkipCall
  <1>2. CASE Head1.by # "auto"
    BY <1>2, SkipLawful DEF SkipCall
  <1> QED BY <1>1, <1>2

LEMMA MergeLawful ==
  ASSUME NEW a \in Answers, NEW read
  PROVE  Lawful(Lined(Merge(a), read))
  <1>1. Merge(a) \in Seq(Fresh)
    BY MergeTyped
  <1>2. Fresh \subseteq Items /\ \A x \in Fresh : x.by # "auto"
    BY DEF Fresh, Items
  <1>3. Merge(a) \in Seq(Items)
    BY <1>1, <1>2, SeqMonotonic
  <1>4. \A i \in 1..Len(Merge(a)) : Merge(a)[i] \in Fresh
    BY <1>1, ElementOfSeq
  <1>5. Plain(Merge(a))
    BY <1>2, <1>3, <1>4 DEF Plain
  <1> QED BY <1>5, LinedLawful

LEMMA FollowLawful ==
  ASSUME NEW t, Lawful(t), t # <<>>, NEW follow \in FollowUps(t[1])
  PROVE  Lawful(follow \o Tail(t))
  <1>1. Plain(Tail(t))
    BY TailPlain
  <1>2. Plain(follow)
    <2>1. follow \in {<<Item("validate", "follow")>>, <<Item("validate", "follow"), Item("check", "follow")>>}
      BY DEF FollowUps
    <2>2. \A x \in {Item("validate", "follow"), Item("check", "follow")} : x \in Items /\ x.by # "auto"
      BY DEF Item, Items, Tools
    <2>3. \A i \in 1..Len(follow) : follow[i] \in {Item("validate", "follow"), Item("check", "follow")}
      BY <2>1
    <2>4. follow \in Seq(Items)
      <3>1. \A x, y \in Items : <<x>> \in Seq(Items) /\ <<x, y>> \in Seq(Items)
        OBVIOUS
      <3> QED BY <2>1, <2>2, <3>1
    <2> QED BY <2>2, <2>3, <2>4 DEF Plain
  <1> QED BY <1>1, <1>2, ConcatPlain, PlainIsLawful

-----------------------------------------------------------------------------
(* The types.                                                              *)

Sessions == [state : SessionStates, pending : Requests \union {None}, closed : BOOLEAN,
             calls : Nat, listed : BOOLEAN]
Engines == [at : Places, mode : Modes, round : Nat, limit : Nat, todo : Seq(Items),
            read : BOOLEAN, answer : Answered, err : Errors]
Desks == {None} \union [looked : BOOLEAN, late : BOOLEAN, signal : Signals]
Replies == Signals \union {Lost(err) : err \in Errors}

\* There is a call at the head wherever the engine looks at it, and an answer where it
\* resumes.
CallInv ==
  /\ Lawful(engine.todo)
  /\ engine.at \in {"dispatch", "run", "commit"} => engine.todo # <<>>
  /\ engine.at \in {"wait", "resume", "leave"} /\ asked.why # "iteration" => engine.todo # <<>>
  /\ engine.at = "resume" => engine.answer \in Replies
  /\ engine.at = "wait" => runtime \in Runtimes

TypedInv == TypeOK /\ CallInv

LEMMA TypeParts ==
  TypeOK <=> /\ session \in Sessions /\ engine \in Engines /\ desk \in Desks
             /\ queue \in Seq(Signals) /\ Len(queue) <= QueueSize /\ sent \in 0..MaxSignals
             /\ asked \in Requests \union {None} /\ granted \in Nat
             /\ runtime \in {None} \union Runtimes
             /\ row \in SessionStates \union {None} /\ gone \in BOOLEAN
  BY DEF TypeOK, Sessions, Engines, Desks

LEMMA NextParts ==
  TypeOK' <=> /\ session' \in Sessions /\ engine' \in Engines /\ desk' \in Desks
              /\ queue' \in Seq(Signals) /\ Len(queue') <= QueueSize /\ sent' \in 0..MaxSignals
              /\ asked' \in Requests \union {None} /\ granted' \in Nat
              /\ runtime' \in {None} \union Runtimes
              /\ row' \in SessionStates \union {None} /\ gone' \in BOOLEAN
  BY DEF TypeOK, Sessions, Engines, Desks

\* Changes of the session and of the engine that keep their types.
LEMMA SessionChanges ==
  ASSUME NEW s \in Sessions
  PROVE  /\ \A x \in SessionStates : [s EXCEPT !.state = x] \in Sessions
         /\ \A x \in SessionStates, p \in Requests \union {None} :
              [s EXCEPT !.pending = p, !.state = x] \in Sessions
         /\ \A x \in SessionStates : [s EXCEPT !.state = x, !.closed = TRUE] \in Sessions
         /\ [s EXCEPT !.pending = None] \in Sessions
         /\ [s EXCEPT !.calls = @ + 1] \in Sessions
         /\ \A x \in BOOLEAN : [s EXCEPT !.listed = x] \in Sessions
  <1>1. \A x \in SessionStates : [s EXCEPT !.state = x] \in Sessions
    BY DEF Sessions
  <1>2. \A x \in SessionStates, p \in Requests \union {None} : [s EXCEPT !.pending = p, !.state = x] \in Sessions
    BY DEF Sessions
  <1>3. \A x \in SessionStates : [s EXCEPT !.state = x, !.closed = TRUE] \in Sessions
    BY DEF Sessions
  <1>4. [s EXCEPT !.pending = None] \in Sessions
    BY DEF Sessions
  <1>5. [s EXCEPT !.calls = @ + 1] \in Sessions
    BY DEF Sessions
  <1>6. \A x \in BOOLEAN : [s EXCEPT !.listed = x] \in Sessions
    BY DEF Sessions
  <1> QED BY <1>1, <1>2, <1>3, <1>4, <1>5, <1>6

LEMMA EngineChanges ==
  ASSUME NEW e \in Engines, NEW p \in Places
  PROVE  /\ [e EXCEPT !.at = p] \in Engines
         /\ \A x \in Errors : [e EXCEPT !.at = p, !.err = x] \in Engines
         /\ \A x \in Answered : [e EXCEPT !.at = p, !.answer = x] \in Engines
         /\ \A t \in Seq(Items) : [e EXCEPT !.at = p, !.todo = t] \in Engines
         /\ \A t \in Seq(Items) : [e EXCEPT !.todo = t] \in Engines
         /\ \A t \in Seq(Items), b \in BOOLEAN : [e EXCEPT !.at = p, !.read = b, !.todo = t] \in Engines
         /\ [e EXCEPT !.at = p, !.round = @ + 1] \in Engines
         /\ \A n \in Nat : [e EXCEPT !.at = p, !.limit = @ + n] \in Engines
  <1>1. [e EXCEPT !.at = p] \in Engines
    BY DEF Engines
  <1>2. \A x \in Errors : [e EXCEPT !.at = p, !.err = x] \in Engines
    BY DEF Engines
  <1>3. \A x \in Answered : [e EXCEPT !.at = p, !.answer = x] \in Engines
    BY DEF Engines
  <1>4. \A t \in Seq(Items) : [e EXCEPT !.at = p, !.todo = t] \in Engines
    BY DEF Engines
  <1>5. \A t \in Seq(Items) : [e EXCEPT !.todo = t] \in Engines
    BY DEF Engines
  <1>6. \A t \in Seq(Items), b \in BOOLEAN : [e EXCEPT !.at = p, !.read = b, !.todo = t] \in Engines
    BY DEF Engines
  <1>a. e.round + 1 \in Nat /\ \A n \in Nat : e.limit + n \in Nat
    BY DEF Engines
  <1>b. \A n \in Nat : [e EXCEPT !.at = p, !.round = n] \in Engines /\ [e EXCEPT !.at = p, !.limit = n] \in Engines
    BY DEF Engines
  <1>7. [e EXCEPT !.at = p, !.round = @ + 1] \in Engines
    BY <1>a, <1>b
  <1>8. \A n \in Nat : [e EXCEPT !.at = p, !.limit = @ + n] \in Engines
    BY <1>a, <1>b
  <1> QED BY <1>1, <1>2, <1>3, <1>4, <1>5, <1>6, <1>7, <1>8

\* The call at the head is over.
LEMMA FinishedTyped ==
  ASSUME TypedInv, engine.todo # <<>>
  PROVE  Finished \in Engines /\ Finished.at = "calls" /\ Lawful(Finished.todo)
  <1> DEFINE read == engine.read \/ Head1.tool = "read"
             todo == Skip(engine.todo, read)
  <1>1. engine \in Engines
    BY TypeParts DEF TypedInv
  <1>2. Lawful(todo)
    BY SkipLawful DEF TypedInv, CallInv
  <1>3. todo \in Seq(Items) /\ read \in BOOLEAN /\ "calls" \in Places
    BY <1>1, <1>2 DEF Lawful, Engines, Places
  <1>4. Finished = [engine EXCEPT !.at = "calls", !.read = read, !.todo = todo]
    BY DEF Finished
  <1> HIDE DEF read, todo
  <1> QED BY <1>1, <1>2, <1>3, <1>4, EngineChanges DEF Engines

LEMMA AuditLostTyped ==
  ASSUME TypedInv
  PROVE  AuditLost \in Engines /\ AuditLost.at = "after" /\ Lawful(AuditLost.todo)
  <1>1. engine \in Engines /\ Lawful(engine.todo) /\ "after" \in Places /\ "failed" \in Errors
    BY TypeParts DEF TypedInv, CallInv, Places, Errors
  <1> QED BY <1>1, EngineChanges DEF AuditLost, Engines

\* The engine asks.
LEMMA AskTyped ==
  ASSUME TypedInv, NEW why \in Whys, NEW state \in Paused, Ask(why, state),
         why = "iteration" \/ engine.todo # <<>>
  PROVE  /\ session' \in Sessions /\ engine' \in Engines /\ asked' \in Requests /\ runtime' \in Runtimes
         /\ asked'.why = why /\ engine'.at = "wait" /\ CallInv'
  <1>1. session \in Sessions /\ engine \in Engines /\ asked \in Requests \union {None} /\ Lawful(engine.todo)
    BY TypeParts DEF TypedInv, CallInv
  <1>2. asked' \in Requests /\ asked'.why = why
    BY <1>1 DEF Ask, Requests
  <1>3. session' \in Sessions
    BY <1>1, <1>2, SessionChanges DEF Ask, Paused, SessionStates
  <1>4. runtime' \in Runtimes
    BY <1>2 DEF Ask, Waiting, Runtimes
  <1>5. engine' \in Engines
    BY <1>1, EngineChanges DEF Ask, Places, Answered
  <1>6. engine'.at = "wait" /\ engine'.todo = engine.todo
    BY <1>1 DEF Ask, Engines
  <1>7. CallInv'
    BY <1>1, <1>2, <1>4, <1>6 DEF CallInv
  <1> QED BY <1>2, <1>3, <1>4, <1>5, <1>6, <1>7

\* The wait is over.
LEMMA EndWaitTyped ==
  ASSUME TypedInv, engine.at = "wait", NEW answer \in Replies, EndWait(answer)
  PROVE  session' \in Sessions /\ engine' \in Engines /\ CallInv'
  <1>1. session \in Sessions /\ engine \in Engines /\ CallInv /\ asked' = asked
    BY TypeParts DEF TypedInv, EndWait
  <1>2. session' \in Sessions
    BY <1>1, SessionChanges DEF EndWait
  <1>3. answer \in Answered /\ "resume" \in Places
    BY DEF Answered, Replies, Places
  <1>4. engine' \in Engines
    BY <1>1, <1>3, EngineChanges DEF EndWait
  <1>5. engine'.at = "resume" /\ engine'.todo = engine.todo /\ engine'.answer = answer
    BY <1>1 DEF EndWait, Engines
  <1>6. CallInv'
    BY <1>1, <1>5 DEF CallInv
  <1> QED BY <1>2, <1>4, <1>6

LEMMA InitTyped == Init => TypedInv
  <1> SUFFICES ASSUME Init PROVE TypedInv
    OBVIOUS
  <1>1. session \in Sessions
    BY DEF Init, Sessions, SessionStates
  <1>2. engine \in Engines /\ engine.at = "new" /\ engine.todo = <<>>
    <2>1. <<>> \in Seq(Items) /\ MaxRounds \in Nat /\ None \in Answered /\ None \in Errors
      BY SessionAssumption DEF Answered, Errors
    <2> QED BY <2>1 DEF Init, Engines, Places
  <1>3. <<>> \in Seq(Signals) /\ Len(<<>>) = 0 /\ QueueSize \in Nat /\ MaxSignals \in Nat
    BY SessionAssumption
  <1>4. TypeOK
    <2>1. desk \in Desks /\ queue \in Seq(Signals)
      BY <1>3 DEF Init, Desks
    <2>2. Len(queue) <= QueueSize /\ sent \in 0..MaxSignals /\ granted \in Nat
      BY <1>3 DEF Init
    <2>3. /\ asked \in Requests \union {None} /\ runtime \in {None} \union Runtimes
          /\ row \in SessionStates \union {None} /\ gone \in BOOLEAN
      BY DEF Init
    <2> QED BY <1>1, <1>2, <2>1, <2>2, <2>3, TypeParts
  <1>5. CallInv
    BY <1>2 DEF CallInv, Lawful
  <1> QED BY <1>4, <1>5 DEF TypedInv

\* An action of the engine that leaves the users' part alone.
LEMMA EngineStepTyped ==
  ASSUME TypedInv, session' \in Sessions, engine' \in Engines, CallInv',
         asked' \in Requests \union {None}, runtime' \in {None} \union Runtimes,
         row' \in SessionStates \union {None}, UNCHANGED Users
  PROVE  TypedInv'
  <1>1. UNCHANGED <<queue, desk, sent, granted, gone>>
    BY DEF Users
  <1>2. TypeOK'
    BY <1>1, TypeParts, NextParts DEF TypedInv
  <1> QED BY <1>2 DEF TypedInv

LEMMA EngineTyped ==
  ASSUME TypedInv, RunStep
  PROVE  TypedInv'
  <1> DEFINE OthersSame == UNCHANGED <<asked, runtime, row, Users>>
  <1>a. /\ session \in Sessions /\ engine \in Engines /\ CallInv /\ queue \in Seq(Signals)
        /\ asked \in Requests \union {None} /\ runtime \in {None} \union Runtimes
        /\ row \in SessionStates \union {None} /\ Lawful(engine.todo)
    BY TypeParts DEF TypedInv, CallInv
  <1>b. engine.todo \in Seq(Items)
    BY <1>a DEF Engines
  <1>c. {"over", "round", "close", "calls", "after", "dispatch", "leave", "run", "commit", "drop"} \subseteq Places
    BY DEF Places
  <1>d. {None, "failed", "canceled", "deadline"} \subseteq Errors
    BY DEF Errors
  \* The engine goes where it looks at no call, and has the calls it had, or others.
  <1>e. ASSUME engine' \in Engines, Lawful(engine'.todo),
               engine'.at \notin {"dispatch", "run", "commit", "wait", "resume", "leave"}
        PROVE  CallInv'
    BY <1>e DEF CallInv
  <1>f. ASSUME session' \in Sessions, engine' \in Engines, CallInv', OthersSame
        PROVE  TypedInv'
    BY <1>a, <1>f, EngineStepTyped
  <1> HIDE DEF OthersSame
  <1>g. ASSUME engine.todo # <<>>, engine' \in {Finished, AuditLost}
        PROVE  engine' \in Engines /\ CallInv'
    BY <1>e, <1>g, FinishedTyped, AuditLostTyped
  <1>1. CASE Refuse
    <2>1. engine' \in Engines /\ engine'.at = "over" /\ engine'.todo = engine.todo
      BY <1>1, <1>a, <1>c, EngineChanges DEF Refuse, Engines
    <2>2. session' \in Sessions
      BY <1>1, <1>a, SessionChanges DEF Refuse
    <2>3. CallInv'
      BY <1>a, <1>e, <2>1
    <2> QED BY <1>1, <1>f, <2>1, <2>2, <2>3 DEF Refuse, OthersSame
  <1>2. CASE Start
    <2>1. engine' \in Engines /\ engine'.at \in {"round", "close"} /\ engine'.todo = engine.todo
      <3>1. PICK p \in {"round", "close"}, err \in {None, "failed"} : engine' = [engine EXCEPT !.at = p, !.err = err]
        BY <1>2 DEF Start, Loading
      <3>6. p \in Places /\ err \in Errors
        BY <1>c, <1>d, <3>1
      <3>7. engine' \in Engines
        BY <1>a, <3>1, <3>6, EngineChanges
      <3> QED BY <1>a, <3>1, <3>6, <3>7 DEF Engines
    <2>2. session' \in Sessions /\ row' \in SessionStates
      BY <1>2, <1>a, SessionChanges DEF Start, SessionStates
    <2>3. CallInv'
      BY <1>a, <1>e, <2>1
    <2> QED BY <1>2, <1>a, <2>1, <2>2, <2>3, EngineStepTyped DEF Start
  <1>3. CASE AskForRounds
    <2>1. "iteration" \in Whys /\ "paused_confirm" \in Paused
      BY DEF Whys, Paused
    <2> QED BY <1>3, <1>a, <2>1, AskTyped, EngineStepTyped DEF AskForRounds
  <1>4. CASE AnswerRound
    <2>1. PICK a \in Answers :
            engine' = [engine EXCEPT !.at = IF a = <<>> THEN "after" ELSE "calls", !.read = FALSE,
                                     !.todo = Lined(Merge(a), FALSE)]
      BY <1>4 DEF AnswerRound
    <2>2. Lawful(Lined(Merge(a), FALSE)) /\ Lined(Merge(a), FALSE) \in Seq(Items)
      BY MergeLawful DEF Lawful
    <2>3. engine' \in Engines /\ engine'.at \in {"after", "calls"} /\ engine'.todo = Lined(Merge(a), FALSE)
      <3> DEFINE todo == Lined(Merge(a), FALSE)
      <3>1. PICK p \in {"after", "calls"} : engine' = [engine EXCEPT !.at = p, !.read = FALSE, !.todo = todo]
        BY <2>1
      <3>2. todo \in Seq(Items)
        BY <2>2
      <3> HIDE DEF todo
      <3>3. engine' \in Engines /\ engine'.at \in {"after", "calls"} /\ engine'.todo = todo
        <4>6. p \in Places /\ FALSE \in BOOLEAN
          BY <1>c, <1>d, <3>1
        <4>7. engine' \in Engines
          BY <1>a, <3>1, <3>2, <4>6, EngineChanges
        <4> QED BY <1>a, <3>1, <3>2, <4>6, <4>7 DEF Engines
      <3> QED BY <3>3 DEF todo
    <2>4. CallInv'
      BY <1>e, <2>2, <2>3
    <2> QED BY <1>4, <1>a, <1>f, <2>3, <2>4 DEF AnswerRound, OthersSame
  <1>5. CASE FailRound
    <2>1. engine' \in Engines /\ engine'.at = "after" /\ engine'.todo = engine.todo
      <3>1. PICK err \in {"canceled", "failed", "deadline"} : engine' = [engine EXCEPT !.at = "after", !.err = err]
        BY <1>5 DEF FailRound
      <3>6. "after" \in Places /\ err \in Errors
        BY <1>c, <1>d, <3>1
      <3>7. engine' \in Engines
        BY <1>a, <3>1, <3>6, EngineChanges
      <3> QED BY <1>a, <3>1, <3>6, <3>7 DEF Engines
    <2>2. CallInv'
      BY <1>a, <1>e, <2>1
    <2> QED BY <1>5, <1>a, <1>f, <2>1, <2>2 DEF FailRound, OthersSame
  <1>6. CASE EndRound
    <2>1. engine' \in Engines /\ engine'.at \in {"round", "after"} /\ engine'.todo = engine.todo
      <3>1. CASE engine' = [engine EXCEPT !.at = "round", !.round = @ + 1]
        BY <1>a, <1>c, <3>1, EngineChanges DEF Engines
      <3>2. CASE engine' = [engine EXCEPT !.at = "after", !.err = "failed"]
        BY <1>a, <1>c, <1>d, <3>2, EngineChanges DEF Engines
      <3> QED BY <1>6, <3>1, <3>2 DEF EndRound
    <2>2. CallInv'
      BY <1>a, <1>e, <2>1
    <2> QED BY <1>6, <1>a, <1>f, <2>1, <2>2 DEF EndRound, OthersSame
  <1>7. CASE RefuseCall
    <2> DEFINE todo == SkipCall(engine.todo, engine.read)
    <2>1. Lawful(todo) /\ todo \in Seq(Items)
      BY <1>7, <1>a, SkipCallLawful DEF RefuseCall, Lawful
    <2>2. engine' = [engine EXCEPT !.todo = todo] /\ engine.at = "calls"
      BY <1>7 DEF RefuseCall
    <2> HIDE DEF todo
    <2>3. engine' \in Engines /\ engine'.at = "calls" /\ engine'.todo = todo
      BY <1>a, <1>c, <2>1, <2>2, EngineChanges DEF Engines
    <2>4. CallInv'
      BY <1>e, <2>1, <2>3
    <2> QED BY <1>7, <1>a, <1>f, <2>3, <2>4 DEF RefuseCall, OthersSame
  <1>8. CASE CheckCall
    <2> DEFINE todo == Skip(engine.todo, engine.read)
    <2>1. Lawful(todo) /\ todo \in Seq(Items)
      BY <1>8, <1>a, SkipLawful DEF CheckCall, Lawful
    <2>2. /\ engine.at = "calls" /\ engine.todo # <<>>
          /\ \/ engine' = [engine EXCEPT !.at = "after", !.err = "failed"] /\ session' = session
             \/ engine' = [engine EXCEPT !.todo = todo] /\ session' = session
             \/ engine' = [engine EXCEPT !.at = "dispatch"] /\ session' = [session EXCEPT !.calls = @ + 1]
      BY <1>8 DEF CheckCall
    <2> HIDE DEF todo
    <2>3. engine' \in Engines /\ CallInv' /\ session' \in Sessions
      <3>1. CASE engine' = [engine EXCEPT !.at = "after", !.err = "failed"] /\ session' = session
        <4>1. engine' \in Engines /\ engine'.at = "after" /\ engine'.todo = engine.todo
          BY <1>a, <1>c, <1>d, <3>1, EngineChanges DEF Engines
        <4> QED BY <1>a, <1>e, <3>1, <4>1
      <3>2. CASE engine' = [engine EXCEPT !.todo = todo] /\ session' = session
        <4>1. engine' \in Engines /\ engine'.at = "calls" /\ engine'.todo = todo
          BY <1>a, <1>c, <2>1, <2>2, <3>2, EngineChanges DEF Engines
        <4> QED BY <1>a, <1>e, <2>1, <3>2, <4>1
      <3>3. CASE engine' = [engine EXCEPT !.at = "dispatch"] /\ session' = [session EXCEPT !.calls = @ + 1]
        <4>1. engine' \in Engines /\ engine'.at = "dispatch" /\ engine'.todo = engine.todo
          BY <1>a, <1>c, <3>3, EngineChanges DEF Engines
        <4>2. CallInv'
          BY <1>a, <2>2, <4>1 DEF CallInv
        <4> QED BY <1>a, <3>3, <4>1, <4>2, SessionChanges
      <3> QED BY <2>2, <3>1, <3>2, <3>3
    <2> QED BY <1>8, <1>f, <2>3 DEF CheckCall, OthersSame
  <1>9. CASE SkipTool
    <2>1. engine.todo # <<>> /\ engine' = Finished
      BY <1>9, <1>a DEF SkipTool, CallInv
    <2> QED BY <1>9, <1>a, <1>f, <1>g, <2>1 DEF SkipTool, OthersSame
  <1>10. CASE FailAudit
    <2>1. engine.todo # <<>> /\ engine' = AuditLost
      BY <1>10, <1>a DEF FailAudit, CallInv
    <2> QED BY <1>10, <1>a, <1>f, <1>g, <2>1 DEF FailAudit, OthersSame
  <1>11. CASE AskForCall
    <2>1. engine.todo # <<>>
      BY <1>11, <1>a DEF AskForCall, CallInv
    <2>2. {"confirm", "preview"} \subseteq Whys /\ Paused = {"paused_confirm", "paused_preview"}
      BY DEF Whys, Paused
    <2> QED BY <1>11, <1>a, <2>1, <2>2, AskTyped, EngineStepTyped DEF AskForCall
  <1>h. ASSUME NEW answer \in Replies, engine.at = "wait", EndWait(answer), UNCHANGED Users
        PROVE  TypedInv'
    <2>1. session' \in Sessions /\ engine' \in Engines /\ CallInv'
      BY <1>h, EndWaitTyped
    <2> QED BY <1>a, <1>h, <2>1, EngineStepTyped DEF EndWait
  <1>i. {Lost("canceled"), Lost("closed"), Lost("failed")} \subseteq Replies
    BY DEF Replies, Errors
  <1>12. CASE WaitCanceled
    <2>1. CASE session.state \in Paused
      <3>1. engine' \in Engines /\ engine'.at = "leave" /\ engine'.todo = engine.todo
        <4>1. engine' = [engine EXCEPT !.at = "leave"]
          BY <1>12, <2>1 DEF WaitCanceled
        <4> QED BY <1>a, <1>c, <4>1, EngineChanges DEF Engines
      <3>2. engine.at = "wait" /\ asked' = asked
        BY <1>12, <2>1 DEF WaitCanceled
      <3>3. CallInv'
        BY <1>a, <3>1, <3>2 DEF CallInv
      <3>4. runtime' \in {None} \union Runtimes
        <4>1. runtime \in Runtimes /\ runtime' = [runtime EXCEPT !.status = "waiting"]
          BY <1>12, <2>1, <1>a DEF WaitCanceled, Marked, CallInv
        <4> QED BY <4>1 DEF Runtimes
      <3> QED BY <1>12, <2>1, <1>a, <3>1, <3>3, <3>4, EngineStepTyped DEF WaitCanceled
    <2>2. CASE session.state \notin Paused
      BY <1>12, <2>2, <1>h, <1>i DEF WaitCanceled
    <2> QED BY <2>1, <2>2
  <1>13. CASE WaitClosed
    BY <1>13, <1>h, <1>i DEF WaitClosed
  <1>14. CASE WaitTimeout
    BY <1>14, <1>h, <1>i DEF WaitTimeout
  <1>15. CASE WaitConfirm
    <2>1. /\ queue[1] \in Signals /\ Tail(queue) \in Seq(Signals) /\ Len(Tail(queue)) = Len(queue) - 1
          /\ Len(queue) \in Nat
      BY <1>15, <1>a, HeadTailProperties, LenProperties, ElementOfSeq, EmptySeq DEF WaitConfirm
    <2>2. /\ desk' \in Desks /\ queue' \in Seq(Signals) /\ Len(queue') <= QueueSize
          /\ sent' \in 0..MaxSignals /\ granted' \in Nat /\ gone' \in BOOLEAN
      <3>1. Len(queue) <= QueueSize /\ QueueSize \in Nat
        BY TypeParts, SessionAssumption DEF TypedInv
      <3>2. Len(queue') <= QueueSize /\ queue' \in Seq(Signals)
        BY <1>15, <2>1, <3>1 DEF WaitConfirm
      <3> QED BY <1>15, <3>2, TypeParts DEF WaitConfirm, TypedInv
    <2>3. /\ session' \in Sessions /\ engine' \in Engines /\ CallInv'
          /\ asked' \in Requests \union {None} /\ runtime' \in {None} \union Runtimes
          /\ row' \in SessionStates \union {None}
      <3>1. CASE Matches(queue[1])
        <4>1. EndWait(queue[1]) /\ engine.at = "wait" /\ queue[1] \in Replies
          BY <1>15, <2>1, <3>1 DEF WaitConfirm, Replies
        <4> QED BY <1>a, <4>1, EndWaitTyped DEF EndWait
      <3>2. CASE ~ Matches(queue[1])
        <4>1. UNCHANGED <<engine, session, safety, asked, runtime, row>>
          BY <1>15, <3>2 DEF WaitConfirm
        <4>2. CallInv'
          BY <1>a, <4>1 DEF CallInv
        <4> QED BY <1>a, <4>1, <4>2
      <3> QED BY <3>1, <3>2
    <2> QED BY <2>2, <2>3, NextParts DEF TypedInv
  <1>16. CASE Leave
    <2>1. engine' \in Engines /\ CallInv'
      <3>1. CASE engine' = [engine EXCEPT !.at = "after", !.err = "canceled"]
        <4>1. engine' \in Engines /\ engine'.at = "after" /\ engine'.todo = engine.todo
          BY <1>a, <1>c, <1>d, <3>1, EngineChanges DEF Engines
        <4> QED BY <1>a, <1>e, <4>1
      <3>2. CASE asked.why # "iteration" /\ engine' = Finished
        <4>1. engine.todo # <<>>
          BY <1>16, <1>a, <3>2 DEF Leave, CallInv
        <4> QED BY <1>g, <3>2, <4>1
      <3> QED BY <1>16, <3>1, <3>2 DEF Leave
    <2> QED BY <1>16, <1>a, <1>f, <2>1 DEF Leave, OthersSame
  <1>j. ASSUME Resume
        PROVE  session' \in Sessions /\ runtime' \in Runtimes /\ asked' = asked /\ row' = row
    <2>1. session' \in Sessions
      BY <1>j, <1>a, SessionChanges DEF Resume, SessionStates
    <2>2. PICK status \in {"approved", "timeout", "rejected"} : runtime' = Settled(status)
      BY <1>j DEF Resume
    <2>3. runtime' \in Runtimes
      BY <2>2 DEF Settled, Runtimes
    <2> QED BY <1>j, <2>1, <2>3 DEF Resume
  <1>k. ASSUME Resume, engine' \in Engines, CallInv'
        PROVE  TypedInv'
    <2>1. UNCHANGED Users
      BY <1>k DEF Resume
    <2> QED BY <1>a, <1>j, <1>k, <2>1, EngineStepTyped
  <1>17. CASE ResumeRounds
    <2>0. Resume /\ engine.answer \in Replies
      BY <1>17, <1>a DEF ResumeRounds, Resume, CallInv
    <2>1. CASE engine.answer.ok
      <3>1. engine.answer \in Signals
        BY <2>0, <2>1 DEF Replies, Lost
      <3>2. engine.answer.more \in Nat
        BY <3>1, SessionAssumption DEF Signals
      <3>3. engine' \in Engines /\ engine'.at = "round" /\ engine'.todo = engine.todo
        <4>1. engine' = [engine EXCEPT !.at = "round", !.limit = @ + engine.answer.more]
          BY <1>17, <2>1 DEF ResumeRounds
        <4>6. "round" \in Places /\ engine.answer.more \in Nat
          BY <1>c, <1>d, <3>2
        <4>7. engine' \in Engines
          BY <1>a, <4>1, <4>6, EngineChanges
        <4> QED BY <1>a, <4>1, <4>6, <4>7 DEF Engines
      <3> QED BY <1>a, <1>e, <1>k, <2>0, <3>3
    <2>2. CASE ~ engine.answer.ok
      <3>1. engine.answer.err \in Errors
        BY <2>0 DEF Replies, Lost, Signals, Errors
      <3>2. engine' \in Engines /\ engine'.at = "after" /\ engine'.todo = engine.todo
        BY <1>17, <2>2, <1>a, <1>c, <3>1, EngineChanges DEF ResumeRounds, Engines
      <3> QED BY <1>a, <1>e, <1>k, <2>0, <3>2
    <2> QED BY <2>1, <2>2
  <1>l. ASSUME NEW place \in {"run", "commit"}, Resume, asked.why # "iteration",
               engine' = [engine EXCEPT !.at = place] \/ engine' \in {Finished, AuditLost}
        PROVE  TypedInv'
    <2>1. engine.todo # <<>>
      BY <1>l, <1>a DEF Resume, CallInv
    <2>2. CASE engine' = [engine EXCEPT !.at = place]
      <3>1. engine' \in Engines /\ engine'.at = place /\ engine'.todo = engine.todo
        <4>1. place \in Places
          BY <1>c
        <4> QED BY <1>a, <2>2, <4>1, EngineChanges DEF Engines
      <3>2. CallInv'
        BY <1>a, <1>j, <1>l, <2>1, <3>1 DEF CallInv
      <3> QED BY <1>k, <1>l, <3>1, <3>2
    <2>3. CASE engine' \in {Finished, AuditLost}
      BY <1>g, <1>k, <1>l, <2>1, <2>3
    <2> QED BY <1>l, <2>2, <2>3
  <1>18. CASE ResumeCall
    BY <1>18, <1>l DEF ResumeCall
  <1>19. CASE ResumePreview
    BY <1>19, <1>l DEF ResumePreview
  <1>20. CASE CommitPreview
    <2>1. engine.todo # <<>> /\ engine' \in {Finished, AuditLost}
      BY <1>20, <1>a DEF CommitPreview, CallInv
    <2> QED BY <1>20, <1>a, <1>f, <1>g, <2>1 DEF CommitPreview, OthersSame
  <1>21. CASE FailTool
    <2>1. engine.todo # <<>> /\ engine' = Finished
      BY <1>21, <1>a DEF FailTool, MayRun, CallInv
    <2> QED BY <1>21, <1>a, <1>f, <1>g, <2>1 DEF FailTool, OthersSame
  <1>22. CASE RunTool
    <2>1. engine.todo # <<>>
      BY <1>22, <1>a DEF RunTool, MayRun, CallInv
    <2>2. CASE engine' = Finished
      BY <1>22, <1>a, <1>f, <1>g, <2>1, <2>2 DEF RunTool, OthersSame
    <2>3. CASE engine' # Finished
      <3>1. PICK follow \in FollowUps(Head1) :
              \/ engine' = [engine EXCEPT !.at = "after", !.err = "failed"]
              \/ engine' = [engine EXCEPT !.at = "calls", !.todo = follow \o Tail(@)]
        BY <1>22, <2>3 DEF RunTool
      <3> DEFINE todo == follow \o Tail(engine.todo)
      <3>2. Lawful(todo) /\ todo \in Seq(Items)
        BY <1>a, <2>1, FollowLawful DEF Head1, Lawful
      <3>3. \/ engine' = [engine EXCEPT !.at = "after", !.err = "failed"]
            \/ engine' = [engine EXCEPT !.at = "calls", !.todo = todo]
        BY <3>1
      <3> HIDE DEF todo
      <3>4. engine' \in Engines /\ engine'.at \in {"after", "calls"} /\ Lawful(engine'.todo)
        <4>1. CASE engine' = [engine EXCEPT !.at = "after", !.err = "failed"]
          <5>1. engine' \in Engines /\ engine'.at = "after" /\ engine'.todo = engine.todo
            BY <1>a, <1>c, <1>d, <4>1, EngineChanges DEF Engines
          <5> QED BY <1>a, <5>1
        <4>2. CASE engine' = [engine EXCEPT !.at = "calls", !.todo = todo]
          <5>1. engine' \in Engines /\ engine'.at = "calls" /\ engine'.todo = todo
            BY <1>a, <1>c, <3>2, <4>2, EngineChanges DEF Engines
          <5> QED BY <3>2, <5>1
        <4> QED BY <3>3, <4>1, <4>2
      <3> QED BY <1>22, <1>a, <1>e, <1>f, <3>4 DEF RunTool, OthersSame
    <2> QED BY <2>2, <2>3
  <1>23. CASE Finalize
    <2>1. engine' \in Engines /\ engine'.at = "close" /\ engine'.todo = engine.todo
      <3>1. engine.err \in Errors
        BY <1>a DEF Engines
      <3>2. \/ engine' = [engine EXCEPT !.at = "close"]
            \/ \E err \in {engine.err, "failed"} : engine' = [engine EXCEPT !.at = "close", !.err = err]
        BY <1>23 DEF Finalize
      <3>3. CASE engine' = [engine EXCEPT !.at = "close"]
        BY <1>a, <1>c, <3>3, EngineChanges DEF Engines
      <3>4. ASSUME NEW err \in {engine.err, "failed"}, engine' = [engine EXCEPT !.at = "close", !.err = err]
            PROVE  engine' \in Engines /\ engine'.at = "close" /\ engine'.todo = engine.todo
        <4>6. "close" \in Places /\ err \in Errors
          BY <1>c, <1>d, <3>1, <3>4
        <4>7. engine' \in Engines
          BY <1>a, <3>4, <4>6, EngineChanges
        <4> QED BY <1>a, <3>4, <4>6, <4>7 DEF Engines
      <3> QED BY <3>2, <3>3, <3>4
    <2>2. session' \in Sessions
      <3>1. session' = session \/ session' = [session EXCEPT !.state = "done"]
        BY <1>23 DEF Finalize
      <3>2. "done" \in SessionStates
        BY DEF SessionStates
      <3> QED BY <1>a, <3>1, <3>2, SessionChanges
    <2>3. CallInv'
      BY <1>a, <1>e, <2>1
    <2> QED BY <1>23, <1>f, <2>1, <2>2, <2>3 DEF Finalize, OthersSame
  <1>24. CASE Close
    <2>1. engine' \in Engines /\ engine'.at = "drop" /\ engine'.todo = engine.todo
      BY <1>24, <1>a, <1>c, EngineChanges DEF Close, Engines
    <2>2. FinalState \in SessionStates
      BY DEF FinalState, SessionStates
    <2>3. session' \in Sessions
      BY <1>24, <1>a, <2>2, SessionChanges DEF Close
    <2>4. row' \in SessionStates /\ runtime' \in {None} \union Runtimes
      <3>1. session.state \in SessionStates
        BY <1>a DEF Sessions
      <3> QED BY <1>24, <1>a, <2>2, <3>1 DEF Close, Settled, Runtimes
    <2>5. CallInv'
      BY <1>a, <1>e, <2>1
    <2> QED BY <1>24, <1>a, <2>1, <2>3, <2>4, <2>5, EngineStepTyped DEF Close
  <1>25. CASE Drop
    <2>1. engine' \in Engines /\ engine'.at = "over" /\ engine'.todo = engine.todo
      BY <1>25, <1>a, <1>c, EngineChanges DEF Drop, Engines
    <2>2. session' \in Sessions
      <3>1. (session.listed /\ engine.err = "canceled" /\ session.state \in Paused) \in BOOLEAN
        OBVIOUS
      <3> QED BY <1>25, <1>a, <3>1, SessionChanges DEF Drop
    <2>3. CallInv'
      BY <1>a, <1>e, <2>1
    <2> QED BY <1>25, <1>f, <2>1, <2>2, <2>3 DEF Drop, OthersSame
  <1> QED BY <1>1, <1>2, <1>3, <1>4, <1>5, <1>6, <1>7, <1>8, <1>9, <1>10, <1>11, <1>12, <1>13,
     <1>14,
             <1>15, <1>16, <1>17, <1>18, <1>19, <1>20, <1>21, <1>22, <1>23, <1>24, <1>25 DEF RunStep

LEMMA UserTyped ==
  ASSUME TypedInv, UserStep
  PROVE  TypedInv'
  <1>a. /\ session \in Sessions /\ desk \in Desks /\ queue \in Seq(Signals) /\ Len(queue) <= QueueSize
        /\ sent \in 0..MaxSignals /\ granted \in Nat /\ asked \in Requests \union {None} /\ Len(queue) \in Nat
    BY TypeParts, LenProperties DEF TypedInv
  <1>b. QueueSize \in Nat /\ MaxSignals \in Nat /\ Extra \subseteq Nat
    BY SessionAssumption
  <1>c. UNCHANGED <<engine, safety, asked, runtime, row>>
    BY DEF UserStep, Click, Confirm, Deliver, Cancel, Disconnect, Expire, Engine
  <1>d. ASSUME session' \in Sessions, desk' \in Desks, queue' \in Seq(Signals), Len(queue') <= QueueSize,
               sent' \in 0..MaxSignals, granted' \in Nat, gone' \in BOOLEAN
        PROVE  TypedInv'
    <2>1. TypeOK'
      BY <1>c, <1>d, TypeParts, NextParts DEF TypedInv
    <2>2. CallInv'
      BY <1>c DEF TypedInv, CallInv
    <2> QED BY <2>1, <2>2 DEF TypedInv
  <1>e. gone \in BOOLEAN
    BY TypeParts DEF TypedInv
  <1>1. CASE Click
    <2>1. PICK ok \in BOOLEAN, more \in Extra, named \in BOOLEAN :
            desk' = [looked |-> FALSE, late |-> session.closed,
                     signal |-> [for |-> asked, id |-> IF named THEN IdOf(asked) ELSE None,
                                 ok |-> ok, more |-> more, err |-> None]]
      BY <1>1 DEF Click
    <2>2. asked \in Requests
      BY <1>1, <1>a DEF Click
    <2>3. IdOf(asked) \in Nat
      BY <2>2 DEF IdOf, Requests
    <2>4. [for |-> asked, id |-> IF named THEN IdOf(asked) ELSE None,
           ok |-> ok, more |-> more, err |-> None] \in Signals
      BY <2>2, <2>3 DEF Signals
    <2>5. desk' \in Desks
      BY <1>a, <2>1, <2>4 DEF Desks, Sessions
    <2>6. sent' \in 0..MaxSignals
      BY <1>1, <1>a, <1>b DEF Click
    <2> QED BY <1>1, <1>a, <1>d, <1>e, <2>5, <2>6 DEF Click
  <1>2. CASE Confirm
    <2>1. desk' \in Desks
      <3>1. CASE desk' = None
        BY <3>1 DEF Desks
      <3>2. CASE desk' # None
        <4>1. /\ desk # None
              /\ desk' = [desk EXCEPT !.looked = TRUE,
                                      !.signal.id = IF session.pending # None THEN IdOf(session.pending) ELSE @]
          BY <1>2, <3>2 DEF Confirm
        <4>2. desk \in [looked : BOOLEAN, late : BOOLEAN, signal : Signals]
          BY <1>a, <4>1 DEF Desks
        <4>3. session.pending # None => IdOf(session.pending) \in Nat
          BY <1>a DEF Sessions, IdOf, Requests
        <4>4. PICK id \in Nat \union {None} : desk' = [desk EXCEPT !.looked = TRUE, !.signal.id = id]
          BY <4>1, <4>2, <4>3 DEF Signals
        <4>5. [desk.signal EXCEPT !.id = id] \in Signals
          BY <4>2 DEF Signals
        <4>6. desk' = [desk EXCEPT !.looked = TRUE, !.signal = [desk.signal EXCEPT !.id = id]]
          BY <4>2, <4>4
        <4> QED BY <4>2, <4>5, <4>6 DEF Desks
      <3> QED BY <3>1, <3>2
    <2> QED BY <1>2, <1>a, <1>d, <1>e, <2>1 DEF Confirm
  <1>3. CASE Deliver
    <2>1. desk.signal \in Signals
      BY <1>3, <1>a DEF Deliver, Desks
    <2>2. Append(queue, desk.signal) \in Seq(Signals) /\ Len(Append(queue, desk.signal)) = Len(queue) + 1
      BY <1>a, <2>1, AppendProperties
    <2>3. queue' \in Seq(Signals) /\ Len(queue') <= QueueSize
      BY <1>3, <1>a, <1>b, <2>2 DEF Deliver
    <2>4. granted' \in Nat
      <3>1. granted + desk.signal.more \in Nat
        <4>1. desk.signal.more \in Extra
          BY <2>1 DEF Signals
        <4>2. desk.signal.more \in Nat /\ granted \in Nat
          BY <1>a, <1>b, <4>1
        <4> QED BY <4>2
      <3> QED BY <1>3, <1>a, <3>1 DEF Deliver
    <2>5. desk' \in Desks
      BY <1>3 DEF Deliver, Desks
    <2> QED BY <1>3, <1>a, <1>d, <1>e, <2>3, <2>4, <2>5 DEF Deliver
  <1>4. CASE Cancel
    <2>1. session' \in Sessions
      BY <1>4, <1>a, SessionChanges DEF Cancel, SessionStates
    <2> QED BY <1>4, <1>a, <1>d, <1>e, <2>1 DEF Cancel
  <1>5. CASE Disconnect
    BY <1>5, <1>a, <1>d DEF Disconnect
  <1>6. CASE Expire
    <2>1. session' \in Sessions
      BY <1>6, <1>a, SessionChanges DEF Expire
    <2> QED BY <1>6, <1>a, <1>d, <1>e, <2>1 DEF Expire
  <1> QED BY <1>1, <1>2, <1>3, <1>4, <1>5, <1>6 DEF UserStep

LEMMA StutterTyped ==
  ASSUME TypedInv, UNCHANGED vars
  PROVE  TypedInv'
  <1>1. TypeOK'
    BY TypeParts, NextParts DEF vars, TypedInv
  <1>2. CallInv'
    BY DEF vars, TypedInv, CallInv
  <1> QED BY <1>1, <1>2 DEF TypedInv

LEMMA Typed == Spec => []TypedInv
  <1>1. TypedInv /\ [Next]_vars => TypedInv'
    BY EngineTyped, UserTyped, StutterTyped DEF Next
  <1> QED BY <1>1, InitTyped, PTL DEF Spec

(***************************************************************************)
(* TypeOK: whatever the model answers, the calls a round lines up are      *)
(* calls, and every outcome of the run is a state the session may have.    *)
(***************************************************************************)
THEOREM TypeCorrect == Spec => []TypeOK
  <1>1. TypedInv => TypeOK
    BY DEF TypedInv
  <1> QED BY <1>1, Typed, PTL

-----------------------------------------------------------------------------
(* What the steps of the engine do to the parts the invariants are about.  *)

Busy == {"round", "calls", "dispatch", "run", "commit"}

\* A step between two questions to the user.
BusyStep ==
  \/ AnswerRound \/ FailRound \/ EndRound \/ RefuseCall \/ CheckCall \/ SkipTool \/ FailAudit
  \/ CommitPreview \/ FailTool \/ RunTool

LEMMA BusyMoves ==
  ASSUME TypedInv, BusyStep
  PROVE  /\ engine.at \in Busy /\ engine'.at \in {"round", "calls", "dispatch", "after"}
         /\ engine'.limit = engine.limit
         /\ session'.state = session.state /\ session'.listed = session.listed
         /\ UNCHANGED <<asked, runtime, row, Users>>
  <1>a. engine \in Engines /\ session \in Sessions
    BY TypeParts DEF TypedInv
  <1>b. \A p, x, t, b : /\ [engine EXCEPT !.at = p].at = p
                        /\ [engine EXCEPT !.at = p].limit = engine.limit
                        /\ [engine EXCEPT !.at = p, !.err = x].at = p
                        /\ [engine EXCEPT !.at = p, !.err = x].limit = engine.limit
                        /\ [engine EXCEPT !.todo = t].at = engine.at
                        /\ [engine EXCEPT !.todo = t].limit = engine.limit
                        /\ [engine EXCEPT !.at = p, !.todo = t].at = p
                        /\ [engine EXCEPT !.at = p, !.todo = t].limit = engine.limit
                        /\ [engine EXCEPT !.at = p, !.read = b, !.todo = t].at = p
                        /\ [engine EXCEPT !.at = p, !.read = b, !.todo = t].limit = engine.limit
                        /\ [engine EXCEPT !.at = p, !.round = x].at = p
                        /\ [engine EXCEPT !.at = p, !.round = x].limit = engine.limit
    BY <1>a DEF Engines
  <1>c. /\ Finished.at = "calls" /\ Finished.limit = engine.limit
        /\ AuditLost.at = "after" /\ AuditLost.limit = engine.limit
    BY <1>b DEF Finished, AuditLost
  <1>1. UNCHANGED <<asked, runtime, row, Users>>
    BY DEF BusyStep, AnswerRound, FailRound, EndRound, RefuseCall, CheckCall, SkipTool,
       FailAudit,
           CommitPreview, FailTool, RunTool
  <1>2. engine.at \in Busy
    BY DEF Busy, BusyStep, AnswerRound, FailRound, EndRound, RefuseCall, CheckCall, SkipTool,
       FailAudit,
           CommitPreview, FailTool, RunTool, MayRun
  <1>3. session'.state = session.state /\ session'.listed = session.listed
    <2>1. session' = session \/ session' = [session EXCEPT !.calls = @ + 1]
      BY DEF BusyStep, AnswerRound, FailRound, EndRound, RefuseCall, CheckCall, SkipTool,
         FailAudit,
             CommitPreview, FailTool, RunTool
    <2> QED BY <1>a, <2>1 DEF Sessions
  <1>4. engine'.at \in {"round", "calls", "dispatch", "after"} /\ engine'.limit = engine.limit
    <2>1. CASE AnswerRound
      <3>1. PICK a \in Answers :
              engine' = [engine EXCEPT !.at = IF a = <<>> THEN "after" ELSE "calls", !.read = FALSE,
                                       !.todo = Lined(Merge(a), FALSE)]
        BY <2>1 DEF AnswerRound
      <3> QED BY <1>b, <3>1
    <2>2. CASE FailRound
      <3>1. PICK err : engine' = [engine EXCEPT !.at = "after", !.err = err]
        BY <2>2 DEF FailRound
      <3> QED BY <1>b, <3>1
    <2>3. CASE EndRound
      <3>1. CASE engine' = [engine EXCEPT !.at = "round", !.round = @ + 1]
        BY <1>b, <3>1
      <3>2. CASE engine' = [engine EXCEPT !.at = "after", !.err = "failed"]
        BY <1>b, <3>2
      <3> QED BY <2>3, <3>1, <3>2 DEF EndRound
    <2>4. CASE RefuseCall
      BY <1>b, <2>4 DEF RefuseCall
    <2>5. CASE CheckCall
      <3>1. CASE engine' = [engine EXCEPT !.at = "after", !.err = "failed"]
        BY <1>b, <3>1
      <3>2. CASE engine.at = "calls" /\ engine' = [engine EXCEPT !.todo = Skip(engine.todo, engine.read)]
        BY <1>b, <3>2
      <3>3. CASE engine' = [engine EXCEPT !.at = "dispatch"]
        BY <1>b, <3>3
      <3> QED BY <2>5, <3>1, <3>2, <3>3 DEF CheckCall
    <2>6. CASE SkipTool \/ FailAudit \/ CommitPreview \/ FailTool
      BY <1>c, <2>6 DEF SkipTool, FailAudit, CommitPreview, FailTool
    <2>7. CASE RunTool
      <3>1. CASE engine' = Finished
        BY <1>c, <3>1
      <3>2. CASE engine' = [engine EXCEPT !.at = "after", !.err = "failed"]
        BY <1>b, <3>2
      <3>3. ASSUME NEW follow, engine' = [engine EXCEPT !.at = "calls", !.todo = follow \o Tail(@)]
            PROVE  engine'.at = "calls" /\ engine'.limit = engine.limit
        BY <1>b, <3>3
      <3> QED BY <2>7, <3>1, <3>2, <3>3 DEF RunTool
    <2> QED BY <2>1, <2>2, <2>3, <2>4, <2>5, <2>6, <2>7 DEF BusyStep
  <1> QED BY <1>1, <1>2, <1>3, <1>4

\* The engine asks the user.
AskStep == AskForRounds \/ AskForCall

LEMMA AskMoves ==
  ASSUME TypedInv, AskStep
  PROVE  /\ engine.at \in Busy /\ engine'.at = "wait" /\ engine'.limit = engine.limit
         /\ session'.state \in Paused /\ session'.listed = session.listed
         /\ asked' \in Requests /\ asked'.number = (IF asked = None THEN 0 ELSE asked.number) + 1
         /\ runtime' = Waiting(asked')
         /\ UNCHANGED <<row, Users>>
  <1>1. PICK why \in Whys, state \in Paused : Ask(why, state)
    BY DEF AskStep, AskForRounds, AskForCall, Whys, Paused
  <1>2. engine \in Engines /\ session \in Sessions /\ asked \in Requests \union {None}
    BY TypeParts DEF TypedInv
  <1>3. asked' \in Requests /\ asked'.number = (IF asked = None THEN 0 ELSE asked.number) + 1
    BY <1>1, <1>2 DEF Ask, Requests
  <1>4. engine'.at = "wait" /\ engine'.limit = engine.limit
    BY <1>1, <1>2 DEF Ask, Engines
  <1>5. session'.state \in Paused /\ session'.listed = session.listed /\ runtime' = Waiting(asked')
    BY <1>1, <1>2 DEF Ask, Sessions
  <1>6. engine.at \in Busy /\ UNCHANGED <<row, Users>>
    BY DEF AskStep, AskForRounds, AskForCall, Busy
  <1> QED BY <1>3, <1>4, <1>5, <1>6

\* A wait that ends with the answer.
LEMMA EndWaitMoves ==
  ASSUME TypedInv, NEW answer, EndWait(answer)
  PROVE  /\ engine'.at = "resume" /\ engine'.answer = answer /\ engine'.limit = engine.limit
         /\ session'.state = session.state /\ session'.listed = session.listed
         /\ UNCHANGED <<asked, runtime, row>>
  <1>1. engine \in Engines /\ session \in Sessions
    BY TypeParts DEF TypedInv
  <1> QED BY <1>1 DEF EndWait, Engines, Sessions

\* The engine goes on with the answer.
ResumeStep == ResumeRounds \/ ResumeCall \/ ResumePreview

LEMMA ResumeMoves ==
  ASSUME TypedInv, ResumeStep
  PROVE  /\ engine.at = "resume" /\ engine'.at \in Busy \union {"after"}
         /\ engine'.at \in {"run", "commit"} => engine.answer.ok /\ engine'.answer = engine.answer
         /\ \/ engine'.limit = engine.limit
            \/ /\ asked.why = "iteration" /\ engine.answer.ok
               /\ engine'.limit = engine.limit + engine.answer.more
         /\ session'.state = "running" /\ session'.listed = session.listed
         /\ runtime' \in Runtimes /\ runtime'.status # "waiting"
         /\ UNCHANGED <<asked, row, Users>>
  <1>a. engine \in Engines /\ session \in Sessions
    BY TypeParts DEF TypedInv
  <1>1. Resume
    BY DEF ResumeStep, ResumeRounds, ResumeCall, ResumePreview
  <1>2. session'.state = "running" /\ session'.listed = session.listed
    BY <1>1, <1>a DEF Resume, Sessions
  <1>3. runtime' \in Runtimes /\ runtime'.status # "waiting"
    <2>1. PICK status \in {"approved", "timeout", "rejected"} : runtime' = Settled(status)
      BY <1>1 DEF Resume
    <2> QED BY <2>1 DEF Settled, Runtimes
  <1>4. Finished.at = "calls" /\ Finished.limit = engine.limit /\ AuditLost.at = "after" /\ AuditLost.limit = engine.limit
    BY <1>a DEF Finished, AuditLost, Engines
  <1>5. /\ engine'.at \in Busy \union {"after"}
        /\ engine'.at \in {"run", "commit"} => engine.answer.ok /\ engine'.answer = engine.answer
        /\ \/ engine'.limit = engine.limit
           \/ /\ asked.why = "iteration" /\ engine.answer.ok
              /\ engine'.limit = engine.limit + engine.answer.more
    <2>1. CASE ResumeRounds /\ engine.answer.ok
      <3>1. asked.why = "iteration" /\ engine' = [engine EXCEPT !.at = "round", !.limit = @ + engine.answer.more]
        BY <2>1 DEF ResumeRounds
      <3>2. engine'.at = "round" /\ engine'.limit = engine.limit + engine.answer.more
        BY <1>a, <3>1 DEF Engines
      <3> QED BY <2>1, <3>1, <3>2 DEF Busy
    <2>2. CASE ResumeRounds /\ ~ engine.answer.ok
      <3>1. engine' = [engine EXCEPT !.at = "after", !.err = engine.answer.err]
        BY <2>2 DEF ResumeRounds
      <3>2. engine'.at = "after" /\ engine'.limit = engine.limit
        BY <1>a, <3>1 DEF Engines
      <3> QED BY <3>2
    <2>3. CASE (ResumeCall \/ ResumePreview) /\ engine.answer.ok
      <3>1. PICK place \in {"run", "commit"} : engine' = [engine EXCEPT !.at = place]
        BY <2>3 DEF ResumeCall, ResumePreview
      <3>2. engine'.at = place /\ engine'.limit = engine.limit /\ engine'.answer = engine.answer
        BY <1>a, <3>1 DEF Engines
      <3> QED BY <2>3, <3>2 DEF Busy
    <2>4. CASE (ResumeCall \/ ResumePreview) /\ ~ engine.answer.ok
      BY <1>4, <2>4 DEF ResumeCall, ResumePreview, Busy
    <2> QED BY <2>1, <2>2, <2>3, <2>4 DEF ResumeStep
  <1>6. engine.at = "resume" /\ UNCHANGED <<asked, row, Users>>
    BY <1>1 DEF Resume
  <1> QED BY <1>2, <1>3, <1>5, <1>6

-----------------------------------------------------------------------------
(* The rows.                                                               *)

Open == runtime # None /\ runtime.status = "waiting"

\* A session is paused only from a question until its answer, or until the engine leaves
\* it; so it is closed paused only with its request still open.
KeptInv ==
  /\ engine.at = "new" => row = None
  /\ session.state \in Paused /\ engine.at \notin {"drop", "over"} =>
       /\ Open /\ engine.at \in {"wait", "resume", "leave", "after", "close"}
       /\ engine.at = "after" => engine.err = "canceled"
  /\ engine.at = "drop" /\ session.state \in Paused => row \in Paused
  /\ engine.at = "drop" => (row \in Paused <=> Open)
  /\ RequestKept

-----------------------------------------------------------------------------
(* Confirmations.                                                          *)

\* A confirmation is of a request made, and names it; request numbers are not used twice.
Sound(signal) ==
  /\ asked # None /\ signal.for.number <= asked.number
  /\ signal.for.number = asked.number => signal.for = asked
  /\ signal.id = IdOf(signal.for)

SignalInv ==
  /\ asked # None => asked.number > 0
  /\ \A i \in 1..Len(queue) : Sound(queue[i])
  /\ desk # None => Sound(desk.signal)

\* The engine takes only an answer to its question.
ConsentInv ==
  /\ engine.at = "resume" /\ engine.answer.ok => engine.answer.for = asked
  /\ ConsentedOnly

\* What an answer in the queue, or in hand, would add has been granted, once.
GrantInv ==
  /\ RoundsGranted
  /\ engine.at = "wait" /\ asked.why = "iteration" =>
       \A i \in 1..Len(queue) :
         queue[i].for = asked /\ queue[i].ok => engine.limit + queue[i].more <= MaxRounds + granted
  /\ engine.at = "resume" /\ asked.why = "iteration" /\ engine.answer.ok =>
       engine.limit + engine.answer.more <= MaxRounds + granted

\* A user's step, or a stutter, leaves the engine and its rows alone, and of the session
\* may take the state to cancelled and the entry from the manager's map.
LEMMA UserMoves ==
  ASSUME TypedInv, UserStep \/ UNCHANGED vars
  PROVE  /\ UNCHANGED <<engine, safety, asked, runtime, row>>
         /\ session'.state \in {session.state, "cancelled"}
         /\ session'.listed => session.listed
  <1>1. session \in Sessions
    BY TypeParts DEF TypedInv
  <1>2. UNCHANGED <<engine, safety, asked, runtime, row>>
    BY DEF UserStep, Click, Confirm, Deliver, Cancel, Disconnect, Expire, Engine, vars
  <1>3. \/ session' = session
        \/ session' = [session EXCEPT !.state = "cancelled", !.closed = TRUE]
        \/ session' = [session EXCEPT !.listed = FALSE]
    BY DEF UserStep, Click, Confirm, Deliver, Cancel, Disconnect, Expire, vars
  <1> QED BY <1>1, <1>2, <1>3 DEF Sessions

LEMMA InitKept == Init => KeptInv
  BY DEF Init, KeptInv, RequestKept, Paused

LEMMA WaitingIsOpen == \A request \in Requests : Waiting(request) # None /\ Waiting(request).status = "waiting"
  <1> SUFFICES ASSUME NEW request \in Requests
               PROVE  Waiting(request) # None /\ Waiting(request).status = "waiting"
    OBVIOUS
  <1>1. Waiting(request) \in Runtimes /\ Waiting(request).status = "waiting"
    BY DEF Waiting, Runtimes
  <1> QED BY <1>1, SessionAssumption

LEMMA RunKept ==
  ASSUME TypedInv, KeptInv, RunStep
  PROVE  KeptInv'
  <1>a. engine \in Engines /\ session \in Sessions
    BY TypeParts DEF TypedInv
  <1>b. "running" \notin Paused /\ "done" \notin Paused /\ "cancelled" \notin Paused
    BY DEF Paused
  <1>1. CASE Refuse
    <2>1. engine'.at = "over" /\ ~ session'.listed /\ row' = row /\ row = None
      BY <1>1, <1>a DEF Refuse, KeptInv, Engines, Sessions
    <2> QED BY <2>1 DEF KeptInv, RequestKept
  <1>2. CASE Start
    <2>1. engine'.at \in {"round", "close"} /\ session'.state = "running"
      <3>1. PICK p \in {"round", "close"}, err \in Loading : engine' = [engine EXCEPT !.at = p, !.err = err]
        BY <1>2 DEF Start
      <3> QED BY <1>2, <1>a, <3>1 DEF Start, Engines, Sessions
    <2> QED BY <1>b, <2>1 DEF KeptInv, RequestKept
  <1>3. CASE BusyStep
    <2>1. /\ engine.at \in Busy /\ engine'.at \in {"round", "calls", "dispatch", "after"}
          /\ session'.state = session.state
      BY <1>3, BusyMoves
    <2>2. session.state \notin Paused
      BY <2>1 DEF KeptInv, Busy
    <2> QED BY <2>1, <2>2 DEF KeptInv, RequestKept
  <1>4. CASE AskStep
    <2>1. /\ engine'.at = "wait" /\ session'.state \in Paused
          /\ asked' \in Requests /\ runtime' = Waiting(asked')
      BY <1>4, AskMoves
    <2>2. Open'
      BY <2>1, WaitingIsOpen DEF Open
    <2> QED BY <2>1, <2>2 DEF KeptInv, RequestKept
  <1>c. ASSUME NEW answer, engine.at = "wait", EndWait(answer) PROVE KeptInv'
    <2>1. engine'.at = "resume" /\ session'.state = session.state /\ UNCHANGED <<asked, runtime, row>>
      BY <1>c, EndWaitMoves
    <2> QED BY <1>c, <2>1 DEF KeptInv, RequestKept, Open
  <1>5. CASE WaitCanceled
    <2>1. CASE session.state \in Paused
      <3>1. engine.at = "wait" /\ engine' = [engine EXCEPT !.at = "leave"] /\ session' = session
        BY <1>5, <2>1 DEF WaitCanceled
      <3>2. engine'.at = "leave"
        BY <1>a, <3>1 DEF Engines
      <3>3. Open /\ runtime \in Runtimes /\ runtime' = [runtime EXCEPT !.status = "waiting"]
        BY <1>5, <2>1, <3>1 DEF WaitCanceled, Marked, KeptInv, TypedInv, CallInv
      <3>4. runtime' = runtime
        BY <3>3 DEF Open, Runtimes
      <3> QED BY <2>1, <3>1, <3>2, <3>3, <3>4 DEF KeptInv, RequestKept, Open
    <2>2. CASE session.state \notin Paused
      BY <1>5, <2>2, <1>c DEF WaitCanceled
    <2> QED BY <2>1, <2>2
  <1>6. CASE WaitClosed \/ WaitTimeout
    BY <1>6, <1>c DEF WaitClosed, WaitTimeout
  <1>7. CASE WaitConfirm
    <2>1. CASE Matches(queue[1])
      BY <1>7, <1>c, <2>1 DEF WaitConfirm
    <2>2. CASE ~ Matches(queue[1])
      BY <1>7, <2>2 DEF WaitConfirm, KeptInv, RequestKept, Open
    <2> QED BY <2>1, <2>2
  <1>8. CASE Leave
    <2>1. session' = session /\ UNCHANGED <<asked, runtime, row>> /\ engine.at = "leave"
      BY <1>8 DEF Leave
    <2>2. CASE engine' = [engine EXCEPT !.at = "after", !.err = "canceled"]
      <3>1. engine'.at = "after" /\ engine'.err = "canceled"
        BY <1>a, <2>2 DEF Engines
      <3> QED BY <2>1, <3>1 DEF KeptInv, RequestKept, Open
    <2>3. CASE engine' = Finished /\ session.state \notin Paused
      <3>1. engine'.at = "calls"
        BY <1>a, <2>3 DEF Finished, Engines
      <3> QED BY <2>1, <2>3, <3>1 DEF KeptInv, RequestKept, Open
    <2> QED BY <1>8, <2>2, <2>3 DEF Leave
  <1>9. CASE ResumeStep
    <2>1. engine'.at \in Busy \union {"after"} /\ session'.state = "running"
      BY <1>9, ResumeMoves
    <2> QED BY <1>b, <2>1 DEF KeptInv, RequestKept, Busy
  <1>10. CASE Finalize
    <2>1. engine.at = "after" /\ UNCHANGED <<asked, runtime, row>>
      BY <1>10 DEF Finalize
    <2>2. engine'.at = "close"
      <3>1. \/ engine' = [engine EXCEPT !.at = "close"]
            \/ \E err \in {engine.err, "failed"} : engine' = [engine EXCEPT !.at = "close", !.err = err]
        BY <1>10 DEF Finalize
      <3> QED BY <1>a, <3>1 DEF Engines
    <2>3. session'.state \in {session.state, "done"}
      <3>1. session' = session \/ session' = [session EXCEPT !.state = "done"]
        BY <1>10 DEF Finalize
      <3> QED BY <1>a, <3>1 DEF Sessions
    <2> QED BY <1>b, <2>1, <2>2, <2>3 DEF KeptInv, RequestKept, Open
  <1>11. CASE Close
    <2>1. engine'.at = "drop" /\ engine.at = "close"
      BY <1>11, <1>a DEF Close, Engines
    <2>2. CASE session.state \in Paused
      <3>1. row' = session.state /\ session' = session /\ runtime' = runtime
        BY <1>11, <2>2 DEF Close
      <3> QED BY <2>1, <2>2, <3>1 DEF KeptInv, RequestKept, Open
    <2>3. CASE session.state \notin Paused
      <3>1. FinalState \notin Paused
        BY DEF FinalState, Paused
      <3>2. /\ row' = FinalState /\ session'.state = FinalState
            /\ runtime' = None \/ runtime' = Settled("cleared")
        BY <1>11, <1>a, <2>3 DEF Close, Sessions
      <3>3. ~ Open'
        BY <3>2 DEF Open, Settled
      <3> QED BY <2>1, <3>1, <3>2, <3>3 DEF KeptInv, RequestKept
    <2> QED BY <2>2, <2>3
  <1>12. CASE Drop
    <2>1. engine'.at = "over" /\ engine.at = "drop" /\ UNCHANGED <<asked, runtime, row>>
      BY <1>12, <1>a DEF Drop, Engines
    <2>2. session'.listed => session.state \in Paused
      BY <1>12, <1>a DEF Drop, Sessions
    <2> QED BY <2>1, <2>2 DEF KeptInv, RequestKept, Open
  <1> QED BY <1>1, <1>2, <1>3, <1>4, <1>5, <1>6, <1>7, <1>8, <1>9, <1>10, <1>11, <1>12
          DEF RunStep, BusyStep, AskStep, ResumeStep

LEMMA UserKept ==
  ASSUME TypedInv, KeptInv, UserStep \/ UNCHANGED vars
  PROVE  KeptInv'
  <1>1. "cancelled" \notin Paused
    BY DEF Paused
  <1> QED BY <1>1, UserMoves DEF KeptInv, RequestKept, Open

(***************************************************************************)
(* The deferred end of RunStream, keepSession in AgentStream: however the  *)
(* run ends, its row is paused exactly when the runtime row still waits    *)
(* for the request, and only then the session stays in memory.  A cancel,  *)
(* a lost client and the timer may come in any order.                      *)
(***************************************************************************)
THEOREM RequestKeptCorrect == Spec => []RequestKept
  <1>1. TypedInv /\ KeptInv /\ [Next]_vars => KeptInv'
    BY RunKept, UserKept DEF Next
  <1>2. KeptInv => RequestKept
    BY DEF KeptInv
  <1> QED BY <1>1, <1>2, InitKept, Typed, PTL DEF Spec

-----------------------------------------------------------------------------
(* The confirmations, from a client that names the call it confirms.       *)

\* A sound confirmation that goes with the question by its id is an answer to it, if call
\* ids are unique, or the question is about rounds.
LEMMA MatchIsAnswer ==
  ASSUME TypedInv, SignalInv, NEW signal \in Signals, Sound(signal), Matches(signal),
         UniqueIds \/ asked.why = "iteration"
  PROVE  signal.for = asked
  <1>1. asked \in Requests /\ signal.for \in Requests /\ asked.number > 0
    BY TypeParts DEF TypedInv, SignalInv, Sound, Signals
  <1>2. IdOf(signal.for) = IdOf(asked)
    BY DEF Sound, Matches
  <1>3. IdOf(asked) = asked.number
    BY DEF IdOf
  <1>4. IdOf(signal.for) \in {signal.for.number, 0}
    BY DEF IdOf
  <1>5. signal.for.number = asked.number
    BY <1>1, <1>2, <1>3, <1>4 DEF Requests
  <1> QED BY <1>5 DEF Sound

\* A new question leaves the confirmations of earlier ones sound.
LEMMA StillSound ==
  ASSUME TypedInv, NEW signal \in Signals, Sound(signal), asked \in Requests, asked' \in Requests,
         asked'.number = asked.number + 1
  PROVE  Sound(signal)'
  <1>1. signal.for.number \in Nat /\ asked.number \in Nat /\ asked' # None
    BY SessionAssumption DEF Signals, Requests
  <1>2. signal.for.number <= asked.number /\ signal.id = IdOf(signal.for)
    BY DEF Sound
  <1> QED BY <1>1, <1>2 DEF Sound

LEMMA QueueTypes ==
  ASSUME TypedInv
  PROVE  /\ Len(queue) \in Nat /\ \A i \in 1..Len(queue) : queue[i] \in Signals
         /\ desk # None => desk \in [looked : BOOLEAN, late : BOOLEAN, signal : Signals]
         /\ engine.limit \in Nat /\ granted \in Nat /\ MaxRounds \in Nat
         /\ asked # None => asked \in Requests
  <1>1. queue \in Seq(Signals) /\ desk \in Desks /\ engine \in Engines /\ granted \in Nat
        /\ asked \in Requests \union {None}
    BY TypeParts DEF TypedInv
  <1>2. Len(queue) \in Nat /\ \A i \in 1..Len(queue) : queue[i] \in Signals
    BY <1>1, LenProperties, ElementOfSeq
  <1> QED BY <1>1, <1>2, SessionAssumption DEF Desks, Engines

\* A step of the engine makes a new question, or none; and WaitConfirm alone takes a
\* confirmation from the queue.
LEMMA RunAsks ==
  ASSUME TypedInv, RunStep
  PROVE  /\ desk' = desk /\ granted' = granted
         /\ \/ AskStep
            \/ asked' = asked
         /\ WaitConfirm \/ queue' = queue
  <1>1. CASE BusyStep
    BY <1>1, BusyMoves DEF Users
  <1>2. CASE AskStep
    BY <1>2, AskMoves DEF Users
  <1>3. CASE ResumeStep
    BY <1>3, ResumeMoves DEF Users
  <1>4. CASE WaitConfirm
    BY <1>4 DEF WaitConfirm, EndWait
  <1>5. CASE WaitCanceled \/ WaitClosed \/ WaitTimeout
    BY <1>5 DEF WaitCanceled, WaitClosed, WaitTimeout, EndWait, Users
  <1>6. CASE Refuse \/ Start \/ Leave \/ Finalize \/ Close \/ Drop
    BY <1>6 DEF Refuse, Start, Leave, Finalize, Close, Drop, Users
  <1> QED BY <1>1, <1>2, <1>3, <1>4, <1>5, <1>6 DEF RunStep, BusyStep, AskStep, ResumeStep

\* The head of the queue is taken off.
LEMMA TailOfQueue ==
  ASSUME TypedInv, WaitConfirm
  PROVE  /\ 1 \in 1..Len(queue)
         /\ \A i \in 1..Len(queue') : i + 1 \in 1..Len(queue) /\ queue'[i] = queue[i + 1]
  <1>1. queue \in Seq(Signals) /\ queue # <<>> /\ queue' = Tail(queue)
    BY TypeParts DEF TypedInv, WaitConfirm
  <1>2. /\ Len(queue) \in Nat \ {0} /\ Len(queue') = Len(queue) - 1
        /\ \A i \in 1..Len(queue') : queue'[i] = queue[i + 1]
    BY <1>1, HeadTailProperties, LenProperties, EmptySeq
  <1> QED BY <1>2

LEMMA RunSignals ==
  ASSUME TypedInv, SignalInv, RunStep
  PROVE  SignalInv'
  <1>a. desk' = desk /\ (AskStep \/ asked' = asked) /\ (WaitConfirm \/ queue' = queue)
    BY RunAsks
  <1>1. CASE AskStep
    <2>1. asked' \in Requests /\ asked'.number = (IF asked = None THEN 0 ELSE asked.number) + 1 /\ queue' = queue
      BY <1>1, AskMoves DEF Users
    <2>2. asked # None => asked \in Requests /\ asked.number \in Nat
      BY QueueTypes DEF Requests
    <2>3. asked'.number > 0
      BY <2>1, <2>2
    <2>4. ASSUME NEW signal \in Signals, Sound(signal) PROVE Sound(signal)'
      <3>1. asked \in Requests /\ asked'.number = asked.number + 1
        BY <2>1, <2>2, <2>4 DEF Sound
      <3> QED BY <2>1, <2>4, <3>1, StillSound
    <2> QED BY <1>a, <2>1, <2>3, <2>4, QueueTypes DEF SignalInv
  <1>2. CASE asked' = asked /\ queue' = queue
    BY <1>a, <1>2 DEF SignalInv, Sound
  <1>3. CASE asked' = asked /\ WaitConfirm
    BY <1>a, <1>3, TailOfQueue DEF SignalInv, Sound
  <1>4. AskStep => queue' = queue
    BY AskMoves DEF Users
  <1> QED BY <1>a, <1>1, <1>2, <1>3

\* A user's step adds nothing that is not sound, as the request's name stands.
LEMMA UserSignals ==
  ASSUME NamedOnly, TypedInv, SignalInv, UserStep
  PROVE  SignalInv'
  <1>a. asked' = asked
    BY UserMoves
  <1>b. ASSUME queue' = queue, desk' # None => Sound(desk'.signal) PROVE SignalInv'
    BY <1>a, <1>b DEF SignalInv, Sound
  <1>1. CASE Click
    <2>1. /\ asked # None /\ desk'.signal.for = asked /\ desk'.signal.id = IdOf(asked) /\ queue' = queue
      <3>1. PICK ok \in BOOLEAN, more \in Extra :
              desk' = [looked |-> FALSE, late |-> session.closed,
                       signal |-> [for |-> asked, id |-> IdOf(asked), ok |-> ok, more |-> more, err |-> None]]
        BY <1>1 DEF Click
      <3> QED BY <1>1, <3>1 DEF Click
    <2>2. asked.number \in Nat
      BY <2>1, QueueTypes DEF Requests
    <2>3. Sound(desk'.signal)
      BY <1>a, <2>1, <2>2 DEF Sound
    <2> QED BY <1>b, <2>1, <2>3
  <1>2. CASE Confirm
    <2>1. queue' = queue /\ desk # None /\ Sound(desk.signal)
      BY <1>2 DEF Confirm, SignalInv
    <2>2. desk' # None => desk'.signal.for = desk.signal.for /\ desk'.signal.id = desk.signal.id
      <3>1. desk \in [looked : BOOLEAN, late : BOOLEAN, signal : Signals]
        BY <2>1, QueueTypes
      <3>2. desk.signal.id # None
        <4>1. desk.signal.for \in Requests
          BY <3>1 DEF Signals
        <4>2. IdOf(desk.signal.for) \in Nat
          BY <4>1 DEF IdOf, Requests
        <4> QED BY <2>1, <4>2, SessionAssumption DEF Sound
      <3>3. desk' # None => desk' = [desk EXCEPT !.looked = TRUE, !.signal.id = desk.signal.id]
        BY <1>2, <3>1, <3>2 DEF Confirm
      <3> QED BY <3>1, <3>3 DEF Signals
    <2>3. desk' # None => Sound(desk'.signal)
      BY <1>a, <2>1, <2>2 DEF Sound
    <2> QED BY <1>b, <2>1, <2>3
  <1>3. CASE Deliver
    <2>1. desk' = None /\ desk # None /\ Sound(desk.signal) /\ desk.signal \in Signals
      BY <1>3, QueueTypes DEF Deliver, SignalInv
    <2>2. CASE queue' = queue
      BY <1>b, <2>1, <2>2
    <2>3. CASE queue' = Append(queue, desk.signal)
      <3>1. queue \in Seq(Signals)
        BY TypeParts DEF TypedInv
      <3>2. /\ Len(queue') = Len(queue) + 1 /\ queue'[Len(queue) + 1] = desk.signal
            /\ \A i \in 1..Len(queue) : queue'[i] = queue[i]
        BY <2>1, <2>3, <3>1, AppendProperties
      <3>3. ASSUME NEW i \in 1..Len(queue') PROVE Sound(queue'[i])
        <4>1. CASE i \in 1..Len(queue)
          BY <3>2, <4>1 DEF SignalInv
        <4>2. CASE i = Len(queue) + 1
          BY <2>1, <3>2, <4>2
        <4> QED BY <3>2, <4>1, <4>2, QueueTypes
      <3> QED BY <1>a, <2>1, <3>3 DEF SignalInv, Sound
    <2> QED BY <1>3, <2>2, <2>3 DEF Deliver
  <1>4. CASE Cancel \/ Disconnect \/ Expire
    BY <1>a, <1>4 DEF Cancel, Disconnect, Expire, SignalInv, Sound
  <1> QED BY <1>1, <1>2, <1>3, <1>4 DEF UserStep

LEMMA Signed ==
  ASSUME NamedOnly
  PROVE  Spec => []SignalInv
  <1>1. Init => SignalInv
    BY DEF Init, SignalInv
  <1>2. TypedInv /\ SignalInv /\ [Next]_vars => SignalInv'
    <2>1. ASSUME SignalInv, UNCHANGED vars PROVE SignalInv'
      BY <2>1 DEF vars, SignalInv, Sound
    <2> QED BY <2>1, RunSignals, UserSignals DEF Next
  <1> QED BY <1>1, <1>2, Typed, PTL DEF Spec

\* An action of the engine that is none of the summed-up ones goes to a place that asks
\* nothing of the user.
LEMMA PlainMoves ==
  ASSUME TypedInv, Refuse \/ Start \/ Leave \/ Finalize \/ Close \/ Drop
  PROVE  /\ engine'.at \notin {"wait", "resume", "run", "commit"} /\ engine'.limit = engine.limit
         /\ asked' = asked /\ granted' = granted /\ queue' = queue
  <1>a. engine \in Engines
    BY TypeParts DEF TypedInv
  <1>1. CASE Refuse
    BY <1>1, <1>a DEF Refuse, Users, Engines
  <1>2. CASE Start
    <2>1. PICK p \in {"round", "close"}, err \in Loading : engine' = [engine EXCEPT !.at = p, !.err = err]
      BY <1>2 DEF Start
    <2> QED BY <1>2, <1>a, <2>1 DEF Start, Users, Engines
  <1>3. CASE Leave
    <2>1. CASE engine' = [engine EXCEPT !.at = "after", !.err = "canceled"]
      BY <1>3, <1>a, <2>1 DEF Leave, Users, Engines
    <2>2. CASE engine' = Finished
      BY <1>3, <1>a, <2>2 DEF Leave, Finished, Users, Engines
    <2> QED BY <1>3, <2>1, <2>2 DEF Leave
  <1>4. CASE Finalize
    <2>1. \/ engine' = [engine EXCEPT !.at = "close"]
          \/ \E err \in {engine.err, "failed"} : engine' = [engine EXCEPT !.at = "close", !.err = err]
      BY <1>4 DEF Finalize
    <2>2. engine'.at = "close" /\ engine'.limit = engine.limit
      BY <1>a, <2>1 DEF Engines
    <2> QED BY <1>4, <2>2 DEF Finalize, Users
  <1>5. CASE Close
    BY <1>5, <1>a DEF Close, Users, Engines
  <1>6. CASE Drop
    BY <1>6, <1>a DEF Drop, Users, Engines
  <1> QED BY <1>1, <1>2, <1>3, <1>4, <1>5, <1>6

\* The four ways out of a wait, and the one that stays.
LEMMA WaitMoves ==
  ASSUME TypedInv, WaitCanceled \/ WaitClosed \/ WaitTimeout \/ WaitConfirm
  PROVE  /\ engine.at = "wait" /\ asked' = asked /\ granted' = granted /\ engine'.limit = engine.limit
         /\ \/ engine'.at = "leave" /\ queue' = queue
            \/ engine'.at = "resume" /\ ~ engine'.answer.ok /\ queue' = queue
            \/ WaitConfirm /\ Matches(queue[1]) /\ engine'.at = "resume" /\ engine'.answer = queue[1]
            \/ WaitConfirm /\ engine' = engine
  <1>a. engine \in Engines
    BY TypeParts DEF TypedInv
  <1>b. ASSUME NEW err, EndWait(Lost(err)) PROVE engine'.at = "resume" /\ ~ engine'.answer.ok
    BY <1>b, EndWaitMoves DEF Lost
  <1>1. engine.at = "wait" /\ asked' = asked /\ granted' = granted
    BY DEF WaitCanceled, WaitClosed, WaitTimeout, WaitConfirm, EndWait, Users
  <1>2. CASE WaitCanceled /\ session.state \in Paused
    <2>1. engine' = [engine EXCEPT !.at = "leave"]
      BY <1>2 DEF WaitCanceled
    <2> QED BY <1>1, <1>2, <1>a, <2>1 DEF WaitCanceled, Users, Engines
  <1>3. CASE (WaitCanceled /\ session.state \notin Paused) \/ WaitClosed \/ WaitTimeout
    <2>1. PICK err \in {"canceled", "closed", "failed"} : EndWait(Lost(err))
      BY <1>3 DEF WaitCanceled, WaitClosed, WaitTimeout
    <2>2. engine'.limit = engine.limit /\ engine'.at = "resume" /\ ~ engine'.answer.ok
      BY <1>b, <2>1, EndWaitMoves
    <2> QED BY <1>1, <1>3, <2>2 DEF WaitCanceled, WaitClosed, WaitTimeout, Users
  <1>4. CASE WaitConfirm
    <2>1. CASE Matches(queue[1])
      BY <1>1, <1>4, <2>1, EndWaitMoves DEF WaitConfirm
    <2>2. CASE ~ Matches(queue[1])
      BY <1>1, <1>4, <2>2 DEF WaitConfirm
    <2> QED BY <2>1, <2>2
  <1> QED BY <1>2, <1>3, <1>4

LEMMA NextConsent ==
  ASSUME UniqueIds, TypedInv, SignalInv, ConsentInv, [Next]_vars
  PROVE  ConsentInv'
  <1> USE DEF ConsentInv, ConsentedOnly
  <1>1. CASE UserStep \/ UNCHANGED vars
    BY <1>1, UserMoves
  <1>2. CASE BusyStep
    BY <1>2, BusyMoves
  <1>3. CASE AskStep
    BY <1>3, AskMoves
  <1>4. CASE ResumeStep
    <2>1. engine.at = "resume" /\ engine'.at # "resume" /\ asked' = asked
      BY <1>4, ResumeMoves DEF Busy
    <2> QED BY <1>4, <2>1, ResumeMoves
  <1>5. CASE Refuse \/ Start \/ Leave \/ Finalize \/ Close \/ Drop
    BY <1>5, PlainMoves
  <1>6. CASE WaitCanceled \/ WaitClosed \/ WaitTimeout \/ WaitConfirm
    <2>1. CASE WaitConfirm /\ Matches(queue[1]) /\ engine'.at = "resume" /\ engine'.answer = queue[1]
      <3>1. queue[1] \in Signals /\ Sound(queue[1])
        BY <2>1, TailOfQueue, QueueTypes DEF SignalInv
      <3>2. queue[1].for = asked
        BY <2>1, <3>1, MatchIsAnswer
      <3> QED BY <1>6, <2>1, <3>2, WaitMoves
    <2> QED BY <1>6, <2>1, WaitMoves
  <1> QED BY <1>1, <1>2, <1>3, <1>4, <1>5, <1>6 DEF Next, RunStep, BusyStep, AskStep, ResumeStep

(***************************************************************************)
(* Confirm, waitForConfirmation: if call ids are unique and a client names *)
(* the call it confirms, a deletion, a batch or a preview is carried out   *)
(* only on an approval of that very request, whatever is sent late, twice  *)
(* or for an earlier request.                                              *)
(***************************************************************************)
THEOREM ConsentedOnlyCorrect ==
  ASSUME UniqueIds, NamedOnly
  PROVE  Spec => []ConsentedOnly
  <1>1. Init => ConsentInv
    BY DEF Init, ConsentInv, ConsentedOnly
  <1>2. TypedInv /\ SignalInv /\ ConsentInv /\ [Next]_vars => ConsentInv'
    BY NextConsent
  <1>3. ConsentInv => ConsentedOnly
    BY DEF ConsentInv
  <1>4. Spec => []SignalInv
    BY Signed
  <1> QED BY <1>1, <1>2, <1>3, <1>4, Typed, PTL DEF Spec

-----------------------------------------------------------------------------
(* The rounds.                                                             *)

LEMMA RunGrants ==
  ASSUME TypedInv, SignalInv, GrantInv, RunStep
  PROVE  GrantInv'
  <1> USE DEF GrantInv, RoundsGranted
  <1>a. engine.limit \in Nat /\ granted \in Nat /\ MaxRounds \in Nat /\ granted' = granted
    BY QueueTypes, RunAsks
  <1>1. CASE BusyStep
    BY <1>1, <1>a, BusyMoves
  <1>2. CASE AskStep
    <2>1. /\ engine'.at = "wait" /\ engine'.limit = engine.limit /\ queue' = queue /\ asked' \in Requests
          /\ asked'.number = (IF asked = None THEN 0 ELSE asked.number) + 1
      BY <1>2, AskMoves DEF Users
    <2>2. ASSUME NEW i \in 1..Len(queue) PROVE queue[i].for # asked'
      <3>1. asked # None /\ queue[i].for.number <= asked.number
        BY DEF SignalInv, Sound
      <3>2. queue[i].for.number \in Nat /\ asked.number \in Nat
        BY <3>1, QueueTypes DEF Signals, Requests
      <3> QED BY <2>1, <3>1, <3>2
    <2> QED BY <1>a, <2>1, <2>2
  <1>3. CASE ResumeStep
    <2>1. engine.at = "resume" /\ engine'.at \notin {"wait", "resume"} /\ asked' = asked
      BY <1>3, ResumeMoves DEF Busy
    <2>2. engine'.limit <= MaxRounds + granted
      BY <1>3, <2>1, ResumeMoves
    <2> QED BY <1>a, <2>1, <2>2
  <1>4. CASE Refuse \/ Start \/ Leave \/ Finalize \/ Close \/ Drop
    BY <1>4, <1>a, PlainMoves
  <1>5. CASE WaitCanceled \/ WaitClosed \/ WaitTimeout \/ WaitConfirm
    <2>a. engine.at = "wait" /\ asked' = asked /\ engine'.limit = engine.limit
      BY <1>5, WaitMoves
    <2>1. CASE engine'.at = "leave" \/ (engine'.at = "resume" /\ ~ engine'.answer.ok)
      BY <1>a, <2>a, <2>1
    <2>2. CASE WaitConfirm /\ Matches(queue[1]) /\ engine'.at = "resume" /\ engine'.answer = queue[1]
      <3>1. 1 \in 1..Len(queue) /\ queue[1] \in Signals /\ Sound(queue[1])
        BY <2>2, TailOfQueue, QueueTypes DEF SignalInv
      <3>2. asked.why = "iteration" => queue[1].for = asked
        BY <2>2, <3>1, MatchIsAnswer
      <3> QED BY <1>a, <2>a, <2>2, <3>1, <3>2
    <2>3. CASE WaitConfirm /\ engine' = engine
      <3>1. \A i \in 1..Len(queue') : i + 1 \in 1..Len(queue) /\ queue'[i] = queue[i + 1]
        BY <2>3, TailOfQueue
      <3> QED BY <1>a, <2>a, <2>3, <3>1
    <2> QED BY <1>5, <2>1, <2>2, <2>3, WaitMoves
  <1> QED BY <1>1, <1>2, <1>3, <1>4, <1>5 DEF RunStep, BusyStep, AskStep, ResumeStep

LEMMA UserGrants ==
  ASSUME TypedInv, SignalInv, GrantInv, UserStep
  PROVE  GrantInv'
  <1> USE DEF GrantInv, RoundsGranted
  <1>a. engine.limit \in Nat /\ granted \in Nat /\ MaxRounds \in Nat /\ engine' = engine /\ asked' = asked
    BY QueueTypes, UserMoves
  <1>b. \A i \in 1..Len(queue) : queue[i] \in Signals /\ queue[i].more \in Nat
    <2>1. \A signal \in Signals : signal.more \in Extra
      BY DEF Signals
    <2> QED BY <2>1, QueueTypes, SessionAssumption
  <1>1. CASE Click \/ Confirm \/ Cancel \/ Disconnect \/ Expire
    BY <1>1, <1>a DEF Click, Confirm, Cancel, Disconnect, Expire
  <1>2. CASE Deliver
    <2>1. desk.signal \in Signals /\ desk.signal.more \in Nat /\ Len(queue) \in Nat /\ queue \in Seq(Signals)
      <3>1. desk.signal \in Signals
        BY <1>2, QueueTypes DEF Deliver
      <3>2. desk.signal.more \in Extra
        BY <3>1 DEF Signals
      <3> QED BY <3>1, <3>2, QueueTypes, SessionAssumption, TypeParts DEF TypedInv
    <2>2. CASE queue' = queue /\ granted' = granted
      BY <1>a, <2>2
    <2>3. CASE /\ queue' = Append(queue, desk.signal)
               /\ granted' = IF desk.signal.ok /\ desk.signal.for.why = "iteration"
                             THEN granted + desk.signal.more ELSE granted
      <3>1. /\ Len(queue') = Len(queue) + 1 /\ queue'[Len(queue) + 1] = desk.signal
            /\ \A i \in 1..Len(queue) : queue'[i] = queue[i]
        BY <2>1, <2>3, AppendProperties
      <3>2. granted' \in Nat /\ granted <= granted'
        BY <1>a, <2>1, <2>3
      <3>3. ASSUME NEW i \in 1..Len(queue'), engine.at = "wait", asked.why = "iteration",
                   queue'[i].for = asked, queue'[i].ok
            PROVE  engine.limit + queue'[i].more <= MaxRounds + granted'
        <4>1. CASE i \in 1..Len(queue)
          <5>1. queue'[i] = queue[i] /\ queue[i].more \in Nat
            BY <1>b, <3>1, <4>1
          <5>2. engine.limit + queue[i].more <= MaxRounds + granted
            BY <3>3, <4>1, <5>1
          <5> QED BY <1>a, <3>2, <5>1, <5>2
        <4>2. CASE i = Len(queue) + 1
          <5>1. queue'[i] = desk.signal /\ granted' = granted + desk.signal.more
            BY <2>3, <3>1, <3>3, <4>2
          <5> QED BY <1>a, <2>1, <5>1
        <4> QED BY <2>1, <3>1, <4>1, <4>2
      <3>4. engine.at = "resume" /\ asked.why = "iteration" /\ engine.answer.ok =>
              engine.limit + engine.answer.more <= MaxRounds + granted'
        <4> SUFFICES ASSUME engine.at = "resume", asked.why = "iteration", engine.answer.ok
                     PROVE  engine.limit + engine.answer.more <= MaxRounds + granted'
          OBVIOUS
        <4>1. engine.answer \in Signals
          BY DEF TypedInv, CallInv, Replies, Lost
        <4>2. engine.answer.more \in Extra
          BY <4>1 DEF Signals
        <4>3. engine.answer.more \in Nat
          BY <4>2, SessionAssumption
        <4> QED BY <1>a, <3>2, <4>3
      <3> QED BY <1>a, <3>2, <3>3, <3>4
    <2> QED BY <1>2, <2>2, <2>3 DEF Deliver
  <1> QED BY <1>1, <1>2 DEF UserStep

(***************************************************************************)
(* requestIterationContinuation: if a client names the request it          *)
(* confirms, the engine never runs more rounds than the user granted,      *)
(* whatever confirmations are late or repeated; the ids of calls need not  *)
(* be unique for that.                                                     *)
(***************************************************************************)
THEOREM RoundsGrantedCorrect ==
  ASSUME NamedOnly
  PROVE  Spec => []RoundsGranted
  <1>1. Init => GrantInv
    BY SessionAssumption DEF Init, GrantInv, RoundsGranted
  <1>2. TypedInv /\ SignalInv /\ GrantInv /\ [Next]_vars => GrantInv'
    <2>1. ASSUME GrantInv, UNCHANGED vars PROVE GrantInv'
      BY <2>1 DEF vars, GrantInv, RoundsGranted
    <2> QED BY <2>1, RunGrants, UserGrants DEF Next
  <1>3. GrantInv => RoundsGranted
    BY DEF GrantInv
  <1>4. Spec => []SignalInv
    BY Signed
  <1> QED BY <1>1, <1>2, <1>3, <1>4, Typed, PTL DEF Spec
=============================================================================
