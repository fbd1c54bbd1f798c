-------------------------- MODULE AuditQueueProofs --------------------------
(***************************************************************************)
(* Theorems of AuditQueue, for any summaries, limits and bounds: what a    *)
(* command writes does not depend on what it wrote for its review before,  *)
(* what workers told is kept, the audits are the most urgent sessions and  *)
(* the others are not forgotten.                                           *)
(***************************************************************************)
EXTENDS AuditQueue, FiniteSetTheorems, TLAPS

-----------------------------------------------------------------------------
Listing ==
  [state |-> "read", outcomes |-> Outcomes(summary.workers, Queue),
   audited |-> Split(Queue).audited, carried |-> Split(Queue).carried]

Shape ==
  /\ review \in Nat /\ review <= MaxReviews /\ day \in Nat
  /\ \E some : artifact \in Seq(some)
  /\ \E some : dates \in Seq(some)
  /\ Len(artifact) = review /\ Len(dates) = review
  /\ review > 0 => dates[review] = day
  /\ \A r \in DOMAIN dates : dates[r] \in 0 .. day
Legible == \A r \in DOMAIN artifact : artifact[r].state # "broken"
Earlier == {r \in Dated : dates[r] < day}
\* A legible artifact of the review is what another run would write.
Settled == once /\ review > 0 /\ Legible /\ Readable(review) => artifact[review] = Listing
\* Without one of an earlier day, it hands over sessions of its own summary only.
Familiar ==
  once /\ review > 0 /\ Readable(review) /\ Earlier = {} =>
    \A e \in ToSet(artifact[review].carried) :
      \E i \in DOMAIN Selected(summary) : Selected(summary)[i].session = e.session

LEMMA SeqGrows ==
  ASSUME NEW s, NEW S, s \in Seq(S), NEW T, S \subseteq T PROVE s \in Seq(T)
  OBVIOUS

LEMMA AppendType ==
  ASSUME NEW s, NEW S, s \in Seq(S), NEW e
  PROVE  /\ Append(s, e) \in Seq(S \cup {e})
         /\ Len(Append(s, e)) = Len(s) + 1 /\ Len(s) \in Nat
         /\ Append(s, e)[Len(s) + 1] = e
         /\ DOMAIN Append(s, e) = 1 .. Len(s) + 1
         /\ \A i \in 1 .. Len(s) : i \in DOMAIN s /\ Append(s, e)[i] = s[i]
<1>1. s \in Seq(S \cup {e})
  BY SeqGrows
<1> QED
  BY <1>1

LEMMA ExceptType ==
  ASSUME NEW s, NEW S, s \in Seq(S), NEW e, NEW i \in DOMAIN s
  PROVE  /\ [s EXCEPT ![i] = e] \in Seq(S \cup {e})
         /\ Len([s EXCEPT ![i] = e]) = Len(s)
         /\ DOMAIN [s EXCEPT ![i] = e] = DOMAIN s
<1>1. s \in Seq(S \cup {e})
  BY SeqGrows
<1> QED
  BY <1>1

LEMMA ShapeInit == Init => Shape
<1> SUFFICES ASSUME Init PROVE Shape
  OBVIOUS
<1>1. << >> \in Seq({}) /\ Len(<< >>) = 0
  OBVIOUS
<1> QED
  BY <1>1, LimitsAreNaturals DEF Init, Shape

LEMMA ShapeStep == Shape /\ [Next]_vars => Shape'
<1> SUFFICES ASSUME Shape, [Next]_vars PROVE Shape'
  OBVIOUS
<1>0. PICK S, D : artifact \in Seq(S) /\ dates \in Seq(D)
  BY DEF Shape
<1>1. CASE NewReview
  <2>1. artifact' \in Seq(S \cup {[state |-> "absent"]}) /\ Len(artifact') = Len(artifact) + 1 /\ Len(artifact) \in Nat
    BY <1>0, <1>1, AppendType DEF NewReview
  <2>2. dates' \in Seq(D \cup {day'}) /\ Len(dates') = Len(dates) + 1 /\ dates'[Len(dates) + 1] = day'
    BY <1>0, <1>1, AppendType DEF NewReview
  <2>3. \A r \in 1 .. Len(dates) : r \in DOMAIN dates /\ dates'[r] = dates[r]
    BY <1>0, <1>1, AppendType DEF NewReview
  <2>4. ASSUME NEW r \in DOMAIN dates' PROVE dates'[r] \in 0 .. day'
    <3>1. day' \in Nat /\ day' >= day /\ day \in Nat
      BY <1>1 DEF NewReview, Shape
    <3>2. r \in 1 .. Len(dates) \/ r = Len(dates) + 1
      BY <1>0, <2>2
    <3> QED
      BY <2>2, <2>3, <3>1, <3>2 DEF Shape
  <2>5. /\ review' = review + 1 /\ review' \in Nat /\ review' <= MaxReviews /\ day' \in Nat
        /\ Len(artifact') = review' /\ Len(dates') = review'
    BY <1>1, <2>1, <2>2, LimitsAreNaturals DEF NewReview, Shape
  <2>6. dates'[review'] = day'
    BY <2>2, <2>5 DEF Shape
  <2> QED
    BY <2>1, <2>2, <2>4, <2>5, <2>6 DEF Shape
<1>2. ASSUME NEW r \in DOMAIN artifact, NEW v, artifact' = [artifact EXCEPT ![r] = v],
             UNCHANGED <<dates, day, review>>
      PROVE  Shape'
  <2>1. artifact' \in Seq(S \cup {v}) /\ Len(artifact') = Len(artifact)
    BY <1>0, <1>2, ExceptType
  <2> QED
    BY <1>2, <2>1 DEF Shape
<1>3. CASE AuditCandidates
  <2>1. review \in DOMAIN artifact
    BY <1>0, <1>3 DEF AuditCandidates, Shape
  <2> QED
    BY <1>2, <1>3, <2>1 DEF AuditCandidates
<1>4. CASE \E r \in DOMAIN artifact : Breaks(r)
  BY <1>2, <1>4 DEF Breaks
<1>5. CASE NoSummary \/ Rollback \/ UNCHANGED vars
  BY <1>5 DEF NoSummary, Rollback, vars, Shape
<1> QED
  BY <1>1, <1>3, <1>4, <1>5 DEF Next

-----------------------------------------------------------------------------
LEMMA Least ==
  ASSUME NEW some, some \subseteq Nat, some # {}
  PROVE  \E x \in some : \A y \in some : x <= y
<1>1. PICK x \in some : \A y \in some : ~ (<<y, x>> \in OpToRel(<, Nat))
  BY WFMin, NatLessThanWellFounded
<1>2. ASSUME NEW y \in some PROVE x <= y
  <2>1. x \in Nat /\ y \in Nat
    OBVIOUS
  <2>2. ~ (<<y, x>> \in OpToRel(<, Nat))
    BY <1>1
  <2>3. ~ (y < x)
    BY <2>1, <2>2 DEF OpToRel
  <2> QED
    BY <2>1, <2>3
<1> QED
  BY <1>2

\* A set of numbers that has 0 and the successors of its members up to n has all
\* of them up to n.
LEMMA Inductively ==
  ASSUME NEW n \in Nat, NEW some, 0 \in some, \A k \in 0 .. n - 1 : k \in some => k + 1 \in some
  PROVE  \A k \in 0 .. n : k \in some
<1> DEFINE others == {k \in 0 .. n : k \notin some}
<1> SUFFICES ASSUME others # {} PROVE FALSE
  OBVIOUS
<1>0. others \subseteq Nat
  OBVIOUS
<1>1. PICK k \in others : \A j \in others : k <= j
  <2> HIDE DEF others
  <2> QED
    BY <1>0, Least
<1>2. k - 1 \in 0 .. n - 1 /\ k - 1 \notin others
  BY <1>1
<1> QED
  BY <1>1, <1>2

LEMMA Greatest ==
  ASSUME NEW n \in Nat, NEW some \in SUBSET (1 .. n), some # {}
  PROVE  Max(some) \in some /\ \A k \in some : Max(some) >= k
<1> DEFINE bounds == {b \in Nat : \A k \in some : k <= b}
<1>1. n \in bounds
  OBVIOUS
<1>2. PICK b \in bounds : \A c \in bounds : b <= c
  BY <1>1, Least
<1>3. b \in some
  <2> SUFFICES ASSUME b \notin some PROVE FALSE
    OBVIOUS
  <2>1. PICK k1 \in some : k1 \in 1 .. n /\ k1 <= b
    BY <1>2
  <2>2. b \in Nat /\ \A k \in some : k \in Nat /\ k # b /\ k <= b
    BY <1>2
  <2>3. b - 1 \in bounds
    BY <2>1, <2>2
  <2> QED
    BY <1>2, <2>2, <2>3
<1>4. \E x \in some : \A k \in some : x >= k
  BY <1>3
<1> QED
  BY <1>4 DEF Max

\* Of finitely many numbered places one is the highest.
LEMMA HighestPlace ==
  ASSUME NEW n \in Nat, NEW some \in SUBSET (1 .. n), some # {}, NEW place,
         \A r \in some : place[r] \in Nat
  PROVE  \E r \in some : \A q \in some : place[r] >= place[q]
<1> DEFINE good == {k \in Nat : \A few \in SUBSET (1 .. k) :
                      few \subseteq some /\ few # {} =>
                        \E r \in few : \A q \in few : place[r] >= place[q]}
<1>1. 0 \in good
  <2>1. \A few \in SUBSET (1 .. 0) : few = {}
    OBVIOUS
  <2> QED
    BY <2>1
<1>2. ASSUME NEW k \in 0 .. n - 1, k \in good PROVE k + 1 \in good
  <2> SUFFICES ASSUME NEW few \in SUBSET (1 .. k + 1), few \subseteq some, few # {}
               PROVE  \E r \in few : \A q \in few : place[r] >= place[q]
    OBVIOUS
  <2> DEFINE less == few \ {k + 1}
  <2>1. less \in SUBSET (1 .. k) /\ less \subseteq some
    OBVIOUS
  <2>2. \A r \in few : place[r] \in Nat
    OBVIOUS
  <2>3. CASE less = {}
    <3>1. few = {k + 1}
      BY <2>3
    <3> QED
      BY <2>2, <3>1
  <2>4. CASE less # {}
    <3>1. PICK r \in less : \A q \in less : place[r] >= place[q]
      BY <1>2, <2>1, <2>4
    <3>2. CASE k + 1 \in few /\ place[k + 1] > place[r]
      <4>1. \A q \in few : place[k + 1] >= place[q]
        BY <2>2, <3>1, <3>2
      <4> QED
        BY <3>2, <4>1
    <3>3. CASE ~(k + 1 \in few /\ place[k + 1] > place[r])
      <4>1. \A q \in few : place[r] >= place[q]
        BY <2>2, <3>1, <3>3
      <4> QED
        BY <3>1, <4>1
    <3> QED
      BY <3>2, <3>3
  <2> QED
    BY <2>3, <2>4
<1> HIDE DEF good
<1>3. n \in good
  BY <1>1, <1>2, Inductively
<1> QED
  BY <1>3 DEF good

\* Of some reviews there is a latest one.
LEMMA LatestType ==
  ASSUME Shape, NEW some \in SUBSET DOMAIN dates, some # {}
  PROVE  Latest(some) \in some /\ \A q \in some : After(Latest(some), q)
<1>1. DOMAIN dates = 1 .. review /\ review \in Nat /\ day \in Nat
  BY DEF Shape
<1>2. \A r \in some : r \in 1 .. review /\ dates[r] \in 0 .. day
  BY <1>1 DEF Shape
<1>3. PICK r1 \in some : \A q \in some : dates[r1] >= dates[q]
  <2> DEFINE ages == {day - dates[r] : r \in some}
  <2>1. ages \subseteq Nat /\ ages # {}
    BY <1>1, <1>2
  <2>2. PICK x \in ages : \A y \in ages : x <= y
    BY <2>1, Least
  <2>3. PICK r1 \in some : x = day - dates[r1]
    OBVIOUS
  <2>4. ASSUME NEW q \in some PROVE dates[r1] >= dates[q]
    <3>1. day - dates[q] \in ages
      OBVIOUS
    <3>2. day - dates[r1] <= day - dates[q]
      BY <2>2, <2>3, <3>1
    <3>3. dates[r1] \in Int /\ dates[q] \in Int /\ day \in Int
      BY <1>1, <1>2
    <3> QED
      BY <3>2, <3>3
  <2> QED
    BY <2>4
<1> DEFINE last == {r \in some : dates[r] = dates[r1]}
<1>4. PICK r2 \in last : r2 = alias \/ (alias \notin last /\ \A q \in last : Place[r2] >= Place[q])
  <2>1. CASE alias \in last
    BY <2>1
  <2>2. CASE alias \notin last
    <3>1. \A r \in last : Place[r] \in Nat
      BY <1>1, <1>2, NamesDiffer, LimitsAreNaturals DEF Shape
    <3>2. last \in SUBSET (1 .. review) /\ last # {}
      BY <1>1, <1>2
    <3>3. \E r2 \in last : \A q \in last : Place[r2] >= Place[q]
      <4> HIDE DEF last
      <4> QED
        BY <1>1, <3>1, <3>2, HighestPlace
    <3> QED
      BY <2>2, <3>3
  <2> QED
    BY <2>1, <2>2
<1>5. \A q \in some : After(r2, q)
  BY <1>2, <1>3, <1>4 DEF After
<1> DEFINE Youngest(r) == \A q \in some : After(r, q)
<1>6. \E r \in some : Youngest(r)
  BY <1>4, <1>5
<1>7. Latest(some) = CHOOSE r \in some : Youngest(r)
  BY DEF Latest
<1> HIDE DEF Youngest
<1>8. Latest(some) \in some /\ Youngest(Latest(some))
  BY <1>6, <1>7
<1> QED
  BY <1>8 DEF Youngest

-----------------------------------------------------------------------------
(* What the records of the workers leave.                                  *)

Heard(how, s, seen, w) ==
  IF w.session = s THEN IF how = "merged" THEN Merged(seen, w) ELSE Joined(seen, w) ELSE seen
Folds(iter, how, s, all, D) ==
  iter = [d \in SUBSET D |-> IF d = {} THEN NoOutcome(s) ELSE Heard(how, s, iter[d \ {Max(d)}], all[Max(d)])]

Folded(how, s, all, D) == (CHOOSE iter : Folds(iter, how, s, all, D))

LEMMA CollectedFolds ==
  ASSUME NEW s, NEW all
  PROVE  Collected(s, all) = Folded("joined", s, all, DOMAIN all)[DOMAIN all]
  BY DEF Collected, FoldLeft, MapThenFoldSet, Folded, Folds, Heard

Own(s, all) ==
  FoldLeft(LAMBDA seen, w : IF w.session = s THEN Merged(seen, w) ELSE seen, NoOutcome(s), all)
LEMMA OwnFolds ==
  ASSUME NEW s, NEW all
  PROVE  Own(s, all) = Folded("merged", s, all, DOMAIN all)[DOMAIN all]
  BY DEF Own, FoldLeft, MapThenFoldSet, Folded, Folds, Heard

LEMMA FoldExists ==
  ASSUME NEW n \in Nat, NEW how, NEW s, NEW all PROVE \E iter : Folds(iter, how, s, all, 1 .. n)
<1> DEFINE able == {k \in 0 .. n : \E iter : Folds(iter, how, s, all, 1 .. k)}
<1>1. 0 \in able
  <2>1. SUBSET (1 .. 0) = {{}}
    OBVIOUS
  <2>2. Folds([d \in {{}} |-> NoOutcome(s)], how, s, all, 1 .. 0)
    BY <2>1 DEF Folds
  <2> QED
    BY <2>2
<1>2. ASSUME NEW k \in 0 .. n - 1, k \in able PROVE k + 1 \in able
  <2>1. PICK f : Folds(f, how, s, all, 1 .. k)
    BY <1>2
  <2> DEFINE D == 1 .. k + 1
             g == [d \in SUBSET D |-> IF k + 1 \in d THEN Heard(how, s, f[d \ {k + 1}], all[k + 1]) ELSE f[d]]
  <2>2. ASSUME NEW d \in SUBSET D
        PROVE  g[d] = IF d = {} THEN NoOutcome(s) ELSE Heard(how, s, g[d \ {Max(d)}], all[Max(d)])
    <3>1. CASE k + 1 \in d
      <4>1. Max(d) \in d /\ Max(d) >= k + 1 /\ Max(d) \in D
        BY <3>1, Greatest, k + 1 \in Nat
      <4>2. Max(d) = k + 1
        BY <4>1
      <4>3. d \ {k + 1} \in SUBSET D /\ k + 1 \notin d \ {k + 1}
        OBVIOUS
      <4>4. g[d \ {k + 1}] = f[d \ {k + 1}] /\ g[d] = Heard(how, s, f[d \ {k + 1}], all[k + 1])
        BY <3>1, <4>3
      <4> HIDE DEF g
      <4> QED
        BY <3>1, <4>2, <4>4
    <3>2. CASE k + 1 \notin d
      <4>1. d \in SUBSET (1 .. k) /\ g[d] = f[d]
        BY <3>2
      <4>2. f[d] = IF d = {} THEN NoOutcome(s) ELSE Heard(how, s, f[d \ {Max(d)}], all[Max(d)])
        BY <2>1, <4>1 DEF Folds
      <4>3. d \ {Max(d)} \in SUBSET D /\ k + 1 \notin d \ {Max(d)}
        BY <3>2
      <4>4. g[d \ {Max(d)}] = f[d \ {Max(d)}]
        BY <4>3
      <4> HIDE DEF g
      <4> QED
        BY <4>1, <4>2, <4>4
    <3> QED
      BY <3>1, <3>2
  <2>3. Folds(g, how, s, all, D)
    <3>1. g = [d \in SUBSET D |-> g[d]]
      OBVIOUS
    <3> HIDE DEF g
    <3> QED
      BY <2>2, <3>1 DEF Folds
  <2>4. k + 1 \in 0 .. n
    OBVIOUS
  <2> HIDE DEF g
  <2> QED
    BY <2>3, <2>4
<1> HIDE DEF able
<1>3. n \in able
  BY <1>1, <1>2, Inductively
<1> QED
  BY <1>3 DEF able

LEMMA FoldSteps ==
  ASSUME NEW n \in Nat, NEW how, NEW s, NEW all
  PROVE  LET iter == Folded(how, s, all, 1 .. n) IN
         /\ iter[1 .. 0] = NoOutcome(s)
         /\ \A k \in 0 .. n - 1 : iter[1 .. k + 1] = Heard(how, s, iter[1 .. k], all[k + 1])
<1> DEFINE iter == Folded(how, s, all, 1 .. n)
<1>1. Folds(iter, how, s, all, 1 .. n)
  BY FoldExists DEF Folded
<1> HIDE DEF iter
<1>2. iter[1 .. 0] = NoOutcome(s)
  <2>1. 1 .. 0 = {} /\ 1 .. 0 \in SUBSET (1 .. n)
    OBVIOUS
  <2> QED
    BY <1>1, <2>1 DEF Folds
<1>3. ASSUME NEW k \in 0 .. n - 1 PROVE iter[1 .. k + 1] = Heard(how, s, iter[1 .. k], all[k + 1])
  <2> DEFINE d == 1 .. k + 1
  <2>1. d \in SUBSET (1 .. n) /\ d # {} /\ k + 1 \in d
    OBVIOUS
  <2>2. Max(d) \in d /\ Max(d) >= k + 1
    BY <2>1, Greatest
  <2>3. Max(d) = k + 1 /\ d \ {k + 1} = 1 .. k
    BY <2>2
  <2>4. iter[d] = Heard(how, s, iter[d \ {Max(d)}], all[Max(d)])
    <3> HIDE DEF d
    <3> QED
      BY <1>1, <2>1 DEF Folds
  <2> QED
    BY <2>3, <2>4
<1> QED
  BY <1>2, <1>3 DEF iter


\* The provers do not know that "" is a string.
Outcome == [session : Nat, rc : Int, truncated : BOOLEAN, status : STRING \cup {""}]
\* What a record tells is kept by an outcome.
Keeps(told, w) ==
  /\ told.rc >= w.rc /\ (w.truncated => told.truncated)
  /\ w.status = "truncated" => told.status = "truncated"

LEMMA MergedKeeps ==
  ASSUME NEW a \in Outcome, NEW b \in Outcome
  PROVE  /\ Joined(a, b) \in Outcome /\ Merged(a, b) \in Outcome
         /\ Keeps(Merged(a, b), b)
         /\ \A w \in Outcome : Keeps(a, w) => Keeps(Merged(a, b), w)
<1> DEFINE c == Merged(a, b)
<1>1. c.rc = IF a.rc > b.rc THEN a.rc ELSE b.rc
  BY DEF Merged, Joined
<1>2. c.truncated = (a.truncated \/ b.truncated)
  BY DEF Merged, Joined
<1>3. c.status = IF a.status = "truncated" \/ b.status = "" THEN a.status ELSE b.status
  BY DEF Merged, Joined
<1>4. Joined(a, b) \in Outcome /\ c \in Outcome /\ c.rc \in Int
  BY DEF Merged, Joined, Outcome
<1>5. a.rc \in Int /\ b.rc \in Int /\ \A w \in Outcome : w.rc \in Int
  BY DEF Outcome
<1> HIDE DEF c
<1>6. Keeps(c, b)
  <2>1. c.rc >= b.rc
    BY <1>1, <1>5
  <2>2. b.truncated => c.truncated
    BY <1>2, Zenon
  <2>3. b.status = "truncated" => c.status = "truncated"
    BY <1>3
  <2> QED
    BY <2>1, <2>2, <2>3 DEF Keeps
<1>7. ASSUME NEW w \in Outcome, Keeps(a, w) PROVE Keeps(c, w)
  <2>1. a.rc >= w.rc
    BY <1>7, Zenon DEF Keeps
  <2>2. c.rc >= w.rc
    BY <1>1, <1>5, <2>1
  <2>3. w.truncated => c.truncated
    BY <1>2, <1>7, Zenon DEF Keeps
  <2>4. w.status = "truncated" => a.status = "truncated"
    BY <1>7, Zenon DEF Keeps
  <2>5. w.status = "truncated" => c.status = "truncated"
    BY <1>3, <2>4
  <2> QED
    BY <2>2, <2>3, <2>5 DEF Keeps
<1> QED
  BY <1>4, <1>6, <1>7 DEF c

LEMMA FoldKeeps ==
  ASSUME NEW all \in Seq(Told), NEW s \in Nat, NEW how \in {"merged", "joined"}
  PROVE  LET told == Folded(how, s, all, DOMAIN all)[DOMAIN all] IN
         /\ told \in Outcome
         /\ how = "merged" => \A i \in DOMAIN all : all[i].session = s => Keeps(told, all[i])
<1>1. PICK n \in Nat : DOMAIN all = 1 .. n /\ \A i \in 1 .. n : all[i] \in Outcome
  <2>1. Len(all) \in Nat /\ DOMAIN all = 1 .. Len(all) /\ \A i \in 1 .. Len(all) : all[i] \in Told
    OBVIOUS
  <2> QED
    BY <2>1 DEF Told, Outcome
<1> DEFINE iter == Folded(how, s, all, 1 .. n)
<1>2. /\ iter[1 .. 0] = NoOutcome(s)
      /\ \A k \in 0 .. n - 1 : iter[1 .. k + 1] = Heard(how, s, iter[1 .. k], all[k + 1])
  BY <1>1, FoldSteps
<1> HIDE DEF iter
<1> DEFINE Holds(k) == /\ iter[1 .. k] \in Outcome
                       /\ how = "merged" =>
                            \A i \in 1 .. k : all[i].session = s => Keeps(iter[1 .. k], all[i])
           able == {k \in 0 .. n : Holds(k)}
<1>3. 0 \in able
  <2>1. NoOutcome(s) \in Outcome
    BY DEF NoOutcome, Outcome
  <2>2. 1 .. 0 = {}
    OBVIOUS
  <2> QED
    BY <1>1, <1>2, <2>1, <2>2
<1>4. ASSUME NEW k \in 0 .. n - 1, k \in able PROVE k + 1 \in able
  <2> DEFINE a == iter[1 .. k]
             b == iter[1 .. k + 1]
             w == all[k + 1]
  <2>1. a \in Outcome /\ w \in Outcome /\ b = Heard(how, s, a, w)
    BY <1>1, <1>2, <1>4
  <2>2. how = "merged" => \A i \in 1 .. k : all[i].session = s => Keeps(a, all[i])
    BY <1>4
  <2>3. \A i \in 1 .. k + 1 : i \in 1 .. k \/ i = k + 1
    OBVIOUS
  <2>4. \A i \in 1 .. k : all[i] \in Outcome
    BY <1>1
  <2> HIDE DEF a, b, w
  <2>5. b \in Outcome
    BY <2>1, MergedKeeps DEF Heard
  <2>6. ASSUME how = "merged", NEW i \in 1 .. k + 1, all[i].session = s PROVE Keeps(b, all[i])
    <3>1. CASE w.session = s
      <4>1. b = Merged(a, w)
        BY <2>1, <2>6, <3>1 DEF Heard
      <4>2. CASE i \in 1 .. k
        BY <2>1, <2>2, <2>4, <2>6, <4>1, <4>2, MergedKeeps
      <4>3. CASE i = k + 1
        BY <2>1, <4>1, <4>3, MergedKeeps DEF w
      <4> QED
        BY <2>3, <2>6, <4>2, <4>3
    <3>2. CASE w.session # s
      <4>1. b = a /\ i \in 1 .. k
        BY <2>1, <2>3, <2>6, <3>2 DEF Heard, w
      <4> QED
        BY <2>2, <2>6, <4>1
    <3> QED
      BY <3>1, <3>2
  <2>7. k + 1 \in 0 .. n
    BY <1>1
  <2> QED
    BY <2>5, <2>6, <2>7 DEF b
<1> HIDE DEF able
<1>5. \A k \in 0 .. n : k \in able
  <2>1. \A k \in 0 .. n - 1 : k \in able => k + 1 \in able
    BY <1>4
  <2> QED
    BY <1>3, <2>1, Inductively
<1>6. Holds(n)
  BY <1>5 DEF able
<1> QED
  BY <1>1, <1>6 DEF iter

LEMMA CollectedType ==
  ASSUME NEW workers \in Seq(Told), NEW s \in Nat PROVE Collected(s, workers) \in Outcome
  BY CollectedFolds, FoldKeeps

\* Whatever is waiting tells, nothing of what a worker told is lost.
LEMMA OutcomesKeep ==
  ASSUME NEW workers \in Seq(Told), NEW queue, \A i \in DOMAIN queue : queue[i].told \subseteq Outcome,
         NEW i \in DOMAIN workers
  PROVE  Keeps(Outcomes(workers, queue)[workers[i].session], workers[i])
<1> DEFINE s == workers[i].session
           told == {workers[j].session : j \in DOMAIN workers}
           waiting == UNION {queue[j].told : j \in DOMAIN queue}
           more == {w \in waiting : w.session = s}
           w1 == CHOOSE w \in more : TRUE
<1>1. workers[i] \in Outcome /\ s \in Nat /\ s \in told
  <2>1. workers[i] \in Told
    OBVIOUS
  <2> QED
    BY <2>1 DEF Told, Outcome
<1>2. Outcomes(workers, queue)[s] = IF more = {} THEN Own(s, workers) ELSE Merged(Own(s, workers), w1)
  BY <1>1 DEF Outcomes, Own
<1> HIDE DEF s
<1>3. Own(s, workers) \in Outcome /\ Keeps(Own(s, workers), workers[i])
  BY <1>1, OwnFolds, FoldKeeps DEF s
<1>4. more \subseteq Outcome
  OBVIOUS
<1> HIDE DEF more
<1>5. more # {} => w1 \in Outcome
  BY <1>4
<1> HIDE DEF w1
<1>6. more # {} => Keeps(Merged(Own(s, workers), w1), workers[i])
  BY <1>1, <1>3, <1>5, MergedKeeps
<1> QED
  BY <1>2, <1>3, <1>6 DEF s

-----------------------------------------------------------------------------
(* Sorted lists.                                                           *)

IsStrictOrder(S, before) ==
  /\ \A x \in S : <<x, x>> \notin before
  /\ \A x, y \in S : x # y => <<x, y>> \in before \/ <<y, x>> \in before
  /\ \A x, y, z \in S : <<x, y>> \in before /\ <<y, z>> \in before => <<x, z>> \in before

\* A sorted list has each member of the set once, and no later one before an
\* earlier one.
LEMMA Sorted ==
  ASSUME NEW S, IsFiniteSet(S), NEW before, IsStrictOrder(S, before)
  PROVE  LET order == InOrder(S, before) IN
         /\ order \in Seq(S) /\ Len(order) = Cardinality(S) /\ DOMAIN order = 1 .. Cardinality(S)
         /\ \A x \in S : \E i \in DOMAIN order : order[i] = x
         /\ \A i, j \in DOMAIN order : i < j => <<order[i], order[j]>> \in before
<1> DEFINE n == Cardinality(S)
           rank == [x \in S |-> Cardinality(Below(x, S, before))]
           order == InOrder(S, before)
<1>1. n \in Nat
  BY FS_CardinalityType
<1>2. ASSUME NEW x \in S
      PROVE  IsFiniteSet(Below(x, S, before)) /\ rank[x] \in Nat /\ rank[x] < n
  <2>1. Below(x, S, before) \in SUBSET S /\ x \notin Below(x, S, before)
    BY DEF Below, IsStrictOrder
  <2>2. IsFiniteSet(Below(x, S, before)) /\ Cardinality(Below(x, S, before)) <= n
    BY <2>1, FS_Subset
  <2>3. Cardinality(Below(x, S, before)) # n
    BY <2>1, FS_Subset
  <2> QED
    BY <1>1, <2>2, <2>3, FS_CardinalityType
<1>3. ASSUME NEW x \in S, NEW y \in S, <<x, y>> \in before PROVE rank[x] < rank[y]
  <2>1. Below(x, S, before) \in SUBSET Below(y, S, before)
    BY <1>3 DEF Below, IsStrictOrder
  <2>2. x \in Below(y, S, before) /\ x \notin Below(x, S, before)
    BY <1>3 DEF Below, IsStrictOrder
  <2>3. Cardinality(Below(x, S, before)) <= Cardinality(Below(y, S, before))
    BY <1>2, <2>1, FS_Subset
  <2>4. Cardinality(Below(x, S, before)) # Cardinality(Below(y, S, before))
    BY <1>2, <2>1, <2>2, FS_Subset
  <2> QED
    BY <1>2, <2>3, <2>4
<1> HIDE DEF rank
<1>4. \A x, y \in S : rank[x] = rank[y] => x = y
  <2> SUFFICES ASSUME NEW x \in S, NEW y \in S, x # y PROVE rank[x] # rank[y]
    OBVIOUS
  <2>1. <<x, y>> \in before \/ <<y, x>> \in before
    BY DEF IsStrictOrder
  <2> QED
    BY <1>2, <1>3, <2>1
<1>5. rank \in Injection(S, 0 .. n - 1)
  <2>1. rank \in [S -> 0 .. n - 1]
    BY <1>1, <1>2 DEF rank
  <2> QED
    BY <1>4, <2>1 DEF Injection, IsInjective
<1>6. rank \in Surjection(S, 0 .. n - 1)
  <2>1. IsFiniteSet(0 .. n - 1) /\ Cardinality(0 .. n - 1) = n
    BY <1>1, FS_Interval
  <2> QED
    BY <1>5, <2>1, FS_Injection
<1>7. ASSUME NEW i \in 1 .. n PROVE order[i] \in S /\ rank[order[i]] = i - 1
  <2>1. i - 1 \in 0 .. n - 1
    BY <1>1
  <2>2. \E x \in S : rank[x] = i - 1
    BY <1>6, <2>1 DEF Surjection
  <2>3. order[i] = CHOOSE x \in S : rank[x] = i - 1
    BY DEF InOrder, rank
  <2> HIDE DEF order
  <2> QED
    BY <2>2, <2>3
<1>8. DOMAIN order = 1 .. n
  BY DEF InOrder
<1>9. order \in [1 .. n -> S]
  <2>1. order = [i \in 1 .. n |-> order[i]]
    BY DEF InOrder
  <2> HIDE DEF order
  <2> QED
    BY <1>7, <2>1
<1> HIDE DEF order
<1>10. order \in Seq(S) /\ Len(order) = n
  BY <1>1, <1>9
<1>11. ASSUME NEW x \in S PROVE \E i \in 1 .. n : order[i] = x
  <2>1. rank[x] + 1 \in 1 .. n
    BY <1>1, <1>2
  <2>2. rank[order[rank[x] + 1]] = rank[x] /\ order[rank[x] + 1] \in S
    BY <1>2, <1>7, <2>1
  <2> QED
    BY <1>4, <2>1, <2>2
<1>12. ASSUME NEW i \in 1 .. n, NEW j \in 1 .. n, i < j PROVE <<order[i], order[j]>> \in before
  <2>1. order[i] \in S /\ order[j] \in S /\ rank[order[i]] < rank[order[j]]
    BY <1>7, <1>12
  <2>2. order[i] # order[j]
    BY <1>2, <2>1
  <2>3. ~(<<order[j], order[i]>> \in before)
    BY <1>2, <1>3, <2>1
  <2> QED
    BY <2>1, <2>2, <2>3 DEF IsStrictOrder
<1> QED
  BY <1>8, <1>10, <1>11, <1>12 DEF order
-----------------------------------------------------------------------------
(* What a command writes comes from the summary of its review.             *)

Written(carried) ==
  LET queue == Reinjected(carried, Selected(summary)) IN
  [state |-> "read", outcomes |-> Outcomes(summary.workers, queue),
   audited |-> Split(queue).audited, carried |-> Split(queue).carried]
Entries == [session : Nat, cost : Nat, class : Nat, carried : BOOLEAN, told : SUBSET Outcome]
Faithful ==
  /\ summary \in Summaries \cup {None}
  /\ answer = "ok" => summary # None /\ review > 0
  /\ answer = "ok" /\ Readable(review) =>
       \E carried \in Seq(Entries) : artifact[review] = Written(carried)
Typed == \A r \in DOMAIN artifact : Readable(r) =>
  artifact[r].audited \in Seq(Entries) /\ artifact[r].carried \in Seq(Entries)

-----------------------------------------------------------------------------
(* What makes a session urgent.                                            *)

Countable(rows) ==
  IsFiniteSet(DOMAIN rows) /\ DOMAIN rows \subseteq Nat /\ \A s \in DOMAIN rows : rows[s].cost \in Nat

LEMMA RankType ==
  ASSUME NEW row, Signals(row) # {} PROVE Rank(row) \in 1 .. 8
<1> DEFINE places == {i \in 1 .. 8 : SignalOrder[i] \in Signals(row)}
<1>1. DOMAIN SignalOrder = 1 .. 8
  BY DEF SignalOrder
<1>2. places # {}
  <2>1. PICK x : x \in Signals(row)
    OBVIOUS
  <2>2. x \in {SignalOrder[1], SignalOrder[2], SignalOrder[3], SignalOrder[4],
               SignalOrder[5], SignalOrder[6], SignalOrder[7], SignalOrder[8]}
    BY <2>1 DEF Signals, SignalOrder
  <2> HIDE DEF places
  <2>3. \E i \in 1 .. 8 : x = SignalOrder[i]
    BY <2>2
  <2> QED
    BY <2>1, <2>3 DEF places
<1>3. PICK i \in places : \A j \in places : i <= j
  <2>1. places \subseteq Nat
    OBVIOUS
  <2> HIDE DEF places
  <2> QED
    BY <1>2, <2>1, Least
<1>4. \A j \in 1 .. i - 1 : SignalOrder[j] \notin Signals(row)
  BY <1>3
<1> QED
  BY <1>1, <1>3, <1>4 DEF Rank

\* The sum of the costs, session by session.
Sums(iter, rows, D) ==
  \A d \in D : iter[d] = IF d = {} THEN 0
                         ELSE rows[CHOOSE x \in d : TRUE].cost + iter[d \ {CHOOSE x \in d : TRUE}]
Summed(rows, S) ==
  CHOOSE iter : iter = [d \in SUBSET S |->
    IF d = {} THEN 0 ELSE rows[CHOOSE x \in d : TRUE].cost + iter[d \ {CHOOSE x \in d : TRUE}]]
LEMMA TotalIsSum == ASSUME NEW rows PROVE TotalCost(rows) = Summed(rows, Detected(rows))[Detected(rows)]
  BY DEF TotalCost, FoldSet, MapThenFoldSet, Summed

LEMMA SumExists ==
  ASSUME NEW rows, NEW S, IsFiniteSet(S) PROVE Sums(Summed(rows, S), rows, SUBSET S)
<1> DEFINE n == Cardinality(S)
           Small(k) == {d \in SUBSET S : Cardinality(d) <= k}
           able == {k \in 0 .. n : \E iter : Sums(iter, rows, Small(k))}
<1>1. n \in Nat
  BY FS_CardinalityType
<1>2. \A d \in SUBSET S : IsFiniteSet(d) /\ Cardinality(d) \in Nat /\ Cardinality(d) <= n
  BY FS_Subset, FS_CardinalityType
<1>3. 0 \in able
  <2>1. \A d \in Small(0) : d = {}
    BY <1>2, FS_EmptySet
  <2> DEFINE zero == [d \in Small(0) |-> 0]
  <2>2. Sums(zero, rows, Small(0))
    BY <2>1 DEF Sums
  <2> HIDE DEF zero, Small, n
  <2> QED
    BY <1>1, <2>2
<1>4. ASSUME NEW k \in 0 .. n - 1, k \in able PROVE k + 1 \in able
  <2>1. PICK f : Sums(f, rows, Small(k))
    BY <1>4
  <2> DEFINE g == [d \in SUBSET S |->
               IF d \in Small(k) THEN f[d]
               ELSE rows[CHOOSE x \in d : TRUE].cost + f[d \ {CHOOSE x \in d : TRUE}]]
  <2>2. ASSUME NEW d \in Small(k + 1), d # {}
        PROVE  d \ {CHOOSE x \in d : TRUE} \in Small(k)
    <3> DEFINE c == CHOOSE x \in d : TRUE
    <3>1. c \in d
      BY <2>2
    <3> HIDE DEF c
    <3>2. Cardinality(d \ {c}) = Cardinality(d) - 1 /\ d \ {c} \in SUBSET S
      BY <1>2, <3>1, FS_RemoveElement
    <3> QED
      BY <1>2, <3>2 DEF c
  <2>3. ASSUME NEW d \in Small(k + 1)
        PROVE  g[d] = IF d = {} THEN 0
                      ELSE rows[CHOOSE x \in d : TRUE].cost + g[d \ {CHOOSE x \in d : TRUE}]
    <3> DEFINE c == CHOOSE x \in d : TRUE
    <3>1. CASE d = {}
      <4>1. {} \in Small(k)
        BY FS_EmptySet
      <4> QED
        BY <2>1, <3>1, <4>1 DEF Sums
    <3>2. CASE d # {}
      <4>1. d \ {c} \in Small(k)
        BY <2>2, <3>2
      <4>2. g[d \ {c}] = f[d \ {c}]
        BY <4>1
      <4>3. d \in Small(k) => f[d] = rows[c].cost + f[d \ {c}]
        BY <2>1, <3>2 DEF Sums
      <4>4. g[d] = IF d \in Small(k) THEN f[d] ELSE rows[c].cost + f[d \ {c}]
        OBVIOUS
      <4> HIDE DEF g, c, Small
      <4>5. g[d] = rows[c].cost + g[d \ {c}]
        BY <4>2, <4>3, <4>4
      <4> QED
        BY <3>2, <4>5 DEF c
    <3> QED
      BY <3>1, <3>2
  <2>4. Sums(g, rows, Small(k + 1))
    <3> HIDE DEF g, Small
    <3> QED
      BY <2>3 DEF Sums
  <2> HIDE DEF g, Small, n
  <2> QED
    BY <1>1, <2>4
<1>5. n \in able
  <2> HIDE DEF able
  <2>1. \A k \in 0 .. n - 1 : k \in able => k + 1 \in able
    BY <1>4
  <2>2. \A k \in 0 .. n : k \in able
    <3> HIDE DEF n
    <3> QED
      BY <1>1, <1>3, <2>1, Inductively
  <2> QED
    BY <1>1, <2>2
<1>6. PICK f : Sums(f, rows, SUBSET S)
  <2>1. SUBSET S \subseteq Small(n)
    BY <1>2
  <2> QED
    BY <1>5, <2>1 DEF Sums
<1> DEFINE g == [d \in SUBSET S |-> f[d]]
<1>7. g = [d \in SUBSET S |->
        IF d = {} THEN 0 ELSE rows[CHOOSE x \in d : TRUE].cost + g[d \ {CHOOSE x \in d : TRUE}]]
  BY <1>6 DEF Sums
<1> HIDE DEF g
<1> DEFINE iter == Summed(rows, S)
<1>8. iter = [d \in SUBSET S |->
        IF d = {} THEN 0 ELSE rows[CHOOSE x \in d : TRUE].cost + iter[d \ {CHOOSE x \in d : TRUE}]]
  BY <1>7 DEF Summed
<1> HIDE DEF iter
<1>9. ASSUME NEW d \in SUBSET S
      PROVE  iter[d] = IF d = {} THEN 0
                       ELSE rows[CHOOSE x \in d : TRUE].cost + iter[d \ {CHOOSE x \in d : TRUE}]
  BY <1>8
<1> QED
  BY <1>9 DEF Sums, iter

\* The total is a number, and no cost is above it.
LEMMA TotalType ==
  ASSUME NEW rows, Countable(rows)
  PROVE  /\ Detected(rows) \subseteq Nat /\ IsFiniteSet(Detected(rows))
         /\ TotalCost(rows) \in Nat
         /\ \A s \in Detected(rows) : rows[s].cost \in Nat /\ rows[s].cost <= TotalCost(rows)
<1> DEFINE S == Detected(rows)
           iter == Summed(rows, S)
           n == Cardinality(S)
           Fits(d) == iter[d] \in Nat /\ \A s \in d : rows[s].cost <= iter[d]
           able == {k \in 0 .. n : \A d \in SUBSET S : Cardinality(d) <= k => Fits(d)}
<1>1. S \in SUBSET DOMAIN rows /\ IsFiniteSet(S) /\ S \subseteq Nat /\ \A s \in S : rows[s].cost \in Nat
  BY FS_Subset DEF Countable, Detected
<1>2. Sums(iter, rows, SUBSET S)
  BY <1>1, SumExists
<1>3. n \in Nat /\ \A d \in SUBSET S : IsFiniteSet(d) /\ Cardinality(d) \in Nat /\ Cardinality(d) <= n
  BY <1>1, FS_Subset, FS_CardinalityType
<1> HIDE DEF S, iter, n
<1>4. iter[{}] = 0
  BY <1>2, {} \in SUBSET S, Zenon DEF Sums
<1>5. 0 \in able
  <2>1. ASSUME NEW d \in SUBSET S, Cardinality(d) <= 0 PROVE Fits(d)
    <3>1. d = {}
      BY <1>3, <2>1, FS_EmptySet
    <3> QED
      BY <1>4, <3>1
  <2> QED
    BY <1>3, <2>1
<1>6. ASSUME NEW k \in 0 .. n - 1, k \in able PROVE k + 1 \in able
  <2>1. ASSUME NEW d \in SUBSET S, Cardinality(d) <= k + 1 PROVE Fits(d)
    <3>1. CASE d = {}
      BY <1>4, <3>1
    <3>2. CASE d # {}
      <4> DEFINE c == CHOOSE x \in d : TRUE
                 e == d \ {c}
      <4>1. c \in d
        BY <3>2
      <4>2. iter[d] = rows[c].cost + iter[e]
        BY <1>2, <3>2 DEF Sums
      <4> HIDE DEF c
      <4>3. Cardinality(e) = Cardinality(d) - 1 /\ e \in SUBSET S
        BY <1>3, <4>1, FS_RemoveElement
      <4>4. Cardinality(e) <= k
        BY <1>3, <2>1, <4>3
      <4>5. Fits(e)
        BY <1>6, <4>3, <4>4
      <4>6. rows[c].cost \in Nat
        BY <1>1, <4>1
      <4>7. ASSUME NEW s \in d PROVE rows[s].cost <= iter[d]
        <5>1. s = c \/ s \in e
          OBVIOUS
        <5>2. rows[s].cost \in Nat
          BY <1>1
        <5> HIDE DEF e
        <5> QED
          BY <4>2, <4>5, <4>6, <5>1, <5>2
      <4> HIDE DEF e
      <4>8. iter[d] \in Nat
        BY <4>2, <4>5, <4>6
      <4> QED
        BY <4>7, <4>8
    <3> QED
      BY <3>1, <3>2
  <2> HIDE DEF Fits
  <2> QED
    BY <1>3, <2>1
<1>7. n \in able
  <2> HIDE DEF able
  <2>1. \A k \in 0 .. n - 1 : k \in able => k + 1 \in able
    BY <1>6
  <2>2. \A k \in 0 .. n : k \in able
    BY <1>3, <1>5, <2>1, Inductively
  <2> QED
    BY <1>3, <2>2
<1>8. Fits(S)
  <2> HIDE DEF Fits
  <2> QED
    BY <1>7 DEF n
<1>9. TotalCost(rows) = iter[S]
  BY TotalIsSum DEF S, iter
<1> QED
  BY <1>1, <1>8, <1>9 DEF S

\* A class counts for more than all that the cost adds to it.
LEMMA ScoreType ==
  ASSUME NEW cost \in Nat, NEW total \in Nat, cost <= total
  PROVE  LET share == IF total = 0 THEN 0 ELSE (Precision * cost + total) \div (2 * total) IN
         share \in Nat /\ share < Precision
<1>1. Precision \in Nat /\ Precision > 1
  BY LimitsAreNaturals
<1>2. CASE total = 0
  BY <1>1, <1>2
<1>3. CASE total > 0
  <2> DEFINE a == Precision * cost + total
             b == 2 * total
             share == a \div b
  <2>1. a \in Nat /\ b \in Nat /\ b > 0
    BY <1>1, <1>3
  <2>2. a <= Precision * total + total
    <3>1. Precision * cost <= Precision * total
      BY <1>1
    <3> QED
      BY <1>1, <3>1
  <2> HIDE DEF a, b
  <2>3. share \in Nat /\ b * share <= a
    BY <2>1
  <2> HIDE DEF share
  <2>4. (2 * share) * total <= (Precision + 1) * total
    <3>1. (2 * share) * total = b * share
      BY <2>3 DEF b
    <3>2. (Precision + 1) * total = Precision * total + total
      BY <1>1
    <3>3. b * share \in Int /\ Precision * total \in Int
      BY <1>1, <2>1, <2>3
    <3>4. b * share <= Precision * total + total
      BY <2>1, <2>2, <2>3, <3>3
    <3> QED
      BY <3>1, <3>2, <3>4
  <2>5. 2 * share <= Precision + 1
    BY <1>1, <1>3, <2>3, <2>4
  <2>6. share < Precision
    BY <1>1, <2>3, <2>5
  <2> QED
    BY <1>3, <2>3, <2>6 DEF share, a, b
<1> QED
  BY <1>2, <1>3

LEMMA UrgencyIsStrict ==
  ASSUME NEW rows, Countable(rows)
  PROVE  /\ IsStrictOrder(Detected(rows), Urgency(rows))
         /\ \A s \in Detected(rows) : Rank(rows[s]) \in 1 .. 8
         /\ \A s, t \in Detected(rows) : <<s, t>> \in Urgency(rows) =>
              \/ Rank(rows[s]) < Rank(rows[t])
              \/ /\ Rank(rows[s]) = Rank(rows[t])
                 /\ Precision * (rows[t].cost - rows[s].cost) <= 2 * TotalCost(rows)
<1> DEFINE S == Detected(rows)
           total == TotalCost(rows)
           share(s) == IF total = 0 THEN 0 ELSE (Precision * rows[s].cost + total) \div (2 * total)
           score == [s \in S |-> Score(rows[s], total)]
<1>1. /\ S \subseteq Nat /\ total \in Nat
      /\ \A s \in S : rows[s].cost \in Nat /\ rows[s].cost <= total
  BY TotalType
<1>2. \A s \in S : Rank(rows[s]) \in 1 .. 8
  BY RankType DEF Detected
<1>3. Precision \in Nat /\ Precision > 1
  BY LimitsAreNaturals
<1> HIDE DEF S, total
<1>4. ASSUME NEW s \in S PROVE share(s) \in Nat /\ share(s) < Precision
  BY <1>1, ScoreType
<1>5. \A s \in S : score[s] = Precision * (8 - Rank(rows[s])) + share(s)
  <2>1. Len(SignalOrder) = 8
    BY DEF SignalOrder
  <2> QED
    BY <2>1 DEF Score
<1>6. \A s, t \in S : <<s, t>> \in Urgency(rows) <=> score[s] > score[t] \/ (score[s] = score[t] /\ s < t)
  BY DEF Urgency, S, total
<1>7. ASSUME NEW s \in S, NEW t \in S, share(s) >= share(t)
      PROVE  Precision * (rows[t].cost - rows[s].cost) <= 2 * total
  <2>1. rows[s].cost \in Nat /\ rows[t].cost \in Nat /\ rows[s].cost <= total /\ rows[t].cost <= total
    BY <1>1
  <2>2. CASE total = 0
    <3>1. rows[s].cost = 0 /\ rows[t].cost = 0
      BY <1>1, <2>1, <2>2
    <3> QED
      BY <1>3, <2>2, <3>1
  <2>3. CASE total > 0
    <3> DEFINE a == Precision * rows[s].cost + total
               b == Precision * rows[t].cost + total
               c == 2 * total
    <3>1. a \in Nat /\ b \in Nat /\ c \in Nat /\ c > 0
      BY <1>1, <1>3, <2>1, <2>3
    <3>2. b \div c <= a \div c
      BY <1>7, <2>3
    <3> HIDE DEF a, b, c
    <3>3. b < a + c
      <4> DEFINE p == b \div c
                 q == a \div c
      <4>1. p \in Nat /\ q \in Nat /\ b < c * p + c /\ c * q <= a
        BY <3>1
      <4>2. p <= q
        BY <3>2
      <4> HIDE DEF p, q
      <4>3. c * p <= c * q
        BY <3>1, <4>1, <4>2
      <4> QED
        BY <3>1, <4>1, <4>3
    <3>4. Precision * (rows[t].cost - rows[s].cost) = b - a
      BY <1>1, <1>3, <2>1 DEF a, b
    <3> QED
      BY <3>1, <3>3, <3>4 DEF c
  <2> QED
    BY <1>1, <2>2, <2>3
<1> HIDE DEF share, score
<1>8. ASSUME NEW s \in S PROVE score[s] \in Int /\ s \in Nat
  BY <1>1, <1>2, <1>3, <1>4, <1>5
<1>9. IsStrictOrder(S, Urgency(rows))
  <2>1. \A s \in S : ~(<<s, s>> \in Urgency(rows))
    BY <1>6, <1>8
  <2>2. ASSUME NEW s \in S, NEW t \in S, s # t
        PROVE  <<s, t>> \in Urgency(rows) \/ <<t, s>> \in Urgency(rows)
    BY <1>6, <1>8, <2>2
  <2>3. ASSUME NEW s \in S, NEW t \in S, NEW u \in S,
               <<s, t>> \in Urgency(rows), <<t, u>> \in Urgency(rows)
        PROVE  <<s, u>> \in Urgency(rows)
    BY <1>6, <1>8, <2>3
  <2> QED
    BY <2>1, <2>2, <2>3 DEF IsStrictOrder
<1>10. ASSUME NEW s \in S, NEW t \in S, <<s, t>> \in Urgency(rows)
       PROVE  \/ Rank(rows[s]) < Rank(rows[t])
              \/ /\ Rank(rows[s]) = Rank(rows[t])
                 /\ Precision * (rows[t].cost - rows[s].cost) <= 2 * total
  <2> DEFINE x == Rank(rows[s])
             y == Rank(rows[t])
  <2>1. score[s] >= score[t]
    BY <1>6, <1>8, <1>10
  <2>2. /\ x \in Nat /\ y \in Nat
        /\ share(s) \in Nat /\ share(t) \in Nat /\ share(s) < Precision
    BY <1>2, <1>4
  <2>3. score[s] = Precision * (8 - x) + share(s) /\ score[t] = Precision * (8 - y) + share(t)
    BY <1>5
  <2> HIDE DEF x, y
  <2>4. Precision * (8 - x) = 8 * Precision - Precision * x /\ Precision * (8 - y) = 8 * Precision - Precision * y
    BY <1>3, <2>2
  <2>5. CASE x = y
    <3>1. share(s) >= share(t)
      BY <1>3, <2>1, <2>2, <2>3, <2>4, <2>5
    <3> QED
      BY <1>7, <2>5, <3>1 DEF x, y
  <2>6. CASE x > y
    <3>1. Precision * x >= Precision * (y + 1)
      BY <1>3, <2>2, <2>6
    <3>2. Precision * (y + 1) = Precision * y + Precision
      BY <1>3, <2>2
    <3> QED
      BY <1>3, <2>1, <2>2, <2>3, <2>4, <3>1, <3>2
  <2> QED
    BY <2>2, <2>5, <2>6 DEF x, y
<1> QED
  BY <1>2, <1>9, <1>10 DEF S, total

LEMMA SelectedType ==
  ASSUME NEW found, Countable(found.rows), found.workers \in Seq(Told)
  PROVE  LET rows == found.rows order == InOrder(Detected(rows), Urgency(rows)) IN
         /\ Selected(found) \in Seq(Entries) /\ Len(Selected(found)) \in Nat
         /\ DOMAIN Selected(found) = DOMAIN order /\ DOMAIN order = 1 .. Len(Selected(found))
         /\ \A i \in DOMAIN order : Selected(found)[i] = Entry(order[i], found) /\ order[i] \in Detected(rows)
         /\ \A s \in Detected(rows) : \E i \in DOMAIN order : Selected(found)[i].session = s
         /\ \A i, j \in DOMAIN order : i < j => <<order[i], order[j]>> \in Urgency(rows)
<1> DEFINE rows == found.rows
           S == Detected(rows)
           order == InOrder(S, Urgency(rows))
<1>1. /\ S \subseteq Nat /\ IsFiniteSet(S)
      /\ \A s \in S : rows[s].cost \in Nat /\ Rank(rows[s]) \in 1 .. 8
  BY TotalType, UrgencyIsStrict
<1>2. /\ order \in Seq(S) /\ DOMAIN order = 1 .. Len(order) /\ Len(order) \in Nat
      /\ \A s \in S : \E i \in DOMAIN order : order[i] = s
      /\ \A i, j \in DOMAIN order : i < j => <<order[i], order[j]>> \in Urgency(rows)
  <2>1. IsStrictOrder(S, Urgency(rows))
    BY UrgencyIsStrict
  <2> HIDE DEF S
  <2> QED
    BY <1>1, <2>1, Sorted, FS_CardinalityType
<1> HIDE DEF S, order
<1>3. Selected(found) = [i \in DOMAIN order |-> Entry(order[i], found)]
  BY DEF Selected, S, order
<1>4. \A i \in 1 .. Len(order) : order[i] \in S
  BY <1>2
<1>5. \A s \in S : Entry(s, found) \in Entries /\ Entry(s, found).session = s
  <2> SUFFICES ASSUME NEW s \in S PROVE Entry(s, found) \in Entries /\ Entry(s, found).session = s
    OBVIOUS
  <2>1. s \in Nat /\ rows[s].cost \in Nat /\ Rank(rows[s]) \in Nat
    BY <1>1
  <2>2. Collected(s, found.workers) \in Outcome
    BY <2>1, CollectedType
  <2>3. (IF \E i \in DOMAIN found.workers : found.workers[i].session = s
         THEN {Collected(s, found.workers)} ELSE {}) \in SUBSET Outcome
    BY <2>2
  <2> QED
    BY <2>1, <2>3 DEF Entry, Entries
<1>6. Selected(found) \in [1 .. Len(order) -> Entries]
  BY <1>2, <1>3, <1>4, <1>5
<1>7. Selected(found) \in Seq(Entries) /\ Len(Selected(found)) = Len(order)
  BY <1>2, <1>6
<1>8. \A i \in DOMAIN order : Selected(found)[i] = Entry(order[i], found) /\ order[i] \in S
  BY <1>2, <1>3, <1>4
<1>9. \A s \in S : \E i \in DOMAIN order : Selected(found)[i].session = s
  BY <1>2, <1>5, <1>8
<1> QED
  BY <1>2, <1>3, <1>7, <1>8, <1>9 DEF S, order

LEMMA ConcatType ==
  ASSUME NEW S, NEW a \in Seq(S), NEW b \in Seq(S)
  PROVE  /\ a \o b \in Seq(S) /\ DOMAIN (a \o b) = 1 .. Len(a) + Len(b)
         /\ \A i \in 1 .. Len(a) : (a \o b)[i] = a[i]
         /\ \A i \in DOMAIN b : (a \o b)[Len(a) + i] = b[i]
  OBVIOUS

\* Those of the review before come first, each of them somewhere in the queue.
LEMMA ReinjectedType ==
  ASSUME NEW carried \in Seq(Entries), NEW queue \in Seq(Entries)
  PROVE  LET all == Reinjected(carried, queue) IN
         /\ all \in Seq(Entries)
         /\ \E k \in Nat :
              /\ DOMAIN all = 1 .. k + Len(queue)
              /\ \A i \in 1 .. k : all[i].carried
              /\ \A i \in DOMAIN queue : all[k + i] = queue[i]
         /\ \A j \in DOMAIN carried : \E i \in DOMAIN all : all[i].session = carried[j].session
<1> DEFINE new == {queue[i].session : i \in DOMAIN queue}
           old == {i \in DOMAIN carried : carried[i].session \notin new}
           order == InOrder(old, Dearer(carried, old))
           first == [i \in DOMAIN order |-> [carried[order[i]] EXCEPT !.carried = TRUE]]
           k == Cardinality(old)
<1>1. Reinjected(carried, queue) = first \o queue
  BY DEF Reinjected
<1>2. DOMAIN carried = 1 .. Len(carried) /\ Len(carried) \in Nat /\ \A i \in DOMAIN carried : carried[i] \in Entries
  OBVIOUS
<1>3. old \in SUBSET (1 .. Len(carried)) /\ IsFiniteSet(old) /\ \A i \in old : carried[i].cost \in Int
  <2>1. old \in SUBSET (1 .. Len(carried))
    BY <1>2
  <2>2. IsFiniteSet(1 .. Len(carried))
    BY <1>2, FS_Interval
  <2> QED
    BY <1>2, <2>1, <2>2, FS_Subset DEF Entries
<1>4. IsStrictOrder(old, Dearer(carried, old))
  <2> HIDE DEF old
  <2>1. \A i, j \in old : <<i, j>> \in Dearer(carried, old)
          <=> carried[i].cost > carried[j].cost \/ (carried[i].cost = carried[j].cost /\ i < j)
    BY DEF Dearer
  <2>2. \A i \in old : i \in Int
    BY <1>3
  <2>3. ASSUME NEW i \in old, NEW j \in old, NEW l \in old,
               <<i, j>> \in Dearer(carried, old), <<j, l>> \in Dearer(carried, old)
        PROVE  <<i, l>> \in Dearer(carried, old)
    <3> DEFINE cost(x) == carried[x].cost
    <3>1. cost(i) \in Int /\ cost(j) \in Int /\ cost(l) \in Int /\ i \in Int /\ j \in Int /\ l \in Int
      BY <1>3, <2>2
    <3>2. /\ cost(i) > cost(j) \/ (cost(i) = cost(j) /\ i < j)
          /\ cost(j) > cost(l) \/ (cost(j) = cost(l) /\ j < l)
      BY <2>1, <2>3
    <3>3. cost(i) > cost(l) \/ (cost(i) = cost(l) /\ i < l) => <<i, l>> \in Dearer(carried, old)
      BY <2>1
    <3> HIDE DEF cost
    <3> QED
      BY <3>1, <3>2, <3>3
  <2>4. ASSUME NEW i \in old, NEW j \in old, i # j
        PROVE  <<i, j>> \in Dearer(carried, old) \/ <<j, i>> \in Dearer(carried, old)
    BY <1>3, <2>1, <2>2, <2>4
  <2>5. \A i \in old : ~(<<i, i>> \in Dearer(carried, old))
    BY <1>3, <2>1, <2>2
  <2> QED
    BY <2>3, <2>4, <2>5 DEF IsStrictOrder
<1>5. /\ k \in Nat /\ DOMAIN order = 1 .. k /\ order \in Seq(old)
      /\ \A j \in old : \E i \in 1 .. k : order[i] = j
  <2> HIDE DEF old
  <2> QED
    BY <1>3, <1>4, Sorted, FS_CardinalityType
<1>6. \A i \in 1 .. k : order[i] \in old
  <2> HIDE DEF old, order, k
  <2> QED
    BY <1>5
<1>7. ASSUME NEW i \in 1 .. k
      PROVE  first[i] \in Entries /\ first[i].carried /\ first[i].session = carried[order[i]].session
  <2>1. carried[order[i]] \in Entries
    BY <1>2, <1>3, <1>6
  <2>2. first[i] = [carried[order[i]] EXCEPT !.carried = TRUE]
    BY <1>5
  <2> HIDE DEF first
  <2>3. first[i] \in Entries /\ first[i].carried = TRUE
    BY <2>1, <2>2 DEF Entries
  <2> QED
    BY <2>1, <2>2, <2>3 DEF Entries
<1>8. first \in Seq(Entries) /\ Len(first) = k /\ DOMAIN first = 1 .. k
  <2>1. DOMAIN first = 1 .. k
    BY <1>5
  <2>2. first = [i \in 1 .. k |-> first[i]]
    BY <1>5
  <2> HIDE DEF first, k
  <2>3. first \in [1 .. k -> Entries]
    BY <1>7, <2>2
  <2> QED
    BY <1>5, <2>1, <2>3
<1> DEFINE all == Reinjected(carried, queue)
<1>9. /\ all \in Seq(Entries) /\ DOMAIN all = 1 .. k + Len(queue)
      /\ \A i \in 1 .. k : all[i] = first[i]
      /\ \A i \in DOMAIN queue : all[k + i] = queue[i]
  <2> HIDE DEF first, k
  <2> QED
    BY <1>1, <1>8, ConcatType
<1>10. ASSUME NEW j \in DOMAIN carried PROVE \E i \in DOMAIN all : all[i].session = carried[j].session
  <2>1. CASE j \in old
    <3>1. PICK i \in 1 .. k : order[i] = j
      BY <1>5, <2>1
    <3>2. i \in 1 .. k + Len(queue)
      <4>1. Len(queue) \in Nat
        OBVIOUS
      <4> HIDE DEF k
      <4> QED
        BY <1>5, <4>1
    <3>3. all[i].session = carried[j].session
      <4> HIDE DEF first, all, order, k
      <4> QED
        BY <1>7, <1>9, <3>1
    <3> HIDE DEF all, k
    <3> QED
      BY <1>9, <3>2, <3>3
  <2>2. CASE j \notin old
    <3>1. PICK i \in DOMAIN queue : queue[i].session = carried[j].session
      BY <2>2
    <3>2. k + i \in 1 .. k + Len(queue) /\ all[k + i] = queue[i]
      <4>1. Len(queue) \in Nat /\ i \in 1 .. Len(queue)
        OBVIOUS
      <4> HIDE DEF k, all
      <4> QED
        BY <1>5, <1>9, <4>1
    <3> HIDE DEF all, k
    <3> QED
      BY <1>9, <3>1, <3>2
  <2> QED
    BY <2>1, <2>2
<1> HIDE DEF first, k
<1>11. \A i \in 1 .. k : all[i].carried
  BY <1>7, <1>9
<1> QED
  BY <1>5, <1>9, <1>10, <1>11

\* What is not audited is handed over.
LEMMA SplitParts ==
  ASSUME NEW queue \in Seq(Entries)
  PROVE  /\ Split(queue).audited \in Seq(Entries) /\ Split(queue).carried \in Seq(Entries)
         /\ \E n \in Nat :
              /\ n <= Len(queue)
              /\ DOMAIN Split(queue).audited = 1 .. n
              /\ \A i \in 1 .. n : Split(queue).audited[i] = queue[i]
              /\ DOMAIN Split(queue).carried = 1 .. Len(queue) - n
              /\ \A i \in 1 .. Len(queue) - n : Split(queue).carried[i] = queue[n + i]
<1> DEFINE n == SmallerOf(Limit, Len(queue))
<1>1. n \in Nat /\ n <= Len(queue) /\ Len(queue) \in Nat
  BY LimitsAreNaturals DEF SmallerOf
<1>2. /\ Split(queue).audited = SubSeq(queue, 1, n)
      /\ Split(queue).carried = SubSeq(queue, n + 1, Len(queue))
  BY DEF Split
<1> HIDE DEF n
<1>3. /\ SubSeq(queue, 1, n) \in Seq(Entries) /\ SubSeq(queue, n + 1, Len(queue)) \in Seq(Entries)
      /\ DOMAIN SubSeq(queue, 1, n) = 1 .. n
      /\ \A i \in 1 .. n : SubSeq(queue, 1, n)[i] = queue[i]
  BY <1>1
<1>4. /\ DOMAIN SubSeq(queue, n + 1, Len(queue)) = 1 .. Len(queue) - n
      /\ \A i \in 1 .. Len(queue) - n : SubSeq(queue, n + 1, Len(queue))[i] = queue[n + i]
  BY <1>1
<1> QED
  BY <1>1, <1>2, <1>3, <1>4

-----------------------------------------------------------------------------
(* What the artifacts hold.                                                *)

LEMMA PreviousType ==
  ASSUME Shape PROVE Previous \subseteq Dated
<1> DEFINE earlier == {r \in Dated : dates[r] < day}
           outside == Dated \ ({review} \ {alias})
<1>1. earlier \in SUBSET DOMAIN dates /\ outside \in SUBSET DOMAIN dates
  BY DEF Dated, Shape
<1> HIDE DEF earlier, outside
<1>2. (earlier # {} => Latest(earlier) \in earlier) /\ (outside # {} => Latest(outside) \in outside)
  BY <1>1, LatestType
<1>3. Previous = IF earlier # {} THEN {Latest(earlier)} ELSE IF outside # {} THEN {Latest(outside)} ELSE {}
  BY DEF Previous, earlier, outside
<1>4. earlier \subseteq Dated /\ outside \subseteq Dated
  BY DEF earlier, outside
<1> QED
  BY <1>2, <1>3, <1>4

LEMMA CarriedOverType ==
  ASSUME Shape, Typed PROVE CarriedOver \in Seq(Entries)
<1> DEFINE carriers == {r \in Previous : Readable(r)}
           r == CHOOSE r \in carriers : TRUE
<1>1. CarriedOver = IF carriers = {} THEN << >> ELSE artifact[r].carried
  BY DEF CarriedOver
<1>2. CASE carriers = {}
  BY <1>1, <1>2
<1>3. CASE carriers # {}
  <2>1. r \in carriers
    BY <1>3
  <2> HIDE DEF r
  <2>2. r \in DOMAIN artifact /\ Readable(r)
    BY <2>1, PreviousType DEF Dated
  <2> QED
    BY <1>1, <1>3, <2>2 DEF Typed
<1> QED
  BY <1>2, <1>3

LEMMA QueueType ==
  ASSUME NEW carried \in Seq(Entries), summary \in Summaries
  PROVE  /\ Countable(summary.rows) /\ Selected(summary) \in Seq(Entries)
         /\ Reinjected(carried, Selected(summary)) \in Seq(Entries)
<1>1. Countable(summary.rows) /\ summary.workers \in Seq(Told)
  BY SummariesAreTyped DEF Countable
<1> QED
  BY <1>1, SelectedType, ReinjectedType

\* What a command does to the artifacts.
LEMMA Writes ==
  ASSUME Shape, Faithful, AuditCandidates
  PROVE  /\ artifact' = [artifact EXCEPT ![review] = Written(CarriedOver)]
         /\ review \in DOMAIN artifact /\ DOMAIN artifact' = DOMAIN artifact
         /\ artifact'[review] = Written(CarriedOver)
         /\ \A r \in DOMAIN artifact \ {review} : artifact'[r] = artifact[r]
         /\ Queue = Reinjected(CarriedOver, Selected(summary))
         /\ summary \in Summaries
<1>1. PICK S : artifact \in Seq(S)
  BY DEF Shape
<1>2. artifact' = [artifact EXCEPT ![review] = Written(CarriedOver)]
  BY DEF AuditCandidates, Written, Queue
<1>3. review \in DOMAIN artifact
  BY <1>1 DEF AuditCandidates, Shape
<1>4. summary \in Summaries
  BY DEF Faithful, AuditCandidates
<1> QED
  BY <1>1, <1>2, <1>3, <1>4 DEF Queue

LEMMA TypedStep ==
  ASSUME Shape, Typed, Faithful, [Next]_vars PROVE Typed'
<1>0. PICK S : artifact \in Seq(S)
  BY DEF Shape
<1>1. CASE NewReview
  <2>1. DOMAIN artifact' = DOMAIN artifact \cup {review + 1} /\ artifact'[review + 1].state = "absent"
    BY <1>0, <1>1, AppendType DEF NewReview, Shape
  <2>2. \A r \in DOMAIN artifact : artifact'[r] = artifact[r]
    BY <1>0, <1>1, AppendType DEF NewReview, Shape
  <2> QED
    BY <2>1, <2>2 DEF Typed, Readable
<1>2. CASE AuditCandidates
  <2>1. CarriedOver \in Seq(Entries)
    BY CarriedOverType
  <2>2. Written(CarriedOver).audited \in Seq(Entries) /\ Written(CarriedOver).carried \in Seq(Entries)
    BY <1>2, <2>1, Writes, QueueType, SplitParts DEF Written
  <2> QED
    BY <1>2, <2>2, Writes DEF Typed, Readable
<1>3. ASSUME NEW r \in DOMAIN artifact, Breaks(r) PROVE Typed'
  <2>1. DOMAIN artifact' = DOMAIN artifact /\ artifact'[r].state = "broken"
    BY <1>3 DEF Breaks
  <2>2. \A q \in DOMAIN artifact \ {r} : artifact'[q] = artifact[q]
    BY <1>3 DEF Breaks
  <2> QED
    BY <2>1, <2>2 DEF Typed, Readable
<1>4. CASE NoSummary \/ Rollback \/ UNCHANGED vars
  BY <1>4 DEF NoSummary, Rollback, vars, Typed, Readable
<1> QED
  BY <1>1, <1>2, <1>3, <1>4 DEF Next

LEMMA FaithfulStep ==
  ASSUME Shape, Typed, Faithful, [Next]_vars PROVE Faithful'
<1>1. CASE NewReview
  BY <1>1 DEF NewReview, Faithful
<1>2. CASE AuditCandidates
  <2>1. CarriedOver \in Seq(Entries) /\ artifact'[review] = Written(CarriedOver)
    BY <1>2, CarriedOverType, Writes
  <2>2. \A carried : Written(carried)' = Written(carried)
    BY <1>2 DEF Written, AuditCandidates
  <2> QED
    BY <1>2, <2>1, <2>2 DEF AuditCandidates, Faithful
<1>3. ASSUME NEW r \in DOMAIN artifact, Breaks(r) PROVE Faithful'
  <2>1. \A carried : Written(carried)' = Written(carried)
    BY <1>3 DEF Written, Breaks
  <2>2. CASE answer = "ok" /\ Readable(review)'
    <3>1. artifact' = [artifact EXCEPT ![r] = [state |-> "broken"]]
      BY <1>3 DEF Breaks
    <3>2. review \in DOMAIN artifact
      <4>1. PICK S : artifact \in Seq(S)
        BY DEF Shape
      <4> QED
        BY <2>2, <4>1 DEF Faithful, Shape
    <3>3. r # review /\ artifact'[review] = artifact[review]
      BY <1>3, <2>2, <3>1, <3>2 DEF Readable, Breaks
    <3>4. PICK carried \in Seq(Entries) : artifact[review] = Written(carried)
      BY <2>2, <3>3, <1>3 DEF Faithful, Readable, Breaks
    <3> QED
      BY <1>3, <2>1, <3>3, <3>4 DEF Breaks, Faithful
  <2>3. CASE ~(answer = "ok" /\ Readable(review)')
    BY <1>3, <2>3 DEF Breaks, Faithful
  <2> QED
    BY <2>2, <2>3
<1>4. CASE NoSummary
  BY <1>4 DEF NoSummary, Faithful
<1>5. CASE Rollback \/ UNCHANGED vars
  BY <1>5 DEF Rollback, vars, Faithful, Readable, Written
<1> QED
  BY <1>1, <1>2, <1>3, <1>4, <1>5 DEF Next

Held == Shape /\ Typed /\ Faithful
LEMMA HeldAlways == Spec => []Held
<1>1. Init => Held
  BY ShapeInit DEF Init, Held, Typed, Faithful
<1>2. Held /\ [Next]_vars => Held'
  BY ShapeStep, TypedStep, FaithfulStep DEF Held
<1> QED
  BY <1>1, <1>2, PTL DEF Spec

LEMMA FailuresHeld == ASSUME Held PROVE FailuresStay
<1> SUFFICES ASSUME answer = "ok", Readable(review), NEW i \in DOMAIN summary.workers
             PROVE  Keeps(artifact[review].outcomes[summary.workers[i].session], summary.workers[i])
  BY DEF FailuresStay, Keeps
<1>1. PICK carried \in Seq(Entries) : artifact[review] = Written(carried)
  BY DEF Held, Faithful
<1>2. summary.workers \in Seq(Told)
  BY SummariesAreTyped DEF Held, Faithful
<1> DEFINE queue == Reinjected(carried, Selected(summary))
<1>3. artifact[review].outcomes = Outcomes(summary.workers, queue)
  BY <1>1 DEF Written
<1>4. queue \in Seq(Entries)
  BY QueueType DEF Held, Faithful
<1> HIDE DEF queue
<1>5. \A j \in DOMAIN queue : queue[j].told \subseteq Outcome
  <2>1. \A j \in DOMAIN queue : queue[j] \in Entries
    BY <1>4
  <2> QED
    BY <2>1 DEF Entries
<1> QED
  BY <1>2, <1>3, <1>5, OutcomesKeep

\* What a worker told of a failure or of a truncation is in the artifact of its
\* review, whatever else was told of the session and in whatever order.
THEOREM FailuresAreKept == Spec => []FailuresStay
<1>1. Held => FailuresStay
  BY FailuresHeld
<1> QED
  BY <1>1, HeldAlways, PTL

LEMMA UrgentHeld == ASSUME Held PROVE UrgentFirst
<1> SUFFICES ASSUME answer = "ok", Readable(review),
                    NEW a \in ToSet(artifact[review].audited), NEW b \in ToSet(artifact[review].carried),
                    ~a.carried, ~b.carried
             PROVE  \/ a.class < b.class
                    \/ /\ a.class = b.class
                       /\ Precision * (b.cost - a.cost) <= 2 * TotalCost(summary.rows)
  BY DEF UrgentFirst
<1>1. PICK carried \in Seq(Entries) : artifact[review] = Written(carried)
  BY DEF Held, Faithful
<1> DEFINE rows == summary.rows
           chosen == Selected(summary)
           queue == Reinjected(carried, chosen)
           order == InOrder(Detected(rows), Urgency(rows))
<1>2. artifact[review].audited = Split(queue).audited /\ artifact[review].carried = Split(queue).carried
  BY <1>1 DEF Written
<1>3. Countable(rows) /\ summary.workers \in Seq(Told) /\ chosen \in Seq(Entries) /\ queue \in Seq(Entries)
  BY QueueType, SummariesAreTyped DEF Held, Faithful
<1>4. /\ DOMAIN chosen = DOMAIN order
      /\ \A i \in DOMAIN order : chosen[i] = Entry(order[i], summary) /\ order[i] \in Detected(rows)
      /\ \A i, j \in DOMAIN order : i < j => <<order[i], order[j]>> \in Urgency(rows)
  BY <1>3, SelectedType
<1>5. PICK k \in Nat : /\ DOMAIN queue = 1 .. k + Len(chosen)
                       /\ \A i \in 1 .. k : queue[i].carried
                       /\ \A i \in DOMAIN chosen : queue[k + i] = chosen[i]
  BY <1>3, ReinjectedType
<1> HIDE DEF order, queue, chosen
<1>6. PICK n \in Nat : /\ n <= Len(queue)
                       /\ DOMAIN Split(queue).audited = 1 .. n
                       /\ \A i \in 1 .. n : Split(queue).audited[i] = queue[i]
                       /\ DOMAIN Split(queue).carried = 1 .. Len(queue) - n
                       /\ \A i \in 1 .. Len(queue) - n : Split(queue).carried[i] = queue[n + i]
  BY <1>3, SplitParts
<1>7. DOMAIN queue = 1 .. Len(queue) /\ Len(queue) \in Nat /\ DOMAIN chosen = 1 .. Len(chosen) /\ Len(chosen) \in Nat
  BY <1>3
<1>8. PICK i \in 1 .. n : a = queue[i]
  <2>1. PICK i \in DOMAIN Split(queue).audited : a = Split(queue).audited[i]
    BY <1>2 DEF ToSet
  <2> QED
    BY <1>6, <2>1
<1>9. PICK j \in 1 .. Len(queue) - n : b = queue[n + j]
  <2>1. PICK j \in DOMAIN Split(queue).carried : b = Split(queue).carried[j]
    BY <1>2 DEF ToSet
  <2> QED
    BY <1>6, <2>1
<1>10. /\ i \in DOMAIN queue /\ n + j \in DOMAIN queue /\ i < n + j
       /\ i \notin 1 .. k /\ n + j \notin 1 .. k
  BY <1>5, <1>6, <1>7, <1>8, <1>9
<1>11. i - k \in DOMAIN chosen /\ n + j - k \in DOMAIN chosen /\ i - k < n + j - k
  BY <1>5, <1>6, <1>7, <1>10
<1>12. a = chosen[i - k] /\ b = chosen[n + j - k]
  <2>1. k + (i - k) = i /\ k + (n + j - k) = n + j
    BY <1>6, <1>7
  <2> QED
    BY <1>5, <1>8, <1>9, <1>11, <2>1
<1> DEFINE s == order[i - k]
           t == order[n + j - k]
<1>13. /\ s \in Detected(rows) /\ t \in Detected(rows) /\ <<s, t>> \in Urgency(rows)
       /\ a = Entry(s, summary) /\ b = Entry(t, summary)
  BY <1>4, <1>11, <1>12
<1> HIDE DEF s, t
<1>14. \/ Rank(rows[s]) < Rank(rows[t])
       \/ /\ Rank(rows[s]) = Rank(rows[t])
          /\ Precision * (rows[t].cost - rows[s].cost) <= 2 * TotalCost(rows)
  BY <1>3, <1>13, UrgencyIsStrict
<1>15. /\ a.class = Rank(rows[s]) /\ b.class = Rank(rows[t])
       /\ a.cost = rows[s].cost /\ b.cost = rows[t].cost
  BY <1>13 DEF Entry
<1> QED
  BY <1>14, <1>15

\* A review audits the sessions of its own summary class by class, and inside a
\* class by cost up to the rounding, whatever the costs are.
THEOREM UrgencyDecides == Spec => []UrgentFirst
<1>1. Held => UrgentFirst
  BY UrgentHeld
<1> QED
  BY <1>1, HeldAlways, PTL

-----------------------------------------------------------------------------
(* What is handed over from review to review.                              *)

Increasing == \A q, r \in DOMAIN dates : q < r => dates[q] < dates[r]
Clean ==
  /\ breaks \in Nat
  /\ \A r \in DOMAIN artifact : artifact[r].state \in {"absent", "broken", "read"}
  /\ breaks = 0 => Legible
  /\ once => Increasing

LEMMA LatestIsLast ==
  Shape /\ Increasing => \A some \in SUBSET DOMAIN dates : some # {} =>
    Latest(some) \in some /\ \A q \in some : q <= Latest(some)
<1> SUFFICES ASSUME Shape, Increasing, NEW some \in SUBSET DOMAIN dates, some # {}
             PROVE  Latest(some) \in some /\ \A q \in some : q <= Latest(some)
  OBVIOUS
<1>1. Latest(some) \in some /\ \A q \in some : After(Latest(some), q)
  BY LatestType
<1> DEFINE last == Latest(some)
<1> HIDE DEF last
<1>2. ASSUME NEW q \in some PROVE q <= last
  <2>1. last \in DOMAIN dates /\ q \in DOMAIN dates /\ After(last, q)
    BY <1>1 DEF last
  <2>2. last \in Nat /\ q \in Nat /\ dates[last] \in Int /\ dates[q] \in Int
    BY <2>1 DEF Shape
  <2>3. last < q => dates[last] < dates[q]
    BY <2>1 DEF Increasing
  <2> QED
    BY <2>1, <2>2, <2>3 DEF After
<1> QED
  BY <1>1, <1>2 DEF last

\* The same set has the same last review, whatever is appended.
LEMMA LatestStays ==
  ASSUME Shape, Shape', Increasing, Increasing', NEW some,
         some \subseteq DOMAIN dates, some \subseteq DOMAIN dates', some # {}
  PROVE  (CHOOSE r \in some : \A q \in some : After(r, q)')
           = (CHOOSE r \in some : \A q \in some : After(r, q))
<1>1. \A q, r \in some :
        q \in Nat /\ r \in Nat /\ dates[q] \in Int /\ dates'[q] \in Int /\ Place[q] \in Nat
  <2> SUFFICES ASSUME NEW q \in some
               PROVE  q \in Nat /\ dates[q] \in Int /\ dates'[q] \in Int /\ Place[q] \in Nat
    OBVIOUS
  <2>1. q \in 1 .. review /\ review \in Nat
    BY DEF Shape
  <2>2. dates[q] \in 0 .. day /\ day \in Nat
    BY DEF Shape
  <2>3. q \in DOMAIN dates'
    OBVIOUS
  <2>4. dates'[q] \in 0 .. day' /\ day' \in Nat
    BY <2>3 DEF Shape
  <2>5. Place[q] \in Nat
    BY <2>1, NamesDiffer, LimitsAreNaturals DEF Shape
  <2> QED
    BY <2>1, <2>2, <2>4, <2>5
<1>2. \A q, r \in some : After(r, q) <=> r >= q
  BY <1>1 DEF Increasing, After
<1>3. \A q, r \in some : After(r, q)' <=> r >= q
  BY <1>1 DEF Increasing, After
<1>4. \A r \in some : (\A q \in some : After(r, q)') <=> (\A q \in some : After(r, q))
  BY <1>2, <1>3
<1> DEFINE before(r) == \A q \in some : After(r, q)
           after(r) == \A q \in some : After(r, q)'
<1>5. \A r \in some : after(r) <=> before(r)
  BY <1>4
<1> HIDE DEF before, after
<1>6. (CHOOSE r \in some : after(r)) = (CHOOSE r \in some : before(r))
  BY <1>5
<1> QED
  BY <1>6 DEF before, after

LEMMA CleanStep ==
  ASSUME Shape, Clean, [Next]_vars PROVE Clean'
<1>0. PICK S, D : artifact \in Seq(S) /\ dates \in Seq(D)
  BY DEF Shape
<1>1. CASE NewReview
  <2>1. /\ DOMAIN artifact' = DOMAIN artifact \cup {review + 1} /\ artifact'[review + 1].state = "absent"
        /\ \A r \in DOMAIN artifact : artifact'[r] = artifact[r]
    BY <1>0, <1>1, AppendType DEF NewReview, Shape
  <2>2. /\ DOMAIN dates' = DOMAIN dates \cup {review + 1} /\ dates'[review + 1] = day'
        /\ DOMAIN dates = 1 .. review
        /\ \A r \in DOMAIN dates : dates'[r] = dates[r]
    BY <1>0, <1>1, AppendType DEF NewReview, Shape
  <2>3. ASSUME once' PROVE Increasing'
    <3>1. Increasing /\ \A r \in DOMAIN dates : dates[r] # day'
      BY <1>1, <2>3 DEF NewReview, Clean
    <3>2. \A r \in DOMAIN dates : dates[r] \in Int /\ dates[r] <= day
      BY DEF Shape
    <3>3. day \in Int /\ day' \in Int /\ day <= day' /\ review \in Nat
      BY <1>1 DEF NewReview, Shape
    <3>4. \A r \in DOMAIN dates : dates'[r] < day'
      BY <2>2, <3>1, <3>2, <3>3
    <3> QED
      BY <2>2, <3>1, <3>3, <3>4 DEF Increasing
  <2> QED
    BY <1>1, <2>1, <2>3 DEF NewReview, Clean, Legible
<1>2. CASE AuditCandidates
  <2>1. review \in DOMAIN artifact
    BY <1>0, <1>2 DEF AuditCandidates, Shape
  <2>2. /\ DOMAIN artifact' = DOMAIN artifact /\ artifact'[review].state = "read"
        /\ \A r \in DOMAIN artifact \ {review} : artifact'[r] = artifact[r]
    BY <1>2, <2>1 DEF AuditCandidates
  <2> QED
    BY <1>2, <2>2 DEF AuditCandidates, Clean, Legible, Increasing
<1>3. ASSUME NEW r \in DOMAIN artifact, Breaks(r) PROVE Clean'
  <2>1. /\ DOMAIN artifact' = DOMAIN artifact /\ artifact'[r].state = "broken"
        /\ \A q \in DOMAIN artifact \ {r} : artifact'[q] = artifact[q]
    BY <1>3 DEF Breaks
  <2>2. breaks' \in Nat /\ breaks' # 0
    BY <1>3 DEF Breaks, Clean
  <2> QED
    BY <1>3, <2>1, <2>2 DEF Breaks, Clean, Increasing
<1>4. CASE NoSummary \/ Rollback \/ UNCHANGED vars
  BY <1>4 DEF NoSummary, Rollback, vars, Clean, Legible, Increasing
<1> QED
  BY <1>1, <1>2, <1>3, <1>4 DEF Next

\* The sessions of the queue are audited or handed over.
LEMMA QueueIsSplit ==
  ASSUME NEW queue \in Seq(Entries), NEW i \in DOMAIN queue
  PROVE  queue[i] \in ToSet(Split(queue).audited) \/ queue[i] \in ToSet(Split(queue).carried)
<1>1. PICK n \in Nat : /\ n <= Len(queue)
                       /\ DOMAIN Split(queue).audited = 1 .. n
                       /\ \A j \in 1 .. n : Split(queue).audited[j] = queue[j]
                       /\ DOMAIN Split(queue).carried = 1 .. Len(queue) - n
                       /\ \A j \in 1 .. Len(queue) - n : Split(queue).carried[j] = queue[n + j]
  BY SplitParts
<1>2. i \in 1 .. Len(queue) /\ Len(queue) \in Nat
  OBVIOUS
<1>3. CASE i \in 1 .. n
  BY <1>1, <1>3 DEF ToSet
<1>4. CASE i \notin 1 .. n
  <2>1. i - n \in 1 .. Len(queue) - n /\ n + (i - n) = i
    BY <1>1, <1>2, <1>4
  <2>2. Split(queue).carried[i - n] = queue[i] /\ i - n \in DOMAIN Split(queue).carried
    BY <1>1, <2>1
  <2> QED
    BY <2>2 DEF ToSet
<1> QED
  BY <1>3, <1>4

\* What is in the queue already is not taken over again.
LEMMA AllKnown ==
  ASSUME NEW carried, NEW queue,
         \A i \in DOMAIN carried : \E j \in DOMAIN queue : queue[j].session = carried[i].session
  PROVE  Reinjected(carried, queue) = << >> \o queue
<1> DEFINE new == {queue[i].session : i \in DOMAIN queue}
           old == {i \in DOMAIN carried : carried[i].session \notin new}
           order == InOrder(old, Dearer(carried, old))
           head == [i \in DOMAIN order |-> [carried[order[i]] EXCEPT !.carried = TRUE]]
<1>1. old = {}
  OBVIOUS
<1>2. Cardinality(old) = 0
  BY <1>1, FS_EmptySet
<1>3. Reinjected(carried, queue) = head \o queue
  BY DEF Reinjected
<1> HIDE DEF old
<1>4. DOMAIN order = 1 .. 0
  BY <1>2 DEF InOrder
<1> HIDE DEF order
<1>5. head = << >>
  BY <1>4
<1> HIDE DEF head
<1> QED
  BY <1>3, <1>5

\* Without an artifact of an earlier day a review of its own day can only read
\* what it handed over itself.
LEMMA Alone ==
  Shape /\ Clean /\ Familiar /\ once /\ review > 0 /\ Earlier = {} =>
    Queue = << >> \o Selected(summary)
<1> SUFFICES ASSUME Shape, Clean, Familiar, once, review > 0, Earlier = {}
             PROVE  Queue = << >> \o Selected(summary)
  OBVIOUS
<1>1. Dated \subseteq {review}
  <2> SUFFICES ASSUME NEW r \in Dated, r # review PROVE FALSE
    OBVIOUS
  <2>1. r \in DOMAIN dates /\ review \in DOMAIN dates /\ r < review /\ dates[review] = day
    BY DEF Dated, Shape
  <2>2. dates[r] < day
    BY <2>1 DEF Clean, Increasing
  <2> QED
    BY <2>2 DEF Earlier
<1> DEFINE carriers == {r \in Previous : Readable(r)}
<1>2. carriers = {} \/ (carriers = {review} /\ Readable(review))
  BY <1>1, PreviousType
<1>3. CarriedOver = IF carriers = {} THEN << >> ELSE artifact[CHOOSE r \in carriers : TRUE].carried
  BY DEF CarriedOver
<1> HIDE DEF carriers
<1>4. CarriedOver = << >> \/ (Readable(review) /\ CarriedOver = artifact[review].carried)
  BY <1>2, <1>3
<1>5. ASSUME NEW i \in DOMAIN CarriedOver
      PROVE  \E j \in DOMAIN Selected(summary) : Selected(summary)[j].session = CarriedOver[i].session
  <2>1. CASE CarriedOver = << >>
    BY <1>5, <2>1
  <2>2. CASE Readable(review) /\ CarriedOver = artifact[review].carried
    <3>1. CarriedOver[i] \in ToSet(artifact[review].carried)
      BY <1>5, <2>2 DEF ToSet
    <3> QED
      BY <2>2, <3>1 DEF Familiar
  <2> QED
    BY <1>4, <2>1, <2>2
<1> QED
  BY <1>5, AllKnown DEF Queue

\* A review of its own day reads the same before and after it wrote its artifact,
\* wherever the link points: an earlier day wins over every artifact of the day.
LEMMA ListingStays ==
  ASSUME Shape, Shape', Clean, Clean', Familiar, Familiar', once, review > 0,
         UNCHANGED <<dates, day, review, summary, once>>, DOMAIN artifact' = DOMAIN artifact,
         \A r \in DOMAIN artifact \ {review} : artifact'[r] = artifact[r]
  PROVE  Listing' = Listing
<1>1. ~(dates[review] < day)
  BY DEF Shape
<1>2. Earlier' = Earlier /\ Earlier \subseteq DOMAIN artifact \ {review}
  BY <1>1 DEF Dated, Earlier
<1>3. CASE Earlier = {}
  <2>1. Queue = << >> \o Selected(summary)
    BY <1>3, Alone
  <2>2. (Queue = << >> \o Selected(summary))'
    <3>1. (Shape /\ Clean /\ Familiar /\ once /\ review > 0 /\ Earlier = {})'
      BY <1>2, <1>3
    <3> QED
      BY <3>1, Alone, PTL
  <2>3. Selected(summary)' = Selected(summary)
    OBVIOUS
  <2>4. Queue' = Queue
    BY <2>1, <2>2, <2>3
  <2> QED
    BY <2>4 DEF Listing
<1>4. CASE Earlier # {}
  <2>1. Earlier \subseteq DOMAIN dates /\ Increasing /\ Increasing'
    BY <1>2 DEF Shape, Clean
  <2> DEFINE last == Latest(Earlier)
  <2>2. last \in Earlier
    BY <1>4, <2>1, LatestType
  <2>3. Latest(Earlier)' = last
    <3>1. Latest(Earlier)' = CHOOSE q \in Earlier' : \A p \in Earlier' : After(q, p)'
      BY DEF Latest
    <3>2. (CHOOSE q \in Earlier : \A p \in Earlier : After(q, p)')
            = (CHOOSE q \in Earlier : \A p \in Earlier : After(q, p))
      BY <1>4, <2>1, LatestStays
    <3> QED
      BY <1>2, <3>1, <3>2 DEF Latest
  <2>4. Previous = {last} /\ Previous' = {last}
    <3>1. Previous = {Latest(Earlier)}
      BY <1>4 DEF Previous, Earlier
    <3>2. Previous' = {Latest(Earlier)'}
      BY <1>2, <1>4 DEF Previous, Earlier
    <3> QED
      BY <2>3, <3>1, <3>2
  <2> HIDE DEF last
  <2>5. artifact'[last] = artifact[last]
    BY <1>2, <2>2
  <2> DEFINE carriers == {r \in Previous : Readable(r)}
  <2>6. carriers' = carriers /\ \A r \in carriers : artifact'[r] = artifact[r]
    BY <2>4, <2>5 DEF Readable
  <2>7. /\ CarriedOver = IF carriers = {} THEN << >> ELSE artifact[CHOOSE r \in carriers : TRUE].carried
        /\ CarriedOver' = IF carriers' = {} THEN << >> ELSE artifact'[CHOOSE r \in carriers' : TRUE].carried
    BY DEF CarriedOver
  <2> HIDE DEF carriers
  <2>8. carriers # {} => (CHOOSE r \in carriers : TRUE) \in carriers
    OBVIOUS
  <2>9. CarriedOver' = CarriedOver
    BY <2>6, <2>7, <2>8
  <2>10. Queue' = Queue
    BY <2>9 DEF Queue
  <2> QED
    BY <2>10 DEF Listing
<1> QED
  BY <1>3, <1>4

LEMMA FamiliarStep ==
  ASSUME Held, Clean, Familiar, [Next]_vars PROVE Familiar'
<1> DEFINE Knows(some) == \A e \in ToSet(some) :
             \E i \in DOMAIN Selected(summary) : Selected(summary)[i].session = e.session
<1> SUFFICES ASSUME (once /\ review > 0 /\ Readable(review) /\ Earlier = {})'
             PROVE  Knows(artifact[review].carried)'
  BY DEF Familiar
<1>0. PICK S : artifact \in Seq(S)
  BY DEF Held, Shape
<1>1. CASE NewReview
  <2>1. artifact'[review'] = [state |-> "absent"]
    BY <1>0, <1>1, AppendType DEF NewReview, Held, Shape
  <2> QED
    BY <2>1 DEF Readable
<1>2. CASE AuditCandidates
  <2>1. /\ review \in DOMAIN artifact /\ DOMAIN artifact' = DOMAIN artifact
        /\ artifact'[review] = Listing /\ summary \in Summaries
        /\ \A r \in DOMAIN artifact \ {review} : artifact'[r] = artifact[r]
    BY <1>2, Writes DEF Held, Listing, Written
  <2>2. UNCHANGED <<dates, day, review, summary, once>>
    BY <1>2 DEF AuditCandidates
  <2>3. Earlier = {}
    <3>1. ~(dates[review] < day)
      BY <2>2 DEF Held, Shape
    <3> QED
      BY <2>1, <2>2, <3>1 DEF Earlier, Dated
  <2> DEFINE queue == Selected(summary)
  <2>4. queue \in Seq(Entries)
    BY <2>1, SummariesAreTyped, SelectedType DEF Countable
  <2>5. Queue = << >> \o queue
    BY <2>2, <2>3, Alone DEF Held
  <2>6. queue' = queue
    BY <2>2
  <2> HIDE DEF queue
  <2>7. Queue = queue
    BY <2>4, <2>5
  <2>8. artifact'[review].carried = Split(queue).carried
    BY <2>1, <2>7 DEF Listing
  <2>9. ASSUME NEW e \in ToSet(Split(queue).carried)
        PROVE  \E i \in DOMAIN queue : queue[i].session = e.session
    <3>1. PICK n \in Nat : /\ n <= Len(queue)
                           /\ DOMAIN Split(queue).carried = 1 .. Len(queue) - n
                           /\ \A i \in 1 .. Len(queue) - n : Split(queue).carried[i] = queue[n + i]
      BY <2>4, SplitParts
    <3>2. PICK k \in 1 .. Len(queue) - n : e = queue[n + k]
      BY <2>9, <3>1 DEF ToSet
    <3>3. n + k \in DOMAIN queue
      BY <2>4, <3>1
    <3> QED
      BY <3>2, <3>3
  <2> QED
    BY <2>2, <2>6, <2>8, <2>9 DEF queue
<1>3. ASSUME UNCHANGED <<dates, day, review, summary, once>>, Dated' = Dated,
             Readable(review)' => artifact'[review] = artifact[review]
      PROVE  Knows(artifact[review].carried)'
  BY <1>3 DEF Familiar, Earlier, Readable
<1>4. ASSUME NEW r \in DOMAIN artifact, Breaks(r) PROVE Knows(artifact[review].carried)'
  <2>1. /\ DOMAIN artifact' = DOMAIN artifact /\ artifact'[r] = [state |-> "broken"]
        /\ \A q \in DOMAIN artifact \ {r} : artifact'[q] = artifact[q]
    BY <1>4 DEF Breaks
  <2>2. review \in DOMAIN artifact
    BY <1>4 DEF Breaks, Held, Shape
  <2>3. r \in Dated /\ Dated' = Dated
    BY <1>4, <2>1 DEF Breaks, Dated
  <2> QED
    BY <1>3, <1>4, <2>1, <2>2, <2>3 DEF Breaks, Readable
<1>5. CASE NoSummary \/ Rollback \/ UNCHANGED vars
  BY <1>3, <1>5 DEF NoSummary, Rollback, vars, Dated
<1> QED
  BY <1>1, <1>2, <1>4, <1>5 DEF Next

LEMMA SettledStep ==
  ASSUME Held, Held', Clean, Clean', Familiar, Familiar', Settled, [Next]_vars PROVE Settled'
<1> SUFFICES ASSUME (once /\ review > 0 /\ Legible /\ Readable(review))'
             PROVE  artifact'[review'] = Listing'
  BY DEF Settled
<1>0. PICK S : artifact \in Seq(S)
  BY DEF Held, Shape
<1>1. CASE NewReview
  <2>1. artifact'[review'] = [state |-> "absent"]
    BY <1>0, <1>1, AppendType DEF NewReview, Held, Shape
  <2> QED
    BY <2>1 DEF Readable
<1>2. CASE AuditCandidates
  <2>1. /\ DOMAIN artifact' = DOMAIN artifact /\ artifact'[review] = Listing
        /\ \A r \in DOMAIN artifact \ {review} : artifact'[r] = artifact[r]
    BY <1>2, Writes DEF Held, Listing, Written
  <2>2. UNCHANGED <<dates, day, review, summary, once>>
    BY <1>2 DEF AuditCandidates
  <2>3. Listing' = Listing
    BY <2>1, <2>2, ListingStays DEF Held
  <2> QED
    BY <2>1, <2>2, <2>3
<1>3. ASSUME NEW r \in DOMAIN artifact, Breaks(r) PROVE FALSE
  <2>1. artifact'[r] = [state |-> "broken"] /\ r \in DOMAIN artifact'
    BY <1>3 DEF Breaks
  <2> QED
    BY <2>1 DEF Legible
<1>4. CASE NoSummary \/ Rollback \/ UNCHANGED vars
  <2>1. UNCHANGED <<artifact, dates, day, review, summary, once>>
    BY <1>4 DEF NoSummary, Rollback, vars
  <2>2. artifact[review] = Listing
    BY <2>1 DEF Settled, Legible, Readable
  <2>3. Listing' = Listing
    BY <2>1, ListingStays DEF Held
  <2> QED
    BY <2>1, <2>2, <2>3
<1> QED
  BY <1>1, <1>2, <1>3, <1>4 DEF Next

LEMMA RerunStep ==
  ASSUME Shape, Settled, [Next]_vars, runs' # runs, answer' = "ok", Readable(review), once,
         \A r \in DOMAIN artifact : artifact[r].state # "broken"
  PROVE  artifact' = artifact
<1>1. CASE AuditCandidates
  <2>1. artifact' = [artifact EXCEPT ![review] = Listing]
    BY <1>1 DEF AuditCandidates, Listing
  <2>2. artifact[review] = Listing
    BY <1>1 DEF AuditCandidates, Settled, Legible
  <2>3. PICK S : artifact \in Seq(S)
    BY DEF Shape
  <2> QED
    BY <2>1, <2>2, <2>3
<1>2. CASE NoSummary
  BY <1>2 DEF NoSummary
<1>3. CASE NewReview \/ Rollback \/ (\E r \in DOMAIN artifact : Breaks(r)) \/ UNCHANGED vars
  BY <1>3 DEF NewReview, Rollback, Breaks, vars
<1> QED
  BY <1>1, <1>2, <1>3 DEF Next

Rerunnable == Held /\ Clean /\ Familiar /\ Settled
LEMMA RerunnableAlways == Spec => []Rerunnable
<1>1. Init => Rerunnable
  <2> SUFFICES ASSUME Init PROVE Rerunnable
    OBVIOUS
  <2>1. DOMAIN artifact = {} /\ DOMAIN dates = {}
    BY DEF Init
  <2> QED
    BY <2>1, ShapeInit DEF Init, Rerunnable, Held, Typed, Faithful, Clean, Legible, Increasing,
                           Settled, Familiar
<1>2. Rerunnable /\ [Next]_vars => Rerunnable'
  <2> SUFFICES ASSUME Rerunnable, [Next]_vars PROVE Rerunnable'
    OBVIOUS
  <2>1. Held' /\ Clean' /\ Familiar'
    BY ShapeStep, TypedStep, FaithfulStep, CleanStep, FamiliarStep DEF Rerunnable, Held
  <2> QED
    BY <2>1, SettledStep DEF Rerunnable
<1> QED
  BY <1>1, <1>2, PTL DEF Spec

\* As long as each review has its own day, a second audit-candidates leaves the
\* same artifact, wherever runs/current points: it hands over the sessions of the
\* day before again, and of its own artifact, if it reads it, it learns nothing.
THEOREM RerunsAgree == Spec => RerunChangesNothing
<1>1. Rerunnable /\ [Next]_vars =>
        [/\ runs' # runs /\ answer' = "ok" /\ Readable(review) /\ once
         /\ \A r \in DOMAIN artifact : artifact[r].state # "broken"
         => artifact' = artifact]_vars
  BY RerunStep DEF Rerunnable, Held
<1> QED
  BY <1>1, RerunnableAlways, PTL DEF Spec, RerunChangesNothing

\* The first command of a review reads what the last one handed over.
LEMMA FirstReadsLast ==
  ASSUME Shape, Clean, once, Legible, review > 0, review \notin Dated, Dated # {}
  PROVE  CarriedOver = artifact[Latest(Dated)].carried
<1>1. DOMAIN artifact = 1 .. review /\ DOMAIN dates = 1 .. review /\ review \in Nat /\ dates[review] = day
  BY DEF Shape
<1>2. Increasing
  BY DEF Clean
<1>3. {r \in Dated : dates[r] < day} = Dated
  <2>1. ASSUME NEW r \in Dated PROVE dates[r] < day
    <3>1. r \in 1 .. review /\ r # review
      BY <1>1 DEF Dated
    <3>2. r < review /\ r \in DOMAIN dates /\ review \in DOMAIN dates
      BY <1>1, <3>1
    <3> QED
      BY <1>1, <1>2, <3>2 DEF Increasing
  <2> QED
    BY <2>1
<1>4. Previous = {Latest(Dated)}
  BY <1>3 DEF Previous
<1>5. Latest(Dated) \in Dated
  BY PreviousType, <1>4
<1>6. Readable(Latest(Dated))
  BY <1>5 DEF Dated, Clean, Legible, Readable
<1> DEFINE carriers == {r \in Previous : Readable(r)}
<1>7. carriers = {Latest(Dated)}
  BY <1>4, <1>6
<1>8. CarriedOver = IF carriers = {} THEN << >> ELSE artifact[CHOOSE r \in carriers : TRUE].carried
  BY DEF CarriedOver
<1> HIDE DEF carriers
<1> QED
  BY <1>7, <1>8

LEMMA ForgottenStep ==
  ASSUME Held, Held', Clean, Clean', Settled, NothingIsForgotten, [Next]_vars PROVE NothingIsForgotten'
<1> SUFFICES ASSUME once', breaks' = 0, NEW r \in Dated', NEW e \in ToSet(artifact'[r].carried)
             PROVE  \/ e.session \in audits'
                    \/ \E f \in ToSet(artifact'[Latest(Dated)'].carried) : f.session = e.session
  BY DEF NothingIsForgotten
<1>0. PICK S, D : artifact \in Seq(S) /\ dates \in Seq(D)
  BY DEF Held, Shape
<1>a. DOMAIN artifact = DOMAIN dates /\ DOMAIN artifact' = DOMAIN dates' /\ Shape /\ Shape'
  BY DEF Held, Shape
<1>1. CASE NewReview
  <2>1. /\ DOMAIN artifact' = DOMAIN artifact \cup {review + 1} /\ artifact'[review + 1].state = "absent"
        /\ \A q \in DOMAIN artifact : artifact'[q] = artifact[q]
    BY <1>0, <1>1, AppendType DEF NewReview, Held, Shape
  <2>2. Dated' = Dated
    <3>1. review + 1 \notin DOMAIN artifact
      BY DEF Held, Shape
    <3> QED
      BY <2>1, <3>1 DEF Dated
  <2>3. once /\ breaks = 0 /\ audits' = audits
    BY <1>1 DEF NewReview
  <2>4. r \in Dated /\ artifact'[r] = artifact[r] /\ r \in DOMAIN artifact
    BY <2>1, <2>2 DEF Dated
  <2>5. Increasing /\ Increasing'
    BY <2>3 DEF Clean
  <2>6. Dated \subseteq DOMAIN dates /\ Dated \subseteq DOMAIN dates' /\ Dated # {}
    BY <1>a, <2>1, <2>4 DEF Dated
  <2>7. Latest(Dated)' = Latest(Dated)
    <3>1. Latest(Dated)' = CHOOSE q \in Dated' : \A p \in Dated' : After(q, p)'
      BY DEF Latest
    <3>2. (CHOOSE q \in Dated : \A p \in Dated : After(q, p)')
            = (CHOOSE q \in Dated : \A p \in Dated : After(q, p))
      BY <1>a, <2>5, <2>6, LatestStays
    <3> QED
      BY <2>2, <3>1, <3>2 DEF Latest
  <2>8. Latest(Dated) \in Dated
    BY <1>a, <2>6, LatestType
  <2>9. artifact'[Latest(Dated)] = artifact[Latest(Dated)]
    BY <2>1, <2>8 DEF Dated
  <2>10. \/ e.session \in audits
         \/ \E f \in ToSet(artifact[Latest(Dated)].carried) : f.session = e.session
    BY <2>3, <2>4 DEF NothingIsForgotten
  <2> QED
    BY <2>3, <2>7, <2>9, <2>10
<1>2. CASE AuditCandidates
  <2> DEFINE queue == Queue
             kept == Split(queue)
  <2>1. /\ once /\ breaks = 0 /\ dates' = dates /\ alias' = alias /\ review' = review /\ review > 0
        /\ audits' = audits \cup {f.session : f \in ToSet(kept.audited)}
    BY <1>2 DEF AuditCandidates, link
  <2>2. /\ review \in DOMAIN artifact /\ DOMAIN artifact' = DOMAIN artifact
        /\ artifact' = [artifact EXCEPT ![review] = Listing]
        /\ artifact'[review] = Listing
        /\ \A q \in DOMAIN artifact \ {review} : artifact'[q] = artifact[q]
    <3>1. review \in DOMAIN artifact
      BY <1>a, <2>1 DEF Shape
    <3>2. artifact' = [artifact EXCEPT ![review] = Listing]
      BY <1>2 DEF AuditCandidates, Listing
    <3> QED
      BY <3>1, <3>2
  <2>3. Increasing /\ Legible
    BY <2>1 DEF Clean
  <2>4. Dated' = Dated \cup {review}
    BY <2>2 DEF Dated, Listing
  <2>5. Latest(Dated)' = Latest(Dated \cup {review})
    BY <2>1, <2>4 DEF Latest, After
  <2>6. CASE review \in Dated
    <3>1. Readable(review)
      BY <2>2, <2>3, <2>6 DEF Dated, Clean, Legible, Readable
    <3>2. artifact[review] = Listing
      BY <2>1, <2>3, <3>1 DEF Settled
    <3>3. artifact' = artifact /\ Dated' = Dated /\ Latest(Dated)' = Latest(Dated)
      <4>1. Dated \cup {review} = Dated
        BY <2>6
      <4>2. artifact' = artifact
        BY <1>0, <2>2, <3>2
      <4>3. Latest(Dated \cup {review}) = Latest(Dated)
        BY <4>1
      <4> QED
        BY <2>4, <2>5, <4>1, <4>2, <4>3
    <3>4. \/ e.session \in audits
          \/ \E f \in ToSet(artifact[Latest(Dated)].carried) : f.session = e.session
      BY <2>1, <3>3 DEF NothingIsForgotten
    <3> QED
      BY <2>1, <3>3, <3>4
  <2>7. CASE review \notin Dated
    <3>1. Latest(Dated)' = review
      <4>1. Dated \cup {review} \in SUBSET DOMAIN dates /\ Dated \cup {review} # {}
        BY <1>a, <2>2 DEF Dated
      <4> DEFINE last == Latest(Dated \cup {review})
      <4>2. last \in Dated \cup {review} /\ review <= last
        BY <1>a, <2>3, <4>1, LatestIsLast
      <4>3. last \in 1 .. review /\ review \in Nat
        BY <1>a, <4>1, <4>2 DEF Shape
      <4> HIDE DEF last
      <4>4. last = review
        BY <4>2, <4>3
      <4> QED
        BY <2>5, <4>4 DEF last
    <3>2. artifact'[review].carried = kept.carried
      BY <2>2 DEF Listing
    <3>3. CASE r = review
      BY <3>1, <3>3
    <3>4. CASE r # review
      <4>1. r \in Dated /\ artifact'[r] = artifact[r] /\ Dated # {}
        BY <2>2, <2>4, <3>4 DEF Dated
      <4>2. CarriedOver = artifact[Latest(Dated)].carried
        BY <1>a, <2>1, <2>3, <2>7, <4>1, FirstReadsLast
      <4>3. CASE e.session \in audits
        BY <2>1, <4>3
      <4>4. CASE e.session \notin audits
        <5>1. PICK f \in ToSet(CarriedOver) : f.session = e.session
          BY <2>1, <4>1, <4>2, <4>4 DEF NothingIsForgotten
        <5>2. CarriedOver \in Seq(Entries) /\ summary \in Summaries
          BY <1>2, CarriedOverType DEF Held, Faithful, AuditCandidates
        <5>3. Selected(summary) \in Seq(Entries) /\ queue \in Seq(Entries)
          BY <5>2, QueueType DEF Queue
        <5>4. PICK j \in DOMAIN CarriedOver : f = CarriedOver[j]
          BY DEF ToSet
        <5>5. PICK i \in DOMAIN queue : queue[i].session = e.session
          <6>1. \A l \in DOMAIN CarriedOver : \E i \in DOMAIN Reinjected(CarriedOver, Selected(summary)) :
                  Reinjected(CarriedOver, Selected(summary))[i].session = CarriedOver[l].session
            BY <5>2, <5>3, ReinjectedType
          <6> QED
            BY <5>1, <5>4, <6>1 DEF Queue
        <5> HIDE DEF queue
        <5>6. queue[i] \in ToSet(kept.audited) \/ queue[i] \in ToSet(kept.carried)
          BY <5>3, QueueIsSplit
        <5> QED
          BY <2>1, <3>1, <3>2, <5>5, <5>6
      <4> QED
        BY <4>3, <4>4
    <3> QED
      BY <3>3, <3>4
  <2> QED
    BY <2>6, <2>7
<1>3. ASSUME NEW q \in DOMAIN artifact, Breaks(q) PROVE FALSE
  <2>1. breaks' = breaks + 1 /\ breaks \in Nat
    BY <1>3 DEF Breaks, Clean
  <2> QED
    BY <2>1
<1>4. CASE NoSummary \/ Rollback \/ UNCHANGED vars
  <2>1. UNCHANGED <<artifact, dates, once, breaks, audits>>
    BY <1>4 DEF NoSummary, Rollback, vars
  <2>2. Dated' = Dated /\ Dated # {} /\ Dated \subseteq DOMAIN dates
    BY <1>a, <2>1 DEF Dated
  <2>3. Latest(Dated)' = Latest(Dated)
    <3>1. Latest(Dated)' = CHOOSE q \in Dated' : \A p \in Dated' : After(q, p)'
      BY DEF Latest
    <3>2. Increasing /\ Increasing'
      BY <2>1 DEF Clean
    <3>3. (CHOOSE q \in Dated : \A p \in Dated : After(q, p)')
            = (CHOOSE q \in Dated : \A p \in Dated : After(q, p))
      BY <1>a, <2>1, <2>2, <3>2, LatestStays
    <3> QED
      BY <2>2, <3>1, <3>3 DEF Latest
  <2> QED
    BY <2>1, <2>2, <2>3 DEF NothingIsForgotten
<1> QED
  BY <1>1, <1>2, <1>3, <1>4 DEF Next

\* As long as each review has its own day and its artifacts are readable, a
\* session that one of them did not retain was audited since, or waits in the last
\* of the artifacts, which is the one that the next review reads.
THEOREM NothingGetsLost == Spec => []NothingIsForgotten
<1>1. Init => NothingIsForgotten
  <2> SUFFICES ASSUME Init PROVE NothingIsForgotten
    OBVIOUS
  <2>1. DOMAIN artifact = {}
    BY DEF Init
  <2> QED
    BY <2>1 DEF NothingIsForgotten, Dated
<1>2. Rerunnable /\ Rerunnable' /\ NothingIsForgotten /\ [Next]_vars => NothingIsForgotten'
  BY ForgottenStep DEF Rerunnable
<1> QED
  BY <1>1, <1>2, RerunnableAlways, PTL DEF Spec

=============================================================================
