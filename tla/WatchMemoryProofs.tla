------------------------- MODULE WatchMemoryProofs -------------------------
(***************************************************************************)
(* Proofs about WatchMemory, for any items, weeks and number of torn       *)
(* writes.  What a command acknowledged is in the reading of the file and  *)
(* in the reading without its last line (Durable); a validated entry is an *)
(* acknowledged one that no distill is about to write over (Validated).    *)
(***************************************************************************)
EXTENDS WatchMemory, FiniteSetTheorems, TLAPS

Control ==
  /\ week \in Nat
  /\ tail \in {"clean", "partial", "whole"}
  /\ pc \in {"idle", "distilling", "validating"}
  /\ pc = "idle" => DOMAIN todo = {}
  /\ pc = "validating" => \A i \in DOMAIN todo : todo[i].last \in Nat

Durable ==
  \A i \in DOMAIN acknowledged :
    /\ i \in DOMAIN memory /\ memory[i] = acknowledged[i]
    /\ i \in DOMAIN beneath /\ beneath[i] = acknowledged[i]

Validated ==
  \A i \in DOMAIN verdict :
    /\ i \in DOMAIN acknowledged /\ verdict[i] = acknowledged[i]
    /\ verdict[i].last \in Nat
    /\ pc = "distilling" => i \notin DOMAIN todo

IInv == Control /\ Durable /\ Validated

LEMMA EmptyDomain == DOMAIN Empty = {}
  BY DEF Empty

\* Validation lines carry the week of the review.
LEMMA EventWeek ==
  ASSUME NEW i, NEW status
  PROVE  Event(i, status).last = week
  <1>1. CASE i \notin DOMAIN memory  BY <1>1 DEF Event
  <1>2. CASE i \in DOMAIN memory     BY <1>2 DEF Event
  <1> QED BY <1>1, <1>2

LEMMA InitInv == Init => IInv
  BY EmptyDomain, BoundsAreNaturals DEF Init, IInv, Control, Durable, Validated

\* A line lands on a clean end, on a piece of a line, or on a line without
\* its newline.
LEMMA WriteLineInv ==
  ASSUME IInv, NEW i \in Items, WriteLine(i)
  PROVE  IInv'
  <1> USE DEF IInv
  <1>1. DOMAIN todo' = DOMAIN todo \ {i} /\ \A j \in DOMAIN todo' : todo'[j] = todo[j]
    <2>1. todo' = [j \in DOMAIN todo \ {i} |-> todo[j]]
      BY DEF WriteLine, Without
    <2> QED BY <2>1
  <1>2. pc # "idle" /\ UNCHANGED <<pc, week>> /\ i \in DOMAIN todo
    BY DEF WriteLine, Control
  <1>3. Control'
    BY <1>1, <1>2 DEF Control, WriteLine
  <1>4. CASE tail = "clean"
    <2>1. /\ memory' = Overridden(memory, i, todo[i]) /\ beneath' = memory'
          /\ acknowledged' = Overridden(acknowledged, i, todo[i])
          /\ verdict' = IF pc = "validating" THEN Overridden(verdict, i, todo[i]) ELSE verdict
      BY <1>4 DEF WriteLine
    <2>a. /\ DOMAIN memory' = DOMAIN memory \cup {i} /\ memory'[i] = todo[i]
          /\ \A j \in DOMAIN memory : j # i => memory'[j] = memory[j]
      BY <2>1 DEF Overridden
    <2>b. /\ DOMAIN acknowledged' = DOMAIN acknowledged \cup {i}
          /\ acknowledged'[i] = todo[i]
          /\ \A j \in DOMAIN acknowledged : j # i => acknowledged'[j] = acknowledged[j]
      BY <2>1 DEF Overridden
    <2>2. Durable'
      BY <2>1, <2>a, <2>b DEF Durable
    <2>3. CASE pc = "validating"
      <3>1. verdict' = Overridden(verdict, i, todo[i]) /\ todo[i].last \in Nat
        BY <2>1, <2>3, <1>2 DEF Control
      <3>2. /\ DOMAIN verdict' = DOMAIN verdict \cup {i} /\ verdict'[i] = todo[i]
            /\ \A j \in DOMAIN verdict : j # i => verdict'[j] = verdict[j]
        BY <3>1 DEF Overridden
      <3>3. Validated'
        BY <3>1, <3>2, <2>b, <2>3, <1>2 DEF Validated
      <3> QED BY <1>3, <2>2, <3>3
    <2>4. CASE pc = "distilling"
      <3>1. verdict' = verdict /\ i \notin DOMAIN verdict
        BY <2>1, <2>4, <1>2 DEF Validated
      <3>2. Validated'
        BY <3>1, <2>b, <1>1, <1>2 DEF Validated
      <3> QED BY <1>3, <2>2, <3>2
    <2> QED BY <2>3, <2>4, <1>2 DEF Control
  <1>5. CASE tail # "clean"
    <2>1. /\ memory' = memory \/ memory' = beneath
          /\ beneath' = memory' /\ acknowledged' = acknowledged /\ verdict' = verdict
      BY <1>5 DEF WriteLine, Control
    <2>2. Durable'
      BY <2>1 DEF Durable
    <2>3. Validated'
      BY <2>1, <1>1, <1>2 DEF Validated
    <2> QED BY <1>3, <2>2, <2>3
  <1> QED BY <1>4, <1>5

LEMMA TornCommandInv ==
  ASSUME IInv, NEW i \in Items, TornCommand(i)
  PROVE  IInv'
  <1> USE DEF IInv
  <1>1. DOMAIN todo' = {} /\ pc' \in {"idle", pc} /\ UNCHANGED week
    BY EmptyDomain DEF TornCommand, End
  <1>2. tail' \in {"partial", "whole"}
    BY DEF TornCommand, LineTears
  <1>3. Control'
    BY <1>1, <1>2 DEF Control
  <1>4. CASE /\ memory' = Overridden(memory, i, todo[i]) /\ beneath' = memory
             /\ acknowledged' = Without(acknowledged, {i})
             /\ verdict' = Without(verdict, {i})
    <2>a. /\ DOMAIN memory' = DOMAIN memory \cup {i}
          /\ \A j \in DOMAIN memory : j # i => memory'[j] = memory[j]
      BY <1>4 DEF Overridden
    <2>b. /\ DOMAIN acknowledged' = DOMAIN acknowledged \ {i}
          /\ \A j \in DOMAIN acknowledged' : acknowledged'[j] = acknowledged[j]
      BY <1>4 DEF Without
    <2>c. /\ DOMAIN verdict' = DOMAIN verdict \ {i}
          /\ \A j \in DOMAIN verdict' : verdict'[j] = verdict[j]
      BY <1>4 DEF Without
    <2>1. Durable'
      BY <1>4, <2>a, <2>b DEF Durable
    <2>2. Validated'
      BY <2>b, <2>c, <1>1 DEF Validated
    <2> QED BY <1>3, <2>1, <2>2
  <1>5. CASE /\ memory' \in {memory, beneath} /\ beneath' = memory'
             /\ UNCHANGED <<acknowledged, verdict>>
    <2>1. Durable'
      BY <1>5 DEF Durable
    <2>2. Validated'
      BY <1>5, <1>1 DEF Validated
    <2> QED BY <1>3, <2>1, <2>2
  <1> QED BY <1>4, <1>5 DEF TornCommand, LineTears

LEMMA DistillStartsInv == IInv /\ DistillStarts => IInv'
  <1> SUFFICES ASSUME IInv, DistillStarts PROVE IInv'
    OBVIOUS
  <1> USE DEF IInv
  <1>1. /\ verdict' = Without(verdict, Kept)
        /\ todo' = [j \in Kept |-> Snapshot(j)]
        /\ pc' = "distilling"
        /\ UNCHANGED <<week, memory, beneath, tail, acknowledged>>
    BY DEF DistillStarts, Begin, disk
  <1>2. DOMAIN todo' = Kept
    BY <1>1
  <1>3. Control'
    BY <1>1 DEF Control
  <1>4. Durable'
    BY <1>1 DEF Durable
  <1>5. Validated'
    <2>1. /\ DOMAIN verdict' = DOMAIN verdict \ Kept
          /\ \A j \in DOMAIN verdict' : verdict'[j] = verdict[j]
      BY <1>1 DEF Without
    <2> QED BY <1>1, <1>2, <2>1 DEF Validated
  <1> QED BY <1>3, <1>4, <1>5

LEMMA ValidateStartsInv == IInv /\ ValidateStarts => IInv'
  <1> SUFFICES ASSUME IInv, ValidateStarts PROVE IInv'
    OBVIOUS
  <1> USE DEF IInv
  <1>1. PICK r \in Rulings : Begin("validating", [i \in DOMAIN r |-> Event(i, r[i])])
    BY DEF ValidateStarts
  <1>2. /\ pc' = "validating"
        /\ UNCHANGED <<week, memory, beneath, tail, acknowledged, verdict>>
    BY <1>1 DEF Begin, disk, ValidateStarts
  <1>3. \A i \in DOMAIN todo' : todo'[i].last \in Nat
    BY <1>1, EventWeek DEF Begin, Control
  <1>4. Control'
    BY <1>2, <1>3 DEF Control
  <1>5. Durable' /\ Validated'
    BY <1>2 DEF Durable, Validated
  <1> QED BY <1>4, <1>5

LEMMA EndingInv ==
  ASSUME IInv, NEW how, End(how),
         UNCHANGED <<week, memory, beneath, tail, acknowledged, verdict>>
  PROVE  IInv'
  <1>1. DOMAIN todo' = {} /\ pc' = "idle"
    BY EmptyDomain DEF End
  <1> QED BY <1>1 DEF IInv, Control, Durable, Validated

LEMMA QuietInv ==
  ASSUME IInv, week' \in Nat,
         UNCHANGED <<memory, beneath, tail, acknowledged, verdict, pc, todo>>
  PROVE  IInv'
  BY DEF IInv, Control, Durable, Validated

LEMMA NextInv == IInv /\ [Next]_vars => IInv'
  <1> SUFFICES ASSUME IInv, [Next]_vars PROVE IInv'
    OBVIOUS
  <1>1. CASE ReviewStarts
    <2>1. week' \in Nat
      BY <1>1, BoundsAreNaturals DEF ReviewStarts, IInv, Control
    <2> QED BY <1>1, <2>1, QuietInv DEF ReviewStarts, disk, local
  <1>2. CASE DistillFallsBack
    BY <1>2, QuietInv DEF DistillFallsBack, disk, local, IInv, Control
  <1>3. CASE DistillStarts
    BY <1>3, DistillStartsInv
  <1>4. CASE DistillEnds
    BY <1>4, EndingInv DEF DistillEnds, disk
  <1>5. CASE ValidateRaises
    BY <1>5, QuietInv DEF ValidateRaises, disk, local, IInv, Control
  <1>a. CASE ValidateFails
    BY <1>a, QuietInv DEF ValidateFails, disk, local, IInv, Control
  <1>6. CASE ValidateStarts
    BY <1>6, ValidateStartsInv
  <1>7. CASE ValidateEnds
    BY <1>7, EndingInv DEF ValidateEnds, disk
  <1>8. CASE Appending
    BY <1>8, WriteLineInv, TornCommandInv DEF Appending
  <1>9. CASE Kill
    BY <1>9, EndingInv DEF Kill, disk
  <1>10. CASE UNCHANGED vars
    BY <1>10, QuietInv DEF vars, disk, local, IInv, Control
  <1> QED
    BY <1>1, <1>2, <1>3, <1>4, <1>5, <1>a, <1>6, <1>7, <1>8, <1>9, <1>10
       DEF Next, Distill, Validate

LEMMA Invariance == Spec => []IInv
  BY InitInv, NextInv, PTL DEF Spec

-----------------------------------------------------------------------------
\* Append-only: what was written in full on a clean end of file is read back,
\* whatever line is torn, glued to the next one or killed afterwards.
THEOREM LinesAreDurable == Spec => []AcknowledgedIsRead
  <1>1. IInv => AcknowledgedIsRead
    BY DEF IInv, Durable, AcknowledgedIsRead
  <1> QED BY <1>1, Invariance, PTL

\* An item a validation ignored is kept by a later distill only when its
\* signature changed or its entry is older than the retention.
THEOREM IgnoredItemsStayHidden == Spec => IgnoredStaysHidden
  <1> DEFINE Surfaces ==
        \A i \in DOMAIN verdict \ DOMAIN verdict' :
          pc = "idle" /\ LastStatus(verdict[i]) = "ignored" =>
            Changed(verdict[i], eco[i]) \/ week - verdict[i].last > Retention
  <1>1. IInv /\ [Next]_vars => Surfaces
    <2> SUFFICES ASSUME IInv, [Next]_vars,
                        NEW i \in DOMAIN verdict \ DOMAIN verdict', pc = "idle",
                        LastStatus(verdict[i]) = "ignored"
                 PROVE  Changed(verdict[i], eco[i]) \/ week - verdict[i].last > Retention
      BY DEF Surfaces
    <2>1. DOMAIN todo = {} /\ verdict' # verdict
      BY DEF IInv, Control
    <2>2. ~Appending
      BY <2>1 DEF Appending, WriteLine, TornCommand, LineTears
    <2>3. DistillStarts
      BY <2>1, <2>2 DEF Next, Distill, Validate, ReviewStarts, DistillFallsBack, DistillEnds,
         ValidateFails, ValidateRaises, ValidateStarts, ValidateEnds, Kill, vars
    <2>4. i \in Kept
      <3>1. verdict' = Without(verdict, Kept)
        BY <2>3 DEF DistillStarts
      <3> QED BY <3>1 DEF Without
    <2>5. i \in DOMAIN memory /\ memory[i] = verdict[i] /\ verdict[i].last \in Nat
      BY DEF IInv, Durable, Validated
    <2>6. ~Retained(verdict[i]) \/ Changed(verdict[i], eco[i])
      BY <2>4, <2>5 DEF Kept, Hidden
    <2>7. week \in Nat /\ Retention \in Nat
      BY BoundsAreNaturals DEF IInv, Control
    <2> QED BY <2>5, <2>6, <2>7 DEF Retained
  <1> QED BY <1>1, Invariance, PTL DEF Spec, IgnoredStaysHidden
-----------------------------------------------------------------------------
(* What a merge of histories has.                                          *)

LEMMA Least ==
  ASSUME NEW some, some \subseteq Nat, some # {}
  PROVE  \E x \in some : \A y \in some : x <= y
<1>1. PICK x \in some : \A y \in some : ~ (<<y, x>> \in OpToRel(<, Nat))
  BY WFMin, NatLessThanWellFounded
<1>2. ASSUME NEW y \in some PROVE x <= y
  <2>1. x \in Nat /\ y \in Nat /\ ~ (<<y, x>> \in OpToRel(<, Nat))
    BY <1>1
  <2> QED
    BY <2>1 DEF OpToRel
<1> QED
  BY <1>2

\* A set of numbers that has 0 and the successors of its members up to n has all
\* of them up to n.
LEMMA Inductively ==
  ASSUME NEW n \in Nat, NEW some, 0 \in some, \A k \in 0 .. n - 1 : k \in some => k + 1 \in some
  PROVE  \A k \in 0 .. n : k \in some
<1> DEFINE others == {k \in 0 .. n : k \notin some}
<1> SUFFICES ASSUME others # {} PROVE FALSE
  OBVIOUS
<1>0. others \subseteq Nat
  OBVIOUS
<1>1. PICK k \in others : \A j \in others : k <= j
  <2> HIDE DEF others
  <2> QED
    BY <1>0, Least
<1>2. k - 1 \in 0 .. n - 1 /\ k - 1 \notin others
  BY <1>1
<1> QED
  BY <1>1, <1>2

LEMMA Greatest ==
  ASSUME NEW n \in Nat, NEW some \in SUBSET (1 .. n), some # {}
  PROVE  Max(some) \in some /\ \A k \in some : Max(some) >= k
<1> DEFINE bounds == {b \in Nat : \A k \in some : k <= b}
<1>1. n \in bounds
  OBVIOUS
<1>2. PICK b \in bounds : \A c \in bounds : b <= c
  BY <1>1, Least
<1>3. b \in some
  <2> SUFFICES ASSUME b \notin some PROVE FALSE
    OBVIOUS
  <2>1. PICK k1 \in some : k1 \in 1 .. n /\ k1 <= b
    BY <1>2
  <2>2. b \in Nat /\ \A k \in some : k \in Nat /\ k # b /\ k <= b
    BY <1>2
  <2>3. b - 1 \in bounds
    BY <2>1, <2>2
  <2> QED
    BY <1>2, <2>2, <2>3
<1>4. \E x \in some : \A k \in some : x >= k
  BY <1>3
<1> QED
  BY <1>4 DEF Max

\* _merge_history, stamp by stamp.
More(h, s) == IF Contains(h, s) THEN h ELSE Append(h, s)
Folds(iter, all, D) ==
  iter = [d \in SUBSET D |-> IF d = {} THEN << >> ELSE More(iter[d \ {Max(d)}], all[Max(d)])]

LEMMA MergeFolds ==
  ASSUME NEW history, NEW stamp
  PROVE  LET all == Append(history, stamp) IN
         MergeHistory(history, stamp) = (CHOOSE iter : Folds(iter, all, DOMAIN all))[DOMAIN all]
  BY DEF MergeHistory, FoldLeft, MapThenFoldSet, Folds, More

LEMMA FoldExists ==
  ASSUME NEW n \in Nat, NEW all PROVE \E iter : Folds(iter, all, 1 .. n)
<1> DEFINE able == {k \in 0 .. n : \E iter : Folds(iter, all, 1 .. k)}
<1>1. 0 \in able
  <2>1. SUBSET (1 .. 0) = {{}}
    OBVIOUS
  <2>2. Folds([d \in {{}} |-> << >>], all, 1 .. 0)
    BY <2>1 DEF Folds
  <2> QED
    BY <2>2
<1>2. ASSUME NEW k \in 0 .. n - 1, k \in able PROVE k + 1 \in able
  <2>1. PICK f : Folds(f, all, 1 .. k)
    BY <1>2
  <2> DEFINE D == 1 .. k + 1
             g == [d \in SUBSET D |-> IF k + 1 \in d THEN More(f[d \ {k + 1}], all[k + 1]) ELSE f[d]]
  <2>2. ASSUME NEW d \in SUBSET D
        PROVE  g[d] = IF d = {} THEN << >> ELSE More(g[d \ {Max(d)}], all[Max(d)])
    <3>1. CASE k + 1 \in d
      <4>1. Max(d) \in d /\ Max(d) >= k + 1 /\ Max(d) \in D
        BY <3>1, Greatest, k + 1 \in Nat
      <4>2. Max(d) = k + 1
        BY <4>1
      <4>3. d \ {k + 1} \in SUBSET D /\ k + 1 \notin d \ {k + 1}
        OBVIOUS
      <4>4. g[d \ {k + 1}] = f[d \ {k + 1}] /\ g[d] = More(f[d \ {k + 1}], all[k + 1])
        BY <3>1, <4>3
      <4> HIDE DEF g
      <4> QED
        BY <3>1, <4>2, <4>4
    <3>2. CASE k + 1 \notin d
      <4>1. d \in SUBSET (1 .. k) /\ g[d] = f[d]
        BY <3>2
      <4>2. f[d] = IF d = {} THEN << >> ELSE More(f[d \ {Max(d)}], all[Max(d)])
        BY <2>1, <4>1 DEF Folds
      <4>3. d \ {Max(d)} \in SUBSET D /\ k + 1 \notin d \ {Max(d)}
        BY <3>2
      <4>4. g[d \ {Max(d)}] = f[d \ {Max(d)}]
        BY <4>3
      <4> HIDE DEF g
      <4> QED
        BY <4>1, <4>2, <4>4
    <3> QED
      BY <3>1, <3>2
  <2>3. Folds(g, all, D)
    <3>1. g = [d \in SUBSET D |-> g[d]]
      OBVIOUS
    <3> HIDE DEF g
    <3> QED
      BY <2>2, <3>1 DEF Folds
  <2>4. k + 1 \in 0 .. n
    OBVIOUS
  <2> HIDE DEF g
  <2> QED
    BY <2>3, <2>4
<1> HIDE DEF able
<1>3. n \in able
  BY <1>1, <1>2, Inductively
<1> QED
  BY <1>3 DEF able

LEMMA FoldSteps ==
  ASSUME NEW n \in Nat, NEW all
  PROVE  LET iter == CHOOSE iter : Folds(iter, all, 1 .. n) IN
         /\ iter[1 .. 0] = << >>
         /\ \A k \in 0 .. n - 1 : iter[1 .. k + 1] = More(iter[1 .. k], all[k + 1])
<1> DEFINE iter == CHOOSE iter : Folds(iter, all, 1 .. n)
<1>1. Folds(iter, all, 1 .. n)
  BY FoldExists
<1> HIDE DEF iter
<1>2. iter[1 .. 0] = << >>
  <2>1. 1 .. 0 = {} /\ 1 .. 0 \in SUBSET (1 .. n)
    OBVIOUS
  <2> QED
    BY <1>1, <2>1 DEF Folds
<1>3. ASSUME NEW k \in 0 .. n - 1 PROVE iter[1 .. k + 1] = More(iter[1 .. k], all[k + 1])
  <2> DEFINE d == 1 .. k + 1
  <2>1. d \in SUBSET (1 .. n) /\ d # {} /\ k + 1 \in d
    OBVIOUS
  <2>2. Max(d) \in d /\ Max(d) >= k + 1
    BY <2>1, Greatest
  <2>3. Max(d) = k + 1 /\ d \ {k + 1} = 1 .. k
    BY <2>2
  <2>4. iter[d] = More(iter[d \ {Max(d)}], all[Max(d)])
    <3> HIDE DEF d
    <3> QED
      BY <1>1, <2>1 DEF Folds
  <2> QED
    BY <2>3, <2>4
<1> QED
  BY <1>2, <1>3 DEF iter

Has(h, x) == \E j \in 1 .. Len(h) : h[j] = x
\* The merged history has the stamps of both, and no other.
LEMMA MergeHas ==
  ASSUME NEW S, NEW history \in Seq(S), NEW stamp \in S
  PROVE  /\ MergeHistory(history, stamp) \in Seq(S)
         /\ \A x : Has(MergeHistory(history, stamp), x) <=> Has(history, x) \/ x = stamp
<1> DEFINE all == Append(history, stamp)
           n == Len(history) + 1
           iter == CHOOSE iter : Folds(iter, all, 1 .. n)
<1>1. /\ all \in Seq(S) /\ DOMAIN all = 1 .. n /\ n \in Nat /\ all[n] = stamp
      /\ \A j \in 1 .. n - 1 : all[j] = history[j]
  OBVIOUS
<1>2. MergeHistory(history, stamp) = iter[1 .. n]
  BY <1>1, MergeFolds
<1>3. iter[1 .. 0] = << >> /\ \A k \in 0 .. n - 1 : iter[1 .. k + 1] = More(iter[1 .. k], all[k + 1])
  BY <1>1, FoldSteps
<1> HIDE DEF iter
<1> DEFINE known == {k \in 0 .. n : /\ iter[1 .. k] \in Seq(S)
                                    /\ \A x : Has(iter[1 .. k], x) <=> \E j \in 1 .. k : all[j] = x}
<1>4. 0 \in known
  <2>1. << >> \in Seq(S) /\ \A x : ~Has(<< >>, x)
    BY DEF Has
  <2>2. \A x : ~\E j \in 1 .. 0 : all[j] = x
    OBVIOUS
  <2>3. iter[1 .. 0] \in Seq(S) /\ \A x : Has(iter[1 .. 0], x) <=> \E j \in 1 .. 0 : all[j] = x
    <3> HIDE DEF all
    <3> QED
      BY <1>3, <2>1, <2>2
  <2> QED
    BY <2>3
<1>5. ASSUME NEW k \in 0 .. n - 1, k \in known PROVE k + 1 \in known
  <2> DEFINE h == iter[1 .. k]
             h1 == iter[1 .. k + 1]
  <2>1. h \in Seq(S) /\ all[k + 1] \in S /\ h1 = More(h, all[k + 1])
    BY <1>1, <1>3, <1>5
  <2>2. \A x : Has(h, x) <=> \E j \in 1 .. k : all[j] = x
    BY <1>5
  <2> HIDE DEF h, h1, all
  <2>3. h1 \in Seq(S) /\ \A x : Has(h1, x) <=> Has(h, x) \/ x = all[k + 1]
    <3>1. CASE Contains(h, all[k + 1])
      BY <2>1, <3>1 DEF More, Has, Contains
    <3>2. CASE ~Contains(h, all[k + 1])
      <4>1. h1 = Append(h, all[k + 1])
        BY <2>1, <3>2 DEF More
      <4>2. /\ h1 \in Seq(S) /\ Len(h1) = Len(h) + 1 /\ h1[Len(h) + 1] = all[k + 1]
            /\ Len(h) \in Nat /\ \A j \in 1 .. Len(h) : h1[j] = h[j]
        BY <2>1, <4>1
      <4> QED
        BY <4>2 DEF Has
    <3> QED
      BY <3>1, <3>2
  <2>4. ASSUME NEW x PROVE Has(h1, x) <=> \E j \in 1 .. k + 1 : all[j] = x
    BY <2>2, <2>3
  <2>5. k + 1 \in 0 .. n
    OBVIOUS
  <2> QED
    BY <2>3, <2>4, <2>5 DEF h1
<1> HIDE DEF known
<1>6. n \in known
  BY <1>1, <1>4, <1>5, Inductively
<1>7. \A x : Has(iter[1 .. n], x) <=> \E j \in 1 .. n : all[j] = x
  BY <1>6 DEF known
<1>8. ASSUME NEW x PROVE (\E j \in 1 .. n : all[j] = x) <=> Has(history, x) \/ x = stamp
  <2> HIDE DEF all
  <2> QED
    BY <1>1 DEF Has
<1> QED
  BY <1>2, <1>6, <1>7, <1>8 DEF known

LEMMA WeeksOfMerge ==
  ASSUME NEW S, NEW history \in Seq(S), NEW stamp \in S, NEW e, e.history = MergeHistory(history, stamp),
         NEW old, old.history = history
  PROVE  e.history \in Seq(S) /\ Len(e.history) > 0 /\ WeeksSeen(e) = WeeksSeen(old) \cup {stamp.week}
<1>1. e.history \in Seq(S) /\ \A x : Has(e.history, x) <=> Has(history, x) \/ x = stamp
  BY MergeHas
<1>2. Len(e.history) > 0
  <2>1. Has(e.history, stamp)
    BY <1>1
  <2> QED
    BY <1>1, <2>1 DEF Has
<1>3. ASSUME NEW h, NEW x, x.history = h
      PROVE  \A w : w \in WeeksSeen(x) <=> \E t : Has(h, t) /\ t.week = w
  BY <1>3 DEF WeeksSeen, Has
<1>4. \A w : w \in WeeksSeen(e) <=> w \in WeeksSeen(old) \/ w = stamp.week
  BY <1>1, <1>3
<1> QED
  BY <1>1, <1>2, <1>4

-----------------------------------------------------------------------------
(* Weeks and occurrences.                                                  *)

Stamps == [week : Nat, status : Statuses]
\* An entry of a week that is not to come, last seen in one of its weeks.
Counts(e, now) ==
  /\ e.history \in Seq(Stamps) /\ Len(e.history) > 0
  /\ e.occurrences \in Nat /\ e.last \in Nat
  /\ e.last <= now /\ e.last \in WeeksSeen(e)
  /\ Cardinality(WeeksSeen(e)) <= e.occurrences
Counting ==
  \A f \in {memory, beneath, todo} : \A i \in DOMAIN f : Counts(f[i], week)

LEMMA WeeksAreFinite ==
  ASSUME NEW e, e.history \in Seq(Stamps)
  PROVE  IsFiniteSet(WeeksSeen(e)) /\ Cardinality(WeeksSeen(e)) \in Nat
<1> DEFINE D == 1 .. Len(e.history)
           f == [k \in D |-> e.history[k].week]
<1>1. IsFiniteSet(D)
  BY FS_Interval
<1>2. f \in Surjection(D, WeeksSeen(e))
  BY DEF Surjection, WeeksSeen
<1> HIDE DEF f, D
<1> QED
  BY <1>1, <1>2, FS_Surjection, FS_CardinalityType

\* An entry of one line.
LEMMA FirstCounts ==
  ASSUME NEW e, NEW status \in Statuses, week \in Nat, e.history = <<Stamp(status)>>, e.last = week,
         e.occurrences = 1
  PROVE  Counts(e, week)
<1>1. Stamp(status) \in Stamps /\ Stamp(status).week = week
  BY DEF Stamp, Stamps
<1>2. e.history \in Seq(Stamps) /\ Len(e.history) = 1 /\ e.history[1] = Stamp(status)
  BY <1>1
<1>3. WeeksSeen(e) = {week}
  BY <1>1, <1>2 DEF WeeksSeen
<1>4. Cardinality({week}) = 1
  BY FS_Singleton
<1> QED
  BY <1>2, <1>3, <1>4 DEF Counts

\* An entry with a week more than another has.
LEMMA LaterCounts ==
  ASSUME NEW e, NEW old, week \in Nat, Counts(old, week),
         e.history \in Seq(Stamps), Len(e.history) > 0,
         WeeksSeen(e) = WeeksSeen(old) \cup {week},
         e.last = IF week > old.last THEN week ELSE old.last,
         \/ e.occurrences = old.occurrences + 1
         \/ old.last = week /\ e.occurrences = old.occurrences
  PROVE  Counts(e, week)
<1>1. IsFiniteSet(WeeksSeen(old)) /\ Cardinality(WeeksSeen(old)) \in Nat
  BY WeeksAreFinite DEF Counts
<1>2. Cardinality(WeeksSeen(e)) =
        IF week \in WeeksSeen(old) THEN Cardinality(WeeksSeen(old)) ELSE Cardinality(WeeksSeen(old)) + 1
  BY <1>1, FS_AddElement
<1>3. e.last = week
  BY DEF Counts
<1>4. Cardinality(WeeksSeen(e)) <= e.occurrences
  BY <1>1, <1>2 DEF Counts
<1> QED
  BY <1>3, <1>4 DEF Counts

LEMMA SnapshotCounts ==
  ASSUME Control, Counting, NEW i PROVE Counts(Snapshot(i), week)
<1> DEFINE e == Snapshot(i)
           old == memory[i]
<1>1. week \in Nat /\ "seen" \in Statuses
  BY DEF Control, Statuses
<1>2. CASE i \notin DOMAIN memory
  <2>1. e.history = <<Stamp("seen")>> /\ e.last = week /\ e.occurrences = 1
    BY <1>2 DEF Snapshot
  <2> HIDE DEF e
  <2>2. Counts(e, week)
    BY <1>1, <2>1, FirstCounts
  <2> QED
    BY <2>2 DEF e
<1>3. CASE i \in DOMAIN memory
  <2>1. Counts(old, week)
    BY <1>3 DEF Counting
  <2>2. /\ e.last = IF week > old.last THEN week ELSE old.last
        /\ e.occurrences = IF week > old.last THEN old.occurrences + 1 ELSE old.occurrences
        /\ e.history = MergeHistory(old.history, Stamp("seen"))
    BY <1>3 DEF Snapshot
  <2> HIDE DEF e, old
  <2>3. Stamp("seen") \in Stamps /\ Stamp("seen").week = week
    BY <1>1 DEF Stamp, Stamps
  <2>4. /\ e.history \in Seq(Stamps) /\ Len(e.history) > 0
        /\ WeeksSeen(e) = WeeksSeen(old) \cup {week}
    BY <2>1, <2>2, <2>3, WeeksOfMerge DEF Counts
  <2>5. e.occurrences = old.occurrences + 1 \/ (old.last = week /\ e.occurrences = old.occurrences)
    BY <1>1, <2>1, <2>2 DEF Counts
  <2>6. Counts(e, week)
    BY <1>1, <2>1, <2>2, <2>4, <2>5, LaterCounts
  <2> QED
    BY <2>6 DEF e
<1> QED
  BY <1>2, <1>3

LEMMA EventCounts ==
  ASSUME Control, Counting, NEW i, NEW status \in Statuses PROVE Counts(Event(i, status), week)
<1> DEFINE e == Event(i, status)
           old == memory[i]
<1>1. week \in Nat
  BY DEF Control
<1>2. CASE i \notin DOMAIN memory
  <2>1. e.history = <<Stamp(status)>> /\ e.last = week /\ e.occurrences = 1
    BY <1>2 DEF Event
  <2> HIDE DEF e
  <2>2. Counts(e, week)
    BY <1>1, <2>1, FirstCounts
  <2> QED
    BY <2>2 DEF e
<1>3. CASE i \in DOMAIN memory
  <2>1. Counts(old, week)
    BY <1>3 DEF Counting
  <2>2. /\ e.last = week /\ e.occurrences = old.occurrences + 1
        /\ e.history = IF old.history[Len(old.history)] = Stamp(status) THEN old.history
                       ELSE Append(old.history, Stamp(status))
    BY <1>3 DEF Event
  <2> HIDE DEF e, old
  <2>3. Stamp(status) \in Stamps /\ Stamp(status).week = week
    BY <1>1 DEF Stamp, Stamps
  <2>4. /\ e.history \in Seq(Stamps) /\ Len(e.history) > 0
        /\ WeeksSeen(e) = WeeksSeen(old) \cup {week}
    <3>1. old.history \in Seq(Stamps) /\ Len(old.history) > 0
      BY <2>1 DEF Counts
    <3>2. CASE old.history[Len(old.history)] = Stamp(status)
      BY <2>2, <2>3, <3>1, <3>2 DEF WeeksSeen
    <3>3. CASE old.history[Len(old.history)] # Stamp(status)
      <4>1. e.history = Append(old.history, Stamp(status))
        BY <2>2, <3>3
      <4>2. /\ e.history \in Seq(Stamps) /\ Len(e.history) = Len(old.history) + 1
            /\ e.history[Len(old.history) + 1] = Stamp(status)
            /\ \A k \in 1 .. Len(old.history) : e.history[k] = old.history[k]
        BY <2>3, <3>1, <4>1
      <4>3. 1 .. Len(e.history) = (1 .. Len(old.history)) \cup {Len(old.history) + 1}
        BY <3>1, <4>2
      <4>4. WeeksSeen(e) = {e.history[k].week : k \in 1 .. Len(old.history)} \cup {week}
        BY <2>3, <4>2, <4>3 DEF WeeksSeen
      <4>5. {e.history[k].week : k \in 1 .. Len(old.history)} = WeeksSeen(old)
        BY <4>2 DEF WeeksSeen
      <4>6. Len(e.history) > 0
        BY <3>1, <4>2
      <4> QED
        BY <4>2, <4>4, <4>5, <4>6
    <3> QED
      BY <3>2, <3>3
  <2>5. e.last = IF week > old.last THEN week ELSE old.last
    BY <1>1, <2>1, <2>2 DEF Counts
  <2>6. Counts(e, week)
    BY <1>1, <2>1, <2>2, <2>4, <2>5, LaterCounts
  <2> QED
    BY <2>6 DEF e
<1> QED
  BY <1>2, <1>3

LEMMA CountingInit == Init => Counting
  BY EmptyDomain DEF Init, Counting

\* What is read and what is to be written comes from what was.
LEMMA CountingKept ==
  ASSUME Counting, week' = week,
         \A f \in {memory', beneath', todo'} : \A i \in DOMAIN f :
           \E g \in {memory, beneath, todo} : \E j \in DOMAIN g : f[i] = g[j]
  PROVE  Counting'
  BY DEF Counting

LEMMA AppendingCounts ==
  ASSUME Control, Counting, NEW i \in Items, WriteLine(i) \/ TornCommand(i)
  PROVE  Counting'
<1> DEFINE From(f) == \A j \in DOMAIN f : \E g \in {memory, beneath, todo} : \E k \in DOMAIN g : f[j] = g[k]
<1>1. i \in DOMAIN todo /\ week' = week
  BY DEF WriteLine, TornCommand, LineTears
<1>2. From(memory) /\ From(beneath) /\ From(todo) /\ From(Empty)
  BY EmptyDomain
<1>3. From(Overridden(memory, i, todo[i])) /\ From(Without(todo, {i}))
  <2>1. /\ DOMAIN Overridden(memory, i, todo[i]) = DOMAIN memory \cup {i}
        /\ Overridden(memory, i, todo[i])[i] = todo[i]
        /\ \A j \in DOMAIN memory : j # i => Overridden(memory, i, todo[i])[j] = memory[j]
    BY DEF Overridden
  <2>2. /\ DOMAIN Without(todo, {i}) = DOMAIN todo \ {i}
        /\ \A j \in DOMAIN Without(todo, {i}) : Without(todo, {i})[j] = todo[j]
    BY DEF Without
  <2> QED
    BY <1>1, <2>1, <2>2
<1> HIDE DEF From
<1>4. From(memory') /\ From(beneath') /\ From(todo')
  <2>1. CASE WriteLine(i)
    <3>1. memory' \in {Overridden(memory, i, todo[i]), memory, beneath}
      BY <2>1 DEF WriteLine, Control
    <3> QED
      BY <1>2, <1>3, <2>1, <3>1 DEF WriteLine
  <2>2. CASE TornCommand(i)
    BY <1>2, <1>3, <2>2 DEF TornCommand, LineTears, End
  <2> QED
    BY <2>1, <2>2
<1> QED
  BY <1>1, <1>4, CountingKept DEF From

LEMMA CountingStep == IInv /\ Counting /\ [Next]_vars => Counting'
<1> SUFFICES ASSUME IInv, Counting, [Next]_vars PROVE Counting'
  OBVIOUS
<1>1. Control
  BY DEF IInv
<1>2. ASSUME week' = week, UNCHANGED <<memory, beneath>>, todo' \in {todo, Empty} PROVE Counting'
  BY <1>2, EmptyDomain, CountingKept
<1>3. CASE ReviewStarts
  <2>1. week \in Nat /\ week' \in Nat /\ week' >= week /\ UNCHANGED <<memory, beneath, todo>>
    BY <1>1, <1>3, BoundsAreNaturals DEF Control, ReviewStarts, disk, local
  <2>2. ASSUME NEW e, Counts(e, week) PROVE Counts(e, week')
    BY <2>1, <2>2 DEF Counts
  <2> QED
    BY <2>1, <2>2 DEF Counting
<1>4. CASE DistillFallsBack \/ ValidateFails \/ ValidateRaises \/ UNCHANGED vars
  BY <1>2, <1>4 DEF DistillFallsBack, ValidateFails, ValidateRaises, vars, disk, local
<1>5. CASE DistillEnds \/ ValidateEnds \/ Kill
  BY <1>2, <1>5 DEF DistillEnds, ValidateEnds, Kill, End, disk
<1>6. CASE DistillStarts
  <2>1. todo' = [i \in Kept |-> Snapshot(i)] /\ UNCHANGED <<week, memory, beneath>>
    BY <1>6 DEF DistillStarts, Begin, disk
  <2> QED
    BY <1>1, <2>1, SnapshotCounts DEF Counting
<1>7. CASE ValidateStarts
  <2>1. PICK r \in Rulings : Begin("validating", [i \in DOMAIN r |-> Event(i, r[i])])
    BY <1>7 DEF ValidateStarts
  <2>2. \A i \in DOMAIN r : r[i] \in Statuses
    BY DEF Rulings, Partial
  <2>3. todo' = [i \in DOMAIN r |-> Event(i, r[i])] /\ UNCHANGED <<week, memory, beneath>>
    BY <2>1 DEF Begin, disk
  <2> QED
    BY <1>1, <2>2, <2>3, EventCounts DEF Counting
<1>8. CASE Appending
  BY <1>1, <1>8, AppendingCounts DEF Appending
<1> QED
  BY <1>3, <1>4, <1>5, <1>6, <1>7, <1>8 DEF Next, Distill, Validate

\* However commands are torn, killed, retried and repeated in a week, an entry
\* counts at least as many occurrences as the weeks its history names.
THEOREM RecurrencesAreNotMissed == Spec => []RecurrencesAreCounted
<1>1. Counting => RecurrencesAreCounted
  BY DEF Counting, Counts, RecurrencesAreCounted
<1> QED
  BY <1>1, CountingInit, CountingStep, Invariance, PTL DEF Spec
=============================================================================
