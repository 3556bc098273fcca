----------------------------- MODULE LockProofs -----------------------------
(***************************************************************************)
(* The proof, for every set of clients and every size of the pool, that    *)
(* stages and corrections never deadlock among themselves, and that of the *)
(* transactions a deadlock aborts none is a handler's: whoever waits in a  *)
(* cycle waits for a lock that another of the cycle holds, so a handler's  *)
(* partner would have to hold a row it has not come to yet.                *)
(***************************************************************************)
EXTENDS RowLocks, TLAPS

\* The order in which the ordered transactions lock rows.  The row of the one
\* correction that runs is outside of it: only its own request locks it.
Rank == [validation |-> 1, document |-> 2, extraction |-> 3,
         normalization |-> 4, decision |-> 5]

\* Every lock held was asked for.
HeldInPlan ==
  \A c \in Clients : \A l \in held[c] :
    \E i \in 1 .. asked[c] : l = Plan[kind[c]][i]

\* Only an open transaction has a kind and locks.
OpenHasPlan ==
  \A c \in Clients : phase[c] # "open" => kind[c] = "Read" /\ asked[c] = 0

OneCorrection ==
  \A c, d \in Clients :
    kind[c] \in OfTheCorrection /\ kind[d] \in OfTheCorrection => c = d

\* Every lock asked for is held, unless its row was passed over.
AskedIsHeld ==
  \A c \in Clients : \A i \in 1 .. asked[c] :
    Plan[kind[c]][i].skip \/ Plan[kind[c]][i] \in held[c]

\* No two clients hold locks that conflict.
NoConflict ==
  \A c, d \in Clients : \A l \in held[c], m \in held[d] :
    c # d /\ l.row = m.row => ~Conflict(l.mode, m.mode)

LockInv ==
  /\ TypeOK /\ HeldInPlan /\ OpenHasPlan /\ OneCorrection
  /\ AskedIsHeld /\ NoConflict

-----------------------------------------------------------------------------

\* No entry of a plan is anything but a lock.
LEMMA PlansAreLocks == ASSUME NEW k \in Kinds PROVE Plan[k] \in Seq(Locks)
<1> USE DEF Locks, Rows, Modes, References, Updates, ForUpdate, SkipLocked
<1>1. /\ BeginExtraction \in Seq(Locks)
      /\ CompleteExtraction \in Seq(Locks)
      /\ FailExtraction \in Seq(Locks)
      /\ BeginNormalization \in Seq(Locks)
      /\ CompleteNormalization \in Seq(Locks)
      /\ FailNormalization \in Seq(Locks)
  BY DEF
     BeginExtraction, CompleteExtraction, FailExtraction,
     BeginNormalization, CompleteNormalization, FailNormalization
<1>2. /\ BeginValidation \in Seq(Locks)
      /\ CompleteValidation \in Seq(Locks)
      /\ FailValidation \in Seq(Locks)
      /\ BeginDecision \in Seq(Locks)
      /\ CompleteDecision \in Seq(Locks)
      /\ FailDecision \in Seq(Locks)
  BY DEF
     BeginValidation, CompleteValidation, FailValidation, BeginDecision,
     CompleteDecision, FailDecision
<1>3. /\ SubmitReview \in Seq(Locks)
      /\ BeginCorrection \in Seq(Locks)
      /\ ProjectCorrection \in Seq(Locks)
      /\ RecordValidation \in Seq(Locks)
      /\ FinalizeCorrection \in Seq(Locks)
      /\ FailCorrection \in Seq(Locks)
  BY DEF
     SubmitReview, BeginCorrection, ProjectCorrection, RecordValidation,
     FinalizeCorrection, FailCorrection
<1>4. /\ DeleteDocument \in Seq(Locks)
      /\ Recover \in Seq(Locks)
      /\ Read \in Seq(Locks)
  BY DEF
     DeleteDocument, Recover, Read
<1> HIDE DEF Locks
<1>5. \A x \in Kinds :
        x \in {"BeginExtraction", "CompleteExtraction", "FailExtraction",
              "BeginNormalization", "CompleteNormalization", "FailNormalization"}
        => Plan[x] \in Seq(Locks)
  BY <1>1 DEF Kinds, Plan
<1>6. \A x \in Kinds :
        x \in {"BeginValidation", "CompleteValidation", "FailValidation",
              "BeginDecision", "CompleteDecision", "FailDecision"}
        => Plan[x] \in Seq(Locks)
  BY <1>2 DEF Kinds, Plan
<1>7. \A x \in Kinds :
        x \in {"SubmitReview", "BeginCorrection", "ProjectCorrection",
              "RecordValidation", "FinalizeCorrection", "FailCorrection"}
        => Plan[x] \in Seq(Locks)
  BY <1>3 DEF Kinds, Plan
<1>8. \A x \in Kinds :
        x \in {"DeleteDocument", "Recover", "Read"} => Plan[x] \in Seq(Locks)
  BY <1>4 DEF Kinds, Plan
<1>9. Kinds = {"BeginExtraction", "CompleteExtraction", "FailExtraction",
                "BeginNormalization", "CompleteNormalization", "FailNormalization"}
              \cup {"BeginValidation", "CompleteValidation", "FailValidation",
                    "BeginDecision", "CompleteDecision", "FailDecision"}
              \cup {"SubmitReview", "BeginCorrection", "ProjectCorrection",
                    "RecordValidation", "FinalizeCorrection", "FailCorrection"}
              \cup {"DeleteDocument", "Recover", "Read"}
  BY DEF Kinds, Plan
<1> HIDE DEF Plan, Kinds
<1> QED
  BY <1>5, <1>6, <1>7, <1>8, <1>9

\* The rows of the ordered transactions that lock more than one.
LEMMA PlanRows ==
  /\ Len(CompleteExtraction) = 2
  /\ CompleteExtraction[1].row = "document"
  /\ CompleteExtraction[2].row = "extraction"
  /\ Len(FailExtraction) = 2
  /\ FailExtraction[1].row = "document"
  /\ FailExtraction[2].row = "extraction"
  /\ Len(BeginDecision) = 2
  /\ BeginDecision[1].row = "validation"
  /\ BeginDecision[2].row = "document"
  /\ Len(CompleteDecision) = 3
  /\ CompleteDecision[1].row = "validation"
  /\ CompleteDecision[2].row = "document"
  /\ CompleteDecision[3].row = "decision"
  /\ Len(BeginCorrection) = 3
  /\ BeginCorrection[1].row = "document"
  /\ BeginCorrection[2].row = "normalization"
  /\ BeginCorrection[3].row = "decision"
  /\ Len(ProjectCorrection) = 2
  /\ ProjectCorrection[1].row = "extraction"
  /\ ProjectCorrection[2].row = "correction"
  /\ Len(RecordValidation) = 2
  /\ RecordValidation[1].row = "correction"
  /\ RecordValidation[2].row = "validation"
  /\ Len(FinalizeCorrection) = 3
  /\ FinalizeCorrection[1].row = "document"
  /\ FinalizeCorrection[2].row = "correction"
  /\ FinalizeCorrection[3].row = "decision"
  BY DEF References, Updates, ForUpdate,
     CompleteExtraction, FailExtraction, BeginDecision, CompleteDecision,
     BeginCorrection, ProjectCorrection, RecordValidation,
     FinalizeCorrection

\* The rows of those that lock one, or none.
LEMMA SingleRows ==
  ASSUME NEW k \in Kinds \ Unordered,
         k \notin {"CompleteExtraction", "FailExtraction", "BeginDecision",
                   "CompleteDecision", "BeginCorrection",
                   "ProjectCorrection", "RecordValidation",
                   "FinalizeCorrection"}
  PROVE  /\ Len(Plan[k]) \in 0 .. 1
         /\ \A i \in 1 .. Len(Plan[k]) :
              Plan[k][i].row = "correction" => k = "FailCorrection"
<1>1. /\ Plan["BeginExtraction"] = BeginExtraction
      /\ Plan["BeginNormalization"] = BeginNormalization
      /\ Plan["CompleteNormalization"] = CompleteNormalization
      /\ Plan["FailNormalization"] = FailNormalization
      /\ Plan["BeginValidation"] = BeginValidation
      /\ Plan["CompleteValidation"] = CompleteValidation
      /\ Plan["FailValidation"] = FailValidation
      /\ Plan["FailDecision"] = FailDecision
      /\ Plan["FailCorrection"] = FailCorrection
      /\ Plan["Read"] = Read
  BY DEF Plan
<1>2. /\ Len(BeginExtraction) = 1 /\ BeginExtraction[1].row # "correction"
      /\ Len(BeginNormalization) = 1 /\ BeginNormalization[1].row # "correction"
      /\ Len(CompleteNormalization) = 1 /\ CompleteNormalization[1].row # "correction"
      /\ Len(FailNormalization) = 1 /\ FailNormalization[1].row # "correction"
      /\ Len(BeginValidation) = 1 /\ BeginValidation[1].row # "correction"
      /\ Len(CompleteValidation) = 1 /\ CompleteValidation[1].row # "correction"
      /\ Len(FailValidation) = 1 /\ FailValidation[1].row # "correction"
      /\ Len(FailDecision) = 1 /\ FailDecision[1].row # "correction"
      /\ Len(FailCorrection) = 1 /\ Len(Read) = 0
  BY DEF Updates, ForUpdate, BeginExtraction, BeginNormalization,
     CompleteNormalization, FailNormalization, BeginValidation, CompleteValidation,
     FailValidation, FailDecision, FailCorrection, Read
<1> QED
  BY <1>1, <1>2 DEF Kinds, Plan, Unordered

\* An ordered transaction takes its shared rows in the order of their ranks.
LEMMA PlansAscend ==
  ASSUME NEW k \in Kinds \ Unordered,
         NEW j \in 1 .. Len(Plan[k]), NEW i \in 1 .. j - 1,
         Plan[k][i].row # "correction", Plan[k][j].row # "correction"
  PROVE  Rank[Plan[k][i].row] < Rank[Plan[k][j].row]
<1>1. CASE k = "CompleteExtraction"
  <2>1. Plan[k] = CompleteExtraction
    BY <1>1 DEF Plan
  <2> QED
    BY <2>1, PlanRows DEF Rank
<1>2. CASE k = "FailExtraction"
  <2>1. Plan[k] = FailExtraction
    BY <1>2 DEF Plan
  <2> QED
    BY <2>1, PlanRows DEF Rank
<1>3. CASE k = "BeginDecision"
  <2>1. Plan[k] = BeginDecision
    BY <1>3 DEF Plan
  <2> QED
    BY <2>1, PlanRows DEF Rank
<1>4. CASE k = "CompleteDecision"
  <2>1. Plan[k] = CompleteDecision
    BY <1>4 DEF Plan
  <2> QED
    BY <2>1, PlanRows DEF Rank
<1>5. CASE k = "BeginCorrection"
  <2>1. Plan[k] = BeginCorrection
    BY <1>5 DEF Plan
  <2> QED
    BY <2>1, PlanRows DEF Rank
<1>6. CASE k = "ProjectCorrection"
  <2>1. Plan[k] = ProjectCorrection
    BY <1>6 DEF Plan
  <2> QED
    BY <2>1, PlanRows DEF Rank
<1>7. CASE k = "RecordValidation"
  <2>1. Plan[k] = RecordValidation
    BY <1>7 DEF Plan
  <2> QED
    BY <2>1, PlanRows DEF Rank
<1>8. CASE k = "FinalizeCorrection"
  <2>1. Plan[k] = FinalizeCorrection
    BY <1>8 DEF Plan
  <2> QED
    BY <2>1, PlanRows DEF Rank
<1> QED
  BY SingleRows, <1>1, <1>2, <1>3, <1>4, <1>5, <1>6, <1>7, <1>8

\* Of the ordered transactions only the correction's own lock its row.
LEMMA CorrectionRowIsOwn ==
  ASSUME NEW k \in Kinds \ Unordered, NEW i \in 1 .. Len(Plan[k]),
         Plan[k][i].row = "correction"
  PROVE  k \in OfTheCorrection
<1>1. CASE k = "CompleteExtraction"
  <2>1. Plan[k] = CompleteExtraction
    BY <1>1 DEF Plan
  <2> QED
    BY <2>1, PlanRows
<1>2. CASE k = "FailExtraction"
  <2>1. Plan[k] = FailExtraction
    BY <1>2 DEF Plan
  <2> QED
    BY <2>1, PlanRows
<1>3. CASE k = "BeginDecision"
  <2>1. Plan[k] = BeginDecision
    BY <1>3 DEF Plan
  <2> QED
    BY <2>1, PlanRows
<1>4. CASE k = "CompleteDecision"
  <2>1. Plan[k] = CompleteDecision
    BY <1>4 DEF Plan
  <2> QED
    BY <2>1, PlanRows
<1>5. CASE k = "BeginCorrection"
  <2>1. Plan[k] = BeginCorrection
    BY <1>5 DEF Plan
  <2> QED
    BY <2>1, PlanRows
<1> QED
  BY SingleRows, <1>1, <1>2, <1>3, <1>4, <1>5 DEF OfTheCorrection

\* A shared row an ordered transaction holds ranks below the one it asks for.
LEMMA HeldRanksBelow ==
  ASSUME LockInv, NEW d \in Clients, kind[d] \notin Unordered, Asking(d),
         NEW l \in held[d], l.row # "correction", Wanted(d).row # "correction"
  PROVE  Rank[l.row] < Rank[Wanted(d).row]
<1>1. PICK i \in 1 .. asked[d] : l = Plan[kind[d]][i]
  BY DEF LockInv, HeldInPlan
<1>2. /\ kind[d] \in Kinds \ Unordered
      /\ asked[d] \in Nat
      /\ asked[d] + 1 \in 1 .. Len(Plan[kind[d]])
  BY PlansAreLocks DEF LockInv, TypeOK, Asking
<1>3. i \in 1 .. (asked[d] + 1) - 1
  BY <1>1, <1>2
<1> QED
  BY <1>1, <1>2, <1>3, PlansAscend DEF Wanted

\* Who blocks an ordered transaction and is ordered itself shares a row with
\* it that belongs to the document, not to a correction.
LEMMA BlockedAtSharedRow ==
  ASSUME LockInv, NEW c \in Clients, NEW d \in Clients,
         kind[c] \notin Unordered, kind[d] \notin Unordered, Blocks(d, c)
  PROVE  /\ Wanted(c).row \in DOMAIN Rank
         /\ \E l \in held[d] : l.row = Wanted(c).row
<1>1. PICK l \in held[d] : l.row = Wanted(c).row
  BY DEF Blocks
<1>2. PICK i \in 1 .. asked[d] : l = Plan[kind[d]][i]
  BY DEF LockInv, HeldInPlan
<1>3. /\ kind[d] \in Kinds \ Unordered
      /\ i \in 1 .. Len(Plan[kind[d]])
  BY <1>2, PlansAreLocks DEF LockInv, TypeOK
<1>4. /\ kind[c] \in Kinds \ Unordered
      /\ asked[c] + 1 \in 1 .. Len(Plan[kind[c]])
  BY PlansAreLocks DEF LockInv, TypeOK, Asking, Blocks
<1>5. Wanted(c).row # "correction"
  <2> SUFFICES ASSUME Wanted(c).row = "correction" PROVE FALSE
    OBVIOUS
  <2>1. kind[c] \in OfTheCorrection
    BY <1>4, CorrectionRowIsOwn DEF Wanted
  <2>2. kind[d] \in OfTheCorrection
    BY <1>1, <1>2, <1>3, CorrectionRowIsOwn
  <2> QED
    BY <2>1, <2>2 DEF LockInv, OneCorrection, Blocks
<1>6. Wanted(c) \in Locks
  BY <1>4, PlansAreLocks DEF Wanted
<1> QED
  BY <1>1, <1>5, <1>6 DEF Locks, Rows, Rank

\* Somebody in a deadlock waits for a row of the highest rank, and whom that
\* one waits for would wait for a row of a higher one.
LEMMA OrderedDontDeadlock ==
  ASSUME LockInv
  PROVE  DeadlocksNeedAnOutsider
<1> SUFFICES ASSUME NEW S \in SUBSET Clients, Deadlocked(S),
                    \A c \in S : kind[c] \notin Unordered
             PROVE  FALSE
  BY DEF DeadlocksNeedAnOutsider
<1> DEFINE R(c) == Rank[Wanted(c).row]
<1>1. ASSUME NEW c \in S
      PROVE  /\ Asking(c)
             /\ Wanted(c).row \in DOMAIN Rank
             /\ \E d \in S : \E l \in held[d] : l.row = Wanted(c).row
  <2>1. PICK d \in S : Blocks(d, c)
    BY DEF Deadlocked, WaitsFor
  <2> QED
    BY <2>1, BlockedAtSharedRow DEF Blocks
<1>2. ASSUME NEW c \in S
      PROVE  R(c) \in 1 .. 5 /\ \E d \in S : R(c) < R(d)
  <2>1. PICK d \in S : \E l \in held[d] : l.row = Wanted(c).row
    BY <1>1
  <2>2. PICK l \in held[d] : l.row = Wanted(c).row
    BY <2>1
  <2>3. l.row # "correction" /\ Wanted(d).row # "correction"
    BY <1>1, <2>2 DEF Rank
  <2>4. Rank[l.row] < Rank[Wanted(d).row]
    BY <1>1, <2>3, HeldRanksBelow
  <2>5. R(c) \in 1 .. 5
    BY <1>1 DEF Rank
  <2> QED
    BY <2>2, <2>4, <2>5
<1> HIDE DEF R
<1>3. \A c \in S : R(c) # 5
  BY <1>2
<1>4. \A c \in S : R(c) # 4
  BY <1>2, <1>3
<1>5. \A c \in S : R(c) # 3
  BY <1>2, <1>3, <1>4
<1>6. \A c \in S : R(c) # 2
  BY <1>2, <1>3, <1>4, <1>5
<1>7. \A c \in S : R(c) # 1
  BY <1>2, <1>3, <1>4, <1>5, <1>6
<1>8. PICK c \in S : TRUE
  BY DEF Deadlocked
<1> QED
  BY <1>2, <1>3, <1>4, <1>5, <1>6, <1>7, <1>8

-----------------------------------------------------------------------------

\* Whoever is in a smallest deadlock is waited for there: without one that
\* nobody waits for, the others would still wait for each other.
LEMMA CycleMembersAreWaitedFor ==
  ASSUME NEW S \in SUBSET Clients, Cycle(S), NEW h \in S
  PROVE  \E c \in S : WaitsFor(c, h)
<1> SUFFICES ASSUME \A c \in S : ~WaitsFor(c, h)
             PROVE  FALSE
  OBVIOUS
<1>1. Deadlocked(S)
  BY DEF Cycle
<1>2. PICK d \in S : WaitsFor(h, d)
  BY <1>1 DEF Deadlocked
<1>3. d # h
  BY <1>2 DEF WaitsFor, Blocks
<1>4. Deadlocked(S \ {h})
  BY <1>1, <1>2, <1>3 DEF Deadlocked
<1> QED
  BY <1>4 DEF Cycle

\* The failure handlers lock one row each, but for that of the extraction.
LEMMA HandlerRows ==
  ASSUME NEW k \in FailureHandlers \ {"FailExtraction"}
  PROVE  Len(Plan[k]) = 1
<1>1. /\ Plan["FailNormalization"] = FailNormalization
      /\ Plan["FailValidation"] = FailValidation
      /\ Plan["FailDecision"] = FailDecision
      /\ Plan["FailCorrection"] = FailCorrection
  BY DEF Plan
<1>2. /\ Len(FailNormalization) = 1 /\ Len(FailValidation) = 1
      /\ Len(FailDecision) = 1 /\ Len(FailCorrection) = 1
  BY DEF FailNormalization, FailValidation, FailDecision, FailCorrection
<1> QED
  BY <1>1, <1>2 DEF FailureHandlers

\* Who goes on to lock more after an extraction's row that it locked against
\* an update is the deletion, which has the document by then, or the script.
LEMMA ExtractionLockedOnTheWay ==
  ASSUME NEW k \in Kinds, NEW j \in 1 .. Len(Plan[k]), NEW i \in 1 .. j - 1,
         Plan[k][i].row = "extraction", Plan[k][i].mode # "key_share"
  PROVE  \/ k = "Recover"
         \/ /\ i = 2
            /\ Plan[k][1] = ForUpdate("document")
<1>1. Len(Plan[k]) \in Nat
  BY PlansAreLocks
<1>2. Len(Plan[k]) >= 2
  BY <1>1
<1>3. CASE k = "DeleteDocument"
  <2>1. Plan[k] = DeleteDocument
    BY <1>3 DEF Plan
  <2>2. /\ Len(DeleteDocument) = 6
        /\ DeleteDocument[1].row = "document" /\ DeleteDocument[3].row = "correction"
        /\ DeleteDocument[4].row = "normalization" /\ DeleteDocument[5].row = "validation"
        /\ DeleteDocument[1] = ForUpdate("document")
    BY DEF DeleteDocument, ForUpdate
  <2> QED
    BY <2>1, <2>2
<1>4. CASE k = "SubmitReview"
  <2>1. Plan[k] = SubmitReview
    BY <1>4 DEF Plan
  <2>2. Len(SubmitReview) = 2 /\ SubmitReview[1].row = "decision"
    BY DEF SubmitReview, ForUpdate
  <2> QED
    BY <2>1, <2>2
<1>5. CASE k = "ProjectCorrection"
  <2>1. Plan[k] = ProjectCorrection
    BY <1>5 DEF Plan
  <2>2. Len(ProjectCorrection) = 2 /\ ProjectCorrection[1].mode = "key_share"
    BY DEF ProjectCorrection, References
  <2> QED
    BY <2>1, <2>2
<1>6. CASE k = "CompleteExtraction"
  <2>1. Plan[k] = CompleteExtraction
    BY <1>6 DEF Plan
  <2> QED
    BY <2>1, PlanRows
<1>7. CASE k = "FailExtraction"
  <2>1. Plan[k] = FailExtraction
    BY <1>7 DEF Plan
  <2> QED
    BY <2>1, PlanRows
<1>8. CASE k = "BeginDecision"
  <2>1. Plan[k] = BeginDecision
    BY <1>8 DEF Plan
  <2> QED
    BY <2>1, PlanRows
<1>9. CASE k = "CompleteDecision"
  <2>1. Plan[k] = CompleteDecision
    BY <1>9 DEF Plan
  <2> QED
    BY <2>1, PlanRows
<1>10. CASE k = "BeginCorrection"
  <2>1. Plan[k] = BeginCorrection
    BY <1>10 DEF Plan
  <2> QED
    BY <2>1, PlanRows
<1>11. CASE k = "RecordValidation"
  <2>1. Plan[k] = RecordValidation
    BY <1>11 DEF Plan
  <2> QED
    BY <2>1, PlanRows
<1>12. CASE k = "FinalizeCorrection"
  <2>1. Plan[k] = FinalizeCorrection
    BY <1>12 DEF Plan
  <2> QED
    BY <2>1, PlanRows
<1> QED
  BY <1>2, <1>3, <1>4, <1>5, <1>6, <1>7, <1>8, <1>9, <1>10, <1>11, <1>12, SingleRows
     DEF Unordered

\* A handler in a cycle is waited for, so it holds a lock and wants another:
\* that of an extraction with the document.  The one it waits for has the
\* extraction and wants more; a deletion would have the document too.
LEMMA OnlyTheScriptAbortsHandlers ==
  ASSUME LockInv
  PROVE  HandlersAreNotAborted
<1> SUFFICES ASSUME NEW S \in SUBSET Clients, Cycle(S), NEW h \in S,
                    kind[h] \in FailureHandlers,
                    \A c \in S : kind[c] # "Recover"
             PROVE  FALSE
  BY DEF HandlersAreNotAborted
<1> USE DEF LockInv
<1>1. PICK e \in S : WaitsFor(e, h)
  BY CycleMembersAreWaitedFor
<1>2. PICK d \in S : WaitsFor(h, d)
  BY DEF Cycle, Deadlocked
<1>3. /\ Asking(h) /\ Asking(d)
      /\ kind[h] \in Kinds /\ kind[d] \in Kinds
      /\ asked[h] \in Nat /\ asked[d] \in Nat
      /\ Len(Plan[kind[h]]) \in Nat /\ Len(Plan[kind[d]]) \in Nat
  <2>1. PICK x \in S : WaitsFor(d, x)
    BY DEF Cycle, Deadlocked
  <2>2. Asking(h) /\ Asking(d)
    BY <1>2, <2>1 DEF WaitsFor, Blocks
  <2>3. kind[h] \in Kinds /\ kind[d] \in Kinds /\ asked[h] \in Nat /\ asked[d] \in Nat
    BY DEF TypeOK
  <2> QED
    BY <2>2, <2>3, PlansAreLocks
<1>4. asked[h] >= 1
  <2>1. PICK l \in held[h] : TRUE
    BY <1>1 DEF WaitsFor, Blocks
  <2> QED
    BY <1>3, <2>1 DEF HeldInPlan
<1>5. kind[h] = "FailExtraction"
  <2> SUFFICES ASSUME kind[h] # "FailExtraction" PROVE FALSE
    OBVIOUS
  <2>1. Len(Plan[kind[h]]) = 1
    BY HandlerRows
  <2> QED
    BY <1>3, <1>4, <2>1 DEF Asking
<1>6. /\ asked[h] = 1
      /\ Plan[kind[h]] = FailExtraction
  <2>1. Plan[kind[h]] = FailExtraction
    BY <1>5 DEF Plan
  <2> QED
    BY <1>3, <1>4, <2>1, PlanRows DEF Asking
<1>7. /\ Updates("document") \in held[h]
      /\ Wanted(h) = Updates("extraction")
  <2>1. /\ FailExtraction[1] = Updates("document")
        /\ FailExtraction[2] = Updates("extraction")
        /\ ~Updates("document").skip
    BY DEF FailExtraction, Updates
  <2>2. Plan[kind[h]][1] = Updates("document")
    BY <1>6, <2>1
  <2>3. Plan[kind[h]][1].skip \/ Plan[kind[h]][1] \in held[h]
    BY <1>3, <1>4 DEF AskedIsHeld
  <2> QED
    BY <1>6, <2>1, <2>2, <2>3 DEF Wanted
<1>8. PICK l \in held[d] : l.row = "extraction" /\ l.mode # "key_share"
  BY <1>2, <1>7 DEF WaitsFor, Blocks, Conflict, Updates
<1>9. PICK i \in 1 .. asked[d] : l = Plan[kind[d]][i]
  BY DEF HeldInPlan
<1>10. asked[d] + 1 \in 1 .. Len(Plan[kind[d]]) /\ i \in 1 .. (asked[d] + 1) - 1
  BY <1>3, <1>9 DEF Asking
<1>11. i = 2 /\ Plan[kind[d]][1] = ForUpdate("document")
  BY <1>3, <1>8, <1>9, <1>10, ExtractionLockedOnTheWay
<1>12. ForUpdate("document") \in held[d]
  <2>1. Plan[kind[d]][1].skip \/ Plan[kind[d]][1] \in held[d]
    BY <1>3, <1>9, <1>11 DEF AskedIsHeld
  <2>2. ~ForUpdate("document").skip
    BY DEF ForUpdate
  <2> QED
    BY <1>11, <2>1, <2>2
<1>13. h # d
  BY <1>2 DEF WaitsFor, Blocks
<1> QED
  BY <1>7, <1>12, <1>13 DEF NoConflict, Conflict, Updates, ForUpdate

-----------------------------------------------------------------------------

\* Initially nobody has a transaction.
LEMMA InitLocks == Init => LockInv
<1>1. Init => TypeOK
  BY DEF Init, TypeOK, Kinds, Plan, Read
<1> QED
  BY <1>1 DEF Init, LockInv, HeldInPlan, OpenHasPlan, OneCorrection, OfTheCorrection,
     AskedIsHeld, NoConflict

\* Every step keeps what is held within what was asked for.
LEMMA NextLocks ==
  ASSUME LockInv, [Next]_vars
  PROVE  LockInv'
<1> USE DEF LockInv
<1>1. ASSUME NEW c \in Clients, Want(c)
      PROVE  LockInv'
  BY <1>1 DEF Want, TypeOK, HeldInPlan, OpenHasPlan, OneCorrection, AskedIsHeld, NoConflict
<1>2. ASSUME NEW c \in Clients, Checkout(c)
      PROVE  LockInv'
  <2>1. PICK k \in Kinds :
          /\ k \in OfTheCorrection => \A d \in Clients : kind[d] \notin OfTheCorrection
          /\ kind' = [kind EXCEPT ![c] = k]
    BY <1>2 DEF Checkout
  <2>2. asked[c] = 0 /\ Len(Plan[k]) \in Nat
    BY <1>2, PlansAreLocks DEF Checkout, OpenHasPlan
  <2>3. TypeOK'
    BY <1>2, <2>1, <2>2 DEF Checkout, TypeOK
  <2>4. HeldInPlan'
    <3> SUFFICES ASSUME NEW d \in Clients, NEW l \in held[d]
                 PROVE  \E i \in 1 .. asked[d] : l = Plan[kind'[d]][i]
      BY <1>2 DEF Checkout, HeldInPlan
    <3>1. PICK i \in 1 .. asked[d] : l = Plan[kind[d]][i]
      BY DEF HeldInPlan
    <3>2. d # c
      BY <2>2, <3>1
    <3> QED
      BY <2>1, <3>1, <3>2 DEF TypeOK
  <2>5. OpenHasPlan' /\ OneCorrection'
    BY <1>2, <2>1 DEF Checkout, TypeOK, OpenHasPlan, OneCorrection
  <2>6. AskedIsHeld'
    BY <1>2, <2>1, <2>2 DEF Checkout, TypeOK, AskedIsHeld
  <2>7. NoConflict'
    BY <1>2 DEF Checkout, NoConflict
  <2> QED
    BY <2>3, <2>4, <2>5, <2>6, <2>7
<1>3. ASSUME NEW c \in Clients, CheckoutTimesOut(c)
      PROVE  LockInv'
  BY <1>3 DEF CheckoutTimesOut, TypeOK, HeldInPlan, OpenHasPlan, OneCorrection,
     AskedIsHeld, NoConflict
<1>4. ASSUME NEW c \in Clients, Acquire(c) \/ PassOver(c)
      PROVE  LockInv'
  <2>1. /\ asked' = [asked EXCEPT ![c] = @ + 1]
        /\ held' = [held EXCEPT ![c] = @ \cup {Wanted(c)}] \/ held' = held
        /\ kind' = kind /\ phase' = phase
        /\ Asking(c)
    BY <1>4 DEF Acquire, PassOver
  <2>2. Len(Plan[kind[c]]) \in Nat /\ asked[c] \in Nat /\ Wanted(c) \in Locks
    BY <2>1, PlansAreLocks DEF Asking, Wanted, TypeOK
  <2>3. TypeOK'
    BY <2>1, <2>2 DEF TypeOK, Asking
  <2>4. HeldInPlan'
    <3> SUFFICES ASSUME NEW d \in Clients, NEW l \in held'[d]
                 PROVE  \E i \in 1 .. asked'[d] : l = Plan[kind[d]][i]
      BY <2>1 DEF HeldInPlan
    <3>1. CASE l \in held[d]
      <4>1. PICK i \in 1 .. asked[d] : l = Plan[kind[d]][i]
        BY <3>1 DEF HeldInPlan
      <4>2. i \in 1 .. asked'[d]
        BY <2>1, <2>2, <4>1 DEF TypeOK
      <4> QED
        BY <4>1, <4>2
    <3>2. CASE l \notin held[d]
      <4>1. d = c /\ l = Wanted(c)
        BY <2>1, <3>2 DEF TypeOK
      <4>2. asked[c] + 1 \in 1 .. asked'[c]
        BY <2>1, <2>2 DEF TypeOK
      <4> QED
        BY <4>1, <4>2 DEF Wanted
    <3> QED
      BY <3>1, <3>2
  <2>5. OpenHasPlan' /\ OneCorrection'
    BY <2>1 DEF Asking, TypeOK, OpenHasPlan, OneCorrection
  <2>6. \A d \in Clients : held[d] \subseteq held'[d]
    BY <2>1 DEF TypeOK
  <2>7. AskedIsHeld'
    <3> SUFFICES ASSUME NEW d \in Clients, NEW i \in 1 .. asked'[d],
                        ~Plan[kind[d]][i].skip
                 PROVE  Plan[kind[d]][i] \in held'[d]
      BY <2>1 DEF AskedIsHeld
    <3>1. CASE i \in 1 .. asked[d]
      BY <2>6, <3>1 DEF AskedIsHeld
    <3>2. CASE i \notin 1 .. asked[d]
      <4>1. d = c /\ i = asked[c] + 1
        BY <2>1, <2>2, <3>2 DEF TypeOK
      <4>2. ~Wanted(c).skip
        BY <4>1 DEF Wanted
      <4>3. held' = [held EXCEPT ![c] = @ \cup {Wanted(c)}]
        BY <1>4, <4>2 DEF Acquire, PassOver
      <4> QED
        BY <4>1, <4>3 DEF Wanted, TypeOK
    <3> QED
      BY <3>1, <3>2
  <2>8. NoConflict'
    <3>1. CASE PassOver(c)
      BY <3>1 DEF PassOver, NoConflict
    <3>2. CASE Acquire(c)
      <4>1. \A d \in Clients : \A l \in held[d] :
              d # c /\ l.row = Wanted(c).row => ~Conflict(l.mode, Wanted(c).mode)
        BY <3>2 DEF Acquire, Blocked, Blocks
      <4>2. \A m, n : Conflict(m, n) <=> Conflict(n, m)
        BY DEF Conflict
      <4>3. \A d \in Clients :
              held'[d] = IF d = c THEN held[d] \cup {Wanted(c)} ELSE held[d]
        BY <3>2 DEF Acquire, TypeOK
      <4> SUFFICES ASSUME NEW x \in Clients, NEW y \in Clients,
                          NEW l \in held'[x], NEW m \in held'[y],
                          x # y, l.row = m.row
                   PROVE  ~Conflict(l.mode, m.mode)
        BY DEF NoConflict
      <4>4. CASE l \in held[x] /\ m \in held[y]
        BY <4>4 DEF NoConflict
      <4>5. CASE l \notin held[x]
        <5>1. x = c /\ l = Wanted(c) /\ m \in held[y]
          BY <4>3, <4>5
        <5> QED
          BY <4>1, <4>2, <5>1
      <4>6. CASE m \notin held[y]
        <5>1. y = c /\ m = Wanted(c) /\ l \in held[x]
          BY <4>3, <4>6
        <5> QED
          BY <4>1, <5>1
      <4> QED
        BY <4>4, <4>5, <4>6
    <3> QED
      BY <1>4, <3>1, <3>2
  <2> QED
    BY <2>3, <2>4, <2>5, <2>7, <2>8
<1>5. ASSUME NEW c \in Clients, Finish(c) \/ Abort(c)
      PROVE  LockInv'
  <2>1. Release(c)
    BY <1>5 DEF Finish, Abort
  <2>2. "Read" \in Kinds
    BY DEF Kinds, Plan
  <2>3. TypeOK'
    BY <2>1, <2>2, PlansAreLocks DEF Release, TypeOK
  <2>4. HeldInPlan' /\ OpenHasPlan' /\ OneCorrection'
    BY <2>1 DEF Release, TypeOK, HeldInPlan, OpenHasPlan, OneCorrection, OfTheCorrection
  <2>5. AskedIsHeld' /\ NoConflict'
    BY <2>1 DEF Release, TypeOK, AskedIsHeld, NoConflict
  <2> QED
    BY <2>3, <2>4, <2>5
<1>6. CASE UNCHANGED vars
  BY <1>6 DEF vars, TypeOK, HeldInPlan, OpenHasPlan, OneCorrection, AskedIsHeld, NoConflict
<1> QED
  BY <1>1, <1>2, <1>3, <1>4, <1>5, <1>6 DEF Next

\* What is held and asked for is what the plans say, and no two transactions
\* hold locks that conflict.
THEOREM LockInvariant == Spec => []LockInv
  BY InitLocks, NextLocks, PTL DEF Spec

\* Every transaction keeps to its plan.
THEOREM LocksTyped == Spec => []TypeOK
<1>1. LockInv => TypeOK
  BY DEF LockInv
<1> QED
  BY <1>1, LockInvariant, PTL

\* For every set of clients and every pool: a deadlock needs a review, a
\* deletion or the recovery script.
THEOREM OnlyOutsidersDeadlock == Spec => []DeadlocksNeedAnOutsider
  BY LockInvariant, OrderedDontDeadlock, PTL

\* For every set of clients and every pool: PostgreSQL aborts a transaction
\* that records a failure only if the recovery script is in the same cycle.
THEOREM HandlersSurvive == Spec => []HandlersAreNotAborted
  BY LockInvariant, OnlyTheScriptAbortsHandlers, PTL
=============================================================================
