------------------------------ MODULE RowLocks ------------------------------
(***************************************************************************)
(* The row locks that the transactions of one document take, one after the *)
(* other, and the pool their connections come from.  The workflow's models *)
(* take a transaction for one step; this one looks inside it, and leaves   *)
(* out what it reads and writes.                                           *)
(*                                                                         *)
(* A lock is held until the transaction ends.  PostgreSQL aborts a         *)
(* transaction it finds in a cycle of waiting ones.                        *)
(***************************************************************************)
EXTENDS Naturals, Sequences, FiniteSets

CONSTANTS Clients,   \* what may run a transaction: requests and the script
          PoolSize   \* pool_size + max_overflow

ASSUME LocksAssumption == PoolSize \in Nat \ {0}

(***************************************************************************)
(* Locks.  "skip" marks a request that passes over a locked row.           *)
(***************************************************************************)
Rows == {"document", "extraction", "normalization", "validation", "decision",
         "correction"}
Modes == {"key_share", "no_key_update", "update"}

\* Foreign keys are checked with "key_share", UPDATE takes "no_key_update",
\* FOR UPDATE and DELETE take "update".
Conflict(m, n) == "update" \in {m, n} \/ (m = n /\ m = "no_key_update")

References(row)  == [row |-> row, mode |-> "key_share", skip |-> FALSE]
Updates(row)     == [row |-> row, mode |-> "no_key_update", skip |-> FALSE]
ForUpdate(row)   == [row |-> row, mode |-> "update", skip |-> FALSE]
SkipLocked(row)  == [row |-> row, mode |-> "update", skip |-> TRUE]
Locks == [row: Rows, mode: Modes, skip: BOOLEAN]

(***************************************************************************)
(* The locks of each transaction in the order it takes them.  A lock on a  *)
(* row it has inserted itself, or already holds, is left out.              *)
(***************************************************************************)
BeginExtraction == <<ForUpdate("document")>>
\* The unit of work writes documents before invoice_extractions.
CompleteExtraction == <<Updates("document"), Updates("extraction")>>
FailExtraction == <<Updates("document"), Updates("extraction")>>
BeginNormalization == <<ForUpdate("extraction")>>
CompleteNormalization == <<Updates("normalization")>>
FailNormalization == <<Updates("normalization")>>
BeginValidation == <<ForUpdate("normalization")>>
CompleteValidation == <<Updates("validation")>>
FailValidation == <<Updates("validation")>>
BeginDecision == <<ForUpdate("validation"), ForUpdate("document")>>
\* Mutant: the document, which is going to be written, first.
DocumentFirst ==
  <<ForUpdate("document"), ForUpdate("validation"), Updates("decision")>>
CompleteDecision ==
  <<ForUpdate("validation"), ForUpdate("document"), Updates("decision")>>
\* Mutant: a failed decision fails the document too.
FailDocumentToo == <<Updates("decision"), Updates("document")>>
FailDecision == <<Updates("decision")>>
SubmitReview == <<ForUpdate("decision"), ForUpdate("document")>>
\* The inserted correction refers to its source normalization and decision.
BeginCorrection ==
  <<ForUpdate("document"), References("normalization"), References("decision")>>
ProjectCorrection == <<References("extraction"), Updates("correction")>>
RecordValidation == <<Updates("correction"), References("validation")>>
FinalizeCorrection ==
  <<ForUpdate("document"), Updates("correction"), References("decision")>>
FailCorrection == <<Updates("correction")>>
\* ON DELETE CASCADE, level by level.
DeleteDocument ==
  <<ForUpdate("document"), ForUpdate("extraction"), ForUpdate("correction"),
    ForUpdate("normalization"), ForUpdate("validation"), ForUpdate("decision")>>
Recover ==
  <<SkipLocked("extraction"), ForUpdate("document"), SkipLocked("normalization"),
    SkipLocked("validation"), SkipLocked("decision"), SkipLocked("correction")>>
Read == << >>

Plan ==
  [BeginExtraction |-> BeginExtraction, CompleteExtraction |-> CompleteExtraction,
   FailExtraction |-> FailExtraction, BeginNormalization |-> BeginNormalization,
   CompleteNormalization |-> CompleteNormalization,
   FailNormalization |-> FailNormalization, BeginValidation |-> BeginValidation,
   CompleteValidation |-> CompleteValidation, FailValidation |-> FailValidation,
   BeginDecision |-> BeginDecision, CompleteDecision |-> CompleteDecision,
   FailDecision |-> FailDecision, SubmitReview |-> SubmitReview,
   BeginCorrection |-> BeginCorrection, ProjectCorrection |-> ProjectCorrection,
   RecordValidation |-> RecordValidation, FinalizeCorrection |-> FinalizeCorrection,
   FailCorrection |-> FailCorrection, DeleteDocument |-> DeleteDocument,
   Recover |-> Recover, Read |-> Read]

Kinds == DOMAIN Plan
FailureHandlers == {"FailExtraction", "FailNormalization", "FailValidation",
                    "FailDecision", "FailCorrection"}
\* The transactions of the one correction that may be PROCESSING.
OfTheCorrection == {"ProjectCorrection", "RecordValidation", "FinalizeCorrection",
                    "FailCorrection"}

VARIABLES
  kind,    \* kind[c]: the transaction c runs, "Read" when it runs none
  phase,   \* phase[c]: "idle", "checkout" (waits for a connection) or "open"
  asked,   \* asked[c]: how many locks of its plan c has got, or passed over
  held     \* held[c]: the locks c holds
vars == <<kind, phase, asked, held>>

TypeOK ==
  /\ kind \in [Clients -> Kinds]
  /\ phase \in [Clients -> {"idle", "checkout", "open"}]
  /\ asked \in [Clients -> Nat]
  /\ held \in [Clients -> SUBSET Locks]
  /\ \A c \in Clients : asked[c] \in 0 .. Len(Plan[kind[c]])

Init ==
  /\ kind = [c \in Clients |-> "Read"]
  /\ phase = [c \in Clients |-> "idle"]
  /\ asked = [c \in Clients |-> 0]
  /\ held = [c \in Clients |-> {}]

(***************************************************************************)
(* Waiting.                                                                *)
(***************************************************************************)
Asking(c) == phase[c] = "open" /\ asked[c] < Len(Plan[kind[c]])
Wanted(c) == Plan[kind[c]][asked[c] + 1]

Blocks(d, c) ==
  /\ d # c
  /\ Asking(c)
  /\ \E l \in held[d] : l.row = Wanted(c).row /\ Conflict(l.mode, Wanted(c).mode)
Blocked(c) == \E d \in Clients : Blocks(d, c)
WaitsFor(c, d) == Blocks(d, c) /\ ~Wanted(c).skip

\* Each of S waits for another of S: none of them will go on by itself.
Deadlocked(S) == S # {} /\ \A c \in S : \E d \in S : WaitsFor(c, d)
Cycle(S) == Deadlocked(S) /\ \A T \in SUBSET S : Deadlocked(T) => T = S

(***************************************************************************)
(* Steps.                                                                  *)
(***************************************************************************)
\* The first statement of a transaction asks for a connection ...
Want(c) ==
  /\ phase[c] = "idle"
  /\ phase' = [phase EXCEPT ![c] = "checkout"]
  /\ UNCHANGED <<kind, asked, held>>

\* ... and gets one.
Checkout(c) ==
  /\ phase[c] = "checkout"
  /\ Cardinality({d \in Clients : phase[d] = "open"}) < PoolSize
  /\ \E k \in Kinds :
       /\ k \in OfTheCorrection => \A d \in Clients : kind[d] \notin OfTheCorrection
       /\ kind' = [kind EXCEPT ![c] = k]
  /\ phase' = [phase EXCEPT ![c] = "open"]
  /\ UNCHANGED <<asked, held>>

\* The pool raises after 30 seconds.
CheckoutTimesOut(c) ==
  /\ phase[c] = "checkout"
  /\ Cardinality({d \in Clients : phase[d] = "open"}) >= PoolSize
  /\ phase' = [phase EXCEPT ![c] = "idle"]
  /\ UNCHANGED <<kind, asked, held>>

Acquire(c) ==
  /\ Asking(c)
  /\ ~Blocked(c)
  /\ held' = [held EXCEPT ![c] = @ \cup {Wanted(c)}]
  /\ asked' = [asked EXCEPT ![c] = @ + 1]
  /\ UNCHANGED <<kind, phase>>

PassOver(c) ==
  /\ Asking(c)
  /\ Blocked(c)
  /\ Wanted(c).skip
  /\ asked' = [asked EXCEPT ![c] = @ + 1]
  /\ UNCHANGED <<kind, phase, held>>

\* The transaction ends, and its connection goes back to the pool.
\* Mutant: the next transaction of the session goes on where this one stopped.
ReleaseKeepsPlace(c) ==
  /\ phase' = [phase EXCEPT ![c] = "idle"]
  /\ kind' = [kind EXCEPT ![c] = "Read"]
  /\ held' = [held EXCEPT ![c] = {}]
  /\ UNCHANGED asked
Release(c) ==
  /\ phase' = [phase EXCEPT ![c] = "idle"]
  /\ kind' = [kind EXCEPT ![c] = "Read"]
  /\ asked' = [asked EXCEPT ![c] = 0]
  /\ held' = [held EXCEPT ![c] = {}]

\* A guard refuses, a statement fails or the last lock is there and the
\* transaction commits.
\* Mutant: no commit after the last statement.
FinishUncommitted(c) ==
  phase[c] = "open" /\ Asking(c) /\ ~Blocked(c) /\ Release(c)
Finish(c) == phase[c] = "open" /\ ~Blocked(c) /\ Release(c)

\* PostgreSQL aborts a transaction of a cycle; get_db and the services roll back.
Abort(c) ==
  /\ \E S \in SUBSET Clients : c \in S /\ Cycle(S)
  /\ Release(c)

Next ==
  \E c \in Clients :
    \/ Want(c) \/ Checkout(c) \/ CheckoutTimesOut(c)
    \/ Acquire(c) \/ PassOver(c) \/ Finish(c) \/ Abort(c)

Spec == Init /\ [][Next]_vars

\* The pool and the lock queues serve their waiters in turn, the deadlock
\* detector runs, and a transaction that has its locks commits.
Fairness ==
  \A c \in Clients :
    SF_vars(\/ Checkout(c) \/ Acquire(c) \/ PassOver(c) \/ Abort(c)
            \/ Finish(c) /\ ~Asking(c))
FairSpec == Spec /\ Fairness

(***************************************************************************)
(* Properties.                                                             *)
(***************************************************************************)
\* The stages and the corrections never deadlock among themselves: every
\* deadlock has in it a review, which locks the decision before its document,
\* a deletion, which comes to the document's rows from above, or the recovery
\* script, which locks an attempt before its document.
Unordered == {"SubmitReview", "DeleteDocument", "Recover"}
DeadlocksNeedAnOutsider ==
  \A S \in SUBSET Clients : Deadlocked(S) => \E c \in S : kind[c] \in Unordered

\* The transaction that records a failure is the last one of its request: if
\* PostgreSQL aborted it, its attempt would stay PROCESSING.  Only the recovery
\* script beside running workers can get one aborted.
HandlersAreNotAborted ==
  \A S \in SUBSET Clients :
    Cycle(S) /\ (\E c \in S : kind[c] \in FailureHandlers)
      => \E c \in S : kind[c] = "Recover"

\* Whoever asks for a connection is answered, however many others wait for
\* locks with theirs: it ends, by itself or aborted.
TransactionsEnd == \A c \in Clients : phase[c] # "idle" ~> phase[c] = "idle"
=============================================================================
