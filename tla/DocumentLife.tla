---------------------------- MODULE DocumentLife ----------------------------
(***************************************************************************)
(* What the outside sees of a document: its status, and the escalations,   *)
(* verdicts and corrections that explain it.  Nothing of attempts,         *)
(* requests or transactions is left.                                       *)
(***************************************************************************)
VARIABLES
  status,        \* documents.status
  escalations,   \* the completed decisions that asked for a person
  verdicts,      \* the reviews: [decision, action]
  corrections    \* the completed corrections

life == <<status, escalations, verdicts, corrections>>

Verdict == [APPROVE |-> "APPROVED", REJECT |-> "REJECTED"]

\* One more element.
Joins(x, set, new) == x \notin set /\ new = set \cup {x}

Init ==
  /\ status = "UPLOADED"
  /\ escalations = {} /\ verdicts = {} /\ corrections = {}

Extract ==
  /\ status \in {"UPLOADED", "FAILED"}
  /\ status' = "PROCESSING"
  /\ UNCHANGED <<escalations, verdicts, corrections>>

ExtractionEnds ==
  /\ status = "PROCESSING"
  /\ status' \in {"COMPLETED", "FAILED"}
  /\ UNCHANGED <<escalations, verdicts, corrections>>

\* A decision, or a correction's new one, asks for a person.  A correction
\* may leave a verdict as it is.
Escalate ==
  /\ status \notin {"UPLOADED", "PROCESSING", "FAILED"}
  /\ \E d \in escalations' : Joins(d, escalations, escalations')
  /\ status' = "NEEDS_REVIEW" \/ (status' = status /\ status # "COMPLETED")
  /\ UNCHANGED <<verdicts, corrections>>

\* A person answers an escalation that nobody has answered.
Settle ==
  /\ status = "NEEDS_REVIEW"
  /\ \E rec \in verdicts' :
       /\ Joins(rec, verdicts, verdicts')
       /\ rec.decision \in escalations \ {v.decision : v \in verdicts}
       /\ status' = Verdict[rec.action]
  /\ UNCHANGED <<escalations, corrections>>

\* A correction ends.  Where a person is in charge it may settle the document.
Correct ==
  /\ status \notin {"UPLOADED", "PROCESSING", "FAILED"}
  /\ \E c \in corrections' : Joins(c, corrections, corrections')
  /\ status' = status \/ (status' = "APPROVED" /\ status # "COMPLETED")
  /\ UNCHANGED <<escalations, verdicts>>

Next == Extract \/ ExtractionEnds \/ Escalate \/ Settle \/ Correct

Spec == Init /\ [][Next]_life

=============================================================================
