-------------------------- MODULE DuplicateSearch --------------------------
(***************************************************************************)
(* Several documents at once: what each validation can see of the others'  *)
(* normalizations, and what its decision makes of it.  Stamps are what the *)
(* code stamps; a row is seen by others only once it is committed.         *)
(***************************************************************************)
EXTENDS DecisionEngine

CONSTANTS
  Documents,           \* uuids of the documents
  Invoices,            \* what a normalization, or a correction, may result in
  Confidences,         \* what an extraction may report of the critical fields
  RunDate,             \* the UTC date on which everything happens
  MaxTime,             \* bound on the clock
  MaxNormalizations,   \* bound on a document's normalizations
  MaxValidations       \* bound on the attempts for one normalization

\* An absent value is no number, no set of findings and no outcome.
ASSUME SearchAssumption ==
  /\ MaxTime \in Nat
  /\ MaxNormalizations \in Nat
  /\ MaxValidations \in Nat
  /\ Null \notin Int \cup {"ACCEPTED", "NEEDS_REVIEW"}
  /\ \A findings \in SUBSET ValidationRule : findings # Null
  /\ Invoices \subseteq NormalizedInvoice

VARIABLES
  now,       \* the clock, as coarse as two events with one stamp need it
  exts,      \* each document's COMPLETED extraction
  norms,     \* each document's normalizations, the last perhaps uncommitted
  vals       \* each document's validations, and what was decided of them

vars == <<now, exts, norms, vals>>

Stamp == 0..MaxTime
Never == MaxTime + 1

\* committed_at is no column: it is when the others' queries begin to see it.
Normalization(inv) == [invoice |-> inv, completed_at |-> now, committed_at |-> Never]

\* matches, findings: of the attempt's result, Null while it has none.
NewValidation(n) == [source |-> n, started_at |-> now, status |-> "PROCESSING",
                     matches |-> {}, findings |-> Null, outcome |-> Null]

Committed(d)    == {n \in DOMAIN norms[d] : norms[d][n].committed_at # Never}
AttemptsOf(d, n) == {v \in DOMAIN vals[d] : vals[d][v].source = n}
Latest(S)       == CHOOSE x \in S : \A y \in S : y <= x

Init ==
  /\ now = 0
  /\ exts = [d \in Documents |-> Null]
  /\ norms = [d \in Documents |-> <<>>]
  /\ vals = [d \in Documents |-> <<>>]

-----------------------------------------------------------------------------
(* The current chain of a document *)

Current(d) == Latest(Committed(d))

\* The attempts for the current normalization that have a completed decision:
\* no source has two.
DecidedAttempts(d) ==
  {v \in DOMAIN vals[d] : vals[d][v].source = Current(d) /\ vals[d][v].outcome # Null}

Decided(d) == Committed(d) # {} /\ DecidedAttempts(d) # {}

CurrentInvoice(d)  == norms[d][Current(d)].invoice
CurrentOutcomes(d) == {vals[d][v].outcome : v \in DecidedAttempts(d)}

-----------------------------------------------------------------------------

Tick ==
  /\ now < MaxTime
  /\ now' = now + 1
  /\ UNCHANGED <<exts, norms, vals>>

Extract(d, confidence) ==
  /\ exts[d] = Null
  /\ exts' = [exts EXCEPT ![d] = [completed_at |-> now, confidence |-> confidence]]
  /\ UNCHANGED <<now, norms, vals>>

InFlight(d) == Committed(d) # DOMAIN norms[d]

Stamped(d, inv) ==
  /\ norms' = [norms EXCEPT ![d] = Append(@, Normalization(inv))]
  /\ UNCHANGED <<now, exts, vals>>

\* NormalizationService._complete stamps completed_at and flushes.
Normalize(d, inv) ==
  /\ exts[d] # Null /\ norms[d] = <<>> /\ Len(norms[d]) < MaxNormalizations
  /\ Stamped(d, inv)

\* A correction projects a new normalization of the same extraction: a first
\* attempt from the decided current chain, with other data; a retry, also
\* from a chain that the failed attempt left undecided.
Project(d, inv) ==
  /\ Len(norms[d]) < MaxNormalizations /\ ~InFlight(d)
  /\ \E v \in DOMAIN vals[d] : vals[d][v].outcome # Null
  /\ Decided(d) => inv # CurrentInvoice(d)
  /\ Stamped(d, inv)

CommitNormalization(d) ==
  /\ InFlight(d)
  /\ norms' = [norms EXCEPT ![d][Len(norms[d])].committed_at = now]
  /\ UNCHANGED <<now, exts, vals>>

\* Rolled back: nobody ever saw the stamped row.
NormalizationRaises(d) ==
  /\ InFlight(d)
  /\ norms' = [norms EXCEPT ![d] = SubSeq(@, 1, Len(@) - 1)]
  /\ UNCHANGED <<now, exts, vals>>

-----------------------------------------------------------------------------

\* Mutant: the source may still be uncommitted.
StartBeforeCommit(d, n) ==
  /\ n \in DOMAIN norms[d]
  /\ \A v \in AttemptsOf(d, n) : vals[d][v].status = "FAILED"
  /\ Cardinality(AttemptsOf(d, n)) < MaxValidations
  /\ vals' = [vals EXCEPT ![d] = Append(@, NewValidation(n))]
  /\ UNCHANGED <<now, exts, norms>>

\* ValidationService._run, up to the commit of the PROCESSING attempt: of any
\* committed normalization, once, and again after a failure.
StartValidation(d, n) ==
  /\ n \in Committed(d)
  /\ \A v \in AttemptsOf(d, n) : vals[d][v].status = "FAILED"
  /\ Cardinality(AttemptsOf(d, n)) < MaxValidations
  /\ vals' = [vals EXCEPT ![d] = Append(@, NewValidation(n))]
  /\ UNCHANGED <<now, exts, norms>>

Visible(e, as_of) == {n \in Committed(e) : norms[e][n].completed_at <= as_of}

\* Mutant: whatever was ever completed.
EveryNormalization(d, as_of) ==
  {[document |-> e, normalization |-> n] : e \in Documents \ {d}, n \in 1..MaxNormalizations}
    \cap UNION {{[document |-> e, normalization |-> n] : n \in Visible(e, as_of)} :
                  e \in Documents}

\* load_duplicate_candidates: of each other document whose extraction had
\* completed, the latest normalization that had.
DuplicateCandidates(d, as_of) ==
  {[document |-> e, normalization |-> Latest(Visible(e, as_of))] :
     e \in {e \in Documents \ {d} :
              /\ exts[e] # Null /\ exts[e].completed_at <= as_of
              /\ Visible(e, as_of) # {}}}

InvoiceOf(d, v) == norms[d][vals[d][v].source].invoice

Context(d, inv, matches) ==
  [invoice |-> inv, run_date |-> RunDate, confidence |-> exts[d].confidence,
   matches |-> matches]

\* evaluate: the candidates are read some time after the attempt started.
Evaluate(d, v) ==
  LET matches == {c \in DuplicateCandidates(d, vals[d][v].started_at) :
        SameInvoice(InvoiceOf(d, v), norms[c.document][c.normalization].invoice)}
  IN /\ vals[d][v].status = "PROCESSING" /\ vals[d][v].findings = Null
     /\ vals' = [vals EXCEPT ![d][v].matches = matches,
          ![d][v].findings = RunRules(Context(d, InvoiceOf(d, v), matches))]
     /\ UNCHANGED <<now, exts, norms>>

CompleteValidation(d, v) ==
  /\ vals[d][v].status = "PROCESSING" /\ vals[d][v].findings # Null
  /\ vals' = [vals EXCEPT ![d][v].status = "COMPLETED"]
  /\ UNCHANGED <<now, exts, norms>>

\* The rules or the commit raise, or the recovery script gives up on it.
ValidationFails(d, v) ==
  /\ vals[d][v].status = "PROCESSING"
  /\ vals' = [vals EXCEPT ![d][v].status = "FAILED", ![d][v].findings = Null,
                          ![d][v].matches = {}]
  /\ UNCHANGED <<now, exts, norms>>

\* A decision is made once, of the current chain.
DecideInvoice(d, v, manual_review_requested) ==
  /\ vals[d][v].status = "COMPLETED" /\ vals[d][v].outcome = Null
  /\ vals[d][v].source = Current(d)
  /\ vals' = [vals EXCEPT ![d][v].outcome =
                Decide(vals[d][v].findings, manual_review_requested)]
  /\ UNCHANGED <<now, exts, norms>>

Next ==
  \/ Tick
  \/ \E d \in Documents :
       \/ \E confidence \in Confidences : Extract(d, confidence)
       \/ \E inv \in Invoices : Normalize(d, inv) \/ Project(d, inv)
       \/ CommitNormalization(d) \/ NormalizationRaises(d)
       \/ \E n \in DOMAIN norms[d] : StartValidation(d, n)
       \/ \E v \in DOMAIN vals[d] :
            \/ Evaluate(d, v) \/ CompleteValidation(d, v) \/ ValidationFails(d, v)
            \/ \E manual \in BOOLEAN : DecideInvoice(d, v, manual)

Spec == Init /\ [][Next]_vars

=============================================================================
