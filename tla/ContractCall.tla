----------------------------- MODULE ContractCall -----------------------------
(***************************************************************************)
(* A call of a model whose answer has to keep a contract, as the runners   *)
(* of one round make it: the review of a page (visual-review-runner.ts),   *)
(* the review of the deck (deck-review-runner.ts), the plan of a revision  *)
(* (revision-planning-runner.ts) and its application                       *)
(* (revision-application-runner.ts).  Each asks again, under another key   *)
(* and with what was wrong, when an answer breaks the contract, and gives  *)
(* up after a bounded number of answers; what it gives up with decides     *)
(* whether the Run recovers, ends, or waits for a person.                  *)
(*                                                                         *)
(* No state: the answers come within one step of the worker, and a worker  *)
(* that crashes begins again with the first key (module RunLifecycle).     *)
(***************************************************************************)
EXTENDS Naturals, SequencesExt

Callers == {"page", "deck", "plan", "apply"}

\* CHAIN_4 is the compiler of this release; the blueprints of older ones go on.
Chains == {"CHAIN_3", "CHAIN_4"}

\* What one attempt ends with.  The attempt itself asks up to five times while the
\* provider is unavailable: only the last of these answers is told apart.
Answers ==
  {"SOUND",
   "UNAVAILABLE",    \* the provider is still unavailable at the last of the five
   "REJECTED",       \* PROVIDER_UNAVAILABLE that is not to be asked again
   "CONFIGURATION",  \* MODEL_AUTH_FAILED, MODEL_FORBIDDEN, MODEL_NOT_FOUND
   "JSON",           \* MODEL_JSON_INVALID
   "SCHEMA",         \* a ZodError, or a manuscript that does not compile
   "OVERSIZED",      \* a ZodError that says the manuscript is too large
   "TOO_LARGE",      \* a context too large to send or to compile
   "PROTOCOL",       \* V4_CHAIN4_PROTOCOL_UNSUPPORTED
   "REFERENCE",      \* the answer refers to what is not there
   "BUDGET",         \* what it finds is more than a plan can repair
   "SCOPE",          \* any other error that is a code
   "OUTAGE",         \* a code that names an outage, not raised by the model adapter
   "OTHER"}          \* an error that is no code

\* The answers that only some of the callers may meet.
Met(caller, chain) ==
  Answers \ ((IF chain = "CHAIN_4" THEN {} ELSE {"PROTOCOL"})
             \cup (IF caller = "apply" /\ chain = "CHAIN_4" THEN {} ELSE {"OVERSIZED"})
             \cup (IF caller = "page" THEN {"REFERENCE", "BUDGET"} ELSE {}))

\* deckReviewContractAttemptLimit and MAX_REVISION_CONTRACT_ATTEMPTS.
ContractAttempts(caller, chain) == IF caller = "deck" /\ chain = "CHAIN_3" THEN 3 ELSE 2

\* revisionContractRepairIssues: every error that can be told to the model.
Tellable == {"JSON", "SCHEMA", "TOO_LARGE", "PROTOCOL", "REFERENCE", "BUDGET", "SCOPE", "OUTAGE"}

\* The callers that look at the error first: the deck review at the contract it
\* knows (deckReviewContractInvalid), the application of chain 4 at the manuscript.
Semantic == {"JSON", "SCHEMA", "OVERSIZED"}
Repairable(caller, chain) ==
  CASE caller = "deck" -> Tellable \cap {"JSON", "SCHEMA", "REFERENCE", "BUDGET"}
    [] caller = "apply" /\ chain = "CHAIN_4" -> Tellable \cap Semantic
    [] OTHER -> Tellable

\* The attempts that are made: all but the last could be repaired.
Ladders(caller, chain) ==
  LET limit == ContractAttempts(caller, chain)
      repairable == Repairable(caller, chain)
  IN {ladder \in BoundedSeq(Met(caller, chain), limit) :
        /\ ladder # <<>>
        /\ \A i \in 1 .. Len(ladder) - 1 : ladder[i] \in repairable
        /\ Len(ladder) < limit => Last(ladder) \notin repairable}

-------------------------------------------------------------------------------
\* What technicalFailureDisposition makes of the code the caller persists:
\* RETRYABLE, NON_RETRYABLE, or INTERNAL for a code it does not know.
Disposition(answer) ==
  CASE answer \in {"UNAVAILABLE", "REJECTED", "JSON", "OUTAGE"} -> "RETRYABLE"
    [] answer \in {"CONFIGURATION", "PROTOCOL"} -> "NON_RETRYABLE"
    [] OTHER -> "INTERNAL"

\* visualReviewFailure: a ZodError counts as MODEL_JSON_INVALID, and an error that is
\* no code as VISUAL_REVIEW_FAILED; both may be tried again.
PageFailure(answer) ==
  IF answer \in {"SCHEMA", "OTHER"} THEN "RETRYABLE" ELSE Disposition(answer)

\* deckReviewFailure, the same, and the references of a review are of the contract.
DeckFailure(answer) ==
  IF answer = "REFERENCE" THEN "NON_RETRYABLE" ELSE PageFailure(answer)

\* revisionPlanningFailure keeps the codes of the model adapter only.  What the model
\* could not repair the runner compiles itself (compileVisualDeckV4Fallback), which
\* may fail too.
PlanFailure(answer) ==
  IF answer \in Tellable THEN "INTERNAL" ELSE Disposition(answer)

\* revisionApplicationFailure.  In chain 4 a manuscript that stays invalid is for a
\* person, and one that is too large is so as well when it comes last.
ApplyFailure(chain, ladder) ==
  LET answer == Last(ladder)
      exhausted == Len(ladder) = ContractAttempts("apply", chain)
  IN CASE chain = "CHAIN_4" /\ answer \in Semantic /\ exhausted -> "PERSON"
       [] chain = "CHAIN_4" /\ answer \in {"OVERSIZED", "TOO_LARGE"} /\ ~(answer \in Semantic /\ exhausted) ->
            "NON_RETRYABLE"
       [] chain = "CHAIN_3" /\ answer = "OUTAGE" -> "INTERNAL"
       [] OTHER -> Disposition(answer)

\* The plan of chain 4 is compiled, and no model is asked.
Asks(caller, chain) == ~(caller = "plan" /\ chain = "CHAIN_4")

\* How a call may fail.  Before the first answer, the model that was chosen for the
\* Run or its protocol may be missing (v4ModelOverride,
\* requireV4StructuredGenerationProtocol); after the last, compiling may fail.
Failures ==
  [caller \in Callers |-> [chain \in Chains |->
     LET failed == IF Asks(caller, chain)
                   THEN {ladder \in Ladders(caller, chain) : Last(ladder) # "SOUND"} ELSE {}
         Of(ladder) == CASE caller = "page" -> PageFailure(Last(ladder))
                         [] caller = "deck" -> DeckFailure(Last(ladder))
                         [] caller = "plan" -> PlanFailure(Last(ladder))
                         [] caller = "apply" -> ApplyFailure(chain, ladder)
     IN {"NON_RETRYABLE", "INTERNAL"} \cup {Of(ladder) : ladder \in failed}]]
===============================================================================
