-------------------------- MODULE AttentionMonitor --------------------------
(***************************************************************************)
(* The operator's onboarding alerts: app/services/onboarding_attention.py  *)
(* classifies each candidate, app/cli/onboarding_attention.py compares the *)
(* stages with a state file, sends Telegram messages one by one and writes *)
(* the file at the end.  A failed message ends the run with the old file.  *)
(***************************************************************************)
EXTENDS Integers, FiniteSets

CONSTANT Candidates

VARIABLES
  facts,     \* what the database says of each candidate
  saved,     \* the state file: last stage per candidate, "none" without an entry
  pass,      \* the run: candidates still to visit, the new state, whether it is running
  told       \* stages of each candidate the operator has been told of

attentionVars == <<facts, saved, pass, told>>

\* classify_candidate: the first rule that applies; "none" needs no attention.
Classify(f) ==
  CASE f = "rejected" -> "rejected"
    [] f = "expiring" -> "organization_setup_expiring"
    [] f = "stalled" -> "verification_stalled"
    [] f = "waiting" -> "approval_required"
    [] f = "overdue" -> "first_login_overdue"
    [] f \in {"pending", "unverified", "approved", "loggedin"} -> "none"

\* Where a candidate may go next; registration, time, the user and administrators decide.
Advance(f) ==
  CASE f = "pending" -> {"expiring", "unverified"}
    [] f = "expiring" -> {"unverified"}
    [] f = "unverified" -> {"stalled", "waiting", "rejected"}
    [] f = "stalled" -> {"unverified", "waiting", "rejected"}
    [] f = "waiting" -> {"approved", "rejected"}
    [] f = "approved" -> {"overdue", "loggedin", "rejected"}
    [] f = "overdue" -> {"loggedin", "rejected"}
    [] f = "loggedin" -> {"waiting", "rejected"}
    [] f = "rejected" -> {"waiting"}

CandidateMoves(c) ==
  /\ facts' \in {[facts EXCEPT ![c] = g] : g \in Advance(facts[c])}
  /\ UNCHANGED <<saved, pass, told>>

\* load_candidates and load_state.
StartPass ==
  /\ ~pass.running
  /\ pass' = [running |-> TRUE, todo |-> Candidates, seen |-> facts, current |-> saved]
  /\ UNCHANGED <<facts, saved, told>>

\* One candidate of reconcile: nothing to say, a recovery message, or an alert.
Visit(c) ==
  LET stage == Classify(pass.seen[c]) IN
  /\ pass.running /\ c \in pass.todo
  /\ pass' = [pass EXCEPT !.todo = @ \ {c}, !.current[c] = stage]
  /\ told' = IF stage \in {"none", saved[c]} THEN told ELSE [told EXCEPT ![c] = @ \cup {stage}]
  /\ UNCHANGED <<facts, saved>>

\* A message could not be delivered, or the process died: the file keeps the old state.
FailPass ==
  /\ pass.running
  /\ pass' = [pass EXCEPT !.running = FALSE, !.todo = {}]
  /\ UNCHANGED <<facts, saved, told>>

\* The file is written in a finally block.
WriteState_Partial ==
  /\ pass.running
  /\ saved' = [c \in Candidates |-> Classify(pass.seen[c])]
  /\ pass' = [pass EXCEPT !.running = FALSE, !.todo = {}]
  /\ UNCHANGED <<facts, told>>
\* write_state, once every candidate was visited.
WriteState ==
  /\ pass.running /\ pass.todo = {}
  /\ saved' = pass.current
  /\ pass' = [pass EXCEPT !.running = FALSE]
  /\ UNCHANGED <<facts, told>>

AttentionInit ==
  /\ facts = [c \in Candidates |-> "pending"]
  /\ saved = [c \in Candidates |-> "none"]
  /\ pass = [running |-> FALSE, todo |-> {}, seen |-> facts, current |-> saved]
  /\ told = [c \in Candidates |-> {}]

AttentionNext ==
  \/ StartPass \/ FailPass \/ WriteState
  \/ \E c \in Candidates : CandidateMoves(c) \/ Visit(c)

AttentionSpec == AttentionInit /\ [][AttentionNext]_attentionVars

(***************************************************************************)
(* Properties                                                              *)
(***************************************************************************)
\* A stage is on file only if the operator was told of it: a run that fails between two
\* messages never marks an alert as sent that nobody received.
OnFileMeansTold ==
  \A c \in Candidates : saved[c] # "none" => saved[c] \in told[c]
=============================================================================
