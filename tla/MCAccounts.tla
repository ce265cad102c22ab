----------------------------- MODULE MCAccounts -----------------------------
(***************************************************************************)
(* Instance for TLC of the modules about accounts.  They share no state:   *)
(* a behaviour moves the one its focus names and leaves the others in      *)
(* their initial state, so one run checks their sum instead of their       *)
(* product.                                                                *)
(***************************************************************************)
EXTENDS Sessions, Onboarding, ApprovalMail, ExpiryReminders, AttentionMonitor

CONSTANTS u1, u2, o1, o2, p1, p2

VARIABLE focus

accountsVars ==
  <<focus, sessionVars, onboardingVars, mailVars, remindVars, attentionVars>>

\* p1 and p2 write from addresses in the domain of o1.
DomainOf == [p \in People |-> o1]

\* What is out of focus starts in one state only.
OneStart ==
  /\ focus # "sessions" => \A u \in Users : account[u].status = "APPROVED"
  /\ focus # "reminders" => order.expiry = CHOOSE e \in Expiries : TRUE

AccountsInit ==
  /\ focus \in {"sessions", "onboarding", "mail", "reminders", "attention"}
  /\ SessionsInit /\ OnboardingInit /\ MailInit /\ RemindInit /\ AttentionInit
  /\ OneStart

AccountsNext ==
  /\ UNCHANGED focus
  /\ \/ focus = "sessions" /\ SessionsNext
        /\ UNCHANGED <<onboardingVars, mailVars, remindVars, attentionVars>>
     \/ focus = "onboarding" /\ OnboardingNext
        /\ UNCHANGED <<sessionVars, mailVars, remindVars, attentionVars>>
     \/ focus = "mail" /\ MailNext
        /\ UNCHANGED <<sessionVars, onboardingVars, remindVars, attentionVars>>
     \/ focus = "reminders" /\ RemindNext
        /\ UNCHANGED <<sessionVars, onboardingVars, mailVars, attentionVars>>
     \/ focus = "attention" /\ AttentionNext
        /\ UNCHANGED <<sessionVars, onboardingVars, mailVars, remindVars>>

AccountsSpec == AccountsInit /\ [][AccountsNext]_accountsVars
=============================================================================
