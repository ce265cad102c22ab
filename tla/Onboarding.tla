----------------------------- MODULE Onboarding -----------------------------
(***************************************************************************)
(* From registration to a reviewed member: app/routers/auth_simple.py      *)
(* (register, register_with_org, e-mail verification, approval,            *)
(* invitations, join reviews, organization decisions), app/routers/kyc.py  *)
(* and app/services/registration_cleanup.py.  register reads before it     *)
(* hashes the password and writes; submit_kyc gives its transaction up     *)
(* while a provider looks at the documents; the creation of an invitation  *)
(* reads the organization without a lock.  Administrators decide meanwhile.*)
(***************************************************************************)
EXTENDS Integers, FiniteSets

CONSTANTS
  People,        \* e-mail addresses
  Companies,     \* organizations
  Domain,        \* [People -> Companies]: the company a person's own registration names
  Founded,       \* companies approved before the run starts
  Registrations  \* concurrent register requests

ASSUME DomainAssumption == Domain \in [People -> Companies] /\ Founded \subseteq Companies

VARIABLES
  company,  \* verification_status of each organization, "none" before it exists
  person,   \* the account rows
  join,     \* status of each person's organization_join_requests row
  pending,  \* the unused pending registration of each address
  reg,      \* register requests between their reads and their commit
  sub,      \* for each person, the organization of a KYC submission at the provider
  invite    \* an invitation between the read of the organization and the commit

onboardingVars == <<company, person, join, pending, reg, sub, invite>>

NoCompany == "none"
NoPerson == [status |-> "none", verified |-> FALSE, invited |-> FALSE, claimed |-> FALSE,
             company |-> NoCompany, kyc |-> "PENDING", kycCompany |-> NoCompany]
NoRegistration == [who |-> "nobody", seen |-> NoCompany]
NoInvite == [who |-> "nobody", company |-> NoCompany]
Exists(p) == person[p].status # "none"

(***************************************************************************)
(* Registration                                                            *)
(***************************************************************************)
\* register up to the password hash: the address is free, and the company's row is
\* there or not.
RegisterReads(r, p) ==
  /\ reg[r] = NoRegistration
  /\ ~Exists(p)
  /\ reg' = [reg EXCEPT ![r] = [who |-> p, seen |-> IF company[Domain[p]] = "none" THEN NoCompany ELSE Domain[p]]]
  /\ UNCHANGED <<company, person, join, pending, sub, invite>>

\* The company existed: a pending account that asks to join it.  An account created
\* meanwhile makes the unique e-mail fail, and everything is rolled back.
RegisterToJoin(r) ==
  LET p == reg[r].who IN
  /\ p # "nobody" /\ reg[r].seen # NoCompany
  /\ reg' = [reg EXCEPT ![r] = NoRegistration]
  /\ IF Exists(p)
     THEN UNCHANGED <<person, join>>
     ELSE /\ person' = [person EXCEPT ![p].status = "PENDING"]
          /\ join' = [join EXCEPT ![p] = "PENDING"]
  /\ UNCHANGED <<company, pending, sub, invite>>

\* No company yet: an opaque token replaces the address's unused one.  Two requests
\* that replace it at once collide on the partial unique index; the loser changes nothing.
RegisterPending(r) ==
  LET p == reg[r].who IN
  /\ p # "nobody" /\ reg[r].seen = NoCompany
  /\ reg' = [reg EXCEPT ![r] = NoRegistration]
  /\ pending' \in {pending, [pending EXCEPT ![p] = "unused"]}
  /\ UNCHANGED <<company, person, join, sub, invite>>

ExpirePending(p) ==
  /\ pending[p] = "unused"
  /\ pending' = [pending EXCEPT ![p] = "expired"]
  /\ UNCHANGED <<company, person, join, reg, sub, invite>>

CleanupPendingRegistrations ==
  /\ \E p \in People : pending[p] = "expired"
  /\ pending' = [p \in People |-> IF pending[p] = "expired" THEN "none" ELSE pending[p]]
  /\ UNCHANGED <<company, person, join, reg, sub, invite>>

\* register_with_org consumes the locked token row, creates company, account and
\* join request in one transaction; a conflict on either unique key undoes all of it.
RegisterWithOrg(p) ==
  /\ pending[p] = "unused"
  /\ company[Domain[p]] = "none"
  /\ ~Exists(p)
  /\ company' = [company EXCEPT ![Domain[p]] = "PENDING"]
  /\ person' = [person EXCEPT ![p].status = "PENDING"]
  /\ join' = [join EXCEPT ![p] = "PENDING"]
  /\ pending' = [pending EXCEPT ![p] = "none"]
  /\ UNCHANGED <<reg, sub, invite>>

\* verify_email, with a link sent at registration or by resend_verification_email_public.
\* (Following the link again only draws another referral code.)
OnboardVerifyEmail(p) ==
  /\ Exists(p) /\ ~person[p].verified
  /\ person' = [person EXCEPT ![p].verified = TRUE]
  /\ UNCHANGED <<company, join, pending, reg, sub, invite>>

(***************************************************************************)
(* Invitations                                                             *)
(***************************************************************************)
\* create_admin_invitation reads an approved company (no lock on its row) ...
InviteReads(p, o) ==
  /\ invite = NoInvite
  /\ ~Exists(p) /\ company[o] = "APPROVED"
  /\ invite' = [who |-> p, company |-> o]
  /\ UNCHANGED <<company, person, join, pending, reg, sub>>

Invited(o) ==
  [NoPerson EXCEPT !.status = "APPROVED", !.invited = TRUE, !.company = o]

\* ... and inserts the approved, unclaimed member unless the address was taken.
InviteCommits ==
  /\ invite # NoInvite
  /\ invite' = NoInvite
  /\ person' = IF Exists(invite.who) THEN person
               ELSE [person EXCEPT ![invite.who] = Invited(invite.company)]
  /\ UNCHANGED <<company, join, pending, reg, sub>>

\* The variant with new_organization: company and member in one transaction.
InviteWithCompany(p) ==
  /\ ~Exists(p) /\ company[Domain[p]] = "none"
  /\ company' = [company EXCEPT ![Domain[p]] = "APPROVED"]
  /\ person' = [person EXCEPT ![p] = Invited(Domain[p])]
  /\ UNCHANGED <<join, pending, reg, sub, invite>>

UnclaimedInvitation(p) ==
  /\ person[p].invited /\ person[p].status = "APPROVED"
  /\ ~person[p].verified /\ ~person[p].claimed
  /\ person[p].company # NoCompany /\ company[person[p].company] = "APPROVED"

\* accept_admin_invitation, under the lock of the account's row.
ClaimInvitation(p) ==
  /\ UnclaimedInvitation(p)
  /\ person' = [person EXCEPT ![p].verified = TRUE, ![p].claimed = TRUE]
  /\ UNCHANGED <<company, join, pending, reg, sub, invite>>

\* reset_password of a verified account also ends must_change_password.
ResetInvitedPassword(p) ==
  /\ person[p].invited /\ person[p].status = "APPROVED" /\ person[p].verified
  /\ person' = [person EXCEPT ![p].claimed = TRUE]
  /\ UNCHANGED <<company, join, pending, reg, sub, invite>>

(***************************************************************************)
(* Administrative decisions                                                *)
(***************************************************************************)
ApprovePerson(p) ==
  /\ Exists(p) /\ person[p].verified
  /\ person' = [person EXCEPT ![p].status = "APPROVED"]
  /\ UNCHANGED <<company, join, pending, reg, sub, invite>>

RejectPerson(p) ==
  /\ Exists(p)
  /\ person' = [person EXCEPT ![p].status = "REJECTED"]
  /\ UNCHANGED <<company, join, pending, reg, sub, invite>>

ApproveCompany(o) ==
  /\ company[o] # "none"
  /\ company' = [company EXCEPT ![o] = "APPROVED"]
  /\ UNCHANGED <<person, join, pending, reg, sub, invite>>

\* _invalidate_membership_bound_kyc
WithoutKyc(row) == [row EXCEPT !.kyc = "PENDING", !.kycCompany = NoCompany]

\* reject_organization detaches the members it finds, with their KYC.
RejectCompany(o) ==
  /\ company[o] # "none"
  /\ company' = [company EXCEPT ![o] = "REJECTED"]
  /\ person' = [p \in People |->
                  IF person[p].company = o THEN [WithoutKyc(person[p]) EXCEPT !.company = NoCompany]
                  ELSE person[p]]
  /\ UNCHANGED <<join, pending, reg, sub, invite>>

\* A review that trusts the approval of the company it saw earlier.
ApproveJoin_AnyCompany(p) ==
  /\ join[p] = "PENDING"
  /\ person[p].status = "APPROVED" /\ person[p].verified
  /\ join' = [join EXCEPT ![p] = "APPROVED"]
  /\ person' = [person EXCEPT ![p] = [WithoutKyc(@) EXCEPT !.company = Domain[p]]]
  /\ UNCHANGED <<company, pending, reg, sub, invite>>
\* approve_organization_join, under the locks of request, account and company.
ApproveJoin(p) ==
  /\ join[p] = "PENDING"
  /\ person[p].status = "APPROVED" /\ person[p].verified
  /\ company[Domain[p]] = "APPROVED"
  /\ person[p].company \in {NoCompany, Domain[p]}
  /\ join' = [join EXCEPT ![p] = "APPROVED"]
  /\ person' = [person EXCEPT ![p] = IF @.company = Domain[p] THEN @
                                     ELSE [WithoutKyc(@) EXCEPT !.company = Domain[p]]]
  /\ UNCHANGED <<company, pending, reg, sub, invite>>

RejectJoin(p) ==
  /\ join[p] = "PENDING"
  /\ join' = [join EXCEPT ![p] = "REJECTED"]
  /\ UNCHANGED <<company, person, pending, reg, sub, invite>>

(***************************************************************************)
(* KYC                                                                     *)
(***************************************************************************)
\* get_current_user, then submit_kyc up to the provider call.
CanSubmit(p) ==
  person[p].status = "APPROVED" /\ (person[p].invited => person[p].claimed)

SubmitKyc(p) ==
  /\ sub[p] = NoCompany
  /\ CanSubmit(p) /\ person[p].company # NoCompany
  /\ sub' = [sub EXCEPT ![p] = person[p].company]
  /\ UNCHANGED <<company, person, join, pending, reg, invite>>

\* The provider has answered or is unavailable: the account is locked and read again.
FileKyc(p) ==
  /\ sub[p] # NoCompany
  /\ sub' = [sub EXCEPT ![p] = NoCompany]
  /\ person' = IF person[p].company = sub[p] /\ CanSubmit(p)
               THEN [person EXCEPT ![p].kyc = "REVIEW_REQUIRED", ![p].kycCompany = sub[p]]
               ELSE person
  /\ UNCHANGED <<company, join, pending, reg, invite>>

KycIsCurrent(p) == person[p].kycCompany # NoCompany /\ person[p].kycCompany = person[p].company

AdminApproveKyc(p) ==
  /\ person[p].kyc = "REVIEW_REQUIRED" /\ KycIsCurrent(p)
  /\ person' = [person EXCEPT ![p].kyc = "APPROVED"]
  /\ UNCHANGED <<company, join, pending, reg, sub, invite>>

AdminRejectKyc(p) ==
  /\ KycIsCurrent(p)
  /\ person' = [person EXCEPT ![p].kyc = "REJECTED"]
  /\ UNCHANGED <<company, join, pending, reg, sub, invite>>

(***************************************************************************)
OnboardingInit ==
  /\ company = [o \in Companies |-> IF o \in Founded THEN "APPROVED" ELSE "none"]
  /\ person = [p \in People |-> NoPerson]
  /\ join = [p \in People |-> "none"]
  /\ pending = [p \in People |-> "none"]
  /\ reg = [r \in Registrations |-> NoRegistration]
  /\ sub = [p \in People |-> NoCompany]
  /\ invite = NoInvite

OnboardingNext ==
  \/ \E r \in Registrations : RegisterToJoin(r) \/ RegisterPending(r)
                              \/ \E p \in People : RegisterReads(r, p)
  \/ \E p \in People :
       \/ ExpirePending(p) \/ RegisterWithOrg(p) \/ OnboardVerifyEmail(p)
       \/ InviteWithCompany(p) \/ ClaimInvitation(p) \/ ResetInvitedPassword(p) \/ \E o \in Companies : InviteReads(p, o)
       \/ ApprovePerson(p) \/ RejectPerson(p) \/ ApproveJoin(p) \/ RejectJoin(p)
       \/ SubmitKyc(p) \/ FileKyc(p) \/ AdminApproveKyc(p) \/ AdminRejectKyc(p)
  \/ \E o \in Companies : ApproveCompany(o) \/ RejectCompany(o)
  \/ InviteCommits \/ CleanupPendingRegistrations

OnboardingSpec == OnboardingInit /\ [][OnboardingNext]_onboardingVars

(***************************************************************************)
(* Properties                                                              *)
(***************************************************************************)
\* A person who registered belongs to a company only through an approved join request,
\* and only while that company is approved: no order of reviews, company decisions and
\* registrations leaves a member behind in a rejected company.
MembershipReviewed ==
  \A p \in People : ~person[p].invited /\ person[p].company # NoCompany =>
    join[p] = "APPROVED" /\ company[person[p].company] = "APPROVED"

\* KYC evidence is never attached to a company the person does not belong to, although
\* the provider is asked while nothing is locked.
KycFollowsMembership ==
  \A p \in People : person[p].kyc # "PENDING" => KycIsCurrent(p)

\* A company that waits for review always has an applicant: a registration that fails on
\* the account leaves no company behind.
NoOrphanCompany ==
  \A o \in Companies : company[o] = "PENDING" =>
    \E p \in People : Domain[p] = o /\ join[p] # "none"

\* A registration completes at most once per address: an address never has both an
\* invited account and a join request of its own, whatever requests overlapped.
OneWayIn == \A p \in People : ~(person[p].invited /\ join[p] # "none")

\* Registration, review, invitation and KYC keep accounts and companies together: members are
\* reviewed, evidence follows membership, companies have applicants, addresses one account.
MembershipSound == MembershipReviewed /\ KycFollowsMembership /\ NoOrphanCompany /\ OneWayIn
=============================================================================
