---------------------------- MODULE AccountProofs ----------------------------
(***************************************************************************)
(* Proofs about accounts and the workers that look after them: browser     *)
(* sessions, onboarding, the approval mail, the onboarding monitor and the *)
(* expiry reminders, for any number of users, browsers, companies,         *)
(* requests and workers and any lifetimes that satisfy the assumptions of  *)
(* the modules.                                                            *)
(***************************************************************************)
EXTENDS Sessions, Onboarding, ApprovalMail, AttentionMonitor, ExpiryReminders, SequenceTheorems, TLAPS

(***************************************************************************)
(* Browser sessions                                                        *)
(***************************************************************************)
Pairs == [sub : Users, family : Nat, iat : Nat, device : Devices, arrived : BOOLEAN]
Records == [device : Devices, revoked : BOOLEAN, replaced : BOOLEAN, grace : Nat]
Accounts == [status : Statuses, verified : BOOLEAN, mustChange : BOOLEAN,
             pwChanged : Nat, revokedAt : Nat, reset : Nat, cut : Nat]

\* Stamps and cutoffs never run ahead of the clock, nor marks ahead of the pairs issued.
SessionTyped ==
  /\ clock \in Nat \ {0}
  /\ account \in [Users -> Accounts]
  /\ token \in Seq(Pairs)
  /\ row \in [DOMAIN row -> Records] /\ DOMAIN row \subseteq Issued
  /\ sealed \in [Devices -> Nat]
Bounded ==
  /\ \A u \in Users : /\ account[u].pwChanged <= clock /\ account[u].revokedAt <= clock
                      /\ account[u].cut <= Len(token)
  /\ \A t \in Issued : token[t].iat >= 1 /\ token[t].iat <= clock /\ token[t].family <= t
  /\ \A d \in Devices : sealed[d] <= Len(token)

Admitted(a) == a.status = "APPROVED" /\ a.verified
CutoffOf(a) == IF a.pwChanged >= a.revokedAt THEN a.pwChanged ELSE a.revokedAt

\* Only an admitted account has a pair beyond its cut, and only such a pair is live.
CurrentAdmitted == \A t \in Issued : t > account[token[t].sub].cut => Admitted(account[token[t].sub])
LiveIsCurrent == \A t \in DOMAIN row : ~row[t].revoked => t > account[token[t].sub].cut
\* The live pair of a family is its last one, and a replaced one is not live.
LiveIsNewest ==
  \A t \in DOMAIN row, s \in Issued : ~row[t].revoked /\ token[s].family = token[t].family => s <= t
ReplacedIsRevoked == \A t \in DOMAIN row : row[t].replaced => row[t].revoked

SessionInv ==
  /\ SessionTyped /\ Bounded /\ CutoffsExact /\ CurrentAdmitted /\ LiveIsCurrent
  /\ BrowserSealed /\ LiveIsNewest /\ ReplacedIsRevoked /\ ReplayDetectable

-----------------------------------------------------------------------------
(* What a step of a handler may do to the session tables *)

TokensGrow ==
  /\ Len(token') \in {Len(token), Len(token) + 1}
  /\ \A t \in Issued : /\ token'[t].sub = token[t].sub /\ token'[t].family = token[t].family
                        /\ token'[t].iat = token[t].iat /\ token'[t].device = token[t].device

\* An account keeps its cutoffs and its admission, or everything issued so far is cut off
\* and its sessions are revoked.
AccountAges(u) ==
  \/ /\ CutoffOf(account'[u]) = CutoffOf(account[u]) /\ account'[u].cut = account[u].cut
     /\ Admitted(account[u]) => Admitted(account'[u])
  \/ /\ account'[u].cut = Len(token) /\ CutoffOf(account'[u]) >= clock
     /\ \A t \in DOMAIN row' : t \in Issued /\ token[t].sub = u => row'[t].revoked

\* A record is revoked or replaced for good, replaced only while it is live, and dropped
\* only when it is of no further use.
RowsAge ==
  /\ \A t \in DOMAIN row' : t \in Issued =>
        /\ t \in DOMAIN row
        /\ row'[t].device = row[t].device
        /\ row[t].revoked => row'[t] = row[t]
        /\ row'[t].replaced => row'[t].revoked
  /\ \A s \in DOMAIN row : s \in DOMAIN row' \/ Expired(s) \/ ~HasActiveSuccessor(s)

BrowserAges(d) ==
  \/ sealed'[d] = sealed[d]
  \/ /\ sealed'[d] = Len(token)
     /\ \A t \in DOMAIN row' : t \in Issued /\ row'[t].device = d => row'[t].revoked

\* A new pair starts a family of its own or takes the place of a live one on its browser.
Succeeds(n) ==
  \E t \in DOMAIN row : /\ ~row[t].revoked /\ ~Expired(t) /\ row[t].device = token'[n].device
                        /\ token'[n].family = token[t].family
                        /\ t \in DOMAIN row' /\ row'[t].replaced
NewPair(n) ==
  /\ n \in DOMAIN row' /\ row'[n] = NewRow(token'[n].device)
  /\ Admitted(account'[token'[n].sub])
  /\ token'[n].iat > CutoffOf(account'[token'[n].sub])
  /\ token'[n].family > sealed'[token'[n].device]
  /\ token'[n].family = n \/ Succeeds(n)

SessionStep ==
  /\ clock <= clock' /\ TokensGrow /\ RowsAge
  /\ \A u \in Users : AccountAges(u)
  /\ \A d \in Devices : BrowserAges(d)
  /\ Len(token') = Len(token) + 1 => NewPair(Len(token'))

-----------------------------------------------------------------------------
(* The invariant follows from what a step may do *)

LEMMA CutoffFacts ==
  ASSUME NEW a \in Accounts
  PROVE  CutoffOf(a) \in Nat /\ CutoffOf(a) >= a.pwChanged /\ CutoffOf(a) >= a.revokedAt
         /\ CutoffOf(a) \in {a.pwChanged, a.revokedAt}
  BY DEF Accounts, CutoffOf

LEMMA SessionInvInit == SessionsInit => SessionInv
<1> SUFFICES ASSUME SessionsInit PROVE SessionInv
  OBVIOUS
<1>1. token = << >> /\ Len(token) = 0 /\ Issued = {} /\ DOMAIN row = {}
  BY DEF SessionsInit, Issued
<1>2. SessionTyped /\ Bounded
  <2>1. account \in [Users -> Accounts] /\ \A u \in Users : /\ account[u].pwChanged = 0
                                      /\ account[u].revokedAt = 0 /\ account[u].cut = 0
    BY DEF SessionsInit, Accounts, Statuses
  <2>2. row \in [DOMAIN row -> Records]
    BY <1>1 DEF SessionsInit
  <2> QED BY <1>1, <2>1, <2>2 DEF SessionsInit, SessionTyped, Bounded
<1> QED
  BY <1>1, <1>2 DEF SessionInv, CutoffsExact, CurrentAdmitted, LiveIsCurrent, BrowserSealed, LiveIsNewest,
                    ReplacedIsRevoked, ReplayDetectable

LEMMA SessionInvKept == SessionInv /\ SessionTyped' /\ Bounded' /\ SessionStep => SessionInv'
<1> SUFFICES ASSUME SessionInv, SessionTyped', Bounded', SessionStep PROVE SessionInv'
  OBVIOUS
<1> DEFINE n == Len(token) + 1
<1>1. /\ Len(token) \in Nat /\ Len(token') \in Nat /\ clock \in Nat /\ clock' \in Nat /\ clock <= clock'
      /\ Issued = 1 .. Len(token) /\ Issued' = 1 .. Len(token')
      /\ Len(token') \in {Len(token), n}
      /\ DOMAIN row \subseteq Issued /\ DOMAIN row' \subseteq Issued'
  <2>1. token \in Seq(Pairs) /\ token' \in Seq(Pairs) /\ clock \in Nat /\ clock' \in Nat
    BY DEF SessionInv, SessionTyped
  <2>2. Issued = 1 .. Len(token) /\ Issued' = 1 .. Len(token')
    BY DEF Issued
  <2>3. DOMAIN row \subseteq Issued /\ DOMAIN row' \subseteq Issued'
    BY DEF SessionInv, SessionTyped
  <2>4. clock <= clock' /\ Len(token') \in {Len(token), n}
    BY DEF SessionStep, TokensGrow
  <2> QED BY <2>1, <2>2, <2>3, <2>4
<1>2. /\ n \notin Issued /\ Issued \subseteq Nat /\ \A t \in Issued : t <= Len(token) /\ t < n
  BY <1>1
<1>3. /\ \A t \in Issued : token[t] \in Pairs /\ token[t].iat >= 1 /\ token[t].iat <= clock /\ token[t].family <= t
      /\ \A t \in Issued' : token'[t] \in Pairs /\ token'[t].iat >= 1 /\ token'[t].family <= t
      /\ \A t \in Issued : /\ token'[t].sub = token[t].sub /\ token'[t].family = token[t].family
                            /\ token'[t].iat = token[t].iat /\ token'[t].device = token[t].device
  BY <1>1 DEF SessionInv, SessionTyped, Bounded, SessionStep, TokensGrow
<1>4. /\ \A u \in Users : account[u] \in Accounts /\ account'[u] \in Accounts /\ account'[u].cut <= Len(token')
                            /\ account[u].cut <= Len(token) /\ AccountAges(u)
      /\ \A d \in Devices : sealed[d] \in Nat /\ sealed'[d] \in Nat /\ BrowserAges(d)
      /\ \A t \in DOMAIN row : row[t] \in Records
      /\ \A t \in DOMAIN row' : row'[t] \in Records
  BY DEF SessionInv, SessionTyped, Bounded, SessionStep
<1>5. Len(token') = n => NewPair(n)
  BY DEF SessionStep
<1>6. \A t \in DOMAIN row' : t \in Issued =>
        /\ t \in DOMAIN row /\ row'[t].device = row[t].device
        /\ row[t].revoked => row'[t] = row[t]
        /\ row'[t].replaced => row'[t].revoked
  BY DEF SessionStep, RowsAge
<1>7. \A t \in Issued' : t \in Issued \/ (t = n /\ Len(token') = n)
  BY <1>1
<1>8. \A u \in Users : LatestCutoff(u) = CutoffOf(account[u]) /\ LatestCutoff(u)' = CutoffOf(account'[u])
  BY DEF LatestCutoff, CutoffOf
<1>9. \A t \in Issued' : token'[t].sub \in Users /\ token'[t].device \in Devices
  BY <1>3 DEF Pairs
<1>10. CutoffsExact'
  <2> SUFFICES ASSUME NEW t \in Issued'
               PROVE  TokenIsCutOff(token'[t].iat, CutoffOf(account'[token'[t].sub]))
                        <=> t <= account'[token'[t].sub].cut
    BY <1>8, <1>9 DEF CutoffsExact
  <2> DEFINE u == token'[t].sub
  <2>1. CASE t \in Issued
    <3>1. token[t].sub = u /\ token'[t].iat = token[t].iat /\ u \in Users
      BY <1>3, <1>9, <2>1
    <3>2. TokenIsCutOff(token[t].iat, CutoffOf(account[u])) <=> t <= account[u].cut
      BY <1>8, <2>1, <3>1 DEF SessionInv, CutoffsExact
    <3>3. CASE CutoffOf(account'[u]) = CutoffOf(account[u]) /\ account'[u].cut = account[u].cut
      BY <3>1, <3>2, <3>3
    <3>4. CASE account'[u].cut = Len(token) /\ CutoffOf(account'[u]) >= clock
      <4>1. /\ t <= Len(token) /\ token[t].iat >= 1 /\ token[t].iat <= clock /\ token[t].iat \in Nat
            /\ CutoffOf(account'[u]) \in Nat
        BY <1>2, <1>3, <1>4, <2>1, <3>1, CutoffFacts DEF Pairs
      <4> QED BY <1>1, <3>1, <3>4, <4>1 DEF TokenIsCutOff
    <3> QED BY <1>4, <3>1, <3>3, <3>4 DEF AccountAges
  <2>2. CASE t = n /\ Len(token') = n
    <3>1. token'[t].iat > CutoffOf(account'[u]) /\ u \in Users
      BY <1>5, <1>9, <2>2 DEF NewPair
    <3>2. account'[u].cut <= Len(token) /\ account'[u].cut \in Nat
      BY <1>4, <3>1 DEF AccountAges, Accounts
    <3>3. token'[t].iat \in Nat /\ CutoffOf(account'[u]) \in Nat
      BY <1>3, <1>4, <3>1, CutoffFacts DEF Pairs
    <3> QED BY <1>1, <2>2, <3>1, <3>2, <3>3 DEF TokenIsCutOff
  <2> QED BY <1>7, <2>1, <2>2
<1>11. CurrentAdmitted'
  <2> SUFFICES ASSUME NEW t \in Issued', t > account'[token'[t].sub].cut
               PROVE  Admitted(account'[token'[t].sub])
    BY DEF CurrentAdmitted
  <2> DEFINE u == token'[t].sub
  <2>1. CASE t \in Issued
    <3>1. token[t].sub = u /\ u \in Users /\ t <= Len(token) /\ t \in Nat
      BY <1>2, <1>3, <1>9, <2>1
    <3>2. t > account[u].cut => Admitted(account[u])
      BY <2>1, <3>1 DEF SessionInv, CurrentAdmitted
    <3> HIDE DEF u
    <3> QED BY <1>1, <1>4, <3>1, <3>2 DEF AccountAges, u
  <2>2. CASE t = n /\ Len(token') = n
    BY <1>5, <2>2 DEF NewPair
  <2> QED BY <1>7, <2>1, <2>2
<1>12. LiveIsCurrent'
  <2> SUFFICES ASSUME NEW t \in DOMAIN row', ~row'[t].revoked
               PROVE  t > account'[token'[t].sub].cut
    BY DEF LiveIsCurrent
  <2> DEFINE u == token'[t].sub
  <2>0. t \in Issued' /\ u \in Users
    BY <1>1, <1>9
  <2>1. CASE t \in Issued
    <3>1. token[t].sub = u /\ t \in DOMAIN row /\ ~row[t].revoked
      BY <1>3, <1>6, <2>1
    <3>2. t > account[u].cut
      BY <3>1 DEF SessionInv, LiveIsCurrent
    <3> QED BY <1>4, <2>0, <2>1, <3>1, <3>2 DEF AccountAges
  <2>2. CASE t = n /\ Len(token') = n
    <3>1. account'[u].cut <= Len(token) /\ account'[u].cut \in Nat
      BY <1>4, <2>0 DEF AccountAges, Accounts
    <3> QED BY <1>1, <2>2, <3>1
  <2> QED BY <1>7, <2>0, <2>1, <2>2
<1>13. BrowserSealed'
  <2> SUFFICES ASSUME NEW t \in DOMAIN row', ~row'[t].revoked
               PROVE  token'[t].family > sealed'[row'[t].device]
    BY DEF BrowserSealed
  <2>1. CASE t \in Issued
    <3>1. token'[t].family = token[t].family /\ t \in DOMAIN row /\ ~row[t].revoked /\ row'[t].device = row[t].device
      BY <1>3, <1>6, <2>1
    <3>2. token[t].family > sealed[row[t].device] /\ row[t].device \in Devices
      BY <1>4, <3>1 DEF SessionInv, BrowserSealed, Records
    <3> QED BY <1>4, <2>1, <3>1, <3>2 DEF BrowserAges
  <2>2. CASE t = n /\ Len(token') = n
    BY <1>5, <2>2 DEF NewPair, NewRow
  <2> QED BY <1>1, <1>7, <2>1, <2>2
<1>14. ReplacedIsRevoked'
  <2> SUFFICES ASSUME NEW t \in DOMAIN row', row'[t].replaced PROVE row'[t].revoked
    BY DEF ReplacedIsRevoked
  <2>1. CASE t = n /\ Len(token') = n
    BY <1>5, <2>1 DEF NewPair, NewRow
  <2> QED BY <1>1, <1>6, <1>7, <2>1
<1>15. LiveIsNewest'
  <2> SUFFICES ASSUME NEW t \in DOMAIN row', NEW s \in Issued', ~row'[t].revoked,
                      token'[s].family = token'[t].family
               PROVE  s <= t
    BY DEF LiveIsNewest
  <2>1. s \in Nat /\ s <= Len(token') /\ t \in Issued'
    BY <1>1
  <2>2. CASE t = n /\ Len(token') = n
    BY <2>1, <2>2
  <2>3. ASSUME t \in Issued PROVE t \in DOMAIN row /\ ~row[t].revoked /\ token'[t].family = token[t].family
    BY <1>3, <1>6, <2>3
  <2>4. CASE t \in Issued /\ s \in Issued
    BY <1>3, <2>3, <2>4 DEF SessionInv, LiveIsNewest
  <2>5. CASE t \in Issued /\ s = n /\ Len(token') = n
    <3>1. token[t].family <= t /\ t < n /\ token[t].family \in Nat /\ t \in Nat
      BY <1>2, <1>3, <2>5 DEF Pairs
    <3>2. Succeeds(n)
      BY <1>1, <1>5, <2>3, <2>5, <3>1 DEF NewPair
    <3>3. PICK p \in DOMAIN row : /\ ~row[p].revoked /\ token'[n].family = token[p].family
                                  /\ p \in DOMAIN row' /\ row'[p].replaced
      BY <3>2 DEF Succeeds
    <3>4. p \in Issued /\ row'[p].revoked
      BY <1>1, <1>6, <3>3
    <3>5. p <= t /\ t <= p /\ p \in Nat
      BY <1>2, <2>3, <2>5, <3>3, <3>4 DEF SessionInv, LiveIsNewest
    <3>6. p = t
      BY <3>1, <3>5
    <3> QED BY <3>4, <3>6
  <2> QED BY <1>7, <2>1, <2>2, <2>4, <2>5
<1>16. ASSUME NEW t \in Issued, Live(t)' PROVE Live(t)
  <2>1. t \in DOMAIN row /\ ~row[t].revoked
    BY <1>6, <1>16 DEF Live
  <2>2. ~Expired(t)
    BY <1>1, <1>3, <1>16, SessionConstants DEF Live, Expired, Pairs
  <2> QED BY <2>1, <2>2 DEF Live
<1>17. ASSUME NEW s \in Issued, NEW t \in Issued, s < t, token[s].family = token[t].family, Live(t),
              ~Expired(s)
       PROVE  s \in DOMAIN row' /\ row'[s].replaced
  <2>1. s \in DOMAIN row /\ row[s].replaced /\ row[s].revoked
    BY <1>17 DEF SessionInv, ReplayDetectable, ReplacedIsRevoked
  <2>2. HasActiveSuccessor(s)
    BY <1>17 DEF HasActiveSuccessor, RowsOfFamily, Live
  <2>3. s \in DOMAIN row'
    BY <1>17, <2>1, <2>2 DEF SessionStep, RowsAge
  <2> QED BY <1>6, <2>1, <2>3
<1>18. ReplayDetectable'
  <2> SUFFICES ASSUME NEW s \in Issued', NEW t \in Issued', s < t, token'[s].family = token'[t].family,
                      Live(t)', ~Expired(s)'
               PROVE  s \in DOMAIN row' /\ row'[s].replaced
    BY DEF ReplayDetectable
  <2>1. s \in Issued
    BY <1>1
  <2>2. ~Expired(s)
    BY <1>1, <1>3, <2>1, SessionConstants DEF Expired, Pairs
  <2>3. CASE t \in Issued
    BY <1>3, <1>16, <1>17, <2>1, <2>2, <2>3
  <2>4. CASE t = n /\ Len(token') = n
    <3>1. token[s].family <= s /\ s < n /\ token[s].family \in Nat /\ s \in Nat /\ token'[s].family = token[s].family
      BY <1>2, <1>3, <2>1 DEF Pairs
    <3>2. Succeeds(n)
      BY <1>1, <1>5, <2>4, <3>1 DEF NewPair
    <3>3. PICK p \in DOMAIN row : /\ ~row[p].revoked /\ ~Expired(p) /\ token'[n].family = token[p].family
                                  /\ p \in DOMAIN row' /\ row'[p].replaced
      BY <3>2 DEF Succeeds
    <3>4. p \in Issued /\ Live(p) /\ p \in Nat
      BY <1>1, <3>3 DEF Live
    <3>5. s <= p /\ token[s].family = token[p].family
      BY <2>1, <2>4, <3>1, <3>3 DEF SessionInv, LiveIsNewest
    <3>6. CASE s = p
      BY <3>3, <3>6
    <3>7. CASE s < p
      BY <1>17, <2>1, <2>2, <3>4, <3>5, <3>7
    <3> QED BY <3>1, <3>4, <3>5, <3>6, <3>7
  <2> QED BY <1>7, <2>3, <2>4
<1> QED
  BY <1>10, <1>11, <1>12, <1>13, <1>14, <1>15, <1>18 DEF SessionInv

-----------------------------------------------------------------------------
(* What the handlers are built from *)

\* A version of the table in which records were revoked or replaced.
Aged(r) ==
  /\ r \in [DOMAIN row -> Records]
  /\ \A t \in DOMAIN row : /\ r[t].device = row[t].device /\ (row[t].revoked => r[t] = row[t])
                           /\ (r[t].replaced => r[t].revoked)

LEMMA RevokeAges ==
  ASSUME SessionInv, NEW S
  PROVE  Aged(RevokeRows(S)) /\ \A t \in DOMAIN row : t \in S => RevokeRows(S)[t].revoked
<1> DEFINE r == RevokeRows(S)
<1>1. \A t \in DOMAIN row : row[t] \in Records /\ (row[t].replaced => row[t].revoked)
  BY DEF SessionInv, SessionTyped, ReplacedIsRevoked
<1>2. r = [t \in DOMAIN row |-> IF t \in S THEN [row[t] EXCEPT !.revoked = TRUE] ELSE row[t]]
  BY DEF RevokeRows
<1>3. ASSUME NEW t \in DOMAIN row
      PROVE  /\ r[t] \in Records /\ r[t].device = row[t].device /\ (row[t].revoked => r[t] = row[t])
             /\ (r[t].replaced => r[t].revoked) /\ (t \in S => r[t].revoked)
  <2>1. CASE t \in S
    <3>1. r[t] = [row[t] EXCEPT !.revoked = TRUE]
      BY <1>2, <2>1
    <3> QED BY <1>1, <3>1 DEF Records
  <2>2. CASE t \notin S
    BY <1>1, <1>2, <2>2
  <2> QED BY <2>1, <2>2
<1> QED
  <2>1. r \in [DOMAIN row -> Records]
    BY <1>2, <1>3
  <2> HIDE DEF r
  <2> QED BY <1>3, <2>1 DEF Aged, r

\* Facts about the pairs and the accounts before a step.
LEMMA SessionFacts ==
  ASSUME SessionInv
  PROVE  /\ Len(token) \in Nat /\ Issued = 1 .. Len(token) /\ clock \in Nat /\ clock >= 1
         /\ token \in Seq(Pairs) /\ DOMAIN row \subseteq Issued
         /\ row \in [DOMAIN row -> Records]
         /\ \A t \in Issued : /\ token[t] \in Pairs /\ token[t].iat >= 1 /\ token[t].iat <= clock
                               /\ token[t].family <= t
         /\ \A u \in Users : /\ account[u] \in Accounts /\ account[u].pwChanged <= clock
                              /\ account[u].revokedAt <= clock /\ account[u].cut <= Len(token)
         /\ \A d \in Devices : sealed[d] \in Nat /\ sealed[d] <= Len(token)
<1>1. token \in Seq(Pairs)
  BY DEF SessionInv, SessionTyped
<1>2. Len(token) \in Nat /\ Issued = 1 .. Len(token) /\ \A t \in Issued : token[t] \in Pairs
  BY <1>1 DEF Issued
<1> QED BY <1>1, <1>2 DEF SessionInv, SessionTyped, Bounded

\* A step that issues no pair.
LEMMA QuietRows ==
  ASSUME SessionInv, token' = token, Aged(row'), clock' \in Nat, clock' >= clock
  PROVE  /\ clock' \in Nat \ {0} /\ clock <= clock' /\ TokensGrow /\ RowsAge /\ Len(token') = Len(token)
         /\ token' \in Seq(Pairs) /\ row' \in [DOMAIN row' -> Records] /\ DOMAIN row' \subseteq Issued'
         /\ \A t \in Issued' : token'[t].iat >= 1 /\ token'[t].iat <= clock' /\ token'[t].family <= t
<1>1. Issued' = Issued
  BY DEF Issued
<1>2. DOMAIN row' = DOMAIN row
  BY DEF Aged
<1>3. clock' >= 1 /\ \A t \in Issued : token[t].iat <= clock'
  BY SessionFacts DEF Pairs
<1> QED BY <1>1, <1>2, <1>3, SessionFacts DEF TokensGrow, RowsAge, Aged

\* A step that issues a pair over the table r.
IssuedOver(u, d, f, at, r, n) ==
  /\ clock' \in Nat \ {0} /\ clock <= clock' /\ TokensGrow /\ RowsAge
  /\ Len(token') = n
  /\ token' \in Seq(Pairs) /\ row' \in [DOMAIN row' -> Records] /\ DOMAIN row' \subseteq Issued'
  /\ \A t \in Issued' : token'[t].iat >= 1 /\ token'[t].iat <= clock' /\ token'[t].family <= t
  /\ token'[n] = [sub |-> u, family |-> f, iat |-> at, device |-> d, arrived |-> FALSE]
  /\ DOMAIN row' = DOMAIN row \union {n} /\ row'[n] = NewRow(d)
  /\ \A t \in Issued : t # n
  /\ \A t \in DOMAIN row : row'[t] = r[t]

LEMMA IssueRows ==
  ASSUME SessionInv, NEW u \in Users, NEW d \in Devices, NEW f \in Nat, NEW at \in Nat, NEW r, Aged(r),
         at >= 1, f <= Len(token) + 1, IssuePair(u, d, f, at, r)
  PROVE  IssuedOver(u, d, f, at, r, Len(token) + 1)
<1> DEFINE n == Len(token) + 1
<1> DEFINE pair == [sub |-> u, family |-> f, iat |-> at, device |-> d, arrived |-> FALSE]
<1>1. pair \in Pairs
  BY DEF Pairs
<1>2. /\ token' = Append(token, pair)
      /\ row' = [t \in DOMAIN r \cup {n} |-> IF t = n THEN NewRow(d) ELSE r[t]]
      /\ clock' = IF at > clock THEN at ELSE clock
  BY DEF IssuePair
<1>3. /\ token' \in Seq(Pairs) /\ Len(token') = n /\ token'[n] = pair
      /\ \A t \in 1 .. Len(token) : token'[t] = token[t]
  <2> HIDE DEF pair
  <2> QED BY <1>1, <1>2, SessionFacts, AppendProperties
<1>4. Issued' = 1 .. n /\ Issued' = Issued \union {n} /\ n \notin Issued /\ n \in Nat
  <2>1. Issued' = 1 .. n
    BY <1>3 DEF Issued
  <2> QED BY <2>1, SessionFacts
<1>5. clock' \in Nat /\ clock' >= clock /\ clock' >= at /\ clock' >= 1
  BY <1>2, SessionFacts
<1>6. DOMAIN r = DOMAIN row /\ n \notin DOMAIN row
  BY <1>4, SessionFacts DEF Aged
<1>7. NewRow(d) \in Records
  BY DEF NewRow, Records
<1>8. /\ DOMAIN row' = DOMAIN row \union {n} /\ row'[n] = NewRow(d)
      /\ \A t \in DOMAIN row : row'[t] = r[t]
  BY <1>2, <1>6
<1>9. row' \in [DOMAIN row' -> Records]
  BY <1>2, <1>6, <1>7 DEF Aged
<1>10. DOMAIN row' \subseteq Issued'
  BY <1>4, <1>8, SessionFacts
<1>11. \A t \in Issued' : token'[t].iat >= 1 /\ token'[t].iat <= clock' /\ token'[t].family <= t
  <2>1. \A t \in Issued : token'[t] = token[t] /\ token[t].iat \in Nat
    BY <1>3, SessionFacts DEF Pairs
  <2> QED BY <1>3, <1>4, <1>5, <2>1, SessionFacts
<1>12. TokensGrow
  BY <1>3, SessionFacts DEF TokensGrow
<1>13. RowsAge
  BY <1>4, <1>8 DEF RowsAge, Aged
<1> QED BY <1>3, <1>4, <1>5, <1>8, <1>9, <1>10, <1>11, <1>12, <1>13 DEF IssuedOver

LEMMA PasswordFacts ==
  ASSUME SessionInv, NEW u \in Users, NEW a, a = PasswordSet(u)
  PROVE  /\ a \in Accounts /\ a.pwChanged = clock /\ a.revokedAt = account[u].revokedAt
         /\ a.cut = Len(token) /\ CutoffOf(a) = clock
         /\ a.status = account[u].status /\ a.verified = account[u].verified
<1>1. a = [account[u] EXCEPT !.pwChanged = clock, !.mustChange = FALSE, !.cut = Len(token)]
  BY DEF PasswordSet
<1>2. /\ a \in Accounts /\ a.pwChanged = clock /\ a.revokedAt = account[u].revokedAt
      /\ a.cut = Len(token) /\ a.status = account[u].status /\ a.verified = account[u].verified
  BY <1>1, SessionFacts DEF Accounts
<1> QED BY <1>2, SessionFacts DEF CutoffOf

SessionMoves == SessionTyped' /\ Bounded' /\ SessionStep

AccountsAge ==
  /\ account' \in [Users -> Accounts]
  /\ \A u \in Users : /\ account'[u].pwChanged <= clock' /\ account'[u].revokedAt <= clock'
                       /\ AccountAges(u)
BrowsersAge == sealed' \in [Devices -> Nat] /\ \A d \in Devices : BrowserAges(d)

LEMMA MarksBounded ==
  ASSUME SessionInv, AccountsAge, BrowsersAge
  PROVE  /\ \A u \in Users : account'[u].cut <= Len(token) /\ account'[u].cut \in Nat
         /\ \A d \in Devices : sealed'[d] <= Len(token) /\ sealed'[d] \in Nat
<1>1. \A u \in Users : account'[u].cut <= Len(token) /\ account'[u].cut \in Nat
  BY SessionFacts DEF AccountsAge, AccountAges, Accounts
<1>2. \A d \in Devices : sealed'[d] <= Len(token) /\ sealed'[d] \in Nat
  BY SessionFacts DEF BrowsersAge, BrowserAges
<1> QED BY <1>1, <1>2

LEMMA QuietMoves ==
  ASSUME SessionInv, token' = token, Aged(row'), clock' \in Nat, clock' >= clock, AccountsAge, BrowsersAge
  PROVE  SessionMoves
<1>1. SessionTyped' /\ Bounded'
  BY QuietRows, MarksBounded DEF SessionTyped, Bounded, AccountsAge, BrowsersAge
<1>2. SessionStep
  BY QuietRows, SessionFacts DEF SessionStep, AccountsAge, BrowsersAge
<1> QED BY <1>1, <1>2 DEF SessionMoves

LEMMA IssueMoves ==
  ASSUME SessionInv, NEW u \in Users, NEW d \in Devices, NEW f \in Nat, NEW at \in Nat, NEW r, Aged(r),
         at >= 1, f <= Len(token) + 1, IssuePair(u, d, f, at, r), AccountsAge, BrowsersAge,
         Admitted(account'[u]), at > CutoffOf(account'[u]), f > sealed'[d],
         f = Len(token) + 1 \/ Succeeds(Len(token) + 1)
  PROVE  SessionMoves
<1> DEFINE n == Len(token) + 1
<1>1. IssuedOver(u, d, f, at, r, n)
  BY IssueRows
<1> USE DEF IssuedOver
<1>2. SessionTyped'
  BY <1>1 DEF SessionTyped, AccountsAge, BrowsersAge
<1>3. Bounded'
  <2>1. Len(token) <= Len(token') /\ Len(token) \in Nat /\ Len(token') \in Nat
    BY <1>1, SessionFacts
  <2>2. \A e \in Users : account'[e].cut <= Len(token')
    BY <2>1, MarksBounded
  <2>3. \A e \in Devices : sealed'[e] <= Len(token')
    BY <2>1, MarksBounded
  <2> QED BY <1>1, <2>2, <2>3 DEF Bounded, AccountsAge
<1>4. NewPair(n)
  BY <1>1 DEF NewPair
<1> QED BY <1>1, <1>2, <1>3, <1>4 DEF SessionMoves, SessionStep, AccountsAge, BrowsersAge

LEMMA AccountsKept ==
  ASSUME SessionInv, account' = account, clock' \in Nat, clock <= clock'
  PROVE  AccountsAge
<1>1. \A u \in Users : account[u].pwChanged <= clock' /\ account[u].revokedAt <= clock'
  BY SessionFacts DEF Accounts
<1>2. account \in [Users -> Accounts]
  BY DEF SessionInv, SessionTyped
<1> QED BY <1>1, <1>2 DEF AccountsAge, AccountAges

LEMMA BrowsersKept == ASSUME SessionInv, sealed' = sealed PROVE BrowsersAge
  BY DEF SessionInv, SessionTyped, BrowsersAge, BrowserAges

LEMMA RowsKept == ASSUME SessionInv PROVE Aged(row)
  BY DEF SessionInv, SessionTyped, Aged, ReplacedIsRevoked

LEMMA BrowserSeals ==
  ASSUME SessionInv, NEW d \in Devices, sealed' = [sealed EXCEPT ![d] = Len(token)],
         \A t \in DOMAIN row' : t \in Issued /\ row'[t].device = d => row'[t].revoked
  PROVE  BrowsersAge /\ sealed'[d] = Len(token)
<1>1. sealed \in [Devices -> Nat] /\ Len(token) \in Nat
  BY SessionFacts DEF SessionInv, SessionTyped
<1> QED BY <1>1 DEF BrowsersAge, BrowserAges

\* One account is replaced by a.
LEMMA AccountChanges ==
  ASSUME SessionInv, NEW u \in Users, NEW a \in Accounts, account' = [account EXCEPT ![u] = a],
         clock' \in Nat, clock <= clock', a.pwChanged <= clock', a.revokedAt <= clock',
         \/ CutoffOf(a) = CutoffOf(account[u]) /\ a.cut = account[u].cut
            /\ (Admitted(account[u]) => Admitted(a))
         \/ a.cut = Len(token) /\ CutoffOf(a) >= clock
            /\ \A t \in DOMAIN row' : t \in Issued /\ token[t].sub = u => row'[t].revoked
  PROVE  AccountsAge /\ account'[u] = a
<1>1. account \in [Users -> Accounts]
  BY DEF SessionInv, SessionTyped
<1>2. account'[u] = a /\ \A e \in Users : e # u => account'[e] = account[e]
  BY <1>1
<1>3. account' \in [Users -> Accounts]
  BY <1>1
<1>4. ASSUME NEW e \in Users
      PROVE  account'[e].pwChanged <= clock' /\ account'[e].revokedAt <= clock' /\ AccountAges(e)
  <2>1. CASE e = u
    BY <1>2, <2>1 DEF AccountAges
  <2>2. CASE e # u
    BY <1>2, <2>2, SessionFacts DEF AccountAges, Accounts
  <2> QED BY <2>1, <2>2
<1> QED BY <1>2, <1>3, <1>4 DEF AccountsAge

-----------------------------------------------------------------------------
(* The handlers *)

\* The table after a handler revoked S and issued a pair over it.
LEMMA RevokedThenIssued ==
  ASSUME SessionInv, NEW S, NEW u \in Users, NEW d \in Devices, NEW f \in Nat, NEW at \in Nat,
         at >= 1, f <= Len(token) + 1, IssuePair(u, d, f, at, RevokeRows(S))
  PROVE  /\ Aged(RevokeRows(S))
         /\ \A t \in DOMAIN row' : t \in Issued => /\ t \in DOMAIN row /\ row'[t].device = row[t].device
                                                   /\ (t \in S => row'[t].revoked)
<1>1. Aged(RevokeRows(S)) /\ \A t \in DOMAIN row : t \in S => RevokeRows(S)[t].revoked
  BY RevokeAges
<1> DEFINE r == RevokeRows(S)
<1> HIDE DEF r
<1>2. /\ RowsAge /\ DOMAIN row' = DOMAIN row \union {Len(token) + 1}
      /\ \A t \in DOMAIN row : row'[t] = r[t]
      /\ \A t \in Issued : t # Len(token) + 1
  <2>1. IssuedOver(u, d, f, at, r, Len(token) + 1)
    BY <1>1, IssueRows DEF r
  <2> QED BY <2>1 DEF IssuedOver
<1> QED BY <1>1, <1>2 DEF RowsAge, r

LEMMA LoginMoves ==
  ASSUME SessionInv, NEW u \in Users, NEW d \in Devices, NEW presented, Login(u, d, presented)
  PROVE  SessionMoves
<1> DEFINE n == Len(token) + 1
           at == IssuedAfter(LatestCutoff(u))
           S == DeviceRows(d, presented)
<1>1. /\ IssuePair(u, d, n, at, RevokeRows(S)) /\ sealed' = [sealed EXCEPT ![d] = Len(token)]
      /\ account' = account /\ Admitted(account[u])
  BY DEF Login, Admitted
<1>2. LatestCutoff(u) = CutoffOf(account[u]) /\ CutoffOf(account[u]) \in Nat
  BY SessionFacts, CutoffFacts DEF LatestCutoff, CutoffOf
<1>3. at \in Nat /\ at >= 1 /\ at > CutoffOf(account[u])
  BY <1>2, SessionFacts DEF IssuedAfter
<1>4. n \in Nat /\ n <= Len(token) + 1
  BY SessionFacts
<1> HIDE DEF at
<1>5. /\ Aged(RevokeRows(S))
      /\ \A t \in DOMAIN row' : t \in Issued => /\ t \in DOMAIN row /\ row'[t].device = row[t].device
                                                /\ (t \in S => row'[t].revoked)
  BY <1>1, <1>3, <1>4, RevokedThenIssued
<1>6. BrowsersAge /\ sealed'[d] = Len(token)
  BY <1>1, <1>5, BrowserSeals DEF DeviceRows
<1>7. clock' \in Nat /\ clock <= clock'
  BY <1>1, <1>3, SessionFacts DEF IssuePair
<1>8. AccountsAge
  BY <1>1, <1>7, AccountsKept
<1>9. n > sealed'[d]
  BY <1>6, SessionFacts
<1> QED BY <1>1, <1>3, <1>4, <1>5, <1>6, <1>8, <1>9, IssueMoves

LEMMA LogoutMoves ==
  ASSUME SessionInv, NEW d \in Devices, NEW presented, Logout(d, presented)
  PROVE  SessionMoves
<1>1. /\ row' = RevokeRows(DeviceRows(d, presented)) /\ sealed' = [sealed EXCEPT ![d] = Len(token)]
      /\ UNCHANGED <<clock, account, token>>
  BY DEF Logout
<1>2. Aged(row') /\ \A t \in DOMAIN row : t \in DeviceRows(d, presented) => row'[t].revoked
  BY <1>1, RevokeAges
<1>3. \A t \in DOMAIN row' : t \in DOMAIN row /\ row'[t].device = row[t].device
  BY <1>2 DEF Aged
<1>4. \A t \in DOMAIN row' : t \in Issued /\ row'[t].device = d => row'[t].revoked
  BY <1>2, <1>3 DEF DeviceRows
<1>5. BrowsersAge
  BY <1>1, <1>4, BrowserSeals
<1> QED BY <1>1, <1>2, <1>5, AccountsKept, QuietMoves, SessionFacts

LEMMA LogoutFamilyMoves ==
  ASSUME SessionInv, NEW t \in Issued, LogoutFamily(t)
  PROVE  SessionMoves
<1>1. row' = RevokeRows(RowsOfFamily(token[t].family)) /\ UNCHANGED <<clock, account, token, sealed>>
  BY DEF LogoutFamily
<1>2. Aged(row')
  BY <1>1, RevokeAges
<1> QED BY <1>1, <1>2, AccountsKept, BrowsersKept, QuietMoves, SessionFacts

LEMMA RefreshMoves ==
  ASSUME SessionInv, NEW d \in Devices, NEW t \in Issued, Refresh(d, t)
  PROVE  SessionMoves
<1> DEFINE u == token[t].sub
           n == Len(token) + 1
           at == IssuedAfter(LatestCutoff(u))
<1>1. account' = account /\ sealed' = sealed /\ token[t].device = d
  BY DEF Refresh
<1>2. CASE RefreshOutcome(d, t) = "REPLAYED" /\ RevokeReplayed(t)
  <2>1. row' = RevokeRows(RowsOfFamily(token[t].family)) /\ UNCHANGED <<clock, token>>
    BY <1>2 DEF RevokeReplayed
  <2>2. Aged(row')
    BY <2>1, RevokeAges
  <2> QED BY <1>1, <2>1, <2>2, AccountsKept, BrowsersKept, QuietMoves, SessionFacts
<1>3. CASE RefreshOutcome(d, t) = "OK" /\ Rotate(d, t)
  <2> DEFINE old == [row EXCEPT ![t] = [device |-> d, revoked |-> TRUE, replaced |-> TRUE, grace |-> clock + Grace]]
  <2>1. /\ account[u].status = "APPROVED" /\ t \in DOMAIN row /\ row[t].device = d
        /\ ~row[t].revoked /\ ~Expired(t)
    BY <1>3 DEF RefreshOutcome
  <2>2. IssuePair(u, d, token[t].family, at, old)
    BY <1>3 DEF Rotate
  <2>3. u \in Users /\ token[t].family \in Nat /\ token[t].family <= n
    BY SessionFacts DEF Pairs
  <2>4. LatestCutoff(u) = CutoffOf(account[u]) /\ CutoffOf(account[u]) \in Nat
    BY <2>3, SessionFacts, CutoffFacts DEF LatestCutoff, CutoffOf
  <2>5. at \in Nat /\ at >= 1 /\ at > CutoffOf(account[u])
    BY <2>4, SessionFacts DEF IssuedAfter
  <2> HIDE DEF at
  <2>6. Aged(old) /\ old[t].replaced
    <3>1. [device |-> d, revoked |-> TRUE, replaced |-> TRUE, grace |-> clock + Grace] \in Records
      BY SessionFacts, SessionConstants DEF Records
    <3>2. \A s \in DOMAIN row : row[s] \in Records /\ (row[s].replaced => row[s].revoked)
      BY SessionFacts DEF SessionInv, ReplacedIsRevoked
    <3> QED BY <2>1, <3>1, <3>2, SessionFacts DEF Aged
  <2> HIDE DEF old
  <2>7. /\ clock' \in Nat /\ clock <= clock' /\ DOMAIN row' = DOMAIN row \union {n}
        /\ row'[t] = old[t]
        /\ token'[n] = [sub |-> u, family |-> token[t].family, iat |-> at, device |-> d, arrived |-> FALSE]
    <3>1. IssuedOver(u, d, token[t].family, at, old, n)
      BY <2>2, <2>3, <2>5, <2>6, IssueRows
    <3> QED BY <2>1, <3>1 DEF IssuedOver
  <2>8. Succeeds(n)
    BY <2>1, <2>6, <2>7 DEF Succeeds
  <2>9. token[t].family > sealed'[d] /\ Admitted(account[u])
    BY <1>1, <2>1 DEF SessionInv, BrowserSealed, LiveIsCurrent, CurrentAdmitted
  <2>10. AccountsAge /\ BrowsersAge
    BY <1>1, <2>7, AccountsKept, BrowsersKept
  <2> QED BY <1>1, <2>2, <2>3, <2>5, <2>6, <2>8, <2>9, <2>10, IssueMoves
<1> QED BY <1>2, <1>3 DEF Refresh

LEMMA ChangePasswordMoves ==
  ASSUME SessionInv, NEW t \in Issued, ChangePassword(t)
  PROVE  SessionMoves
<1> DEFINE u == token[t].sub
           d == token[t].device
           n == Len(token) + 1
           a == PasswordSet(u)
<1>1. /\ AccessAccepted(t) /\ account' = [account EXCEPT ![u] = a] /\ sealed' = sealed
      /\ IssuePair(u, d, n, clock + 1, RevokeRows(RowsOfUser(u)))
  BY DEF ChangePassword
<1>2. u \in Users /\ d \in Devices /\ n \in Nat /\ n <= Len(token) + 1 /\ clock + 1 \in Nat /\ clock + 1 >= 1
      /\ clock \in Nat /\ n > Len(token)
  BY SessionFacts DEF Pairs
<1>3. /\ a \in Accounts /\ a.pwChanged = clock /\ a.revokedAt = account[u].revokedAt
      /\ a.cut = Len(token) /\ CutoffOf(a) = clock
      /\ a.status = account[u].status /\ a.verified = account[u].verified
  BY <1>2, PasswordFacts
<1> HIDE DEF a
<1>4. /\ Aged(RevokeRows(RowsOfUser(u)))
      /\ \A s \in DOMAIN row' : s \in Issued => /\ s \in DOMAIN row /\ row'[s].device = row[s].device
                                                /\ (s \in RowsOfUser(u) => row'[s].revoked)
  BY <1>1, <1>2, RevokedThenIssued
<1>5. clock' \in Nat /\ clock <= clock'
  BY <1>1, <1>2 DEF IssuePair
<1>6. a.pwChanged <= clock' /\ a.revokedAt <= clock' /\ CutoffOf(a) >= clock
  BY <1>2, <1>3, <1>5, SessionFacts DEF Accounts
<1>7. \A s \in DOMAIN row' : s \in Issued /\ token[s].sub = u => row'[s].revoked
  BY <1>4 DEF RowsOfUser
<1>8. AccountsAge /\ account'[u] = a
  BY <1>1, <1>2, <1>3, <1>5, <1>6, <1>7, AccountChanges
<1>9. Admitted(a)
  <2>1. token[t].iat \in Nat /\ token[t].iat >= 1 /\ account[u] \in Accounts
    BY <1>2, SessionFacts DEF Pairs
  <2>2. ~TokenIsCutOff(token[t].iat, LatestCutoff(u))
    BY <1>1 DEF AccessAccepted, LatestCutoff
  <2>3. ~(t <= account[u].cut)
    BY <2>2 DEF SessionInv, CutoffsExact
  <2>4. t > account[u].cut
    BY <2>1, <2>3, SessionFacts DEF Accounts
  <2> QED BY <1>3, <2>4 DEF SessionInv, CurrentAdmitted, Admitted
<1>10. BrowsersAge /\ n > sealed'[d]
  BY <1>1, <1>2, BrowsersKept, SessionFacts
<1>11. Admitted(account'[u]) /\ clock + 1 > CutoffOf(account'[u])
  BY <1>2, <1>3, <1>8, <1>9
<1> HIDE DEF u, d
<1> QED BY <1>1, <1>2, <1>4, <1>8, <1>10, <1>11, IssueMoves

LEMMA AcceptInvitationMoves ==
  ASSUME SessionInv, NEW u \in Users, NEW d \in Devices, NEW presented, AcceptInvitation(u, d, presented)
  PROVE  SessionMoves
<1> DEFINE n == Len(token) + 1
           b == PasswordSet(u)
           a == [b EXCEPT !.reset = 0, !.verified = TRUE]
           S == DeviceRows(d, presented) \cup RowsOfUser(u)
<1>1. /\ account[u].status = "APPROVED" /\ account' = [account EXCEPT ![u] = a]
      /\ sealed' = [sealed EXCEPT ![d] = Len(token)]
      /\ IssuePair(u, d, n, clock + 1, RevokeRows(S))
  BY DEF AcceptInvitation, Unclaimed
<1>2. /\ n \in Nat /\ n <= Len(token) + 1 /\ clock + 1 \in Nat /\ clock + 1 >= 1
      /\ clock \in Nat /\ n > Len(token)
  BY SessionFacts
<1>3. /\ b \in Accounts /\ b.pwChanged = clock /\ b.revokedAt = account[u].revokedAt
      /\ b.cut = Len(token) /\ CutoffOf(b) = clock /\ b.status = account[u].status
  BY PasswordFacts
<1> HIDE DEF b
<1>4. /\ a \in Accounts /\ a.pwChanged = clock /\ a.revokedAt = account[u].revokedAt
      /\ a.cut = Len(token) /\ CutoffOf(a) = clock /\ Admitted(a)
  BY <1>1, <1>3 DEF Accounts, CutoffOf, Admitted
<1> HIDE DEF a, S
<1>5. /\ Aged(RevokeRows(S))
      /\ \A s \in DOMAIN row' : s \in Issued => /\ s \in DOMAIN row /\ row'[s].device = row[s].device
                                                /\ (s \in S => row'[s].revoked)
  BY <1>1, <1>2, RevokedThenIssued
<1>6. clock' \in Nat /\ clock <= clock'
  BY <1>1, <1>2 DEF IssuePair
<1>7. a.pwChanged <= clock' /\ a.revokedAt <= clock' /\ CutoffOf(a) >= clock
  BY <1>2, <1>4, <1>6, SessionFacts DEF Accounts
<1>8. /\ \A s \in DOMAIN row' : s \in Issued /\ token[s].sub = u => row'[s].revoked
      /\ \A s \in DOMAIN row' : s \in Issued /\ row'[s].device = d => row'[s].revoked
  BY <1>5 DEF RowsOfUser, DeviceRows, S
<1>9. AccountsAge /\ account'[u] = a
  BY <1>1, <1>4, <1>6, <1>7, <1>8, AccountChanges
<1>10. BrowsersAge /\ sealed'[d] = Len(token)
  BY <1>1, <1>8, BrowserSeals
<1>11. Admitted(account'[u]) /\ clock + 1 > CutoffOf(account'[u]) /\ n > sealed'[d]
  BY <1>2, <1>4, <1>9, <1>10
<1> QED BY <1>1, <1>2, <1>5, <1>9, <1>10, <1>11, IssueMoves

LEMMA ResetPasswordMoves ==
  ASSUME SessionInv, NEW u \in Users, ResetPassword(u)
  PROVE  SessionMoves
<1> DEFINE b == PasswordSet(u)
           a == [b EXCEPT !.reset = 0]
<1>1. account' = [account EXCEPT ![u] = a] /\ row' = RevokeRows(RowsOfUser(u)) /\ UNCHANGED <<clock, token, sealed>>
  BY DEF ResetPassword
<1>2. /\ b \in Accounts /\ b.pwChanged = clock /\ b.revokedAt = account[u].revokedAt
      /\ b.cut = Len(token) /\ CutoffOf(b) = clock
  BY PasswordFacts
<1> HIDE DEF b
<1>3. /\ a \in Accounts /\ a.pwChanged = clock /\ a.revokedAt = account[u].revokedAt
      /\ a.cut = Len(token) /\ CutoffOf(a) = clock
  BY <1>2 DEF Accounts, CutoffOf
<1> HIDE DEF a
<1>4. Aged(row') /\ \A t \in DOMAIN row : t \in RowsOfUser(u) => row'[t].revoked
  BY <1>1, RevokeAges
<1>5. \A t \in DOMAIN row' : t \in Issued /\ token[t].sub = u => row'[t].revoked
  BY <1>4 DEF Aged, RowsOfUser
<1>6. /\ a.pwChanged <= clock' /\ a.revokedAt <= clock' /\ CutoffOf(a) >= clock /\ clock' \in Nat
      /\ clock' = clock /\ clock <= clock'
  BY <1>1, <1>3, SessionFacts DEF Accounts
<1>7. AccountsAge
  BY <1>1, <1>3, <1>5, <1>6, AccountChanges
<1> QED BY <1>1, <1>4, <1>6, <1>7, BrowsersKept, QuietMoves, SessionFacts

LEMMA RejectUserMoves ==
  ASSUME SessionInv, NEW u \in Users, RejectUser(u)
  PROVE  SessionMoves
<1> DEFINE at == IF clock <= account[u].revokedAt THEN account[u].revokedAt + 1 ELSE clock
           a == [account[u] EXCEPT !.status = "REJECTED", !.revokedAt = at, !.cut = Len(token)]
<1>1. /\ account' = [account EXCEPT ![u] = a] /\ row' = RevokeRows(RowsOfUser(u))
      /\ token' = token /\ sealed' = sealed
      /\ clock' = IF account[u].revokedAt >= clock THEN account[u].revokedAt + 1 ELSE clock
  BY DEF RejectUser, InvalidateAuthentication
<1>2. account[u] \in Accounts /\ account[u].pwChanged <= clock /\ clock \in Nat /\ account[u].revokedAt \in Nat
      /\ account[u].pwChanged \in Nat /\ Len(token) \in Nat
  BY SessionFacts DEF Accounts
<1>3. at \in Nat /\ at >= clock /\ clock' = at
  BY <1>1, <1>2
<1> HIDE DEF at
<1>4. a \in Accounts /\ a.revokedAt = at /\ a.cut = Len(token) /\ a.pwChanged = account[u].pwChanged
  BY <1>2, <1>3 DEF Accounts, Statuses
<1> HIDE DEF a
<1>5. CutoffOf(a) >= clock /\ a.pwChanged <= clock' /\ a.revokedAt <= clock' /\ clock' \in Nat /\ clock <= clock'
      /\ clock' >= clock
  BY <1>2, <1>3, <1>4 DEF CutoffOf
<1>6. Aged(row') /\ \A t \in DOMAIN row : t \in RowsOfUser(u) => row'[t].revoked
  BY <1>1, RevokeAges
<1>7. \A t \in DOMAIN row' : t \in Issued /\ token[t].sub = u => row'[t].revoked
  BY <1>6 DEF Aged, RowsOfUser
<1>8. AccountsAge
  BY <1>1, <1>4, <1>5, <1>7, AccountChanges
<1> QED BY <1>1, <1>5, <1>6, <1>8, BrowsersKept, QuietMoves

\* Handlers that touch neither the pairs nor the cutoffs of an account.
LEMMA AccountOnlyMoves ==
  ASSUME SessionInv, NEW u \in Users,
         \/ ForgotPassword(u) \/ ApproveUser(u) \/ CreateInvitation(u) \/ VerifyEmail(u)
  PROVE  SessionMoves
<1>1. UNCHANGED <<clock, token, row, sealed>>
  BY DEF ForgotPassword, ApproveUser, CreateInvitation, VerifyEmail
<1>2. account[u] \in Accounts /\ clock + ResetTTL \in Nat
  BY SessionFacts, SessionConstants
<1>3. ASSUME NEW a \in Accounts, account' = [account EXCEPT ![u] = a], a.pwChanged = account[u].pwChanged,
             a.revokedAt = account[u].revokedAt, a.cut = account[u].cut, Admitted(account[u]) => Admitted(a)
      PROVE  SessionMoves
  <2>1. /\ CutoffOf(a) = CutoffOf(account[u]) /\ a.pwChanged <= clock' /\ a.revokedAt <= clock'
        /\ clock' \in Nat /\ clock <= clock'
    BY <1>1, <1>3, SessionFacts DEF CutoffOf
  <2>2. AccountsAge
    BY <1>3, <2>1, AccountChanges
  <2> QED BY <1>1, <2>1, <2>2, RowsKept, BrowsersKept, QuietMoves
<1>4. CASE ForgotPassword(u)
  <2> DEFINE a == [account[u] EXCEPT !.reset = clock + ResetTTL]
  <2>1. account' = [account EXCEPT ![u] = a]
    BY <1>4 DEF ForgotPassword
  <2>2. /\ a \in Accounts /\ a.pwChanged = account[u].pwChanged /\ a.revokedAt = account[u].revokedAt
        /\ a.cut = account[u].cut /\ (Admitted(account[u]) => Admitted(a))
    BY <1>2 DEF Accounts, Admitted
  <2> HIDE DEF a
  <2> QED BY <1>3, <2>1, <2>2
<1>5. CASE ApproveUser(u)
  <2> DEFINE a == [account[u] EXCEPT !.status = "APPROVED"]
  <2>1. account' = [account EXCEPT ![u] = a]
    BY <1>5 DEF ApproveUser
  <2>2. /\ a \in Accounts /\ a.pwChanged = account[u].pwChanged /\ a.revokedAt = account[u].revokedAt
        /\ a.cut = account[u].cut /\ (Admitted(account[u]) => Admitted(a))
    BY <1>2 DEF Accounts, Admitted, Statuses
  <2> HIDE DEF a
  <2> QED BY <1>3, <2>1, <2>2
<1>6. CASE CreateInvitation(u)
  <2> DEFINE a == [account[u] EXCEPT !.status = "APPROVED", !.verified = FALSE,
                     !.mustChange = TRUE, !.reset = clock + ResetTTL]
  <2>1. account' = [account EXCEPT ![u] = a]
    BY <1>6 DEF CreateInvitation
  <2>2. ~Admitted(account[u])
    BY <1>6 DEF CreateInvitation, Unclaimed, Admitted
  <2>3. /\ a \in Accounts /\ a.pwChanged = account[u].pwChanged /\ a.revokedAt = account[u].revokedAt
        /\ a.cut = account[u].cut
    BY <1>2 DEF Accounts, Statuses
  <2> HIDE DEF a
  <2> QED BY <1>3, <2>1, <2>2, <2>3
<1>7. CASE VerifyEmail(u)
  <2> DEFINE a == [account[u] EXCEPT !.verified = TRUE]
  <2>1. account' = [account EXCEPT ![u] = a]
    BY <1>7 DEF VerifyEmail
  <2>2. /\ a \in Accounts /\ a.pwChanged = account[u].pwChanged /\ a.revokedAt = account[u].revokedAt
        /\ a.cut = account[u].cut /\ (Admitted(account[u]) => Admitted(a))
    BY <1>2 DEF Accounts, Admitted
  <2> HIDE DEF a
  <2> QED BY <1>3, <2>1, <2>2
<1> QED BY <1>4, <1>5, <1>6, <1>7

LEMMA ArriveMoves ==
  ASSUME SessionInv, NEW t \in Issued, Arrive(t)
  PROVE  SessionMoves
<1>1. token' = [token EXCEPT ![t].arrived = TRUE] /\ UNCHANGED <<clock, account, row, sealed>>
  BY DEF Arrive
<1>2. token \in [1 .. Len(token) -> Pairs] /\ Len(token) \in Nat /\ t \in 1 .. Len(token)
  BY SessionFacts
<1>3. [token[t] EXCEPT !.arrived = TRUE] \in Pairs
  BY <1>2 DEF Pairs
<1>4. token' \in Seq(Pairs) /\ Len(token') = Len(token)
  <2>1. token' = [token EXCEPT ![t] = [token[t] EXCEPT !.arrived = TRUE]]
    BY <1>1
  <2> QED BY <1>3, <2>1, SessionFacts
<1>5. \A s \in Issued : /\ token'[s].sub = token[s].sub /\ token'[s].family = token[s].family
                        /\ token'[s].iat = token[s].iat /\ token'[s].device = token[s].device
  <2>1. \A s \in Issued : token'[s] = token[s] \/ (s = t /\ token'[s] = [token[t] EXCEPT !.arrived = TRUE])
    BY <1>1, <1>2, SessionFacts
  <2> QED BY <2>1, SessionFacts DEF Pairs
<1>6. Issued' = Issued /\ clock' = clock /\ clock \in Nat \ {0} /\ clock <= clock'
  BY <1>1, <1>4, SessionFacts DEF Issued
<1>7. AccountsAge /\ BrowsersAge
  BY <1>1, <1>6, AccountsKept, BrowsersKept
<1>8. TokensGrow /\ RowsAge
  BY <1>1, <1>4, <1>5, RowsKept DEF TokensGrow, RowsAge, Aged
<1>9. SessionTyped'
  BY <1>1, <1>4, <1>6, SessionFacts DEF SessionInv, SessionTyped
<1>10. Bounded'
  BY <1>1, <1>4, <1>5, <1>6 DEF SessionInv, Bounded
<1>11. Len(token') # Len(token) + 1
  <2>1. Len(token) \in Nat
    BY <1>2
  <2> QED BY <1>4, <2>1
<1> QED BY <1>6, <1>7, <1>8, <1>9, <1>10, <1>11 DEF SessionMoves, SessionStep, AccountsAge, BrowsersAge

LEMMA MaintenanceMoves ==
  ASSUME SessionInv, RunAuthMaintenance
  PROVE  SessionMoves
<1> DEFINE kept == {t \in DOMAIN row : ~Removable(t)}
<1>1. /\ row' = [t \in kept |-> row[t]] /\ UNCHANGED <<clock, token, sealed>>
      /\ account' = [u \in Users |-> IF account[u].reset # 0 /\ account[u].reset <= clock
                                     THEN [account[u] EXCEPT !.reset = 0] ELSE account[u]]
  BY DEF RunAuthMaintenance
<1>2. \A u \in Users : /\ account'[u] \in Accounts /\ account'[u].pwChanged = account[u].pwChanged
                       /\ account'[u].revokedAt = account[u].revokedAt /\ account'[u].cut = account[u].cut
                       /\ account'[u].status = account[u].status /\ account'[u].verified = account[u].verified
  <2> SUFFICES ASSUME NEW u \in Users
               PROVE  /\ account'[u] \in Accounts /\ account'[u].pwChanged = account[u].pwChanged
                      /\ account'[u].revokedAt = account[u].revokedAt /\ account'[u].cut = account[u].cut
                      /\ account'[u].status = account[u].status /\ account'[u].verified = account[u].verified
    OBVIOUS
  <2>1. account'[u] = account[u] \/ account'[u] = [account[u] EXCEPT !.reset = 0]
    BY <1>1
  <2> QED BY <2>1, SessionFacts DEF Accounts
<1>3. account' \in [Users -> Accounts]
  BY <1>1, <1>2
<1>4. AccountsAge
  BY <1>1, <1>2, <1>3, SessionFacts DEF AccountsAge, AccountAges, CutoffOf, Admitted
<1>5. BrowsersAge
  BY <1>1, BrowsersKept
<1>6. DOMAIN row' = kept /\ kept \subseteq DOMAIN row /\ \A t \in kept : row'[t] = row[t]
  BY <1>1
<1>7. \A s \in DOMAIN row : s \in kept \/ Expired(s) \/ ~HasActiveSuccessor(s)
  BY DEF Removable
<1> HIDE DEF kept
<1>8. RowsAge
  BY <1>6, <1>7 DEF RowsAge, SessionInv, ReplacedIsRevoked
<1>9. TokensGrow /\ Issued' = Issued /\ clock' = clock /\ clock <= clock'
  BY <1>1, SessionFacts DEF TokensGrow, Issued
<1>10. row' \in [DOMAIN row' -> Records] /\ DOMAIN row' \subseteq Issued'
  BY <1>1, <1>6, <1>9, SessionFacts
<1>11. SessionTyped'
  BY <1>1, <1>3, <1>10 DEF SessionInv, SessionTyped
<1>12. Bounded'
  BY <1>1, <1>2, <1>9 DEF SessionInv, Bounded
<1>13. Len(token') # Len(token) + 1
  BY <1>1, SessionFacts
<1> QED BY <1>4, <1>5, <1>8, <1>9, <1>11, <1>12, <1>13 DEF SessionMoves, SessionStep, AccountsAge, BrowsersAge

LEMMA SessionsMove == ASSUME SessionInv, [SessionsNext]_sessionVars PROVE SessionMoves
<1>1. Managed \subseteq Users
  BY SessionConstants
<1>2. CASE Tick
  <2>1. clock' \in Nat /\ clock <= clock' /\ clock' >= clock /\ UNCHANGED <<account, token, row, sealed>>
    BY <1>2, SessionFacts DEF Tick
  <2> QED BY <2>1, RowsKept, AccountsKept, BrowsersKept, QuietMoves
<1>3. CASE RunAuthMaintenance
  BY <1>3, MaintenanceMoves
<1>4. ASSUME NEW d \in Devices, NEW presented,
             \/ Logout(d, presented)
             \/ \E u \in Users : Login(u, d, presented)
             \/ \E u \in Managed : AcceptInvitation(u, d, presented)
      PROVE  SessionMoves
  BY <1>1, <1>4, LogoutMoves, LoginMoves, AcceptInvitationMoves
<1>5. ASSUME NEW d \in Devices, NEW t \in Issued, Refresh(d, t) PROVE SessionMoves
  BY <1>5, RefreshMoves
<1>6. ASSUME NEW t \in Issued, Arrive(t) \/ LogoutFamily(t) \/ ChangePassword(t) PROVE SessionMoves
  BY <1>6, ArriveMoves, LogoutFamilyMoves, ChangePasswordMoves
<1>7. ASSUME NEW u \in Managed,
             \/ ForgotPassword(u) \/ ResetPassword(u) \/ RejectUser(u) \/ ApproveUser(u)
             \/ CreateInvitation(u) \/ VerifyEmail(u)
      PROVE  SessionMoves
  BY <1>1, <1>7, AccountOnlyMoves, ResetPasswordMoves, RejectUserMoves
<1>8. CASE UNCHANGED sessionVars
  <2>1. clock' \in Nat /\ clock <= clock' /\ clock' >= clock /\ UNCHANGED <<account, token, row, sealed>>
    BY <1>8, SessionFacts DEF sessionVars
  <2> QED BY <2>1, RowsKept, AccountsKept, BrowsersKept, QuietMoves
<1> QED BY <1>2, <1>3, <1>4, <1>5, <1>6, <1>7, <1>8 DEF SessionsNext

LEMMA SessionInvStep == SessionInv /\ [SessionsNext]_sessionVars => SessionInv'
  BY SessionsMove, SessionInvKept DEF SessionMoves

-----------------------------------------------------------------------------
(* Revocation *)

LEMMA SessionInvRevokes == SessionInv => RevocationComplete
<1> SUFFICES ASSUME SessionInv PROVE LiveSessionsAdmitted
  BY DEF RevocationComplete, SessionInv
<1> SUFFICES ASSUME NEW t \in DOMAIN row, ~row[t].revoked
             PROVE  Admitted(account[token[t].sub]) /\ token[t].iat > LatestCutoff(token[t].sub)
  BY DEF LiveSessionsAdmitted, Admitted
<1> DEFINE u == token[t].sub
<1>1. t \in Issued /\ u \in Users /\ token[t].iat \in Nat /\ token[t].iat >= 1 /\ t \in Nat
  BY SessionFacts DEF Pairs
<1>2. t > account[u].cut /\ account[u].cut \in Nat
  BY <1>1, SessionFacts DEF SessionInv, LiveIsCurrent, Accounts
<1>3. LatestCutoff(u) = CutoffOf(account[u]) /\ CutoffOf(account[u]) \in Nat
  BY <1>1, SessionFacts, CutoffFacts DEF LatestCutoff, CutoffOf
<1>4. ~TokenIsCutOff(token[t].iat, LatestCutoff(u))
  BY <1>1, <1>2 DEF SessionInv, CutoffsExact
<1>5. token[t].iat > LatestCutoff(u)
  BY <1>1, <1>3, <1>4 DEF TokenIsCutOff
<1> QED BY <1>1, <1>2, <1>5 DEF SessionInv, CurrentAdmitted

\* Rejection, password change, reset, login and logout end every session they were meant to
\* end, and the timestamps cut off exactly the pairs issued before, for any number of
\* accounts, browsers and pairs and any interleaving of late answers with the handlers.
THEOREM RevocationAlwaysComplete == SessionsSpec => []RevocationComplete
  BY SessionInvInit, SessionInvStep, SessionInvRevokes, PTL DEF SessionsSpec

-----------------------------------------------------------------------------
(* Rotation *)

\* A refresh of t from d would be granted or told to wait for its successor.
Usable(d, t) ==
  /\ ~Expired(t) /\ account[token[t].sub].status = "APPROVED"
  /\ ~TokenIsCutOff(token[t].iat, account[token[t].sub].pwChanged)
  /\ ~TokenIsCutOff(token[t].iat, account[token[t].sub].revokedAt)
  /\ t \in DOMAIN row /\ row[t].device = d
  /\ row[t].replaced => ActiveInFamily(token[t].family, d) /\ row[t].grace >= clock
  /\ ~row[t].replaced => ~row[t].revoked

LEMMA OutcomeUsable ==
  ASSUME NEW d, NEW t
  PROVE  RefreshOutcome(d, t) \in TerminalCodes <=> ~Usable(d, t)
  BY DEF RefreshOutcome, TerminalCodes, Usable

LEMMA OutcomeUsableNext ==
  ASSUME NEW d, NEW t
  PROVE  RefreshOutcome(d, t)' \in TerminalCodes <=> ~Usable(d, t)'
  BY DEF RefreshOutcome, TerminalCodes, Usable

LEMMA UsableBefore ==
  ASSUME SessionInv, SessionInv', SessionStep, NEW d \in Devices, NEW t \in Issued, Usable(d, t)'
  PROVE  Usable(d, t)
<1> DEFINE n == Len(token) + 1
           u == token[t].sub
<1>1. /\ Len(token) \in Nat /\ clock \in Nat /\ clock' \in Nat /\ clock <= clock'
      /\ Issued = 1 .. Len(token) /\ DOMAIN row \subseteq Issued
  BY SessionFacts DEF SessionInv, SessionTyped, SessionStep
<1>2. /\ Issued' = 1 .. Len(token') /\ Len(token') \in {Len(token), n} /\ DOMAIN row' \subseteq Issued'
  BY DEF Issued, SessionStep, TokensGrow, SessionInv, SessionTyped
<1>3. \A s \in Issued : /\ token[s] \in Pairs /\ token[s].family <= s /\ token'[s].sub = token[s].sub
                        /\ token'[s].family = token[s].family /\ token'[s].iat = token[s].iat
  BY SessionFacts DEF SessionStep, TokensGrow
<1>4. \A s \in DOMAIN row' : s \in Issued => /\ s \in DOMAIN row /\ row'[s].device = row[s].device
                                             /\ (row[s].revoked => row'[s] = row[s])
  BY DEF SessionStep, RowsAge
<1>5. \A s \in Issued : ~Expired(s)' => ~Expired(s)
  BY <1>1, <1>3, SessionConstants DEF Expired, Pairs
<1>6. /\ u \in Users /\ token[t].iat \in Nat /\ token[t].iat >= 1 /\ t \in Issued' /\ t \in Nat /\ t <= Len(token)
      /\ account[u] \in Accounts /\ account'[u] \in Accounts /\ AccountAges(u)
  <2>1. u \in Users /\ token[t].iat \in Nat /\ token[t].iat >= 1
    BY <1>3, SessionFacts DEF Pairs
  <2>2. t \in Issued' /\ t \in Nat /\ t <= Len(token)
    BY <1>1, <1>2
  <2>3. account[u] \in Accounts /\ account'[u] \in Accounts /\ AccountAges(u)
    BY <2>1 DEF SessionInv, SessionTyped, SessionStep
  <2> QED BY <2>1, <2>2, <2>3
<1>7. t > account[u].cut
  <2>1. ~TokenIsCutOff(token[t].iat, CutoffOf(account'[u]))
    BY <1>3 DEF Usable, CutoffOf
  <2>2. ~(t <= account'[u].cut)
    BY <1>3, <1>6, <2>1 DEF SessionInv, CutoffsExact, LatestCutoff, CutoffOf
  <2>3. account'[u].cut \in Nat /\ account'[u].cut # Len(token)
    BY <1>6, <2>2 DEF Accounts
  <2> QED BY <1>6, <2>2, <2>3 DEF AccountAges
<1>8. /\ account[u].status = "APPROVED"
      /\ ~TokenIsCutOff(token[t].iat, account[u].pwChanged)
      /\ ~TokenIsCutOff(token[t].iat, account[u].revokedAt)
  <2>1. account[u].status = "APPROVED"
    BY <1>7 DEF SessionInv, CurrentAdmitted, Admitted
  <2>2. ~TokenIsCutOff(token[t].iat, CutoffOf(account[u]))
    BY <1>6, <1>7 DEF SessionInv, CutoffsExact, LatestCutoff, CutoffOf, Accounts
  <2>3. /\ CutoffOf(account[u]) \in Nat /\ CutoffOf(account[u]) >= account[u].pwChanged
        /\ CutoffOf(account[u]) >= account[u].revokedAt
        /\ account[u].pwChanged \in Nat /\ account[u].revokedAt \in Nat
    BY <1>6, CutoffFacts DEF Accounts
  <2> QED BY <1>6, <2>1, <2>2, <2>3 DEF TokenIsCutOff
<1>9. t \in DOMAIN row' /\ t \in DOMAIN row /\ row[t].device = d /\ row'[t].device = d
  BY <1>4 DEF Usable
<1>10. CASE row[t].replaced
  <2>1. row'[t] = row[t]
    BY <1>4, <1>9, <1>10 DEF SessionInv, ReplacedIsRevoked
  <2>2. /\ row[t].grace >= clock'
        /\ \E s \in DOMAIN row' : /\ token'[s].family = token'[t].family /\ Live(s)'
                                  /\ row'[s].device = d
    BY <1>10, <2>1 DEF Usable, ActiveInFamily, RowsOfFamily
  <2>3. row[t].grace >= clock
    BY <1>1, <1>9, <2>2, SessionFacts DEF Records
  <2>4. PICK s \in DOMAIN row' : token'[s].family = token'[t].family /\ Live(s)' /\ row'[s].device = d
    BY <2>2
  <2>5. CASE s \in Issued
    <3>1. s \in DOMAIN row /\ ~row[s].revoked /\ ~Expired(s) /\ row[s].device = d
      BY <1>4, <1>5, <2>4, <2>5 DEF Live
    <3>2. ActiveInFamily(token[t].family, d)
      BY <1>3, <2>4, <2>5, <3>1 DEF ActiveInFamily, RowsOfFamily, Live
    <3> QED BY <1>5, <1>8, <1>9, <1>10, <2>3, <3>2 DEF Usable
  <2>6. CASE s \notin Issued
    <3>1. s = n /\ Len(token') = n
      BY <1>1, <1>2, <2>6
    <3>2. NewPair(n)
      BY <3>1 DEF SessionStep
    <3>3. token[t].family < n /\ token[t].family \in Nat /\ token'[t].family = token[t].family
      BY <1>1, <1>3, <1>6 DEF Pairs
    <3>4. Succeeds(n) /\ token'[n].device = d
      BY <1>1, <2>4, <3>1, <3>2, <3>3 DEF NewPair, NewRow
    <3>5. ActiveInFamily(token[t].family, d)
      BY <2>4, <3>1, <3>3, <3>4 DEF Succeeds, ActiveInFamily, RowsOfFamily, Live
    <3> QED BY <1>5, <1>8, <1>9, <1>10, <2>3, <3>5 DEF Usable
  <2> QED BY <2>5, <2>6
<1>11. CASE ~row[t].replaced
  <2>1. ~row[t].revoked
    BY <1>4, <1>9, <1>11 DEF Usable
  <2> QED BY <1>5, <1>8, <1>9, <1>11, <2>1 DEF Usable
<1> QED BY <1>10, <1>11

LEMMA OneLive == SessionInv => OneLivePerFamily
<1> SUFFICES ASSUME SessionInv, NEW s \in DOMAIN row, NEW t \in DOMAIN row,
                    token[s].family = token[t].family, ~row[s].revoked, ~row[t].revoked
             PROVE  s = t
  BY DEF OneLivePerFamily
<1>1. s \in Issued /\ t \in Issued /\ s \in Nat /\ t \in Nat
  BY SessionFacts
<1>2. s <= t /\ t <= s
  BY <1>1 DEF SessionInv, LiveIsNewest
<1> QED BY <1>1, <1>2

LEMMA PromisedSuccessor == SessionInv => SuccessorUsable
<1> SUFFICES ASSUME SessionInv, NEW d \in Devices, NEW t \in Issued, RefreshOutcome(d, t) = "IN_PROGRESS"
             PROVE  \E s \in Issued : RefreshOutcome(d, s) = "OK"
  BY DEF SuccessorUsable
<1>1. ActiveInFamily(token[t].family, d)
  BY DEF RefreshOutcome
<1>2. PICK s \in DOMAIN row : ~row[s].revoked /\ ~Expired(s) /\ row[s].device = d
  BY <1>1 DEF ActiveInFamily, RowsOfFamily, Live
<1>3. s \in Issued /\ ~row[s].replaced
  BY <1>2, SessionFacts DEF SessionInv, ReplacedIsRevoked
<1> DEFINE u == token[s].sub
<1>4. u \in Users /\ token[s].iat \in Nat
  BY <1>3, SessionFacts DEF Pairs
<1>5. account[u].status = "APPROVED" /\ token[s].iat > CutoffOf(account[u])
  BY <1>2, SessionInvRevokes DEF RevocationComplete, LiveSessionsAdmitted, LatestCutoff, CutoffOf
<1>6. ~TokenIsCutOff(token[s].iat, account[u].pwChanged) /\ ~TokenIsCutOff(token[s].iat, account[u].revokedAt)
  <2>1. /\ CutoffOf(account[u]) \in Nat /\ CutoffOf(account[u]) >= account[u].pwChanged
        /\ CutoffOf(account[u]) >= account[u].revokedAt
        /\ account[u].pwChanged \in Nat /\ account[u].revokedAt \in Nat
    BY <1>4, SessionFacts, CutoffFacts DEF Accounts
  <2> QED BY <1>4, <1>5, <2>1 DEF TokenIsCutOff
<1>7. RefreshOutcome(d, s) = "OK"
  BY <1>2, <1>3, <1>5, <1>6 DEF RefreshOutcome
<1> QED BY <1>3, <1>7

StaysTerminal ==
  \A d \in Devices, t \in Issued :
    RefreshOutcome(d, t) \in TerminalCodes => RefreshOutcome(d, t)' \in TerminalCodes

LEMMA TerminalStep == SessionInv /\ [SessionsNext]_sessionVars => StaysTerminal
<1> SUFFICES ASSUME SessionInv, [SessionsNext]_sessionVars, NEW d \in Devices, NEW t \in Issued
             PROVE  RefreshOutcome(d, t) \in TerminalCodes => RefreshOutcome(d, t)' \in TerminalCodes
  BY DEF StaysTerminal
<1>1. SessionInv' /\ SessionStep
  BY SessionInvStep, SessionsMove DEF SessionMoves
<1>2. Usable(d, t)' => Usable(d, t)
  BY <1>1, UsableBefore
<1> QED BY <1>2, OutcomeUsable, OutcomeUsableNext

\* Refresh rotation is sound for any number of browsers, families and duplicated or delayed
\* requests: one redeemable pair per family, reuse of an older one recognized, a retry
\* promised only a successor that works, and a terminal answer never taken back.
THEOREM RotationAlwaysSound == SessionsSpec => RotationSound
<1>1. SessionsSpec => []SessionInv
  BY SessionInvInit, SessionInvStep, PTL DEF SessionsSpec
<1>2. SessionInv => OneLivePerFamily /\ ReplayDetectable /\ SuccessorUsable
  BY OneLive, PromisedSuccessor DEF SessionInv
<1>3. SessionsSpec => [][StaysTerminal]_sessionVars
  BY <1>1, TerminalStep, PTL DEF SessionsSpec
<1>4. SessionsSpec => TerminalIsFinal
  BY <1>3 DEF TerminalIsFinal, StaysTerminal
<1> QED BY <1>1, <1>2, <1>4, PTL DEF RotationSound

(***************************************************************************)
(* Onboarding                                                              *)
(***************************************************************************)
Persons == [status : {"none", "PENDING", "APPROVED", "REJECTED"}, verified : BOOLEAN, invited : BOOLEAN,
            claimed : BOOLEAN, company : Companies \union {NoCompany},
            kyc : {"PENDING", "REVIEW_REQUIRED", "APPROVED", "REJECTED"},
            kycCompany : Companies \union {NoCompany}]

OnboardingTyped ==
  /\ company \in [Companies -> {"none", "PENDING", "APPROVED", "REJECTED"}]
  /\ person \in [People -> Persons]
  /\ join \in [People -> {"none", "PENDING", "APPROVED", "REJECTED"}]
  /\ reg \in [Registrations -> [who : People \union {"nobody"}, seen : Companies \union {NoCompany}]]
  /\ sub \in [People -> Companies \union {NoCompany}]
  /\ invite \in [who : People \union {"nobody"}, company : Companies \union {NoCompany}]
  /\ invite # NoInvite => invite.who \in People
  /\ \A r \in Registrations : reg[r].who # "nobody" => reg[r].who \in People

\* An address without an account has no history.
NoTrace == \A p \in People : ~Exists(p) => person[p] = NoPerson /\ join[p] = "none"

OnboardingInv == OnboardingTyped /\ NoTrace /\ MembershipSound

LEMMA OnboardingInvInit == OnboardingInit => OnboardingInv
<1> SUFFICES ASSUME OnboardingInit PROVE OnboardingInv
  OBVIOUS
<1>1. NoPerson \in Persons /\ NoPerson.status = "none" /\ NoPerson.company = NoCompany /\ NoPerson.kyc = "PENDING"
      /\ ~NoPerson.invited
  BY DEF NoPerson, Persons, NoCompany
<1>2. OnboardingTyped
  BY <1>1 DEF OnboardingInit, OnboardingTyped, NoRegistration, NoInvite
<1>3. NoTrace
  BY DEF OnboardingInit, NoTrace
<1>4. MembershipSound
  BY <1>1 DEF OnboardingInit, MembershipSound, MembershipReviewed, KycFollowsMembership, NoOrphanCompany, OneWayIn
<1> QED BY <1>2, <1>3, <1>4 DEF OnboardingInv

\* What a step may do to one person's account and join request.
PersonFits(q) ==
  /\ ~person'[q].invited /\ person'[q].company # NoCompany =>
        join'[q] = "APPROVED" /\ company'[person'[q].company] = "APPROVED"
  /\ person'[q].kyc # "PENDING" => person'[q].kycCompany # NoCompany /\ person'[q].kycCompany = person'[q].company
  /\ ~(person'[q].invited /\ join'[q] # "none")
  /\ person'[q].status = "none" => person'[q] = NoPerson /\ join'[q] = "none"

LEMMA OnboardingKept ==
  ASSUME OnboardingInv, OnboardingTyped', \A q \in People : PersonFits(q),
         \A q \in People : join'[q] = "none" => join[q] = "none",
         \A o \in Companies : company'[o] = "PENDING" =>
            company[o] = "PENDING" \/ \E q \in People : Domain[q] = o /\ join'[q] # "none"
  PROVE  OnboardingInv'
<1>1. NoTrace' /\ MembershipReviewed' /\ OneWayIn'
  BY DEF NoTrace, Exists, MembershipReviewed, OneWayIn, PersonFits
<1>2. KycFollowsMembership'
  BY DEF KycFollowsMembership, KycIsCurrent, PersonFits
<1>3. NoOrphanCompany'
  BY DEF NoOrphanCompany, OnboardingInv, MembershipSound
<1> QED BY <1>1, <1>2, <1>3 DEF OnboardingInv, MembershipSound

LEMMA PersonFacts ==
  ASSUME OnboardingInv, NEW q \in People
  PROVE  /\ person[q] \in Persons
         /\ ~person[q].invited /\ person[q].company # NoCompany =>
              join[q] = "APPROVED" /\ company[person[q].company] = "APPROVED"
         /\ person[q].kyc # "PENDING" => person[q].kycCompany # NoCompany /\ person[q].kycCompany = person[q].company
         /\ ~(person[q].invited /\ join[q] # "none")
         /\ person[q].status = "none" => person[q] = NoPerson /\ join[q] = "none"
  BY DEF OnboardingInv, OnboardingTyped, MembershipSound, MembershipReviewed, KycFollowsMembership, KycIsCurrent,
         OneWayIn, NoTrace, Exists

\* Only person p changes, and the companies stand.
LEMMA PersonChanges ==
  ASSUME OnboardingInv, NEW p \in People, NEW a \in Persons, person' = [person EXCEPT ![p] = a],
         UNCHANGED <<company, join, reg>>, sub' \in [People -> Companies \union {NoCompany}],
         invite' \in {invite, NoInvite},
         ~a.invited /\ a.company # NoCompany => join[p] = "APPROVED" /\ company[a.company] = "APPROVED",
         a.kyc # "PENDING" => a.kycCompany # NoCompany /\ a.kycCompany = a.company,
         ~(a.invited /\ join[p] # "none"), a.status # "none"
  PROVE  OnboardingInv'
<1>1. person'[p] = a /\ \A q \in People : q # p => person'[q] = person[q]
  BY DEF OnboardingInv, OnboardingTyped
<1>2. OnboardingTyped'
  <2>1. person' \in [People -> Persons]
    BY DEF OnboardingInv, OnboardingTyped
  <2>2. /\ invite' \in [who : People \union {"nobody"}, company : Companies \union {NoCompany}]
        /\ invite' # NoInvite => invite'.who \in People
    BY DEF OnboardingInv, OnboardingTyped, NoInvite
  <2> QED BY <2>1, <2>2 DEF OnboardingInv, OnboardingTyped
<1>3. \A q \in People : PersonFits(q)
  <2> SUFFICES ASSUME NEW q \in People PROVE PersonFits(q)
    OBVIOUS
  <2>1. CASE q = p
    BY <1>1, <2>1 DEF PersonFits
  <2>2. CASE q # p
    BY <1>1, <2>2, PersonFacts DEF PersonFits
  <2> QED BY <2>1, <2>2
<1> QED BY <1>2, <1>3, OnboardingKept

\* No account and no company changes.
JoinsAge == \A q \in People : join'[q] = join[q] \/ (join[q] = "PENDING" /\ join'[q] = "REJECTED")
LEMMA PersonsKept ==
  ASSUME OnboardingInv, UNCHANGED <<company, person>>, OnboardingTyped', JoinsAge
  PROVE  OnboardingInv'
<1>1. \A q \in People : PersonFits(q)
  BY PersonFacts DEF PersonFits, JoinsAge
<1> QED BY <1>1, OnboardingKept DEF JoinsAge

LEMMA RegistrationKeeps ==
  ASSUME OnboardingInv,
         \/ \E r \in Registrations : RegisterPending(r) \/ \E p \in People : RegisterReads(r, p)
         \/ CleanupPendingRegistrations
         \/ \E p \in People : ExpirePending(p) \/ RejectJoin(p) \/ SubmitKyc(p)
         \/ \E p \in People, o \in Companies : InviteReads(p, o)
  PROVE  OnboardingInv'
<1>1. UNCHANGED <<company, person>>
  BY DEF RegisterPending, RegisterReads, CleanupPendingRegistrations, ExpirePending, RejectJoin, SubmitKyc,
         InviteReads
<1> USE DEF JoinsAge
<1>0. ASSUME join' = join, OnboardingTyped' PROVE OnboardingInv'
  BY <1>0, <1>1, PersonsKept
<1>2. ASSUME NEW r \in Registrations, RegisterPending(r) PROVE OnboardingInv'
  <2>1. OnboardingTyped'
    BY <1>2 DEF RegisterPending, OnboardingInv, OnboardingTyped, NoRegistration
  <2> QED BY <1>0, <1>2, <2>1 DEF RegisterPending
<1>3. ASSUME NEW r \in Registrations, NEW p \in People, RegisterReads(r, p) PROVE OnboardingInv'
  <2>1. OnboardingTyped'
    BY <1>3, DomainAssumption DEF RegisterReads, OnboardingInv, OnboardingTyped
  <2> QED BY <1>0, <1>3, <2>1 DEF RegisterReads
<1>4. CASE CleanupPendingRegistrations
  BY <1>0, <1>4 DEF CleanupPendingRegistrations, OnboardingInv, OnboardingTyped
<1>5. ASSUME NEW p \in People, ExpirePending(p) PROVE OnboardingInv'
  BY <1>0, <1>5 DEF ExpirePending, OnboardingInv, OnboardingTyped
<1>6. ASSUME NEW p \in People, RejectJoin(p) PROVE OnboardingInv'
  <2>1. OnboardingTyped'
    BY <1>6 DEF RejectJoin, OnboardingInv, OnboardingTyped
  <2>2. JoinsAge
    BY <1>6 DEF RejectJoin, OnboardingInv, OnboardingTyped
  <2> QED BY <1>1, <2>1, <2>2, PersonsKept
<1>7. ASSUME NEW p \in People, SubmitKyc(p) PROVE OnboardingInv'
  <2>1. person[p].company \in Companies \union {NoCompany}
    BY PersonFacts DEF Persons
  <2>2. OnboardingTyped'
    BY <1>7, <2>1 DEF SubmitKyc, OnboardingInv, OnboardingTyped
  <2> QED BY <1>0, <1>7, <2>2 DEF SubmitKyc
<1>8. ASSUME NEW p \in People, NEW o \in Companies, InviteReads(p, o) PROVE OnboardingInv'
  <2>1. OnboardingTyped'
    BY <1>8 DEF InviteReads, OnboardingInv, OnboardingTyped
  <2> QED BY <1>0, <1>8, <2>1 DEF InviteReads
<1> QED BY <1>2, <1>3, <1>4, <1>5, <1>6, <1>7, <1>8

\* A new account that asks to join.
LEMMA ApplicantKeeps ==
  ASSUME OnboardingInv, NEW p \in People, ~Exists(p), person' = [person EXCEPT ![p].status = "PENDING"],
         join' = [join EXCEPT ![p] = "PENDING"], UNCHANGED <<sub, invite>>,
         reg' \in [Registrations -> [who : People \union {"nobody"}, seen : Companies \union {NoCompany}]],
         \A r \in Registrations : reg'[r].who # "nobody" => reg'[r].who \in People,
         \/ company' = company
         \/ company[Domain[p]] = "none" /\ company' = [company EXCEPT ![Domain[p]] = "PENDING"]
  PROVE  OnboardingInv'
<1> DEFINE a == [person[p] EXCEPT !.status = "PENDING"]
<1>1. /\ person[p] = NoPerson /\ join[p] = "none" /\ person[p] \in Persons
  BY PersonFacts DEF Exists
<1>2. a \in Persons /\ ~a.invited /\ a.company = NoCompany /\ a.kyc = "PENDING" /\ a.status = "PENDING"
  <2>1. NoPerson.invited = FALSE /\ NoPerson.company = NoCompany /\ NoPerson.kyc = "PENDING"
    BY DEF NoPerson
  <2>2. /\ a \in Persons /\ a.status = "PENDING" /\ a.invited = person[p].invited
        /\ a.company = person[p].company /\ a.kyc = person[p].kyc
    BY <1>1 DEF Persons
  <2> QED BY <1>1, <2>1, <2>2
<1>3. person' = [person EXCEPT ![p] = a]
  OBVIOUS
<1> HIDE DEF a
<1>4. /\ person'[p] = a /\ join'[p] = "PENDING"
      /\ \A q \in People : q # p => person'[q] = person[q] /\ join'[q] = join[q]
  BY <1>3 DEF OnboardingInv, OnboardingTyped
<1>5. Domain[p] \in Companies
  BY DomainAssumption
<1>6. OnboardingTyped'
  <2>1. person' \in [People -> Persons] /\ join' \in [People -> {"none", "PENDING", "APPROVED", "REJECTED"}]
    BY <1>2, <1>3 DEF OnboardingInv, OnboardingTyped
  <2>2. company' \in [Companies -> {"none", "PENDING", "APPROVED", "REJECTED"}]
    BY <1>5 DEF OnboardingInv, OnboardingTyped
  <2> QED BY <2>1, <2>2 DEF OnboardingInv, OnboardingTyped
<1>7. \A o \in Companies : /\ company[o] = "APPROVED" => company'[o] = "APPROVED"
                           /\ company'[o] = "PENDING" => company[o] = "PENDING" \/ o = Domain[p]
  BY <1>5 DEF OnboardingInv, OnboardingTyped
<1>8. \A q \in People : PersonFits(q)
  <2> SUFFICES ASSUME NEW q \in People PROVE PersonFits(q)
    OBVIOUS
  <2>1. CASE q = p
    BY <1>2, <1>4, <2>1 DEF PersonFits
  <2>2. CASE q # p
    <3>1. person[q].company \in Companies \/ person[q].company = NoCompany
      BY PersonFacts DEF Persons
    <3> QED BY <1>4, <1>7, <2>2, <3>1, PersonFacts DEF PersonFits
  <2> QED BY <2>1, <2>2
<1>9. \A q \in People : join'[q] = "none" => join[q] = "none"
  BY <1>4
<1> QED BY <1>4, <1>6, <1>7, <1>8, <1>9, OnboardingKept

\* A decision about company o, with a new table of accounts.
LEMMA CompanyDecided ==
  ASSUME OnboardingInv, NEW o \in Companies, NEW v \in {"APPROVED", "REJECTED"},
         company' = [company EXCEPT ![o] = v], UNCHANGED <<join, reg, sub, invite>>,
         person' \in [People -> Persons], \A q \in People : PersonFits(q)
  PROVE  OnboardingInv'
<1>1. \A c \in Companies : company'[c] = "PENDING" => company[c] = "PENDING"
  BY DEF OnboardingInv, OnboardingTyped
<1>2. OnboardingTyped'
  BY DEF OnboardingInv, OnboardingTyped
<1> QED BY <1>1, <1>2, OnboardingKept

LEMMA ApproveCompanyKeeps == ASSUME OnboardingInv, NEW o \in Companies, ApproveCompany(o) PROVE OnboardingInv'
<1>1. /\ company' = [company EXCEPT ![o] = "APPROVED"] /\ UNCHANGED <<person, join, reg, sub, invite>>
  BY DEF ApproveCompany
<1>2. \A c \in Companies : company[c] = "APPROVED" => company'[c] = "APPROVED"
  BY <1>1 DEF OnboardingInv, OnboardingTyped
<1>3. \A q \in People : PersonFits(q)
  <2>1. \A q \in People : person[q].company \in Companies \/ person[q].company = NoCompany
    BY PersonFacts DEF Persons
  <2> QED BY <1>1, <1>2, <2>1, PersonFacts DEF PersonFits
<1>4. person' \in [People -> Persons]
  BY <1>1 DEF OnboardingInv, OnboardingTyped
<1> QED BY <1>1, <1>3, <1>4, CompanyDecided

LEMMA RejectCompanyKeeps == ASSUME OnboardingInv, NEW o \in Companies, RejectCompany(o) PROVE OnboardingInv'
<1> DEFINE Out(q) == [WithoutKyc(person[q]) EXCEPT !.company = NoCompany]
<1>1. /\ company' = [company EXCEPT ![o] = "REJECTED"] /\ UNCHANGED <<join, reg, sub, invite>>
      /\ person' = [q \in People |-> IF person[q].company = o THEN Out(q) ELSE person[q]]
  BY DEF RejectCompany
<1>2. \A c \in Companies : c # o => company'[c] = company[c]
  BY <1>1 DEF OnboardingInv, OnboardingTyped
<1>3. ASSUME NEW q \in People
      PROVE  /\ Out(q) \in Persons /\ Out(q).company = NoCompany /\ Out(q).kyc = "PENDING"
             /\ Out(q).status = person[q].status /\ Out(q).invited = person[q].invited
             /\ person[q] = NoPerson => Out(q) = NoPerson
  <2>1. person[q] \in Persons /\ NoCompany \in Companies \union {NoCompany}
    BY PersonFacts
  <2>2. /\ Out(q) \in Persons /\ Out(q).company = NoCompany /\ Out(q).kyc = "PENDING"
        /\ Out(q).status = person[q].status /\ Out(q).invited = person[q].invited
    BY <2>1 DEF WithoutKyc, Persons
  <2>3. person[q] = NoPerson => Out(q) = NoPerson
    <3> SUFFICES ASSUME person[q] = NoPerson PROVE Out(q) = person[q]
      OBVIOUS
    <3>1. person[q].kyc = "PENDING" /\ person[q].kycCompany = NoCompany /\ person[q].company = NoCompany
      BY DEF NoPerson
    <3> QED BY <2>1, <3>1 DEF WithoutKyc, Persons
  <2> QED BY <2>2, <2>3
<1> HIDE DEF Out
<1>4. person' \in [People -> Persons]
  BY <1>1, <1>3, PersonFacts
<1>5. \A q \in People : PersonFits(q)
  <2> SUFFICES ASSUME NEW q \in People PROVE PersonFits(q)
    OBVIOUS
  <2>1. CASE person[q].company = o
    BY <1>1, <1>3, <2>1, PersonFacts DEF PersonFits
  <2>2. CASE person[q].company # o
    <3>1. person[q].company \in Companies \/ person[q].company = NoCompany
      BY PersonFacts DEF Persons
    <3> QED BY <1>1, <1>2, <2>2, <3>1, PersonFacts DEF PersonFits
  <2> QED BY <2>1, <2>2
<1> QED BY <1>1, <1>4, <1>5, CompanyDecided

\* A field of p's account changes that neither membership nor evidence depends on.
LEMMA AccountFieldKeeps ==
  ASSUME OnboardingInv, NEW p \in People, Exists(p), UNCHANGED <<company, join, reg, sub, invite>>,
         \/ person' = [person EXCEPT ![p].verified = TRUE]
         \/ person' = [person EXCEPT ![p].claimed = TRUE]
         \/ person' = [person EXCEPT ![p].verified = TRUE, ![p].claimed = TRUE]
         \/ person' = [person EXCEPT ![p].status = "APPROVED"]
         \/ person' = [person EXCEPT ![p].status = "REJECTED"]
  PROVE  OnboardingInv'
<1>1. person[p] \in Persons /\ person[p].status # "none" /\ person \in [People -> Persons]
  BY PersonFacts DEF Exists, OnboardingInv, OnboardingTyped
<1>2. PICK a \in Persons :
         /\ person' = [person EXCEPT ![p] = a]
         /\ a.company = person[p].company /\ a.kyc = person[p].kyc /\ a.kycCompany = person[p].kycCompany
         /\ a.invited = person[p].invited /\ a.status # "none"
  <2> DEFINE Fine(a) == /\ a \in Persons /\ a.company = person[p].company /\ a.kyc = person[p].kyc
                        /\ a.kycCompany = person[p].kycCompany
                        /\ a.invited = person[p].invited /\ a.status # "none"
  <2>1. /\ Fine([person[p] EXCEPT !.verified = TRUE]) /\ Fine([person[p] EXCEPT !.claimed = TRUE])
        /\ Fine([person[p] EXCEPT !.verified = TRUE, !.claimed = TRUE])
        /\ Fine([person[p] EXCEPT !.status = "APPROVED"]) /\ Fine([person[p] EXCEPT !.status = "REJECTED"])
    BY <1>1 DEF Persons
  <2>2. \/ person' = [person EXCEPT ![p] = [person[p] EXCEPT !.verified = TRUE]]
        \/ person' = [person EXCEPT ![p] = [person[p] EXCEPT !.claimed = TRUE]]
        \/ person' = [person EXCEPT ![p] = [person[p] EXCEPT !.verified = TRUE, !.claimed = TRUE]]
        \/ person' = [person EXCEPT ![p] = [person[p] EXCEPT !.status = "APPROVED"]]
        \/ person' = [person EXCEPT ![p] = [person[p] EXCEPT !.status = "REJECTED"]]
    BY <1>1
  <2>3. \E a : Fine(a) /\ person' = [person EXCEPT ![p] = a]
    <3> HIDE DEF Fine
    <3> QED BY <2>1, <2>2
  <2> QED BY <2>3
<1>3. sub' \in [People -> Companies \union {NoCompany}]
  BY DEF OnboardingInv, OnboardingTyped
<1>4. /\ ~a.invited /\ a.company # NoCompany => join[p] = "APPROVED" /\ company[a.company] = "APPROVED"
      /\ a.kyc # "PENDING" => a.kycCompany # NoCompany /\ a.kycCompany = a.company
      /\ ~(a.invited /\ join[p] # "none")
  BY <1>2, PersonFacts
<1> QED BY <1>2, <1>3, <1>4, PersonChanges

LEMMA KycKeeps ==
  ASSUME OnboardingInv, NEW p \in People, FileKyc(p) \/ AdminApproveKyc(p) \/ AdminRejectKyc(p)
  PROVE  OnboardingInv'
<1>1. /\ person[p] \in Persons /\ sub[p] \in Companies \union {NoCompany}
      /\ sub \in [People -> Companies \union {NoCompany}]
      /\ UNCHANGED <<company, join, reg, invite>>
  BY PersonFacts DEF OnboardingInv, OnboardingTyped, FileKyc, AdminApproveKyc, AdminRejectKyc
<1>2. person[p].status = "none" => person[p].kycCompany = NoCompany /\ person[p].company = NoCompany
                                   /\ person[p].status # "APPROVED"
  BY PersonFacts DEF NoPerson
<1>3. CASE FileKyc(p) /\ ~(person[p].company = sub[p] /\ CanSubmit(p))
  <2>1. person' = person /\ sub' \in [People -> Companies \union {NoCompany}]
    BY <1>1, <1>3 DEF FileKyc
  <2>2. OnboardingTyped' /\ JoinsAge
    BY <1>1, <2>1 DEF OnboardingInv, OnboardingTyped, JoinsAge
  <2> QED BY <1>1, <2>1, <2>2, PersonsKept
<1>4. CASE FileKyc(p) /\ person[p].company = sub[p] /\ CanSubmit(p)
  <2> DEFINE a == [person[p] EXCEPT !.kyc = "REVIEW_REQUIRED", !.kycCompany = sub[p]]
  <2>1. person' = [person EXCEPT ![p] = a] /\ sub' \in [People -> Companies \union {NoCompany}] /\ sub[p] # NoCompany
    BY <1>1, <1>4 DEF FileKyc
  <2>2. /\ a \in Persons /\ a.company = person[p].company /\ a.kyc = "REVIEW_REQUIRED" /\ a.kycCompany = sub[p]
        /\ a.invited = person[p].invited /\ a.status = person[p].status
    BY <1>1 DEF Persons
  <2> HIDE DEF a
  <2> QED BY <1>1, <1>2, <1>4, <2>1, <2>2, PersonFacts, PersonChanges DEF CanSubmit
<1>5. ASSUME NEW v \in {"APPROVED", "REJECTED"}, KycIsCurrent(p), sub' = sub,
             person' = [person EXCEPT ![p].kyc = v]
      PROVE  OnboardingInv'
  <2> DEFINE a == [person[p] EXCEPT !.kyc = v]
  <2>1. person' = [person EXCEPT ![p] = a]
    BY <1>5
  <2>2. /\ a \in Persons /\ a.company = person[p].company /\ a.kyc = v /\ a.kycCompany = person[p].kycCompany
        /\ a.invited = person[p].invited /\ a.status = person[p].status
    BY <1>1, <1>5 DEF Persons
  <2> HIDE DEF a
  <2>3. a.kycCompany # NoCompany /\ a.kycCompany = a.company
    BY <1>5, <2>2 DEF KycIsCurrent
  <2>4. a.status # "none"
    BY <1>2, <2>2, <2>3
  <2>5. /\ ~a.invited /\ a.company # NoCompany => join[p] = "APPROVED" /\ company[a.company] = "APPROVED"
        /\ ~(a.invited /\ join[p] # "none")
    BY <2>2, PersonFacts
  <2> QED BY <1>1, <1>5, <2>1, <2>2, <2>3, <2>4, <2>5, PersonChanges
<1> QED BY <1>3, <1>4, <1>5 DEF AdminApproveKyc, AdminRejectKyc

LEMMA InvitedFacts ==
  ASSUME NEW o \in Companies \union {NoCompany}
  PROVE  Invited(o) \in Persons /\ Invited(o).invited = TRUE /\ Invited(o).kyc = "PENDING" /\ Invited(o).status = "APPROVED"
  BY DEF Invited, NoPerson, Persons

LEMMA InviteKeeps ==
  ASSUME OnboardingInv, InviteCommits \/ \E p \in People : InviteWithCompany(p)
  PROVE  OnboardingInv'
<1>1. CASE InviteCommits
  <2> DEFINE p == invite.who
             a == Invited(invite.company)
  <2>1. /\ p \in People /\ invite.company \in Companies \union {NoCompany} /\ invite' = NoInvite
        /\ UNCHANGED <<company, join, reg, sub>>
        /\ person' = IF Exists(p) THEN person ELSE [person EXCEPT ![p] = a]
    BY <1>1 DEF InviteCommits, OnboardingInv, OnboardingTyped
  <2>2. a \in Persons /\ a.invited = TRUE /\ a.kyc = "PENDING" /\ a.status = "APPROVED"
    BY <2>1, InvitedFacts
  <2> HIDE DEF a, p
  <2>3. CASE Exists(p)
    <3>1. OnboardingTyped' /\ JoinsAge
      BY <2>1, <2>3 DEF OnboardingInv, OnboardingTyped, JoinsAge, NoInvite
    <3> QED BY <2>1, <2>3, <3>1, PersonsKept
  <2>4. CASE ~Exists(p)
    <3>1. join[p] = "none"
      BY <2>1, <2>4, PersonFacts DEF Exists
    <3>2. sub' \in [People -> Companies \union {NoCompany}]
      BY <2>1 DEF OnboardingInv, OnboardingTyped
    <3> QED BY <2>1, <2>2, <2>4, <3>1, <3>2, PersonChanges
  <2> QED BY <2>3, <2>4
<1>2. ASSUME NEW p \in People, InviteWithCompany(p) PROVE OnboardingInv'
  <2> DEFINE a == Invited(Domain[p])
  <2>1. /\ ~Exists(p) /\ company' = [company EXCEPT ![Domain[p]] = "APPROVED"]
        /\ person' = [person EXCEPT ![p] = a] /\ UNCHANGED <<join, reg, sub, invite>>
    BY <1>2 DEF InviteWithCompany
  <2>2. Domain[p] \in Companies
    BY DomainAssumption
  <2>3. a \in Persons /\ a.invited = TRUE /\ a.kyc = "PENDING" /\ a.status = "APPROVED"
    BY <2>2, InvitedFacts
  <2> HIDE DEF a
  <2>4. /\ join[p] = "none" /\ person \in [People -> Persons]
    BY <2>1, PersonFacts DEF Exists, OnboardingInv, OnboardingTyped
  <2>5. person' \in [People -> Persons] /\ person'[p] = a /\ \A q \in People : q # p => person'[q] = person[q]
    BY <2>1, <2>3, <2>4
  <2>6. \A c \in Companies : company[c] = "APPROVED" => company'[c] = "APPROVED"
    BY <2>1, <2>2 DEF OnboardingInv, OnboardingTyped
  <2>7. \A q \in People : PersonFits(q)
    <3> SUFFICES ASSUME NEW q \in People PROVE PersonFits(q)
      OBVIOUS
    <3>1. CASE q = p
      BY <2>1, <2>3, <2>4, <2>5, <3>1 DEF PersonFits
    <3>2. CASE q # p
      <4>1. person[q].company \in Companies \/ person[q].company = NoCompany
        BY PersonFacts DEF Persons
      <4> QED BY <2>1, <2>5, <2>6, <3>2, <4>1, PersonFacts DEF PersonFits
    <3> QED BY <3>1, <3>2
  <2> QED BY <2>1, <2>2, <2>5, <2>7, CompanyDecided
<1> QED BY <1>1, <1>2

LEMMA ApproveJoinKeeps == ASSUME OnboardingInv, NEW p \in People, ApproveJoin(p) PROVE OnboardingInv'
<1> DEFINE a == IF person[p].company = Domain[p] THEN person[p]
                ELSE [WithoutKyc(person[p]) EXCEPT !.company = Domain[p]]
<1>1. /\ join[p] = "PENDING" /\ person[p].status = "APPROVED" /\ company[Domain[p]] = "APPROVED"
      /\ join' = [join EXCEPT ![p] = "APPROVED"] /\ person' = [person EXCEPT ![p] = a]
      /\ UNCHANGED <<company, reg, sub, invite>>
  BY DEF ApproveJoin
<1>2. Domain[p] \in Companies /\ person[p] \in Persons
  BY DomainAssumption, PersonFacts
<1>3. /\ a \in Persons /\ a.company = Domain[p] /\ a.status = person[p].status /\ a.invited = person[p].invited
      /\ a.kyc # "PENDING" => a.kyc = person[p].kyc /\ a.kycCompany = person[p].kycCompany /\ a.company = person[p].company
  <2>1. CASE person[p].company = Domain[p]
    BY <1>2, <2>1
  <2>2. CASE person[p].company # Domain[p]
    BY <1>2, <2>2 DEF WithoutKyc, Persons
  <2> QED BY <2>1, <2>2
<1> HIDE DEF a
<1>4. /\ person'[p] = a /\ join'[p] = "APPROVED"
      /\ \A q \in People : q # p => person'[q] = person[q] /\ join'[q] = join[q]
  BY <1>1 DEF OnboardingInv, OnboardingTyped
<1>5. OnboardingTyped'
  BY <1>1, <1>3 DEF OnboardingInv, OnboardingTyped
<1>6. \A q \in People : PersonFits(q)
  <2> SUFFICES ASSUME NEW q \in People PROVE PersonFits(q)
    OBVIOUS
  <2>1. CASE q = p
    <3>1. person[p].invited = FALSE
      BY <1>1, <1>2, PersonFacts DEF Persons
    <3> QED BY <1>1, <1>3, <1>4, <2>1, <3>1, PersonFacts DEF PersonFits
  <2>2. CASE q # p
    BY <1>1, <1>4, <2>2, PersonFacts DEF PersonFits
  <2> QED BY <2>1, <2>2
<1>7. \A q \in People : join'[q] = "none" => join[q] = "none"
  BY <1>4
<1> QED BY <1>1, <1>5, <1>6, <1>7, OnboardingKept

LEMMA RegisterKeeps ==
  ASSUME OnboardingInv, (\E r \in Registrations : RegisterToJoin(r)) \/ \E p \in People : RegisterWithOrg(p)
  PROVE  OnboardingInv'
<1>1. ASSUME NEW r \in Registrations, RegisterToJoin(r) PROVE OnboardingInv'
  <2> DEFINE p == reg[r].who
  <2>1. p \in People /\ reg' = [reg EXCEPT ![r] = NoRegistration] /\ UNCHANGED <<company, sub, invite>>
    BY <1>1 DEF RegisterToJoin, OnboardingInv, OnboardingTyped
  <2>2. /\ reg' \in [Registrations -> [who : People \union {"nobody"}, seen : Companies \union {NoCompany}]]
        /\ \A s \in Registrations : reg'[s].who # "nobody" => reg'[s].who \in People
    BY <2>1 DEF OnboardingInv, OnboardingTyped, NoRegistration
  <2>3. CASE Exists(p)
    <3>1. UNCHANGED <<person, join>>
      BY <1>1, <2>3 DEF RegisterToJoin
    <3>2. OnboardingTyped' /\ JoinsAge
      BY <2>1, <2>2, <3>1 DEF OnboardingInv, OnboardingTyped, JoinsAge
    <3> QED BY <2>1, <3>1, <3>2, PersonsKept
  <2>4. CASE ~Exists(p)
    <3>1. person' = [person EXCEPT ![p].status = "PENDING"] /\ join' = [join EXCEPT ![p] = "PENDING"]
      BY <1>1, <2>4 DEF RegisterToJoin
    <3> HIDE DEF p
    <3> QED BY <2>1, <2>2, <2>4, <3>1, ApplicantKeeps
  <2> QED BY <2>3, <2>4
<1>2. ASSUME NEW p \in People, RegisterWithOrg(p) PROVE OnboardingInv'
  <2>1. /\ company[Domain[p]] = "none" /\ ~Exists(p) /\ company' = [company EXCEPT ![Domain[p]] = "PENDING"]
        /\ person' = [person EXCEPT ![p].status = "PENDING"] /\ join' = [join EXCEPT ![p] = "PENDING"]
        /\ UNCHANGED <<reg, sub, invite>>
    BY <1>2 DEF RegisterWithOrg
  <2>2. /\ reg' \in [Registrations -> [who : People \union {"nobody"}, seen : Companies \union {NoCompany}]]
        /\ \A s \in Registrations : reg'[s].who # "nobody" => reg'[s].who \in People
    BY <2>1 DEF OnboardingInv, OnboardingTyped
  <2> QED BY <2>1, <2>2, ApplicantKeeps
<1> QED BY <1>1, <1>2

LEMMA OnboardingInvStep == OnboardingInv /\ [OnboardingNext]_onboardingVars => OnboardingInv'
<1> SUFFICES ASSUME OnboardingInv, [OnboardingNext]_onboardingVars PROVE OnboardingInv'
  OBVIOUS
<1>1. ASSUME NEW p \in People, OnboardVerifyEmail(p) PROVE OnboardingInv'
  BY <1>1, AccountFieldKeeps DEF OnboardVerifyEmail
<1>2. ASSUME NEW p \in People, ClaimInvitation(p) PROVE OnboardingInv'
  BY <1>2, AccountFieldKeeps DEF ClaimInvitation, UnclaimedInvitation, Exists
<1>3. ASSUME NEW p \in People, ResetInvitedPassword(p) PROVE OnboardingInv'
  BY <1>3, AccountFieldKeeps DEF ResetInvitedPassword, Exists
<1>4. ASSUME NEW p \in People, ApprovePerson(p) \/ RejectPerson(p) PROVE OnboardingInv'
  BY <1>4, AccountFieldKeeps DEF ApprovePerson, RejectPerson
<1>5. CASE UNCHANGED onboardingVars
  <2>1. OnboardingTyped' /\ JoinsAge /\ UNCHANGED <<company, person>>
    BY <1>5 DEF onboardingVars, OnboardingInv, OnboardingTyped, JoinsAge
  <2> QED BY <2>1, PersonsKept
<1> QED
  BY <1>1, <1>2, <1>3, <1>4, <1>5, RegistrationKeeps, RegisterKeeps, KycKeeps, InviteKeeps, ApproveJoinKeeps,
     ApproveCompanyKeeps, RejectCompanyKeeps
  DEF OnboardingNext

\* Whatever the order of registrations, invitations, reviews, company decisions and answers of
\* the KYC provider, members were reviewed and their company is approved, evidence belongs to
\* the company of the person, a waiting company has an applicant and an address has one way in.
THEOREM MembershipAlwaysSound == OnboardingSpec => []MembershipSound
<1>1. OnboardingInv => MembershipSound
  BY DEF OnboardingInv
<1> QED BY <1>1, OnboardingInvInit, OnboardingInvStep, PTL DEF OnboardingSpec

(***************************************************************************)
(* Approval mail                                                           *)
(***************************************************************************)
MailTyped ==
  /\ mailNow \in Nat
  /\ standing \in [status : {"PENDING", "APPROVED", "REJECTED"}, approvals : Nat]
  /\ notice \in [transition : Nat, retry : Nat]
  /\ mailer \in [Mailers -> [phase : {"idle", "claimed", "accepted", "failed"},
                           transition : Nat, until : Nat]]

\* An answer is believed only of a transition that was delivered.
AcceptedIsMailed == \A w \in Mailers : mailer[w].phase = "accepted" => mailer[w].transition \in mailed

MailInv == MailTyped /\ AcceptedIsMailed /\ UndeliveredIsScheduled

LEMMA MailInvInit == MailInit => MailInv
  BY DEF MailInit, MailInv, MailTyped, AcceptedIsMailed, UndeliveredIsScheduled, NoNotice, IdleMailer

LEMMA MailInvStep == MailInv /\ [MailNext]_mailVars => MailInv'
<1> SUFFICES ASSUME MailInv, [MailNext]_mailVars PROVE MailInv'
  OBVIOUS
<1> USE MailConstants DEF MailInv, MailTyped, AcceptedIsMailed, UndeliveredIsScheduled, NoNotice, IdleMailer
<1>1. CASE ApproveAccount
  BY <1>1 DEF ApproveAccount
<1>2. CASE RejectAccount
  BY <1>2 DEF RejectAccount
<1>3. CASE MailTick
  BY <1>3 DEF MailTick
<1>4. ASSUME NEW w \in Mailers, ClaimNotice(w) PROVE MailInv'
  <2>1. CASE standing.status = "APPROVED"
    <3> DEFINE claim == [phase |-> "claimed", transition |-> notice.transition,
                         until |-> mailNow + ClaimTime]
    <3>1. /\ notice' = [notice EXCEPT !.retry = mailNow + ClaimTime]
          /\ mailer' = [mailer EXCEPT ![w] = claim]
          /\ UNCHANGED <<mailNow, standing, mailed>>
      BY <1>4, <2>1 DEF ClaimNotice
    <3> QED
      BY <3>1
  <2>2. CASE standing.status # "APPROVED"
    BY <1>4, <2>2 DEF ClaimNotice
  <2> QED
    BY <2>1, <2>2
<1>5. ASSUME NEW w \in Mailers, SendApproved(w) PROVE MailInv'
  BY <1>5 DEF SendApproved
<1>6. ASSUME NEW w \in Mailers, FinishNotice(w) PROVE MailInv'
  BY <1>6 DEF FinishNotice, ClaimHeld
<1>7. ASSUME NEW w \in Mailers, CrashMailer(w) PROVE MailInv'
  BY <1>7 DEF CrashMailer
<1>8. CASE UNCHANGED mailVars
  BY <1>8 DEF mailVars
<1> QED
  BY <1>1, <1>2, <1>3, <1>4, <1>5, <1>6, <1>7, <1>8 DEF MailNext

\* For any number of workers, crashes, lost answers and decisions, the mail of the approval in
\* force is delivered or still scheduled (deliver_account_approval_email).
THEOREM ApprovalMailKept == MailSpec => []UndeliveredIsScheduled
<1>1. MailInv => UndeliveredIsScheduled
  BY DEF MailInv
<1> QED
  BY MailInvInit, MailInvStep, <1>1, PTL DEF MailSpec

(***************************************************************************)
(* Onboarding monitor                                                      *)
(***************************************************************************)
Standings == {"pending", "expiring", "unverified", "stalled", "waiting", "approved", "overdue",
              "loggedin", "rejected"}
Stages == {"rejected", "organization_setup_expiring", "verification_stalled", "approval_required",
           "first_login_overdue", "none"}

AttentionTyped ==
  /\ facts \in [Candidates -> Standings]
  /\ saved \in [Candidates -> Stages]
  /\ told \in [Candidates -> SUBSET Stages]
  /\ pass \in [running : BOOLEAN, todo : SUBSET Candidates, seen : [Candidates -> Standings],
               current : [Candidates -> Stages]]

\* What a run has visited it has told.
VisitedMeansTold ==
  \A c \in Candidates : c \notin pass.todo /\ pass.running /\ pass.current[c] # "none" =>
    pass.current[c] \in told[c]

AttentionInv == AttentionTyped /\ VisitedMeansTold /\ OnFileMeansTold

LEMMA StageTyped == ASSUME NEW f \in Standings PROVE Classify(f) \in Stages
  BY DEF Standings, Stages, Classify

LEMMA AdvanceTyped == ASSUME NEW f \in Standings PROVE Advance(f) \subseteq Standings
  BY DEF Standings, Advance

LEMMA AttentionInvInit == AttentionInit => AttentionInv
  BY DEF AttentionInit, AttentionInv, AttentionTyped, VisitedMeansTold, OnFileMeansTold, Standings, Stages

LEMMA AttentionInvStep == AttentionInv /\ [AttentionNext]_attentionVars => AttentionInv'
<1> SUFFICES ASSUME AttentionInv, [AttentionNext]_attentionVars PROVE AttentionInv'
  OBVIOUS
<1> USE DEF AttentionInv, AttentionTyped, VisitedMeansTold, OnFileMeansTold
<1>1. CASE StartPass
  BY <1>1 DEF StartPass
<1>2. CASE FailPass
  BY <1>2 DEF FailPass
<1>3. CASE WriteState
  BY <1>3 DEF WriteState
<1>4. ASSUME NEW c \in Candidates, CandidateMoves(c) PROVE AttentionInv'
  <2>1. PICK g \in Advance(facts[c]) : facts' = [facts EXCEPT ![c] = g]
    BY <1>4 DEF CandidateMoves
  <2>2. facts' \in [Candidates -> Standings]
    BY <2>1, AdvanceTyped
  <2> QED
    BY <1>4, <2>2 DEF CandidateMoves
<1>5. ASSUME NEW c \in Candidates, Visit(c) PROVE AttentionInv'
  <2> DEFINE stage == Classify(pass.seen[c])
  <2>1. stage \in Stages
    BY StageTyped
  <2> HIDE DEF stage
  <2>2. /\ pass' = [pass EXCEPT !.todo = @ \ {c}, !.current[c] = stage]
        /\ told' = IF stage \in {"none", saved[c]} THEN told ELSE [told EXCEPT ![c] = @ \cup {stage}]
        /\ UNCHANGED <<facts, saved>>
    BY <1>5 DEF Visit, stage
  <2> QED
    BY <2>1, <2>2
<1>6. CASE UNCHANGED attentionVars
  BY <1>6 DEF attentionVars
<1> QED
  BY <1>1, <1>2, <1>3, <1>4, <1>5, <1>6 DEF AttentionNext

\* However runs fail between two messages, no stage is on file that the operator was not told of
\* (app/cli/onboarding_attention.py).
THEOREM FileFollowsTelling == AttentionSpec => []OnFileMeansTold
<1>1. AttentionInv => OnFileMeansTold
  BY DEF AttentionInv
<1> QED
  BY AttentionInvInit, AttentionInvStep, <1>1, PTL DEF AttentionSpec

(***************************************************************************)
(* Expiry reminders                                                        *)
(***************************************************************************)
RemindTyped ==
  /\ remindNow \in Nat
  /\ order \in [open : BOOLEAN, expiry : Expiries, mail : BOOLEAN]
  /\ timer \in [Timers -> [phase : {"idle", "queried", "deliver", "send", "ack"},
                           expiry : Expiries \cup {0}, at : Nat]]
  /\ reminders \in [Expiries -> [rows : Nat, mail : {"none", "pending", "sent", "discarded"},
                                 retry : Nat, deadline : Nat]]
  /\ sends \in [Expiries -> [first : Nat, count : Nat]]

\* A run that has queried holds the lock, and what it found due still has no notice.
QueryHeld ==
  \A w \in Timers : timer[w].phase = "queried" =>
    /\ runLock = w /\ timer[w].at <= remindNow
    /\ timer[w].expiry # 0 => reminders[timer[w].expiry].rows = 0

\* A notice is inserted once, before its mail, with a deadline within the retry window.
NoticeOnce ==
  \A e \in Expiries :
    /\ reminders[e].rows <= 1 /\ reminders[e].deadline <= remindNow + RetryWindow
    /\ reminders[e].rows = 0 => reminders[e].mail = "none" /\ sends[e].count = 0

\* A mail under way was claimed before the deadline of its notice, a moment ago.
SendInTime ==
  \A w \in Timers : timer[w].phase \in {"send", "ack"} =>
    /\ timer[w].expiry \in Expiries /\ reminders[timer[w].expiry].rows = 1
    /\ timer[w].phase = "send" =>
         timer[w].at < reminders[timer[w].expiry].deadline /\ remindNow <= timer[w].at + 1

\* The deadline comes before the provider forgets the first delivery.
RetryInWindow ==
  \A e \in Expiries :
    sends[e].count <= 1 /\ (sends[e].count = 1 => reminders[e].deadline <= sends[e].first + RetryWindow)

RemindInv == RemindTyped /\ QueryHeld /\ NoticeOnce /\ SendInTime /\ RetryInWindow

LEMMA RemindInvInit == RemindInit => RemindInv
  BY ReminderConstants DEF RemindInit, RemindInv, RemindTyped, QueryHeld, NoticeOnce, SendInTime,
     RetryInWindow, NoRun, NoReminder

LEMMA RowsTyped ==
  ASSUME RemindTyped, NEW e \in Expiries
  PROVE  /\ reminders[e].rows \in Nat /\ reminders[e].deadline \in Nat
         /\ sends[e].first \in Nat /\ sends[e].count \in Nat /\ remindNow \in Nat
  BY DEF RemindTyped

LEMMA QueryKeeps == ASSUME RemindInv, NEW w \in Timers, RemindQuery(w) PROVE RemindInv'
<1>1. PICK e \in Expiries \cup {0} :
        /\ timer' = [timer EXCEPT ![w] = [phase |-> "queried", expiry |-> e, at |-> remindNow]]
        /\ e # 0 => reminders[e].rows = 0
  <2> DEFINE d == IF EligibleOrder /\ reminders[order.expiry].rows = 0 THEN order.expiry ELSE 0
  <2>1. d \in Expiries \cup {0} /\ (d # 0 => reminders[d].rows = 0)
    BY DEF RemindInv, RemindTyped
  <2>2. timer' = [timer EXCEPT ![w] = [phase |-> "queried", expiry |-> d, at |-> remindNow]]
    BY DEF RemindQuery
  <2> HIDE DEF d
  <2> QED
    BY <2>1, <2>2
<1>2. /\ runLock = NobodyRuns /\ runLock' = w
      /\ UNCHANGED <<remindNow, order, reminders, sends>>
  BY DEF RemindQuery, TryLock
<1>3. \A v \in Timers : timer[v].phase # "queried"
  BY <1>2, ReminderConstants DEF RemindInv, QueryHeld
<1> QED
  BY <1>1, <1>2, <1>3 DEF RemindInv, RemindTyped, QueryHeld, NoticeOnce, SendInTime, RetryInWindow

LEMMA CommitKeeps == ASSUME RemindInv, NEW w \in Timers, RemindCommit(w) PROVE RemindInv'
  BY ReminderConstants DEF RemindInv, RemindTyped, QueryHeld, NoticeOnce, SendInTime, RetryInWindow,
     RemindCommit, NoRun, Deadline, Least

LEMMA ClaimKeeps == ASSUME RemindInv, NEW w \in Timers, NEW e \in Expiries, ClaimReminder(w, e)
                    PROVE RemindInv'
<1>1. /\ timer[w].phase = "deliver" /\ reminders[e].mail = "pending"
      /\ UNCHANGED <<remindNow, order, runLock, sends>>
  BY DEF ClaimReminder
<1>2. reminders[e].rows = 1
  BY <1>1, RowsTyped DEF RemindInv, NoticeOnce
<1>3. \/ reminders' = [reminders EXCEPT ![e].mail = "discarded"] /\ timer' = timer
      \/ /\ remindNow < reminders[e].deadline
         /\ reminders' = [reminders EXCEPT ![e].retry = remindNow + LeaseTime]
         /\ timer' = [timer EXCEPT ![w] = [phase |-> "send", expiry |-> e, at |-> remindNow]]
  <2>1. CASE remindNow >= reminders[e].deadline \/ ~order.mail \/ order.expiry # e \/ ~EligibleOrder
    BY <2>1 DEF ClaimReminder
  <2>2. CASE ~(remindNow >= reminders[e].deadline \/ ~order.mail \/ order.expiry # e \/ ~EligibleOrder)
    <3>1. ~(remindNow >= reminders[e].deadline)
      BY <2>2
    <3>2. remindNow < reminders[e].deadline
      BY <3>1, RowsTyped DEF RemindInv
    <3>3. /\ reminders' = [reminders EXCEPT ![e].retry = remindNow + LeaseTime]
          /\ timer' = [timer EXCEPT ![w] = [phase |-> "send", expiry |-> e, at |-> remindNow]]
      BY <2>2 DEF ClaimReminder
    <3> QED
      BY <3>2, <3>3
  <2> QED
    BY <2>1, <2>2
<1>4. CASE reminders' = [reminders EXCEPT ![e].mail = "discarded"] /\ timer' = timer
  BY <1>1, <1>2, <1>4 DEF RemindInv, RemindTyped, QueryHeld, NoticeOnce, SendInTime, RetryInWindow
<1>5. CASE /\ remindNow < reminders[e].deadline
           /\ reminders' = [reminders EXCEPT ![e].retry = remindNow + LeaseTime]
           /\ timer' = [timer EXCEPT ![w] = [phase |-> "send", expiry |-> e, at |-> remindNow]]
  BY <1>1, <1>2, <1>5, ReminderConstants
     DEF RemindInv, RemindTyped, QueryHeld, NoticeOnce, SendInTime, RetryInWindow
<1> QED
  BY <1>3, <1>4, <1>5

LEMMA SendKeeps == ASSUME RemindInv, NEW w \in Timers, SendReminder(w) PROVE RemindInv'
<1> DEFINE e == timer[w].expiry
<1>1. /\ e \in Expiries /\ reminders[e].rows = 1
      /\ remindNow <= reminders[e].deadline
      /\ UNCHANGED <<remindNow, order, runLock, reminders>>
  BY DEF SendReminder, RemindInv, RemindTyped, SendInTime
<1>2. PICK p \in {"ack", "deliver"} : timer' = [timer EXCEPT ![w].phase = p]
  BY DEF SendReminder
<1>3. \/ sends' = sends
      \/ sends[e].count = 0 /\ sends' = [sends EXCEPT ![e] = [first |-> remindNow, count |-> 1]]
  <2>1. \/ sends' = sends
        \/ /\ ~(sends[e].count > 0 /\ remindNow < sends[e].first + KeyLife)
           /\ sends' = [sends EXCEPT ![e] = [first |-> remindNow, count |-> sends[e].count + 1]]
    BY <1>1 DEF SendReminder, RemindInv, RemindTyped
  <2>2. sends[e].count > 0 => remindNow < sends[e].first + KeyLife
    <3> HIDE DEF e
    <3> QED
      BY <1>1, ReminderConstants, RowsTyped DEF RemindInv, RetryInWindow
  <2>3. sends[e].count \in Nat
    BY <1>1, RowsTyped DEF RemindInv
  <2> QED
    BY <2>1, <2>2, <2>3
<1> HIDE DEF e
<1>4. RemindTyped'
  <2>1. sends' \in [Expiries -> [first : Nat, count : Nat]]
    BY <1>1, <1>3 DEF RemindInv, RemindTyped
  <2>2. timer[w] \in [phase : {"idle", "queried", "deliver", "send", "ack"},
                      expiry : Expiries \cup {0}, at : Nat]
    BY DEF RemindInv, RemindTyped
  <2>3. [timer[w] EXCEPT !.phase = p]
           \in [phase : {"idle", "queried", "deliver", "send", "ack"},
               expiry : Expiries \cup {0}, at : Nat]
    BY <1>2, <2>2
  <2>4. timer' \in [Timers -> [phase : {"idle", "queried", "deliver", "send", "ack"},
                               expiry : Expiries \cup {0}, at : Nat]]
    BY <1>2, <2>3 DEF RemindInv, RemindTyped
  <2> QED
    BY <1>1, <2>1, <2>4 DEF RemindInv, RemindTyped
<1>5. QueryHeld'
  BY <1>1, <1>2 DEF RemindInv, RemindTyped, QueryHeld
<1>6. SendInTime'
  BY <1>1, <1>2 DEF RemindInv, RemindTyped, SendInTime, SendReminder
<1>7. NoticeOnce' /\ RetryInWindow'
  BY <1>1, <1>3, ReminderConstants DEF RemindInv, RemindTyped, NoticeOnce, RetryInWindow
<1> QED
  BY <1>4, <1>5, <1>6, <1>7 DEF RemindInv

LEMMA AckKeeps == ASSUME RemindInv, NEW w \in Timers, AckReminder(w) PROVE RemindInv'
  BY ReminderConstants DEF RemindInv, RemindTyped, QueryHeld, NoticeOnce, SendInTime, RetryInWindow,
     AckReminder, NoRun

LEMMA EndKeeps == ASSUME RemindInv, NEW w \in Timers, EndRun(w) PROVE RemindInv'
  BY ReminderConstants DEF RemindInv, RemindTyped, QueryHeld, NoticeOnce, SendInTime, RetryInWindow,
     EndRun, NoRun

LEMMA OrderKeeps == ASSUME RemindInv, OrderChanges PROVE RemindInv'
  BY ReminderConstants DEF RemindInv, RemindTyped, QueryHeld, NoticeOnce, SendInTime, RetryInWindow,
     OrderChanges

LEMMA RemindTickKeeps == ASSUME RemindInv, RemindTick PROVE RemindInv'
  BY ReminderConstants DEF RemindInv, RemindTyped, QueryHeld, NoticeOnce, SendInTime, RetryInWindow,
     RemindTick

\* Overlapping, crashing and retrying runs insert one notice per expiry and mail it at most once,
\* because retries end before the provider forgets the notice's key (order_expiry_reminders.py).
THEOREM RemindsOnce == RemindSpec => []RemindedOnce
<1>1. RemindInv /\ [RemindNext]_remindVars => RemindInv'
  <2>1. ASSUME RemindInv, UNCHANGED remindVars PROVE RemindInv'
    BY <2>1 DEF remindVars, RemindInv, RemindTyped, QueryHeld, NoticeOnce, SendInTime, RetryInWindow
  <2> QED
    BY <2>1, QueryKeeps, CommitKeeps, ClaimKeeps, SendKeeps, AckKeeps, EndKeeps, OrderKeeps,
       RemindTickKeeps DEF RemindNext
<1>2. RemindInv => RemindedOnce
  BY DEF RemindInv, NoticeOnce, RetryInWindow, RemindedOnce, OneReminderPerExpiry, MailedOnce
<1> QED
  BY RemindInvInit, <1>1, <1>2, PTL DEF RemindSpec
=============================================================================
