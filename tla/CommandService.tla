--------------------------- MODULE CommandService ---------------------------
(***************************************************************************)
(* What the market's command interface promises, without locks, statements *)
(* or retries: a delivery is answered by one indivisible step.  Either its *)
(* command takes effect then, for parties that are admitted at that very   *)
(* moment and under a key that has not been used, or the stored result of  *)
(* the same request is returned, or nothing happens at all.                *)
(***************************************************************************)
CONSTANTS
    Deliveries,     \* HTTP requests
    Catalogue,      \* the commands clients send
    Bodies,         \* request bodies
    NoKey           \* no Idempotency-Key header

VARIABLES
    command,        \* the command of a delivery
    answer,         \* NEW, RUNNING or the answer that ended it
    stored,         \* command results: <<key, body>>
    revoked         \* users and organizations whose admission was withdrawn

serviceVars == <<command, answer, stored, revoked>>

\* The parties that must be admitted when a command takes effect: the actor
\* and its organization and, for a direct trade, both sides.
Accountable(c) ==
    CASE c.op \in {"create_trade", "confirm_trade", "settle_trade"} ->
             ({"user"} \X (c.users \union {c.actor})) \union ({"org"} \X c.orgs)
      [] c.op \in {"decline_trade", "reject_organization", "reject_user"} -> {}
      [] OTHER -> {<<"user", c.actor>>, <<"org", c.org>>}

ServiceInit ==
    /\ command \in [Deliveries -> Catalogue]
    /\ answer = [d \in Deliveries |-> "NEW"]
    /\ stored = {}
    /\ revoked = {}

Receive(d, c) ==
    /\ answer[d] = "NEW"
    /\ command' = [command EXCEPT ![d] = c]
    /\ answer' = [answer EXCEPT ![d] = "RUNNING"]
    /\ UNCHANGED <<stored, revoked>>

Ends(d, how) ==
    /\ answer[d] = "RUNNING"
    /\ answer' = [answer EXCEPT ![d] = how]
    /\ UNCHANGED command

\* The command takes effect, result and revocations together.
Execute(d) ==
    LET c == command[d] IN
    /\ Ends(d, "APPLIED")
    /\ Accountable(c) \intersect revoked = {}
    /\ \A b \in Bodies : <<c.key, b>> \notin stored
    /\ stored' = IF c.key = NoKey THEN stored ELSE stored \union {<<c.key, c.body>>}
    /\ revoked' = revoked \union c.revokes

\* The request was made before: its result is returned.
Replay(d) ==
    /\ Ends(d, "REPLAYED")
    /\ command[d].key # NoKey /\ <<command[d].key, command[d].body>> \in stored
    /\ UNCHANGED <<stored, revoked>>

Fail(d) ==
    /\ \E how \in {"REFUSED", "BUSY", "UNAVAILABLE", "LOST"} : Ends(d, how)
    /\ UNCHANGED <<stored, revoked>>

ServiceNext ==
    \E d \in Deliveries :
        (\E c \in Catalogue : Receive(d, c)) \/ Execute(d) \/ Replay(d) \/ Fail(d)

ServiceSpec == ServiceInit /\ [][ServiceNext]_serviceVars
=============================================================================
