--------------------------------- MODULE TopUp ---------------------------------
(***************************************************************************)
(* Paying for a session: scripts/tollgate-clientd.py watches its session   *)
(* and buys another when it runs out, the payment handler of               *)
(* lib/mock_router.py decides on each token, and runs of                   *)
(* scripts/recover_tokens.py submit again the tokens that were filed.      *)
(* Every POST has a thread of its own (ThreadingHTTPServer), and the set   *)
(* of spent tokens has no lock.                                            *)
(*                                                                         *)
(* The session that a grant extends, the file of tokens to recover and the *)
(* mint that is asked about them are external.  A token is worth one       *)
(* top-up.  Time goes in ticks.                                            *)
(***************************************************************************)
EXTENDS Integers, FiniteSets

CONSTANTS
  Token,       \* the tokens the daemon's wallet can make, one after the other
  Stuck,       \* tokens filed for recovery before
  Unwelcome,   \* tokens the gateway never accepts (form, keyset, mint)
  Recovery,    \* runs of recover_tokens.py
  Client,      \* the daemon, as the sender of a request
  Throttle,    \* PAYMENT_THROTTLE
  BackoffMax,  \* PAYMENT_BACKOFF_MAX
  Allotment,   \* what one top-up buys
  RenewBelow,
  MaxFaults,   \* bound: lost or late messages, failed polls, checks and withdrawals
  None

ASSUME TimesAreNumbers ==
  /\ Throttle \in Nat \ {0} /\ BackoffMax \in Nat /\ Throttle <= BackoffMax
  /\ Allotment \in Nat \ {0} /\ RenewBelow \in Nat /\ MaxFaults \in Nat
ASSUME NamesDiffer == /\ Token \cap Stuck = {}
                      /\ None \notin Token \cup Stuck /\ Client \notin Recovery

VARIABLES
  left,      \* what remains of the session, -1: none
  wallet,
  daemon,    \* where the daemon is: "poll", "decide", "wallet", "send", "await"
  seen,      \* what its last poll returned
  token,     \* what it is about to pay with
  since,     \* ticks since last_payment, up to BackoffMax
  backoff,
  post,      \* the handler of each payment request <<sender, token>>
  spent,     \* _spent_tokens
  filed,     \* the recovery file
  run,       \* each recovery: its place, the token it is at and those left
  faults,
  fails,     \* history: payments that failed since the last good one
  quiet,     \* history: ticks since the last of them was over, up to BackoffMax
  stale      \* history: requests that came after a grant of their token was answered

payer == <<wallet, daemon, seen, token, since, backoff, fails, quiet>>
gateway == <<post, spent, filed, stale>>
vars == <<left, payer, gateway, run, faults>>

All == Token \cup Stuck
Sender == Recovery \cup {Client}

Init ==
  /\ left \in {-1, Allotment}
  /\ wallet = Token
  /\ daemon = "poll" /\ seen = -1 /\ token = None
  /\ since = BackoffMax /\ backoff = Throttle
  /\ post = [q \in Sender \X All |-> "none"]
  /\ spent = {}
  /\ filed = Stuck
  /\ run = [r \in Recovery |-> [at |-> "idle", token |-> None, todo |-> {}]]
  /\ faults = 0
  /\ fails = 0 /\ quiet = BackoffMax /\ stale = {}
-----------------------------------------------------------------------------
Fault == faults < MaxFaults /\ faults' = faults + 1

Least(a, b) == IF a <= b THEN a ELSE b

\* Mistake: the daemon dies of a poll that fails.
PollUnguarded ==
  /\ daemon = "poll"
  /\ \/ seen' = left /\ daemon' = "decide" /\ UNCHANGED faults
     \/ Fault /\ daemon' = "dead" /\ UNCHANGED seen
  /\ UNCHANGED <<left, wallet, token, since, backoff, gateway, run, fails, quiet>>

\* GET /usage; an error is waited out.
Poll ==
  /\ daemon = "poll"
  /\ \/ seen' = left /\ daemon' = "decide" /\ UNCHANGED faults
     \/ Fault /\ UNCHANGED <<daemon, seen>>
  /\ UNCHANGED <<left, wallet, token, since, backoff, gateway, run, fails, quiet>>

\* Mistake: the threshold is compared with the whole allotment.
NeedsAllotment == seen <= Allotment

NeedsTopUp == seen = -1 \/ seen <= RenewBelow

Decide ==
  /\ daemon = "decide"
  /\ IF NeedsTopUp /\ since >= backoff
     THEN daemon' = "wallet" /\ since' = 0
     ELSE daemon' = "poll" /\ UNCHANGED since
  /\ seen' = -1
  /\ UNCHANGED <<left, wallet, token, backoff, gateway, run, faults, fails, quiet>>

\* Mistake: a failure does not restart the clock.
FailedKeepsClock ==
  /\ backoff' = Least(2 * backoff, BackoffMax)
  /\ fails' = fails + 1 /\ quiet' = 0
  /\ daemon' = "poll" /\ token' = None
  /\ UNCHANGED <<wallet, seen, since>>

\* top_up raised: the token, if there is one, is forgotten.
Failed ==
  /\ backoff' = Least(2 * backoff, BackoffMax)
  /\ since' = 0
  /\ fails' = fails + 1 /\ quiet' = 0
  /\ daemon' = "poll" /\ token' = None
  /\ UNCHANGED <<wallet, seen>>

Withdraws ==
  /\ daemon = "wallet"
  /\ wallet # {}
  /\ token' = CHOOSE t \in wallet : TRUE
  /\ wallet' = wallet \ {token'}
  /\ daemon' = "send"
  /\ UNCHANGED <<left, seen, since, backoff, gateway, run, faults, fails, quiet>>

WithdrawFails ==
  /\ daemon = "wallet"
  /\ Fault
  /\ Failed
  /\ UNCHANGED <<left, gateway, run>>

\* An empty wallet fails, too, as often as it is asked.
WalletIsEmpty ==
  /\ daemon = "wallet" /\ wallet = {}
  /\ since' = 0 /\ backoff' = Least(2 * backoff, BackoffMax) /\ quiet' = 0
  /\ daemon' = "poll" /\ token' = None
  /\ UNCHANGED <<left, wallet, seen, gateway, run, faults, fails>>

\* The gateway answered a grant of token t to somebody.
Answered(t) ==
  \E s \in Sender : post[<<s, t>>] = "granted" /\
    IF s = Client THEN token # t ELSE run[s].at # "await" \/ run[s].token # t

Arrives(s, t) ==
  /\ post' = [post EXCEPT ![<<s, t>>] = "test"]
  /\ stale' = IF Answered(t) THEN stale \cup {<<s, t>>} ELSE stale
  /\ UNCHANGED <<spent, filed>>

Sends ==
  /\ daemon = "send"
  /\ Arrives(Client, token)
  /\ daemon' = "await"
  /\ UNCHANGED <<left, wallet, seen, token, since, backoff, run, faults, fails, quiet>>

SendIsLost ==
  /\ daemon = "send"
  /\ Fault
  /\ Failed
  /\ UNCHANGED <<left, gateway, run>>

Paid ==
  /\ daemon = "await" /\ post[<<Client, token>>] = "granted"
  /\ backoff' = Throttle
  /\ fails' = 0 /\ quiet' = BackoffMax
  /\ daemon' = "poll" /\ token' = None
  /\ UNCHANGED <<left, wallet, seen, since, gateway, run, faults>>

Rejected ==
  /\ daemon = "await" /\ post[<<Client, token>>] = "refused"
  /\ Failed
  /\ UNCHANGED <<left, gateway, run, faults>>

\* HTTP_TIMEOUT, or a broken connection: the handler runs on.
TimesOut ==
  /\ daemon = "await"
  /\ Fault
  /\ Failed
  /\ UNCHANGED <<left, gateway, run>>

Daemon ==
  \/ Poll \/ Decide \/ Withdraws \/ WithdrawFails \/ WalletIsEmpty
  \/ Sends \/ SendIsLost \/ Paid \/ Rejected \/ TimesOut

Tick ==
  /\ since' = Least(since + 1, BackoffMax)
  /\ quiet' = Least(quiet + 1, BackoffMax)
  /\ left' = IF left > 0 THEN left - 1 ELSE -1
  /\ UNCHANGED <<wallet, daemon, seen, token, backoff, fails, gateway, run, faults>>
-----------------------------------------------------------------------------
\* Mistake: the token is recorded only if its grant extends a session.
ValidatePays(s, t) ==
  /\ post[<<s, t>>] = "test"
  /\ post' = [post EXCEPT ![<<s, t>>] =
                IF t \in spent \cup Unwelcome THEN "refused"
                ELSE IF s = Client THEN "add" ELSE "granted"]
  /\ UNCHANGED <<left, payer, spent, filed, stale, run, faults>>

\* _validate_mock_payment: the token is tested, and in another step recorded.
Validate(s, t) ==
  /\ post[<<s, t>>] = "test"
  /\ post' = [post EXCEPT ![<<s, t>>] =
                IF t \in spent \cup Unwelcome THEN "refused" ELSE "add"]
  /\ UNCHANGED <<left, payer, spent, filed, stale, run, faults>>

\* A session belongs to the sender: only the daemon's own payments extend its.
Grant(s, t) ==
  /\ post[<<s, t>>] = "add"
  /\ spent' = spent \cup {t}
  /\ post' = [post EXCEPT ![<<s, t>>] = "granted"]
  /\ left' = IF s # Client THEN left ELSE IF left = -1 THEN Allotment ELSE left + Allotment
  /\ UNCHANGED <<payer, filed, stale, run, faults>>

\* The gateway cannot redeem the token now, and files it.
Files(s, t) ==
  /\ post[<<s, t>>] = "test"
  /\ Fault
  /\ post' = [post EXCEPT ![<<s, t>>] = "refused"]
  /\ filed' = filed \cup {t}
  /\ UNCHANGED <<left, payer, spent, stale, run>>
-----------------------------------------------------------------------------
\* parse_token_file reads the file once.
Starts(r) ==
  /\ run[r].at = "idle"
  /\ run' = [run EXCEPT ![r] = [at |-> "check", token |-> None, todo |-> filed]]
  /\ UNCHANGED <<left, payer, gateway, faults>>

GoesTo(r, l, t) ==
  run' = [run EXCEPT ![r] = [at |-> l, token |-> t, todo |-> @.todo \ {t}]]

\* check_token_state: a mint that resolves no state counts as "SPENT", and a
\* token whose check failed is left out.
Checks(r) ==
  /\ run[r].at = "check"
  /\ \E t \in run[r].todo :
       \/ GoesTo(r, IF t \in spent THEN "check" ELSE "submit", t) /\ UNCHANGED faults
       \/ GoesTo(r, "check", t) /\ Fault
  /\ UNCHANGED <<left, payer, gateway>>

Submits(r) ==
  /\ run[r].at = "submit"
  /\ \/ /\ Arrives(r, run[r].token)
        /\ GoesTo(r, "await", run[r].token)
        /\ UNCHANGED faults
     \/ /\ GoesTo(r, "check", run[r].token)
        /\ Fault
        /\ UNCHANGED gateway
  /\ UNCHANGED <<left, payer>>

\* Any answer with a status below 400 is SUBMITTED, a refusal too.
Submitted(r) ==
  /\ run[r].at = "await"
  /\ \/ post[<<r, run[r].token>>] \in {"granted", "refused"} /\ UNCHANGED faults
     \/ Fault
  /\ GoesTo(r, "check", run[r].token)
  /\ UNCHANGED <<left, payer, gateway>>

Recovers(r) == Starts(r) \/ Checks(r) \/ Submits(r) \/ Submitted(r)

Handles(s, t) == Validate(s, t) \/ Grant(s, t) \/ Files(s, t)

Next ==
  \/ Daemon \/ Tick
  \/ \E s \in Sender, t \in All : Handles(s, t)
  \/ \E r \in Recovery : Recovers(r)

Spec == Init /\ [][Next]_vars

\* Time passes, the daemon is scheduled, and the gateway's threads are.
Fairness ==
  /\ WF_vars(Tick) /\ WF_vars(Daemon)
  /\ \A s \in Sender, t \in All : WF_vars(Handles(s, t))

FairSpec == Spec /\ Fairness
-----------------------------------------------------------------------------
TypeOK ==
  /\ left \in Int /\ left >= -1
  /\ wallet \subseteq Token
  /\ daemon \in {"poll", "decide", "wallet", "send", "await"}
  /\ seen \in Int /\ seen >= -1
  /\ token \in Token \cup {None}
  /\ since \in 0 .. BackoffMax /\ quiet \in 0 .. BackoffMax
  /\ backoff \in Throttle .. BackoffMax
  /\ post \in [Sender \X All -> {"none", "test", "add", "granted", "refused"}]
  /\ spent \subseteq All /\ filed \subseteq All
  /\ run \in [Recovery -> [at : {"idle", "check", "submit", "await"},
                           token : All \cup {None}, todo : SUBSET All]]
  /\ faults \in 0 .. MaxFaults
  /\ fails \in Nat
  /\ stale \subseteq Sender \X All

\* PAYMENT_THROTTLE doubled by each of k failures.
Pause[k \in Nat] == IF k = 0 THEN Throttle ELSE 2 * Pause[k - 1]

\* After k failed payments in a row the next token leaves the wallet only when
\* Throttle * 2^k ticks, or BackoffMax, have passed since the last failure.
PacedByFailures ==
  [][(fails > 0 /\ wallet' # wallet) => quiet >= Least(Pause[fails], BackoffMax)]_vars

\* A token whose grant has been answered is refused to everybody who sends it
\* later, a recovery that checked it before included.
NoLateGrant == \A q \in stale : post[q] \in {"test", "refused"}

\* The daemon buys no more than the renewal it needs, and one top-up more for each
\* fault, such as a payment given up that is granted after all.
OneTopUpPerFault == left <= RenewBelow + (1 + faults) * Allotment

\* A daemon without a session gets one, or has spent its wallet.
SessionComesBack == (left = -1) ~> (left >= 0 \/ wallet = {})

\* "a double-spent token never grants a second session".
GrantedOnce ==
  \A t \in All : Cardinality({s \in Sender : post[<<s, t>>] = "granted"}) <= 1
===============================================================================
