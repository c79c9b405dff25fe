------------------------------- MODULE MockMint -------------------------------
(***************************************************************************)
(* lib/mock_mint.py: the mint of the dry tests.  Every request has its own *)
(* thread (ThreadingHTTPServer) and the mint's state has no lock: a swap   *)
(* tests each of its inputs and marks it spent in separate steps.          *)
(*                                                                         *)
(* Every proof is valid and outputs are always signed; the amounts are     *)
(* never compared by the code.  A secret stands for its curve point, too.  *)
(***************************************************************************)
EXTENDS Integers, Sequences

CONSTANTS
  Request,   \* POST /v1/swap requests
  Inputs,    \* the sequence of secrets each of them spends
  MaxErrors  \* bound: the count of /test/set-swap-error

ASSUME InputsAreLists ==
  \A r \in Request : Len(Inputs[r]) \in Nat /\ DOMAIN Inputs[r] = 1 .. Len(Inputs[r])
ASSUME MaxErrorsIsNumber == MaxErrors \in Nat

VARIABLES
  spent,   \* spent_secrets
  ys,      \* spent_ys, what /v1/checkstate reads
  errors,  \* swap_error_count
  at,      \* the handler of each request
  next,    \* the input it is at
  answer,  \* what it returned
  before   \* history: secrets redeemed by answered swaps when the request came

store == <<spent, ys, errors>>
handlers == <<at, next, answer, before>>
mintVars == <<spent, ys, errors, at, next, answer, before>>

SecretsOf(r) == {Inputs[r][i] : i \in DOMAIN Inputs[r]}
Secrets == UNION {SecretsOf(r) : r \in Request}
Secret(r) == Inputs[r][next[r]]

Redeemed == UNION {SecretsOf(r) : r \in {q \in Request : answer[q] = "signed"}}

MintInit ==
  /\ spent = {} /\ ys = {} /\ errors = 0
  /\ at = [r \in Request |-> "away"]
  /\ next = [r \in Request |-> 1]
  /\ answer = [r \in Request |-> "none"]
  /\ before = [r \in Request |-> {}]

MintGoto(r, l) == at' = [at EXCEPT ![r] = l] /\ UNCHANGED answer

MintReturns(r, a) ==
  /\ at' = [at EXCEPT ![r] = "returned"]
  /\ answer' = [answer EXCEPT ![r] = a]

\* The server hands the request to a thread.
Arrives(r) ==
  /\ at[r] = "away"
  /\ MintGoto(r, "inject")
  /\ before' = [before EXCEPT ![r] = Redeemed]
  /\ UNCHANGED <<store, next>>

\* Injected errors are counted down without a lock.
TestInjected(r) ==
  /\ at[r] = "inject"
  /\ MintGoto(r, IF errors > 0 THEN "count" ELSE "test")
  /\ UNCHANGED <<store, next, before>>

CountInjected(r) ==
  /\ at[r] = "count"
  /\ errors' = errors - 1
  /\ MintReturns(r, "injected")
  /\ UNCHANGED <<spent, ys, next, before>>

\* Mistake: the inputs are marked when they are signed for, and tested together.
TestInputForgets(r) ==
  /\ at[r] = "test"
  /\ IF next[r] > Len(Inputs[r]) THEN MintReturns(r, "signed") /\ UNCHANGED next
     ELSE MintGoto(r, "test") /\ next' = [next EXCEPT ![r] = @ + 1]
  /\ UNCHANGED <<store, before>>

\* The next input is unspent, or the swap is refused; after the last one the
\* outputs are signed.
TestInput(r) ==
  /\ at[r] = "test"
  /\ CASE next[r] > Len(Inputs[r]) -> MintReturns(r, "signed")
       [] next[r] <= Len(Inputs[r]) /\ Secret(r) \in spent -> MintReturns(r, "spent")
       [] OTHER -> MintGoto(r, "mark")
  /\ UNCHANGED <<store, next, before>>

MarkSecret(r) ==
  /\ at[r] = "mark"
  /\ spent' = spent \cup {Secret(r)}
  /\ MintGoto(r, "mark_y")
  /\ UNCHANGED <<ys, errors, next, before>>

\* Mistake: the point is recorded for the last input only.
MarkYOfLast(r) ==
  /\ at[r] = "mark_y"
  /\ ys' = IF next[r] = Len(Inputs[r]) THEN ys \cup {Secret(r)} ELSE ys
  /\ next' = [next EXCEPT ![r] = @ + 1]
  /\ MintGoto(r, "test")
  /\ UNCHANGED <<spent, errors, before>>

MarkY(r) ==
  /\ at[r] = "mark_y"
  /\ ys' = ys \cup {Secret(r)}
  /\ next' = [next EXCEPT ![r] = @ + 1]
  /\ MintGoto(r, "test")
  /\ UNCHANGED <<spent, errors, before>>

\* GET /test/set-swap-error.
SetSwapError(n) ==
  /\ errors' = n
  /\ UNCHANGED <<spent, ys, handlers>>

Handler(r) ==
  TestInjected(r) \/ CountInjected(r) \/ TestInput(r) \/ MarkSecret(r) \/ MarkY(r)
-----------------------------------------------------------------------------
MintTypeOK ==
  /\ spent \subseteq Secrets /\ ys \subseteq Secrets
  /\ errors \in Int /\ errors <= MaxErrors
  /\ at \in [Request -> {"away", "inject", "count", "test", "mark", "mark_y", "returned"}]
  /\ next \in [Request -> Nat \ {0}]
  /\ answer \in [Request -> {"none", "injected", "spent", "signed"}]
  /\ before \in [Request -> SUBSET Secrets]

\* Two swaps in flight may both pass the test; but once a swap is answered, a
\* swap that comes later does not redeem any of its inputs again.
RedeemedStaysSpent ==
  \A r \in Request : answer[r] = "signed" => SecretsOf(r) \cap before[r] = {}

\* What an answered swap redeemed, /v1/checkstate reports as spent: no wallet
\* that asks after a lost answer is told that its proofs are still good.
RedeemedShowsSpent ==
  \A r \in Request : answer[r] = "signed" => SecretsOf(r) \subseteq ys

\* "Token already spent": no secret is redeemed by two swaps.
RedeemedOnce ==
  \A r, q \in Request :
    (answer[r] = "signed" /\ answer[q] = "signed" /\ r # q)
      => SecretsOf(r) \cap SecretsOf(q) = {}

\* A swap that is refused spends nothing.
RefusedSpendsNothing ==
  [][\A r \in Request : (answer[r] = "none" /\ answer'[r] = "spent") => next[r] = 1]_mintVars
=============================================================================
