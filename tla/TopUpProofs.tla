------------------------------ MODULE TopUpProofs ------------------------------
(***************************************************************************)
(* Theorems about TopUp, for any tokens, recoveries, times and faults.     *)
(***************************************************************************)
EXTENDS TopUp, FiniteSetTheorems, WellFoundedInduction, TLAPS

Requests == Sender \X All

\* The lesser of two numbers is one of them.
LEMMA LeastIsBetween ==
  ASSUME NEW a \in Nat, NEW b \in Nat
  PROVE  Least(a, b) \in Nat /\ Least(a, b) <= b /\ (Least(a, b) = a \/ Least(a, b) = b)
BY DEF Least

\* The backoff stays between the throttle and its maximum.
LEMMA BackoffTyped ==
  ASSUME TypeOK
  PROVE  Least(2 * backoff, BackoffMax) \in Throttle .. BackoffMax
<1>1. backoff \in Nat /\ backoff >= Throttle /\ backoff <= BackoffMax
  BY TimesAreNumbers DEF TypeOK
<1> QED BY <1>1, TimesAreNumbers DEF Least

\* A fault is counted.
LEMMA FaultTyped ==
  ASSUME TypeOK, Fault
  PROVE  faults' \in 0 .. MaxFaults /\ faults' > 0
BY TimesAreNumbers DEF TypeOK, Fault

\* Time passes within its bounds, and never gives a session more time.
LEMMA TickTyped ==
  ASSUME TypeOK, Tick
  PROVE  /\ since' \in 0 .. BackoffMax /\ quiet' \in 0 .. BackoffMax
         /\ left' \in Int /\ left' >= -1 /\ left' <= left
BY TimesAreNumbers DEF TypeOK, Tick, Least

\* A failed payment puts the daemon back to polling, with a backoff in its range.
LEMMA PayFailedTyped ==
  ASSUME TypeOK, Failed
  PROVE  /\ wallet' \subseteq Token /\ daemon' = "poll" /\ seen' = seen
         /\ token' = None /\ since' \in 0 .. BackoffMax /\ quiet' \in 0 .. BackoffMax
         /\ backoff' \in Throttle .. BackoffMax /\ fails' \in Nat
BY TimesAreNumbers, BackoffTyped DEF TypeOK, Failed

\* A request that arrives changes its own record at the gateway and nothing else.
LEMMA ArrivesTyped ==
  ASSUME TypeOK, NEW s \in Sender, NEW t \in All, Arrives(s, t)
  PROVE  /\ post' = [post EXCEPT ![<<s, t>>] = "test"]
         /\ post' \in [Requests -> {"none", "test", "add", "granted", "refused"}]
         /\ stale' \subseteq Requests /\ spent' = spent /\ filed' = filed
BY DEF TypeOK, Arrives, Requests

\* Whoever sends or awaits a payment holds a token.
HoldsToken ==
  /\ daemon \in {"send", "await"} => token \in Token
  /\ \A r \in Recovery : run[r].at \in {"submit", "await"} => run[r].token \in All

\* A step of the daemon keeps the types, and a payment has a token.
LEMMA DaemonTyped ==
  ASSUME TypeOK, HoldsToken, Daemon
  PROVE  TypeOK' /\ HoldsToken'
<1> USE DEF gateway, HoldsToken
<1>1. CASE Poll \/ Decide
  <2>1. /\ UNCHANGED <<left, wallet, token, backoff, gateway, run, fails, quiet>>
        /\ seen' \in Int /\ seen' >= -1 /\ since' \in 0 .. BackoffMax
        /\ daemon' \in {"poll", "decide", "wallet"}
    BY <1>1, TimesAreNumbers DEF Poll, Decide, TypeOK
  <2>2. faults' \in 0 .. MaxFaults
    BY <1>1, FaultTyped DEF Poll, Decide, TypeOK
  <2> QED BY <2>1, <2>2 DEF TypeOK
<1>2. CASE Withdraws
  <2>1. token' \in wallet
    BY <1>2 DEF Withdraws
  <2> QED BY <1>2, <2>1 DEF Withdraws, TypeOK
<1>3. CASE WithdrawFails \/ SendIsLost \/ TimesOut
  <2>1. Failed /\ Fault /\ UNCHANGED <<left, gateway, run>>
    BY <1>3 DEF WithdrawFails, SendIsLost, TimesOut
  <2> QED BY <2>1, PayFailedTyped, FaultTyped DEF TypeOK
<1>4. CASE WalletIsEmpty
  <2>1. since' \in 0 .. BackoffMax /\ quiet' \in 0 .. BackoffMax
    BY <1>4, TimesAreNumbers DEF WalletIsEmpty
  <2>2. backoff' \in Throttle .. BackoffMax
    BY <1>4, BackoffTyped DEF WalletIsEmpty
  <2> QED BY <1>4, <2>1, <2>2 DEF WalletIsEmpty, TypeOK
<1>5. CASE Sends
  <2>1. Client \in Sender /\ token \in All
    BY <1>5 DEF Sends, Sender, All
  <2>2. Arrives(Client, token)
    BY <1>5 DEF Sends
  <2>3. /\ post' \in [Requests -> {"none", "test", "add", "granted", "refused"}]
        /\ stale' \subseteq Requests /\ spent' = spent /\ filed' = filed
    BY <2>1, <2>2, ArrivesTyped
  <2> QED BY <1>5, <2>3 DEF Sends, TypeOK, Requests
<1>6. CASE Paid
  BY <1>6, TimesAreNumbers DEF Paid, TypeOK
<1>7. CASE Rejected
  BY <1>7, PayFailedTyped DEF Rejected, TypeOK
<1> QED
  BY <1>1, <1>2, <1>3, <1>4, <1>5, <1>6, <1>7 DEF Daemon

\* A step of a handler of the gateway keeps the types, and a payment has a token.
LEMMA HandlesTyped ==
  ASSUME TypeOK, HoldsToken, NEW s \in Sender, NEW t \in All, Handles(s, t)
  PROVE  TypeOK' /\ HoldsToken'
<1> USE DEF payer, HoldsToken
<1>1. CASE Validate(s, t)
  BY <1>1 DEF Validate, TypeOK
<1>2. CASE Grant(s, t)
  <2>1. left' \in Int /\ left' >= -1
    BY <1>2, TimesAreNumbers DEF Grant, TypeOK
  <2> QED BY <1>2, <2>1 DEF Grant, TypeOK
<1>3. CASE Files(s, t)
  BY <1>3, FaultTyped DEF Files, TypeOK
<1> QED BY <1>1, <1>2, <1>3 DEF Handles

Places == [at : {"idle", "check", "submit", "await"}, token : All \cup {None},
           todo : SUBSET All]

\* A recovery that goes on keeps the type of its place, and submits a token.
LEMMA GoesToTyped ==
  ASSUME TypeOK, HoldsToken, NEW r \in Recovery, NEW t \in All,
         NEW l \in {"check", "submit", "await"}, GoesTo(r, l, t)
  PROVE  /\ run' \in [Recovery -> Places]
         /\ \A q \in Recovery : run'[q].at \in {"submit", "await"} => run'[q].token \in All
<1>1. run \in [Recovery -> Places]
  BY DEF TypeOK, Places
<1>2. run[r] \in Places
  BY <1>1
<1>3. [at |-> l, token |-> t, todo |-> run[r].todo \ {t}] \in Places
  BY <1>2 DEF Places
<1>4. run' = [run EXCEPT ![r] = [at |-> l, token |-> t, todo |-> run[r].todo \ {t}]]
  BY <1>1 DEF GoesTo
<1> QED BY <1>1, <1>3, <1>4 DEF HoldsToken

\* A step of a recovery keeps the types, and a payment has a token.
LEMMA RecoversTyped ==
  ASSUME TypeOK, HoldsToken, NEW r \in Recovery, Recovers(r)
  PROVE  TypeOK' /\ HoldsToken'
<1> USE DEF payer, gateway
<1>1. run[r].token \in All \/ run[r].at \in {"idle", "check"}
  BY DEF TypeOK, HoldsToken
<1>2. run[r].todo \subseteq All /\ r \in Sender
  BY DEF TypeOK, Sender
<1>3. CASE Starts(r)
  <2>1. [at |-> "check", token |-> None, todo |-> filed] \in Places
    BY DEF TypeOK, Places
  <2>2. run' \in [Recovery -> Places]
    BY <1>3, <2>1 DEF Starts, TypeOK, Places
  <2> QED BY <1>3, <2>2 DEF Starts, TypeOK, HoldsToken, Places
<1>4. CASE Checks(r)
  <2>1. PICK t \in run[r].todo :
          \/ GoesTo(r, IF t \in spent THEN "check" ELSE "submit", t) /\ UNCHANGED faults
          \/ GoesTo(r, "check", t) /\ Fault
    BY <1>4 DEF Checks
  <2>2. /\ run' \in [Recovery -> Places]
        /\ \A q \in Recovery : run'[q].at \in {"submit", "await"} => run'[q].token \in All
    BY <1>2, <2>1, GoesToTyped
  <2>3. faults' \in 0 .. MaxFaults
    BY <2>1, FaultTyped DEF TypeOK
  <2> QED BY <1>4, <2>2, <2>3 DEF Checks, TypeOK, HoldsToken, Places
<1>5. CASE Submits(r)
  <2>1. run[r].token \in All
    BY <1>1, <1>5 DEF Submits
  <2>2. /\ run' \in [Recovery -> Places]
        /\ \A q \in Recovery : run'[q].at \in {"submit", "await"} => run'[q].token \in All
    BY <1>5, <2>1, GoesToTyped DEF Submits
  <2>3. /\ post' \in [Requests -> {"none", "test", "add", "granted", "refused"}]
        /\ stale' \subseteq Requests /\ spent' = spent /\ filed' = filed
    BY <1>2, <1>5, <2>1, ArrivesTyped DEF Submits, TypeOK, Requests
  <2>4. faults' \in 0 .. MaxFaults
    BY <1>5, FaultTyped DEF Submits, TypeOK
  <2> QED BY <1>5, <2>2, <2>3, <2>4 DEF Submits, TypeOK, HoldsToken, Places, Requests
<1>6. CASE Submitted(r)
  <2>1. run[r].token \in All
    BY <1>1, <1>6 DEF Submitted
  <2>2. /\ run' \in [Recovery -> Places]
        /\ \A q \in Recovery : run'[q].at \in {"submit", "await"} => run'[q].token \in All
    BY <1>6, <2>1, GoesToTyped DEF Submitted
  <2>3. faults' \in 0 .. MaxFaults
    BY <1>6, FaultTyped DEF Submitted, TypeOK
  <2> QED BY <1>6, <2>2, <2>3 DEF Submitted, TypeOK, HoldsToken, Places
<1> QED BY <1>3, <1>4, <1>5, <1>6 DEF Recovers

\* The types hold at the start, when nobody sends or awaits a payment.
LEMMA TypedStart ==
  ASSUME Init
  PROVE  TypeOK /\ HoldsToken
<1>1. left \in Int /\ left >= -1
  BY TimesAreNumbers DEF Init
<1>2. backoff \in Throttle .. BackoffMax /\ since \in 0 .. BackoffMax /\ quiet \in 0 .. BackoffMax
  BY TimesAreNumbers DEF Init
<1>3. run \in [Recovery -> Places]
  BY DEF Init, Places
<1>4. faults \in 0 .. MaxFaults
  BY TimesAreNumbers DEF Init
<1> QED BY <1>1, <1>2, <1>3, <1>4 DEF Init, TypeOK, HoldsToken, Places, All

\* Every step keeps the types, and whoever sends or awaits a payment holds a token.
LEMMA TypedStep ==
  ASSUME TypeOK, HoldsToken, [Next]_vars
  PROVE  TypeOK' /\ HoldsToken'
<1>1. CASE Tick
  BY <1>1, TickTyped DEF Tick, gateway, TypeOK, HoldsToken
<1>2. CASE UNCHANGED vars
  BY <1>2 DEF vars, payer, gateway, TypeOK, HoldsToken
<1> QED BY <1>1, <1>2, DaemonTyped, HandlesTyped, RecoversTyped DEF Next

\* Every variable keeps its type; the backoff stays between the throttle and
\* its maximum.
THEOREM TopUpTypeCorrect == Spec => []TypeOK
<1>1. Init => TypeOK /\ HoldsToken
  BY TypedStart
<1>2. TypeOK /\ HoldsToken /\ [Next]_vars => TypeOK' /\ HoldsToken'
  BY TypedStep
<1> QED BY <1>1, <1>2, PTL DEF Spec
-----------------------------------------------------------------------------
\* A token that was granted, and so one whose grant was answered, is recorded.
SpentInv ==
  /\ \A s \in Sender, t \in All : post[<<s, t>>] = "granted" => t \in spent
  /\ \A s \in Sender, t \in All :
       <<s, t>> \in stale => t \in spent /\ post[<<s, t>>] \in {"test", "refused"}

\* A request that arrives finds its token recorded if it was answered before.
LEMMA ArrivesKeeps ==
  ASSUME TypeOK, SpentInv, NEW s \in Sender, NEW t \in All, Arrives(s, t)
  PROVE  SpentInv'
<1>1. Answered(t) => t \in spent
  BY DEF Answered, SpentInv
<1>2. /\ spent' = spent /\ post'[<<s, t>>] = "test"
      /\ \A q \in Requests \ {<<s, t>>} : post'[q] = post[q]
      /\ \A q \in Requests : q \in stale' => q \in stale \/ (q = <<s, t>> /\ Answered(t))
  BY DEF Arrives, TypeOK, Requests
<1>3. ASSUME NEW x \in Sender, NEW y \in All, post'[<<x, y>>] = "granted"
      PROVE  y \in spent'
  BY <1>2, <1>3 DEF SpentInv, Requests
<1>4. ASSUME NEW x \in Sender, NEW y \in All, <<x, y>> \in stale'
      PROVE  y \in spent' /\ post'[<<x, y>>] \in {"test", "refused"}
  <2>1. CASE <<x, y>> = <<s, t>>
    <3>1. y = t
      BY <2>1
    <3> QED BY <1>1, <1>2, <1>4, <2>1, <3>1 DEF SpentInv, Requests
  <2>2. CASE <<x, y>> # <<s, t>>
    BY <1>2, <1>4, <2>2 DEF SpentInv, Requests
  <2> QED BY <2>1, <2>2
<1> QED BY <1>3, <1>4 DEF SpentInv

\* What a handler writes is what its own request had become.
LEMMA HandlesKeeps ==
  ASSUME TypeOK, SpentInv, NEW s \in Sender, NEW t \in All, Handles(s, t)
  PROVE  SpentInv'
<1>1. /\ stale' = stale /\ spent \subseteq spent'
      /\ \A q \in Requests \ {<<s, t>>} : post'[q] = post[q]
  BY DEF Handles, Validate, Grant, Files, TypeOK, Requests
<1>2. post'[<<s, t>>] = "granted" => t \in spent' /\ post[<<s, t>>] = "add"
  BY DEF Handles, Validate, Grant, Files, TypeOK
<1>3. t \in spent /\ post[<<s, t>>] # "add" => post'[<<s, t>>] \in {"refused"}
  BY DEF Handles, Validate, Grant, Files, TypeOK
<1>4. ASSUME NEW x \in Sender, NEW y \in All, post'[<<x, y>>] = "granted"
      PROVE  y \in spent'
  <2>1. CASE <<x, y>> = <<s, t>>
    <3>1. y = t
      BY <2>1
    <3> QED BY <1>2, <1>4, <2>1, <3>1
  <2>2. CASE <<x, y>> # <<s, t>>
    BY <1>1, <1>4, <2>2 DEF SpentInv, Requests
  <2> QED BY <2>1, <2>2
<1>5. ASSUME NEW x \in Sender, NEW y \in All, <<x, y>> \in stale'
      PROVE  y \in spent' /\ post'[<<x, y>>] \in {"test", "refused"}
  <2>1. y \in spent /\ post[<<x, y>>] \in {"test", "refused"}
    BY <1>1, <1>5 DEF SpentInv
  <2>2. CASE <<x, y>> = <<s, t>>
    <3>1. y = t
      BY <2>2
    <3> QED BY <1>1, <1>3, <2>1, <2>2, <3>1
  <2>3. CASE <<x, y>> # <<s, t>>
    BY <1>1, <2>1, <2>3 DEF Requests
  <2> QED BY <2>2, <2>3
<1> QED BY <1>4, <1>5 DEF SpentInv

\* SpentInv is about the records of the gateway alone.
LEMMA SpentStands ==
  ASSUME SpentInv, UNCHANGED <<post, spent, stale>>
  PROVE  SpentInv'
BY DEF SpentInv

\* Every step keeps a granted token recorded, and a late request ungranted.
LEMMA SpentStep ==
  ASSUME TypeOK, HoldsToken, SpentInv, [Next]_vars
  PROVE  SpentInv'
<1>1. CASE Sends
  <2>1. Client \in Sender /\ token \in All /\ Arrives(Client, token)
    BY <1>1 DEF Sends, Sender, All, HoldsToken
  <2> QED BY <2>1, ArrivesKeeps
<1>2. CASE Daemon /\ ~Sends
  BY <1>2, SpentStands DEF Daemon, Poll, Decide, Withdraws, WithdrawFails, WalletIsEmpty,
     SendIsLost, Paid, Rejected, TimesOut, gateway
<1>3. ASSUME NEW r \in Recovery, Recovers(r) PROVE SpentInv'
  <2>1. CASE Submits(r) /\ ~UNCHANGED gateway
    <3>1. run[r].token \in All /\ r \in Sender /\ Arrives(r, run[r].token)
      BY <2>1 DEF Submits, HoldsToken, Sender
    <3> QED BY <3>1, ArrivesKeeps
  <2>2. CASE UNCHANGED gateway
    BY <2>2, SpentStands DEF gateway
  <2> QED BY <1>3, <2>1, <2>2 DEF Recovers, Starts, Checks, Submitted
<1>4. CASE Tick \/ UNCHANGED vars
  BY <1>4, SpentStands DEF Tick, vars, gateway
<1> QED BY <1>1, <1>2, <1>3, <1>4, HandlesKeeps DEF Next

\* A token whose grant has been answered is refused to whoever sends it later:
\* the set is not locked, but it is read before the grant and only grows.
THEOREM NothingGrantedLate == Spec => []NoLateGrant
<1>1. Init => TypeOK /\ HoldsToken /\ SpentInv
  BY TypedStart DEF Init, SpentInv
<1>2. TypeOK /\ HoldsToken /\ SpentInv /\ [Next]_vars => TypeOK' /\ HoldsToken' /\ SpentInv'
  BY TypedStep, SpentStep
<1>3. TypeOK /\ SpentInv => NoLateGrant
  <2> SUFFICES ASSUME TypeOK, SpentInv, NEW q \in stale PROVE post[q] \in {"test", "refused"}
    BY DEF NoLateGrant
  <2>1. PICK s \in Sender, t \in All : q = <<s, t>>
    BY DEF TypeOK
  <2> QED BY <2>1 DEF SpentInv
<1> QED BY <1>1, <1>2, <1>3, PTL DEF Spec
-----------------------------------------------------------------------------
\* The payments of the daemon that may still be granted though it has given them
\* up, and what its session may come to: what remains of it, and these.
Pending(t) == post[<<Client, t>>] \in {"test", "add"}
Awaited(t) == daemon = "await" /\ token = t
Late == {t \in All : Pending(t) /\ ~Awaited(t)}

Worth(n) == n * Allotment
Rest(time) == IF time = -1 THEN 0 ELSE time
Debt == Rest(left) + Worth(Cardinality(Late))

\* Each payment given up is one fault; one that is on its way was asked for when
\* no more than a renewal was left beside those.
PayInv ==
  /\ IsFiniteSet(Late) /\ Cardinality(Late) <= faults
  /\ Debt <= RenewBelow + Worth(faults) + Allotment
  /\ daemon = "decide" => Debt <= Rest(seen) + Worth(faults)
  /\ daemon \in {"wallet", "send"} \/ (daemon = "await" /\ Pending(token)) =>
       Debt <= RenewBelow + Worth(faults)

TopUpInv == TypeOK /\ HoldsToken /\ PayInv

\* What several top-ups are worth.
LEMMA WorthGrows ==
  /\ Worth(0) = 0
  /\ \A n \in Nat : Worth(n) \in Nat /\ Worth(n + 1) = Worth(n) + Allotment
  /\ \A m, n \in Nat : m <= n => Worth(m) <= Worth(n)
<1>1. Worth(0) = 0
  BY TimesAreNumbers DEF Worth
<1>2. \A n \in Nat : Worth(n) \in Nat /\ Worth(n + 1) = Worth(n) + Allotment
  BY TimesAreNumbers DEF Worth
<1>3. ASSUME NEW m \in Nat, NEW n \in Nat, m <= n PROVE Worth(m) <= Worth(n)
  <2>1. n - m \in Nat /\ n = m + (n - m) /\ (n - m) * Allotment \in Nat
    BY <1>3, TimesAreNumbers
  <2>2. n * Allotment = m * Allotment + (n - m) * Allotment
    BY <2>1, TimesAreNumbers
  <2> QED BY <2>1, <2>2, TimesAreNumbers DEF Worth
<1> QED BY <1>1, <1>2, <1>3

\* The numbers that PayInv is about are numbers.
LEMMA DebtIsNumber ==
  ASSUME TopUpInv
  PROVE  /\ Cardinality(Late) \in Nat /\ faults \in Nat /\ Rest(left) \in Nat /\ Rest(seen) \in Nat
         /\ Worth(Cardinality(Late)) \in Nat /\ Worth(faults) \in Nat
         /\ Worth(Cardinality(Late)) <= Worth(faults)
         /\ RenewBelow \in Nat /\ Allotment \in Nat
<1>1. Cardinality(Late) \in Nat /\ Cardinality(Late) <= faults /\ faults \in Nat
  BY FS_CardinalityType, TimesAreNumbers DEF TopUpInv, PayInv, TypeOK
<1>2. Rest(left) \in Nat /\ Rest(seen) \in Nat
  BY DEF TopUpInv, TypeOK, Rest
<1> QED BY <1>1, <1>2, WorthGrows, TimesAreNumbers

\* A fault is counted once, and none is forgotten.
LEMMA FaultsStay ==
  ASSUME TypeOK, [Next]_vars
  PROVE  faults \in Nat /\ (faults' = faults \/ faults' = faults + 1)
<1>1. faults \in Nat
  BY TimesAreNumbers DEF TypeOK
<1>2. faults' = faults \/ Fault
  BY DEF Next, Daemon, Poll, Decide, Withdraws, WithdrawFails, WalletIsEmpty, Sends, SendIsLost,
         Paid, Rejected, TimesOut, Tick, Handles, Validate, Grant, Files, Recovers, Starts,
         Checks, Submits, Submitted, vars
<1> QED BY <1>1, <1>2 DEF Fault

\* Fewer late payments and no more time left: the daemon owes no more.
LEMMA DebtShrinks ==
  ASSUME TopUpInv, Late' \subseteq Late, Rest(left') \in Nat, Rest(left') <= Rest(left)
  PROVE  IsFiniteSet(Late') /\ Cardinality(Late') <= Cardinality(Late) /\ Debt' \in Nat /\ Debt' <= Debt
<1>1. IsFiniteSet(Late') /\ Cardinality(Late') <= Cardinality(Late) /\ Cardinality(Late') \in Nat
  BY FS_Subset, FS_CardinalityType DEF TopUpInv, PayInv
<1>2. /\ Worth(Cardinality(Late')) \in Nat /\ Worth(Cardinality(Late)) \in Nat
      /\ Worth(Cardinality(Late')) <= Worth(Cardinality(Late))
  BY <1>1, WorthGrows, DebtIsNumber
<1>3. Debt' = Rest(left') + Worth(Cardinality(Late'))
  BY DEF Debt, Rest
<1> QED BY <1>1, <1>2, <1>3, DebtIsNumber DEF Debt

\* The steps that make no payment late and bring no time.
LEMMA ShrinkingKeeps ==
  ASSUME TopUpInv, Late' \subseteq Late, Rest(left') \in Nat, Rest(left') <= Rest(left),
         faults' = faults \/ faults' = faults + 1,
         daemon' = "decide" => (daemon = "decide" /\ seen' = seen) \/ Rest(seen') = Rest(left),
         daemon' \in {"wallet", "send"} \/ (daemon' = "await" /\ Pending(token)') =>
           \/ daemon \in {"wallet", "send"}
           \/ daemon = "await" /\ Pending(token)
           \/ daemon = "decide" /\ Rest(seen) <= RenewBelow
  PROVE  PayInv'
<1>1. /\ IsFiniteSet(Late') /\ Cardinality(Late') <= Cardinality(Late)
      /\ Debt' \in Nat /\ Debt' <= Debt /\ Debt \in Nat /\ Cardinality(Late') \in Nat
  BY DebtShrinks, DebtIsNumber, FS_CardinalityType DEF Debt
<1>2. /\ faults' \in Nat /\ faults <= faults' /\ Worth(faults) <= Worth(faults')
      /\ Worth(faults') \in Nat
  <2>1. faults \in Nat /\ faults' \in Nat /\ faults <= faults'
    BY DebtIsNumber
  <2> QED BY <2>1, WorthGrows
<1>3. /\ Cardinality(Late) <= faults
      /\ Debt <= RenewBelow + Worth(faults) + Allotment
      /\ daemon = "decide" => Debt <= Rest(seen) + Worth(faults)
      /\ daemon \in {"wallet", "send"} \/ (daemon = "await" /\ Pending(token)) =>
           Debt <= RenewBelow + Worth(faults)
      /\ Debt <= Rest(left) + Worth(faults)
  BY DebtIsNumber DEF TopUpInv, PayInv, Debt
<1>4. Cardinality(Late') <= faults' /\ Debt' <= RenewBelow + Worth(faults') + Allotment
  BY <1>1, <1>2, <1>3, DebtIsNumber
<1>5. daemon' = "decide" => Debt' <= Rest(seen') + Worth(faults')
  BY <1>1, <1>2, <1>3, DebtIsNumber
<1>6. daemon' \in {"wallet", "send"} \/ (daemon' = "await" /\ Pending(token)') =>
        Debt' <= RenewBelow + Worth(faults')
  BY <1>1, <1>2, <1>3, DebtIsNumber
<1>7. Rest(seen)' = Rest(seen') /\ Worth(faults)' = Worth(faults')
  BY DEF Rest, Worth
<1> QED BY <1>1, <1>4, <1>5, <1>6, <1>7 DEF PayInv

\* A payment that is given up is late from then on, and was a fault.
LEMMA GivingUpPays ==
  ASSUME TopUpInv, TimesOut
  PROVE  PayInv'
<1>1. /\ UNCHANGED <<left, post, seen>> /\ daemon = "await" /\ daemon' = "poll"
      /\ faults' = faults + 1 /\ token \in All
  BY DEF TimesOut, Failed, Fault, gateway, TopUpInv, HoldsToken, All
<1>2. Late' = IF Pending(token) THEN Late \cup {token} ELSE Late
  BY <1>1 DEF Late, Pending, Awaited
<1>3. CASE ~Pending(token)
  BY <1>1, <1>2, <1>3, DebtIsNumber, ShrinkingKeeps
<1>4. CASE Pending(token)
  <2>1. token \notin Late /\ IsFiniteSet(Late)
    BY <1>1 DEF Late, Awaited, TopUpInv, PayInv
  <2>2. IsFiniteSet(Late') /\ Cardinality(Late') = Cardinality(Late) + 1
    BY <1>2, <1>4, <2>1, FS_AddElement
  <2>3. Debt' = Debt + Allotment
    <3>1. Worth(Cardinality(Late')) = Worth(Cardinality(Late)) + Allotment
      BY <2>2, WorthGrows, DebtIsNumber
    <3>2. Debt' = Rest(left') + Worth(Cardinality(Late'))
      BY DEF Debt, Rest, Worth
    <3> QED BY <1>1, <3>1, <3>2, DebtIsNumber DEF Debt
  <2>4. Worth(faults)' = Worth(faults) + Allotment
    <3>1. Worth(faults)' = Worth(faults')
      BY DEF Worth
    <3> QED BY <1>1, <3>1, WorthGrows, DebtIsNumber
  <2>5. Debt \in Nat /\ Debt <= RenewBelow + Worth(faults) /\ Cardinality(Late) <= faults
    BY <1>1, <1>4, DebtIsNumber DEF TopUpInv, PayInv, Debt
  <2>6. /\ Cardinality(Late') <= faults'
        /\ Debt' <= RenewBelow + Worth(faults)' + Allotment
    BY <1>1, <2>2, <2>3, <2>4, <2>5, DebtIsNumber
  <2> QED BY <1>1, <2>2, <2>6 DEF PayInv
<1> QED BY <1>3, <1>4

\* Every other step of the daemon makes no payment late.
LEMMA DaemonPays ==
  ASSUME TopUpInv, Daemon, ~TimesOut
  PROVE  PayInv'
<1>1. faults' = faults \/ faults' = faults + 1
  BY FaultsStay DEF TopUpInv, Next
<1>2. left' = left /\ Rest(left') \in Nat
  BY DebtIsNumber DEF Daemon, Poll, Decide, Withdraws, WithdrawFails, WalletIsEmpty, Sends,
     SendIsLost, Paid, Rejected
<1>3. CASE Poll \/ Decide
  <2>1. /\ post' = post /\ token' = token /\ daemon \in {"poll", "decide"}
        /\ daemon' \in {"poll", "decide", "wallet"}
    BY <1>3 DEF Poll, Decide, gateway
  <2>2. Late' \subseteq Late
    BY <2>1 DEF Late, Pending, Awaited
  <2>3. daemon' = "decide" => Rest(seen') = Rest(left)
    BY <1>3 DEF Poll, Decide
  <2>4. daemon' = "wallet" => daemon = "decide" /\ Rest(seen) <= RenewBelow
    BY <1>3, TimesAreNumbers DEF Poll, Decide, NeedsTopUp, Rest
  <2> QED BY <1>1, <1>2, <2>1, <2>2, <2>3, <2>4, DebtIsNumber, ShrinkingKeeps
<1>4. CASE Withdraws \/ WithdrawFails \/ WalletIsEmpty \/ SendIsLost
  <2>1. /\ post' = post /\ daemon \in {"wallet", "send"} /\ daemon' \in {"send", "poll"}
    BY <1>4 DEF Withdraws, WithdrawFails, WalletIsEmpty, SendIsLost, Failed, gateway
  <2>2. Late' \subseteq Late
    BY <2>1 DEF Late, Pending, Awaited
  <2> QED BY <1>1, <1>2, <2>1, <2>2, DebtIsNumber, ShrinkingKeeps
<1>5. CASE Sends
  <2>1. /\ token' = token /\ daemon = "send" /\ daemon' = "await"
        /\ post' = [post EXCEPT ![<<Client, token>>] = "test"]
    BY <1>5 DEF Sends, Arrives
  <2>2. Late' \subseteq Late
    <3> SUFFICES ASSUME NEW t \in Late' PROVE t \in Late
      OBVIOUS
    <3>1. t \in All /\ t # token /\ post'[<<Client, t>>] \in {"test", "add"}
      BY <2>1 DEF Late, Pending, Awaited
    <3>2. <<Client, t>> # <<Client, token>> /\ <<Client, t>> \in Sender \X All
      BY <3>1 DEF Sender
    <3>3. post'[<<Client, t>>] = post[<<Client, t>>]
      BY <2>1, <3>2 DEF TopUpInv, TypeOK
    <3> QED BY <2>1, <3>1, <3>3 DEF Late, Pending, Awaited
  <2> QED BY <1>1, <1>2, <2>1, <2>2, DebtIsNumber, ShrinkingKeeps
<1>6. CASE Paid \/ Rejected
  <2>1. /\ post' = post /\ daemon = "await" /\ daemon' = "poll" /\ ~Pending(token)
    BY <1>6 DEF Paid, Rejected, Failed, gateway, Pending
  <2>2. Late' \subseteq Late
    BY <2>1 DEF Late, Pending, Awaited
  <2> QED BY <1>1, <1>2, <2>1, <2>2, DebtIsNumber, ShrinkingKeeps
<1> QED BY <1>3, <1>4, <1>5, <1>6 DEF Daemon

\* A handler that decides makes nothing pending.
LEMMA HandlesLate ==
  ASSUME TopUpInv, NEW s \in Sender, NEW t \in All, Handles(s, t)
  PROVE  /\ UNCHANGED <<daemon, token, seen>>
         /\ \A y \in All : Pending(y)' => Pending(y)
         /\ Late' \subseteq Late
<1>1. /\ UNCHANGED <<daemon, token, seen>>
      /\ \A q \in Requests \ {<<s, t>>} : post'[q] = post[q]
      /\ post'[<<s, t>>] \in {"test", "add"} => post[<<s, t>>] \in {"test", "add"}
  BY DEF Handles, Validate, Grant, Files, payer, Requests, TopUpInv, TypeOK
<1>2. \A y \in All : Pending(y)' => Pending(y)
  <2> TAKE y \in All
  <2>1. <<Client, y>> \in Requests
    BY DEF Requests, Sender
  <2> QED BY <1>1, <2>1 DEF Pending
<1>3. Late' \subseteq Late
  BY <1>1, <1>2 DEF Late, Awaited
<1> QED BY <1>1, <1>2, <1>3

\* A late payment that is granted is late no more; one on its way was paid for.
LEMMA HandlesPay ==
  ASSUME TopUpInv, NEW s \in Sender, NEW t \in All, Handles(s, t)
  PROVE  PayInv'
<1>1. /\ UNCHANGED <<daemon, token, seen>> /\ Late' \subseteq Late
      /\ \A y \in All : Pending(y)' => Pending(y)
  BY HandlesLate
<1>2. faults' = faults \/ faults' = faults + 1
  BY FaultsStay DEF TopUpInv, Next
<1>3. CASE left' = left
  <2>1. daemon = "await" => token \in All
    BY DEF TopUpInv, HoldsToken, All
  <2>2. daemon' = "await" /\ Pending(token)' => daemon = "await" /\ Pending(token)
    BY <1>1, <2>1 DEF Pending
  <2> QED BY <1>1, <1>2, <1>3, <2>2, DebtIsNumber, ShrinkingKeeps
<1>4. CASE left' # left
  <2>1. /\ s = Client /\ post[<<Client, t>>] = "add" /\ faults' = faults
        /\ left' = IF left = -1 THEN Allotment ELSE left + Allotment
        /\ post' = [post EXCEPT ![<<Client, t>>] = "granted"]
    BY <1>4 DEF Handles, Validate, Grant, Files
  <2>2. Rest(left') = Rest(left) + Allotment /\ Rest(left') \in Nat
    BY <2>1, TimesAreNumbers DEF TopUpInv, TypeOK, Rest
  <2>3. Pending(t) /\ ~Pending(t)'
    <3>1. post'[<<Client, t>>] = "granted"
      BY <2>1 DEF TopUpInv, TypeOK
    <3> QED BY <2>1, <3>1 DEF Pending
  <2>4. \A y \in All \ {t} : Pending(y)' = Pending(y)
    <3> TAKE y \in All \ {t}
    <3>1. <<Client, y>> # <<Client, t>> /\ <<Client, y>> \in Sender \X All
      BY <2>1
    <3>2. post'[<<Client, y>>] = post[<<Client, y>>]
      BY <2>1, <3>1 DEF TopUpInv, TypeOK
    <3> QED BY <3>2 DEF Pending
  <2>5. Late' = Late \ {t}
    BY <1>1, <2>3, <2>4 DEF Late, Awaited
  <2>6. Debt' = Rest(left') + Worth(Cardinality(Late')) /\ Worth(faults)' = Worth(faults)
    BY <2>1 DEF Debt, Rest, Worth
  <2>7. CASE t \in Late
    <3>1. IsFiniteSet(Late') /\ Cardinality(Late') = Cardinality(Late) - 1
      BY <2>5, <2>7, FS_RemoveElement DEF TopUpInv, PayInv
    <3>2. Cardinality(Late') \in Nat
      BY <3>1, FS_CardinalityType
    <3>3. Worth(Cardinality(Late)) = Worth(Cardinality(Late')) + Allotment
      <4>1. Cardinality(Late) = Cardinality(Late') + 1
        BY <3>1, DebtIsNumber
      <4> QED BY <3>2, <4>1, WorthGrows
    <3>4. Debt' = Debt
      BY <2>2, <2>6, <3>2, <3>3, WorthGrows, DebtIsNumber DEF Debt
    <3>5. Cardinality(Late') <= faults
      BY <3>1, DebtIsNumber DEF TopUpInv, PayInv
    <3>6. daemon = "await" /\ Pending(token)' => Pending(token)
      BY <1>1 DEF TopUpInv, HoldsToken, All, Pending
    <3>7. Rest(seen)' = Rest(seen)
      BY <1>1 DEF Rest
    <3> QED BY <1>1, <2>1, <2>6, <3>1, <3>4, <3>5, <3>6, <3>7 DEF TopUpInv, PayInv
  <2>8. CASE t \notin Late
    <3>1. daemon = "await" /\ token = t
      BY <2>3, <2>8 DEF Late, Awaited
    <3>2. Late' = Late
      BY <2>5, <2>8
    <3>3. Debt \in Nat /\ Debt <= RenewBelow + Worth(faults)
      BY <2>3, <3>1, DebtIsNumber DEF TopUpInv, PayInv, Debt
    <3>4. Debt' = Debt + Allotment
      BY <2>2, <2>6, <3>2, DebtIsNumber DEF Debt
    <3>5. Debt' <= RenewBelow + Worth(faults)' + Allotment
      BY <2>6, <3>3, <3>4, DebtIsNumber
    <3>6. daemon' = "await" /\ ~Pending(token)'
      BY <1>1, <2>3, <3>1 DEF Pending
    <3> QED BY <2>1, <3>2, <3>5, <3>6 DEF TopUpInv, PayInv
  <2> QED BY <2>7, <2>8
<1> QED BY <1>3, <1>4

\* Time only shortens a session, and a recovery sends no payment of the daemon's.
LEMMA OthersPay ==
  ASSUME TopUpInv, Tick \/ (\E r \in Recovery : Recovers(r)) \/ UNCHANGED vars
  PROVE  PayInv'
<1>1. faults' = faults \/ faults' = faults + 1
  BY FaultsStay DEF TopUpInv, Next
<1>2. UNCHANGED <<daemon, token, seen>> /\ \A t \in All : post'[<<Client, t>>] = post[<<Client, t>>]
  <2>1. CASE Tick \/ UNCHANGED vars
    BY <2>1 DEF Tick, gateway, vars, payer
  <2>2. ASSUME NEW r \in Recovery, Recovers(r)
        PROVE  /\ UNCHANGED <<daemon, token, seen>>
               /\ \A t \in All : post'[<<Client, t>>] = post[<<Client, t>>]
    <3>1. UNCHANGED <<daemon, token, seen>>
      BY <2>2 DEF Recovers, Starts, Checks, Submits, Submitted, payer
    <3>2. ASSUME NEW t \in All PROVE post'[<<Client, t>>] = post[<<Client, t>>]
      <4>1. post' = post \/ post' = [post EXCEPT ![<<r, run[r].token>>] = "test"]
        BY <2>2 DEF Recovers, Starts, Checks, Submits, Submitted, gateway, Arrives
      <4>2. <<r, run[r].token>> # <<Client, t>> /\ <<Client, t>> \in Sender \X All
        BY NamesDiffer DEF Sender
      <4> QED BY <4>1, <4>2 DEF TopUpInv, TypeOK
    <3> QED BY <3>1, <3>2
  <2> QED BY <2>1, <2>2
<1>3. Rest(left') \in Nat /\ Rest(left') <= Rest(left)
  <2>1. left' \in Int /\ left' >= -1 /\ left' <= left
    <3>1. CASE Tick
      BY <3>1, TickTyped DEF TopUpInv
    <3>2. CASE ~Tick
      <4>1. left' = left
        BY <3>2 DEF Recovers, Starts, Checks, Submits, Submitted, vars
      <4> QED BY <4>1 DEF TopUpInv, TypeOK
    <3> QED BY <3>1, <3>2
  <2> QED BY <2>1 DEF Rest, TopUpInv, TypeOK
<1>4. Late' \subseteq Late
  BY <1>2 DEF Late, Pending, Awaited
<1>5. daemon' = "await" /\ Pending(token)' => daemon = "await" /\ Pending(token)
  BY <1>2 DEF Pending, TopUpInv, HoldsToken, All
<1> QED BY <1>1, <1>2, <1>3, <1>4, <1>5, ShrinkingKeeps

\* At the start nothing is pending, and the session is no longer than one top-up.
LEMMA PayStart ==
  ASSUME Init
  PROVE  PayInv
<1>1. Late = {} /\ faults = 0 /\ daemon = "poll" /\ left \in {-1, Allotment}
  BY DEF Init, Late, Pending, Sender
<1>2. IsFiniteSet(Late) /\ Cardinality(Late) = 0
  BY <1>1, FS_EmptySet
<1>3. Debt <= RenewBelow + Worth(faults) + Allotment
  <2>1. Worth(faults) = 0 /\ Worth(Cardinality(Late)) = 0
    BY <1>1, <1>2, WorthGrows
  <2>2. Rest(left) \in Nat /\ Rest(left) <= Allotment
    BY <1>1, TimesAreNumbers DEF Rest
  <2> QED BY <2>1, <2>2, TimesAreNumbers DEF Debt
<1> QED BY <1>1, <1>2, <1>3 DEF PayInv

\* The daemon never holds more than the renewal it needs and one top-up for each
\* fault: a payment it gave up may be granted after all, and no other is bought twice.
THEOREM NothingBoughtTwice == Spec => []OneTopUpPerFault
<1>1. Init => TopUpInv
  BY TypedStart, PayStart DEF TopUpInv
<1>2. TopUpInv /\ [Next]_vars => TopUpInv'
  <2> SUFFICES ASSUME TopUpInv, [Next]_vars PROVE TopUpInv'
    OBVIOUS
  <2>1. PayInv'
    BY GivingUpPays, DaemonPays, HandlesPay, OthersPay DEF Next
  <2> QED BY <2>1, TypedStep DEF TopUpInv
<1>3. TopUpInv => OneTopUpPerFault
  <2> SUFFICES ASSUME TopUpInv PROVE left <= RenewBelow + (1 + faults) * Allotment
    BY DEF OneTopUpPerFault
  <2>1. left \in Int /\ left <= Rest(left)
    BY DEF TopUpInv, TypeOK, Rest
  <2>2. left <= RenewBelow + Worth(faults) + Allotment
    BY <2>1, DebtIsNumber DEF TopUpInv, PayInv, Debt
  <2>3. Worth(faults) + Allotment = (1 + faults) * Allotment
    <3>1. Worth(faults + 1) = Worth(faults) + Allotment
      BY WorthGrows, DebtIsNumber
    <3>2. faults + 1 = 1 + faults
      BY DebtIsNumber
    <3> QED BY <3>1, <3>2 DEF Worth
  <2> DEFINE product == (1 + faults) * Allotment
  <2>4. left <= RenewBelow + product
    <3>1. Worth(faults) + Allotment = product
      BY <2>3
    <3> HIDE DEF product
    <3> QED BY <2>1, <2>2, <3>1, DebtIsNumber
  <2> QED BY <2>4
<1> QED BY <1>1, <1>2, <1>3, PTL DEF Spec
-----------------------------------------------------------------------------
\* Induction on numbers, for a set of them.
LEMMA EveryNumber ==
  ASSUME NEW S, 0 \in S, \A n \in Nat : n \in S => n + 1 \in S
  PROVE  Nat \subseteq S
<1> SUFFICES ASSUME NEW some \in Nat \ S PROVE FALSE
  OBVIOUS
<1> DEFINE Below(n) == 0 .. n
           Sets == {Below(n) : n \in Nat \ S}
<1>1. Sets \subseteq FiniteSubsetsOf(Nat) /\ Sets # {}
  <2>1. \A n \in Nat : IsFiniteSet(Below(n)) /\ Below(n) \in SUBSET Nat
    BY FS_Interval
  <2> QED BY <2>1 DEF FiniteSubsetsOf
<1>2. PICK least \in Sets : \A set \in Sets : <<set, least>> \notin StrictSubsetOrdering(Nat)
  <2>1. IsWellFoundedOn(StrictSubsetOrdering(Nat), FiniteSubsetsOf(Nat))
    BY FS_StrictSubsetOrderingWellFounded
  <2> HIDE DEF Sets
  <2> QED BY <1>1, <2>1, WFMin
<1>3. PICK n \in Nat \ S : least = Below(n)
  OBVIOUS
<1>4. n # 0 /\ n - 1 \in Nat \ S
  OBVIOUS
<1>5. Below(n - 1) \subseteq Below(n) /\ n \in Below(n) /\ n \notin Below(n - 1)
  BY <1>4
<1>6. <<Below(n - 1), least>> \in StrictSubsetOrdering(Nat)
  <2>1. Below(n - 1) \in SUBSET Nat /\ Below(n) \in SUBSET Nat /\ Below(n - 1) # Below(n)
    BY <1>4, <1>5
  <2> HIDE DEF Below
  <2> QED BY <1>3, <1>5, <2>1 DEF StrictSubsetOrdering
<1>7. Below(n - 1) \in Sets
  BY <1>4
<1> QED BY <1>2, <1>6, <1>7

\* The first n + 1 values that Pause should have.
Chain(n) == {f \in [0 .. n -> Nat] : f[0] = Throttle /\ \A k \in 1 .. n : f[k] = 2 * f[k - 1]}

\* Each failure's pause follows from the one before, as far as one likes.
LEMMA ChainsExist ==
  ASSUME NEW n \in Nat
  PROVE  Chain(n) # {}
<1> DEFINE S == {m \in Nat : Chain(m) # {}}
<1>1. 0 \in S
  <2>1. [k \in 0 .. 0 |-> Throttle] \in Chain(0)
    BY TimesAreNumbers DEF Chain
  <2> QED BY <2>1
<1>2. ASSUME NEW m \in Nat, Chain(m) # {} PROVE Chain(m + 1) # {}
  <2>1. PICK f \in Chain(m) : TRUE
    BY <1>2
  <2> DEFINE g == [k \in 0 .. m + 1 |-> IF k = m + 1 THEN 2 * f[m] ELSE f[k]]
  <2>2. f \in [0 .. m -> Nat] /\ f[0] = Throttle /\ \A k \in 1 .. m : f[k] = 2 * f[k - 1]
    BY <2>1 DEF Chain
  <2>3. g \in [0 .. m + 1 -> Nat]
    <3>1. \A k \in 0 .. m + 1 : k = m + 1 \/ k \in 0 .. m
      OBVIOUS
    <3>2. 2 * f[m] \in Nat /\ \A k \in 0 .. m : f[k] \in Nat
      BY <2>2
    <3> QED BY <3>1, <3>2
  <2>4. g[0] = Throttle
    BY <2>2
  <2>5. ASSUME NEW k \in 1 .. m + 1 PROVE g[k] = 2 * g[k - 1]
    <3>1. g[k - 1] = f[k - 1]
      OBVIOUS
    <3>2. CASE k = m + 1
      BY <3>1, <3>2
    <3>3. CASE k # m + 1
      BY <2>2, <3>1, <3>3
    <3> QED BY <3>2, <3>3
  <2> QED BY <2>3, <2>4, <2>5 DEF Chain
<1>3. Nat \subseteq S
  <2>1. \A m \in Nat : m \in S => m + 1 \in S
    BY <1>2
  <2> HIDE DEF S
  <2> QED BY <1>1, <2>1, EveryNumber
<1> QED BY <1>3

\* A longer chain begins like a shorter one.
LEMMA ChainsAgree ==
  ASSUME NEW n \in Nat, NEW f \in Chain(n), NEW g \in Chain(n + 1)
  PROVE  f[n] = g[n]
<1> DEFINE S == {k \in Nat : k <= n => f[k] = g[k]}
<1>1. 0 \in S
  BY DEF Chain
<1>2. ASSUME NEW k \in Nat, k \in S PROVE k + 1 \in S
  BY <1>2 DEF Chain
<1>3. Nat \subseteq S
  <2>1. \A k \in Nat : k \in S => k + 1 \in S
    BY <1>2
  <2> HIDE DEF S
  <2> QED BY <1>1, <2>1, EveryNumber
<1> QED BY <1>3

\* Pause is what its definition says: there is such a function, and it doubles.
LEMMA PauseDoubles ==
  /\ Pause \in [Nat -> Nat] /\ Pause[0] = Throttle
  /\ \A k \in Nat : Pause[k + 1] = 2 * Pause[k]
<1> DEFINE Rule(p) == [k \in Nat |-> IF k = 0 THEN Throttle ELSE 2 * p[k - 1]]
           chain(n) == CHOOSE f \in Chain(n) : TRUE
           limit == [n \in Nat |-> chain(n)[n]]
<1>1. \A n \in Nat : chain(n) \in Chain(n)
  BY ChainsExist
<1> HIDE DEF chain
<1>2. limit \in [Nat -> Nat] /\ limit[0] = Throttle
  <2>1. \A n \in Nat : n \in 0 .. n
    OBVIOUS
  <2> QED BY <1>1, <2>1 DEF Chain
<1>3. ASSUME NEW n \in Nat PROVE limit[n + 1] = 2 * limit[n]
  <2>1. chain(n) \in Chain(n) /\ chain(n + 1) \in Chain(n + 1)
    BY <1>1
  <2>2. chain(n)[n] = chain(n + 1)[n]
    BY <2>1, ChainsAgree
  <2>3. chain(n + 1)[n + 1] = 2 * chain(n + 1)[n]
    <3>1. n + 1 \in 1 .. n + 1 /\ (n + 1) - 1 = n
      OBVIOUS
    <3> QED BY <2>1, <3>1 DEF Chain
  <2> QED BY <2>2, <2>3
<1>4. limit = Rule(limit)
  <2>1. ASSUME NEW k \in Nat PROVE limit[k] = Rule(limit)[k]
    <3> HIDE DEF limit
    <3>1. CASE k = 0
      BY <1>2, <3>1
    <3>2. CASE k # 0
      <4>1. k - 1 \in Nat /\ (k - 1) + 1 = k
        BY <3>2
      <4> QED BY <1>3, <3>2, <4>1
    <3> QED BY <3>1, <3>2
  <2> DEFINE same == Rule(limit)
  <2>2. limit = [k \in Nat |-> limit[k]] /\ same = [k \in Nat |-> same[k]]
    OBVIOUS
  <2>3. \A k \in Nat : limit[k] = same[k]
    BY <2>1
  <2> HIDE DEF limit, same
  <2>4. limit = same
    BY <2>2, <2>3
  <2> QED BY <2>4 DEF same
<1>5. Pause = Rule(Pause)
  <2> HIDE DEF limit
  <2>1. \E p : p = [k \in Nat |-> IF k = 0 THEN Throttle ELSE 2 * p[k - 1]]
    BY <1>4
  <2> QED BY <2>1 DEF Pause
<1>6. Pause[0] = Throttle /\ \A k \in Nat : Pause[k + 1] = 2 * Pause[k]
  <2>1. ASSUME NEW k \in Nat PROVE Pause[k + 1] = 2 * Pause[k]
    <3>1. k + 1 \in Nat /\ k + 1 # 0 /\ (k + 1) - 1 = k
      OBVIOUS
    <3> QED BY <1>5, <3>1
  <2> QED BY <1>5, <2>1
<1>7. \A k \in Nat : Pause[k] \in Nat
  <2> DEFINE S == {k \in Nat : Pause[k] \in Nat}
  <2>1. 0 \in S /\ \A k \in Nat : k \in S => k + 1 \in S
    BY <1>6, TimesAreNumbers
  <2> HIDE DEF S
  <2>2. Nat \subseteq S
    BY <2>1, EveryNumber
  <2> QED BY <2>2 DEF S
<1> QED BY <1>5, <1>6, <1>7
-----------------------------------------------------------------------------
\* The daemon waited its backoff before it asks the wallet, and each failure in
\* a row has doubled that backoff.
PaceInv ==
  /\ since <= quiet
  /\ daemon = "wallet" => backoff <= quiet
  /\ Least(Pause[fails], BackoffMax) <= backoff

\* A failed payment doubles what the next has to wait for.
LEMMA FailurePaces ==
  ASSUME TypeOK, PaceInv, Failed
  PROVE  PaceInv'
<1> USE TimesAreNumbers DEF TypeOK, Failed
<1>1. since' <= quiet' /\ daemon' # "wallet"
  OBVIOUS
<1>2. Pause[fails] \in Nat /\ Pause[fails'] = 2 * Pause[fails]
  BY PauseDoubles
<1>3. Least(Pause[fails'], BackoffMax) <= backoff'
  BY <1>2 DEF PaceInv, Least
<1> QED BY <1>1, <1>3 DEF PaceInv

\* Every step keeps the pace: the clock that the daemon reads is never ahead.
LEMMA PaceStep ==
  ASSUME TypeOK, PaceInv, [Next]_vars
  PROVE  PaceInv'
<1> USE TimesAreNumbers DEF TypeOK
<1>1. CASE WithdrawFails \/ SendIsLost \/ Rejected \/ TimesOut
  BY <1>1, FailurePaces DEF WithdrawFails, SendIsLost, Rejected, TimesOut
<1>2. CASE WalletIsEmpty
  <2>1. since' <= quiet' /\ daemon' # "wallet" /\ fails' = fails
    BY <1>2 DEF WalletIsEmpty
  <2>2. backoff <= backoff' /\ backoff' \in Nat
    BY <1>2 DEF WalletIsEmpty, Least
  <2>3. Least(Pause[fails], BackoffMax) \in Nat
    BY PauseDoubles DEF Least
  <2> HIDE DEF TypeOK
  <2> QED BY <2>1, <2>2, <2>3 DEF PaceInv, TypeOK
<1>3. CASE Decide
  <2>1. UNCHANGED <<quiet, backoff, fails>> /\ (since' = since \/ since' = 0)
        /\ (daemon' = "wallet" => backoff <= since)
    BY <1>3 DEF Decide
  <2> QED BY <2>1 DEF PaceInv
<1>4. CASE Paid
  BY <1>4, PauseDoubles DEF Paid, PaceInv, Least
<1>5. CASE Tick
  BY <1>5 DEF Tick, PaceInv, Least
<1>6. CASE Poll \/ Withdraws \/ Sends
  <2>1. UNCHANGED <<since, quiet, backoff, fails>> /\ daemon' # "wallet"
    BY <1>6 DEF Poll, Withdraws, Sends
  <2> QED BY <2>1 DEF PaceInv
<1>7. ASSUME UNCHANGED payer PROVE PaceInv'
  BY <1>7 DEF payer, PaceInv
<1>8. ASSUME NEW s \in Sender, NEW t \in All, Handles(s, t) PROVE UNCHANGED payer
  BY <1>8 DEF Handles, Validate, Grant, Files
<1>9. ASSUME NEW r \in Recovery, Recovers(r) PROVE UNCHANGED payer
  BY <1>9 DEF Recovers, Starts, Checks, Submits, Submitted
<1> QED BY <1>1, <1>2, <1>3, <1>4, <1>5, <1>6, <1>7, <1>8, <1>9 DEF Next, Daemon, vars

\* The daemon asks its wallet for a token only after the pause its failures call for.
THEOREM FailuresSlowTheDaemon == Spec => PacedByFailures
<1>1. Init => TypeOK /\ HoldsToken /\ PaceInv
  BY TypedStart, TimesAreNumbers, PauseDoubles DEF Init, PaceInv, Least
<1>2. TypeOK /\ HoldsToken /\ PaceInv /\ [Next]_vars => TypeOK' /\ HoldsToken' /\ PaceInv'
  BY TypedStep, PaceStep
<1>3. TypeOK /\ PaceInv /\ [Next]_vars =>
        [(fails > 0 /\ wallet' # wallet) => quiet >= Least(Pause[fails], BackoffMax)]_vars
  <2> SUFFICES ASSUME TypeOK, PaceInv, Next, wallet' # wallet
               PROVE  quiet >= Least(Pause[fails], BackoffMax)
    BY DEF vars, payer
  <2>1. daemon = "wallet"
    <3>1. Daemon => daemon = "wallet"
      BY DEF Daemon, Poll, Decide, Withdraws, WithdrawFails, WalletIsEmpty, Sends, SendIsLost, Paid,
         Rejected, TimesOut, Failed
    <3>2. ~Tick /\ ~(\E s \in Sender, t \in All : Handles(s, t))
      BY DEF Tick, Handles, Validate, Grant, Files, payer
    <3>3. ~(\E r \in Recovery : Recovers(r))
      BY DEF Recovers, Starts, Checks, Submits, Submitted, payer
    <3> QED BY <3>1, <3>2, <3>3 DEF Next
  <2> QED BY <2>1, TimesAreNumbers, PauseDoubles DEF PaceInv, TypeOK, Least
<1> QED BY <1>1, <1>2, <1>3, PTL DEF Spec, PacedByFailures
================================================================================
