---------------------------- MODULE FaultProxyProofs ----------------------------
(***************************************************************************)
(* Theorems about the mock mint behind the fault proxy, for every set of   *)
(* requests, whatever secrets and blinded messages they share, and every   *)
(* list of rules.                                                          *)
(*                                                                         *)
(* The mint has no lock, so a swap's test of an input says little about    *)
(* the next step.  What survives is what only grows: the secrets spent and *)
(* the points recorded.  MintInv says of every swap that the inputs it has *)
(* passed are among both, and were redeemed by nobody when it came.        *)
(***************************************************************************)
EXTENDS FaultProxy, FiniteSetTheorems, TLAPS

\* The input i of swap r is recorded, and was not redeemed before it.
Kept(r, i) ==
  Inputs[r][i] \in spent /\ Inputs[r][i] \in ys /\ Inputs[r][i] \notin before[r]

SwapInv(r) ==
  /\ before[r] \subseteq spent
  /\ \A i \in DOMAIN Inputs[r] : i < next[r] => Kept(r, i)
  /\ at[r] \in {"mark", "mark_y"} =>
       next[r] \in DOMAIN Inputs[r] /\ Secret(r) \notin before[r]
  /\ at[r] = "mark_y" => Secret(r) \in spent
  /\ answer[r] = "signed" => \A i \in DOMAIN Inputs[r] : Kept(r, i)
  /\ at[r] = "away" => next[r] = 1 /\ answer[r] = "none"

MintInv == MintTypeOK /\ \A r \in Request : SwapInv(r)

\* A swap that did not move keeps its invariant: the store only grows.
LEMMA StoreGrows ==
  ASSUME NEW r \in Request, SwapInv(r),
         spent \subseteq spent', ys \subseteq ys',
         at'[r] = at[r], next'[r] = next[r], answer'[r] = answer[r],
         before'[r] = before[r]
  PROVE  SwapInv(r)'
<1>1. \A i \in DOMAIN Inputs[r] : Kept(r, i) => Kept(r, i)'
  BY DEF Kept
<1>2. Secret(r)' = Secret(r)
  BY DEF Secret
<1> QED BY <1>1, <1>2 DEF SwapInv

\* What is redeemed is spent.
LEMMA RedeemedIsSpent ==
  ASSUME MintInv
  PROVE  Redeemed \subseteq spent /\ Redeemed \subseteq Secrets
<1>1. \A q \in Request : answer[q] = "signed" => SecretsOf(q) \subseteq spent
  BY DEF MintInv, SwapInv, Kept, SecretsOf
<1> QED BY <1>1 DEF Redeemed, Secrets

\* The input a swap is at is one of the secrets of the instance.
LEMMA SecretIsSecret ==
  ASSUME NEW r \in Request, next[r] \in DOMAIN Inputs[r]
  PROVE  Secret(r) \in Secrets
BY DEF Secret, Secrets, SecretsOf

\* The other swaps do not move with r.
Others(r) ==
  \A q \in Request \ {r} :
    /\ at'[q] = at[q] /\ next'[q] = next[q]
    /\ answer'[q] = answer[q] /\ before'[q] = before[q]

\* A step of one swap only adds to the mint's store, and moves no other swap.
LEMMA MintGrows ==
  ASSUME MintInv, NEW r \in Request, Handler(r) \/ Arrives(r)
  PROVE  spent \subseteq spent' /\ ys \subseteq ys' /\ Others(r)
BY DEF MintInv, MintTypeOK, Others, Handler, Arrives, TestInjected, CountInjected, TestInput,
       MarkSecret, MarkY, MintGoto, MintReturns, store

\* A step of a swap keeps the types of the mint.
LEMMA MintTypeStep ==
  ASSUME MintInv, NEW r \in Request, Handler(r) \/ Arrives(r)
  PROVE  MintTypeOK'
<1> USE MaxErrorsIsNumber DEF MintInv, MintTypeOK, MintGoto, MintReturns, store
<1>1. CASE Arrives(r)
  <2>1. before' \in [Request -> SUBSET Secrets]
    BY <1>1, RedeemedIsSpent DEF Arrives
  <2> QED BY <1>1, <2>1 DEF Arrives
<1>2. CASE TestInjected(r)
  BY <1>2 DEF TestInjected
<1>3. CASE CountInjected(r)
  <2>1. errors' \in Int /\ errors' <= MaxErrors
    BY <1>3 DEF CountInjected
  <2> QED BY <1>3, <2>1 DEF CountInjected
<1>4. CASE TestInput(r)
  BY <1>4 DEF TestInput
<1>5. CASE MarkSecret(r)
  BY <1>5, SecretIsSecret DEF MarkSecret, SwapInv
<1>6. CASE MarkY(r)
  <2>1. next' \in [Request -> Nat \ {0}]
    BY <1>6 DEF MarkY
  <2> QED BY <1>6, <2>1, SecretIsSecret DEF MarkY, SwapInv
<1> QED
  BY <1>1, <1>2, <1>3, <1>4, <1>5, <1>6 DEF Handler

\* The step of a swap keeps that swap's invariant.
LEMMA SwapStep ==
  ASSUME MintInv, NEW r \in Request, Handler(r) \/ Arrives(r)
  PROVE  SwapInv(r)'
<1> USE DEF MintInv, MintTypeOK, MintGoto, MintReturns, store
<1>0. SwapInv(r) /\ next[r] \in Nat \ {0}
  OBVIOUS
<1>1. CASE Arrives(r)
  <2>1. /\ at'[r] = "inject" /\ next'[r] = 1 /\ answer'[r] = "none"
        /\ before'[r] = Redeemed /\ spent' = spent
    BY <1>0, <1>1 DEF Arrives, SwapInv
  <2>2. \A i \in DOMAIN Inputs[r] : ~(i < 1)
    BY InputsAreLists
  <2> QED BY <2>1, <2>2, RedeemedIsSpent DEF SwapInv
<1>2. CASE TestInjected(r)
  BY <1>0, <1>2 DEF TestInjected, SwapInv, Kept, Secret
<1>3. CASE CountInjected(r)
  BY <1>0, <1>3 DEF CountInjected, SwapInv, Kept, Secret
<1>4. CASE TestInput(r)
  <2>1. UNCHANGED <<spent, ys, next, before>> /\ at[r] = "test"
    BY <1>4 DEF TestInput
  <2>2. CASE next[r] > Len(Inputs[r])
    <3>1. at'[r] = "returned"
      BY <1>4, <2>2 DEF TestInput
    <3>2. \A i \in DOMAIN Inputs[r] : Kept(r, i)
      BY <1>0, <2>2, InputsAreLists DEF SwapInv
    <3> QED BY <1>0, <2>1, <3>1, <3>2 DEF SwapInv, Kept, Secret
  <2>3. CASE next[r] <= Len(Inputs[r]) /\ Secret(r) \in spent
    <3>1. at'[r] = "returned" /\ answer'[r] = "spent"
      BY <1>4, <2>3, InputsAreLists DEF TestInput
    <3> QED BY <1>0, <2>1, <3>1 DEF SwapInv, Kept, Secret
  <2>4. CASE next[r] <= Len(Inputs[r]) /\ Secret(r) \notin spent
    <3>1. at'[r] = "mark" /\ answer' = answer
      BY <1>4, <2>4, InputsAreLists DEF TestInput
    <3>2. next[r] \in DOMAIN Inputs[r]
      BY <1>0, <2>4, InputsAreLists
    <3>3. Secret(r) \notin before[r]
      BY <1>0, <2>4 DEF SwapInv
    <3> QED BY <1>0, <2>1, <3>1, <3>2, <3>3 DEF SwapInv, Kept, Secret
  <2> QED BY <1>0, <2>2, <2>3, <2>4, InputsAreLists
<1>5. CASE MarkSecret(r)
  <2>1. /\ spent' = spent \cup {Secret(r)} /\ at[r] = "mark" /\ at'[r] = "mark_y"
        /\ UNCHANGED <<ys, next, before, answer>>
    BY <1>5 DEF MarkSecret
  <2> QED BY <1>0, <2>1 DEF SwapInv, Kept, Secret
<1>6. CASE MarkY(r)
  <2>1. /\ ys' = ys \cup {Secret(r)} /\ at[r] = "mark_y" /\ at'[r] = "test"
        /\ next'[r] = next[r] + 1
        /\ UNCHANGED <<spent, before, answer>>
    BY <1>6 DEF MarkY
  <2>2. \A i \in DOMAIN Inputs[r] : Kept(r, i) => Kept(r, i)'
    BY <2>1 DEF Kept
  <2>3. \A i \in DOMAIN Inputs[r] : i = next[r] => Kept(r, i)'
    BY <1>0, <2>1 DEF SwapInv, Kept, Secret
  <2>4. \A i \in DOMAIN Inputs[r] : i < next'[r] => i < next[r] \/ i = next[r]
    BY <1>0, <2>1, InputsAreLists
  <2>5. \A i \in DOMAIN Inputs[r] : i < next'[r] => Kept(r, i)'
    BY <1>0, <2>2, <2>3, <2>4 DEF SwapInv
  <2> QED BY <1>0, <2>1, <2>2, <2>5 DEF SwapInv
<1> QED
  BY <1>1, <1>2, <1>3, <1>4, <1>5, <1>6 DEF Handler

\* A step of a swap keeps the invariant of every swap.
LEMMA MintStep ==
  ASSUME MintInv, NEW r \in Request, Handler(r) \/ Arrives(r)
  PROVE  MintInv'
<1>1. \A q \in Request \ {r} : SwapInv(q)'
  BY MintGrows, StoreGrows DEF MintInv, Others
<1> QED BY <1>1, MintTypeStep, SwapStep DEF MintInv

\* Steps of the proxy alone, and injected errors, leave every swap as it is.
LEMMA MintStands ==
  ASSUME MintInv, UNCHANGED <<spent, ys, handlers>>,
         errors' \in {errors, MaxErrors}
  PROVE  MintInv'
<1>1. \A q \in Request : SwapInv(q)'
  BY StoreGrows DEF MintInv, handlers
<1>2. MintTypeOK'
  BY MaxErrorsIsNumber DEF MintInv, MintTypeOK, handlers
<1> QED BY <1>1, <1>2 DEF MintInv

-----------------------------------------------------------------------------
(***************************************************************************)
(* The proxy.                                                              *)
(***************************************************************************)
ProxyTypeOK ==
  /\ \A i \in DOMAIN rules : rules[i] \in Rule
  /\ sightings \in [Messages -> SUBSET Request]
  /\ proxy \in [Request -> {"unsent", "observe", "choose", "fault", "upstream", "ended"}]
  /\ rule \in [Request -> Actions]
  /\ outcome \in [Request -> {"none", "answer", "fault", "closed"}]
  /\ control \in 0 .. MaxControl

\* A request is observed before anything else is done about it.
ObservedInv ==
  \A r \in Request :
    (proxy[r] \in {"choose", "fault", "upstream"} \/ at[r] # "away")
      => r \in sightings[Blinded[r]]

ProxyInv == MintInv /\ ProxyTypeOK /\ ObservedInv

\* At the start no request was sent, no rule is set and no input is recorded.
LEMMA ProxyStart ==
  ASSUME Init
  PROVE  ProxyInv
<1>1. MintTypeOK
  <2>1. errors \in Int /\ errors <= MaxErrors
    BY MaxErrorsIsNumber DEF Init, MintInit
  <2> QED BY <2>1 DEF Init, MintInit, MintTypeOK
<1>2. \A r \in Request : SwapInv(r)
  <2> TAKE r \in Request
  <2>1. /\ next[r] = 1 /\ at[r] = "away" /\ answer[r] = "none" /\ before[r] = {}
    BY DEF Init, MintInit
  <2>2. \A i \in DOMAIN Inputs[r] : ~(i < 1)
    BY InputsAreLists
  <2> QED BY <2>1, <2>2 DEF SwapInv
<1>3. ProxyTypeOK
  BY MaxControlIsNumber DEF Init, ProxyTypeOK, Rule, Actions
<1>4. ObservedInv
  BY DEF Init, MintInit, ObservedInv
<1> QED BY <1>1, <1>2, <1>3, <1>4 DEF ProxyInv, MintInv

\* A rule that is used keeps its form.
LEMMA UsedRuleIsRule ==
  ASSUME NEW x \in Rule
  PROVE  x.remaining > 0 => [x EXCEPT !.remaining = @ - 1] \in Rule
BY DEF Rule

\* So does the whole list of rules when one of them is used.
LEMMA UsedUpIsRules ==
  ASSUME \A j \in DOMAIN rules : rules[j] \in Rule, NEW i
  PROVE  \A j \in DOMAIN UsedUp(i) : UsedUp(i)[j] \in Rule
BY UsedRuleIsRule DEF UsedUp

\* Every step of clients, proxy, tests and mint keeps the invariant of both.
LEMMA ProxyStep ==
  ASSUME ProxyInv, [Next]_vars
  PROVE  ProxyInv'
<1> USE DEF ProxyInv, ProxyTypeOK, ObservedInv, Goto, Answers
<1>1. ASSUME NEW r \in Request, Sends(r) PROVE ProxyInv'
  <2>1. MintInv'
    BY <1>1, MintStands DEF Sends, mintVars, handlers
  <2> QED BY <1>1, <2>1 DEF Sends, mintVars
<1>2. ASSUME NEW r \in Request, Observe(r) PROVE ProxyInv'
  <2>1. MintInv'
    BY <1>2, MintStands DEF Observe, mintVars, handlers
  <2>2. Blinded[r] \in Messages
    BY DEF Messages
  <2>3. /\ sightings' \in [Messages -> SUBSET Request]
        /\ r \in sightings'[Blinded[r]]
        /\ \A b \in Messages : sightings[b] \subseteq sightings'[b]
    BY <1>2, <2>2 DEF Observe
  <2>4. ObservedInv'
    BY <1>2, <2>3 DEF Observe, mintVars, Messages
  <2> QED BY <1>2, <2>1, <2>3, <2>4 DEF Observe
<1>3. ASSUME NEW r \in Request, Choose(r) PROVE ProxyInv'
  <2>1. MintInv'
    BY <1>3, MintStands DEF Choose, mintVars, handlers
  <2>2. /\ \A i \in DOMAIN rules' : rules'[i] \in Rule
        /\ rule' \in [Request -> Actions]
    BY <1>3, UsedUpIsRules DEF Choose, Rule
  <2> QED BY <1>3, <2>1, <2>2 DEF Choose, mintVars
<1>4. ASSUME NEW r \in Request, Fault(r) PROVE ProxyInv'
  <2>1. MintInv'
    <3>1. CASE Arrives(r)
      BY <3>1, MintStep
    <3>2. CASE UNCHANGED mintVars
      BY <3>2, MintStands DEF mintVars, handlers
    <3> QED BY <1>4, <3>1, <3>2 DEF Fault
  <2>2. /\ proxy[r] = "fault" /\ UNCHANGED <<rules, sightings, rule, control>>
        /\ \A q \in Request \ {r} : at'[q] = at[q] /\ proxy'[q] = proxy[q]
    BY <1>4 DEF Fault, Arrives, MintGoto, mintVars, MintInv, MintTypeOK
  <2>3. ObservedInv'
    BY <2>2
  <2>4. ProxyTypeOK'
    BY <1>4, <2>2 DEF Fault
  <2> QED BY <2>1, <2>3, <2>4
<1>5. ASSUME NEW r \in Request, Returns(r) \/ Unreachable(r) PROVE ProxyInv'
  <2>1. MintInv'
    BY <1>5, MintStands DEF Returns, Unreachable, mintVars, handlers
  <2> QED BY <1>5, <2>1 DEF Returns, Unreachable, mintVars
<1>6. ASSUME NEW r \in Request, MintServes(r) PROVE ProxyInv'
  <2>1. MintInv'
    BY <1>6, MintStep DEF MintServes
  <2>2. \A q \in Request : at'[q] # "away" => at[q] # "away"
    BY <1>6 DEF MintServes, Handler, TestInjected, CountInjected, TestInput, MarkSecret,
              MarkY, MintGoto, MintReturns, MintInv, MintTypeOK
  <2> QED BY <1>6, <2>1, <2>2 DEF MintServes, proxyVars
<1>7. CASE SetRules
  <2>1. MintInv'
    BY <1>7, MintStands DEF SetRules, mintVars, handlers
  <2>2. control' \in 0 .. MaxControl
    BY <1>7, MaxControlIsNumber DEF SetRules
  <2>3. \A i \in DOMAIN rules' : rules'[i] \in Rule
    BY <1>7, RulesAreRules DEF SetRules
  <2> QED BY <1>7, <2>1, <2>2, <2>3 DEF SetRules, mintVars
<1>8. CASE InjectsSwapErrors
  <2>1. MintInv'
    BY <1>8, MintStands DEF InjectsSwapErrors, SetSwapError
  <2> QED BY <1>8, <2>1 DEF InjectsSwapErrors, SetSwapError, handlers, proxyVars
<1>9. CASE UNCHANGED vars
  <2>1. MintInv'
    BY <1>9, MintStands DEF vars, mintVars, handlers
  <2> QED BY <1>9, <2>1 DEF vars, mintVars, proxyVars
<1> QED
  BY <1>1, <1>2, <1>3, <1>4, <1>5, <1>6, <1>7, <1>8, <1>9 DEF Next, Serves

\* The mint and the proxy keep their invariant in every behaviour.
LEMMA ProxyInvariant == Spec => []ProxyInv
BY ProxyStart, ProxyStep, PTL DEF Spec

\* The mint and the proxy keep their types.
THEOREM ProxyTypeCorrect == Spec => []TypeOK
<1>1. ProxyInv => TypeOK
  BY DEF ProxyInv, ProxyTypeOK, MintInv, TypeOK
<1> QED BY <1>1, ProxyInvariant, PTL

\* Without a lock, a swap that comes after another was answered redeems none
\* of its inputs again.
THEOREM NoSecretIsRedeemedLater == Spec => []RedeemedStaysSpent
<1>1. ProxyInv => RedeemedStaysSpent
  BY DEF ProxyInv, MintInv, SwapInv, Kept, RedeemedStaysSpent, SecretsOf
<1> QED BY <1>1, ProxyInvariant, PTL

\* What an answered swap redeemed is reported as spent.
THEOREM RedeemedIsReported == Spec => []RedeemedShowsSpent
<1>1. ProxyInv => RedeemedShowsSpent
  BY DEF ProxyInv, MintInv, SwapInv, Kept, RedeemedShowsSpent, SecretsOf
<1> QED BY <1>1, ProxyInvariant, PTL

\* No blinded message reaches the mint twice unreported.
THEOREM NoSilentReuse == Spec => []ReuseIsReported
<1>1. ProxyInv => ReuseIsReported
  <2> SUFFICES ASSUME ProxyInv, NEW b \in Messages, Cardinality(Reached(b)) > 1
               PROVE  Cardinality(sightings[b]) > 1
    BY DEF ReuseIsReported, Reused
  <2>1. Reached(b) \subseteq sightings[b]
    BY DEF ProxyInv, ObservedInv, Reached
  <2>2. IsFiniteSet(sightings[b])
    BY RequestsAreFinite, FS_Subset DEF ProxyInv, ProxyTypeOK
  <2>3. /\ IsFiniteSet(Reached(b))
        /\ Cardinality(Reached(b)) <= Cardinality(sightings[b])
    BY <2>1, <2>2, FS_Subset
  <2>4. Cardinality(Reached(b)) \in Nat /\ Cardinality(sightings[b]) \in Nat
    BY <2>2, <2>3, FS_CardinalityType
  <2> QED BY <2>3, <2>4
<1> QED BY <1>1, ProxyInvariant, PTL
================================================================================
