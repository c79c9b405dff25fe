------------------------------ MODULE FaultProxy ------------------------------
(***************************************************************************)
(* tests/conformance/faultproxy.py: the proxy between a TollGate backend   *)
(* and its mint (here the mock mint).  Every request has a thread of its   *)
(* own: it logs the request, records the blinded messages it carries, asks *)
(* the rules for a fault and forwards it or not.  Only the single calls    *)
(* are under the lock.  A lane replaces or clears the rules meanwhile.     *)
(*                                                                         *)
(* The backend is external: it sends requests, some with blinded messages  *)
(* it has sent before.                                                     *)
(***************************************************************************)
EXTENDS MockMint, FiniteSets

CONSTANTS
  Blinded,   \* the blinded message of each request's output
  RuleSets,  \* sequences of rules a lane may install
  MaxControl \* bound: control requests

Actions == {"pass", "delay", "notify", "reset", "drop", "status", "drop_response"}

Rule == [action    : Actions,
         remaining : Nat \cup {-1},  \* -1: no limit
         certain   : BOOLEAN]        \* probability 1.0?

ASSUME RulesAreRules == \A rs \in RuleSets : \A i \in DOMAIN rs : rs[i] \in Rule
ASSUME RequestsAreFinite == IsFiniteSet(Request)
ASSUME MaxControlIsNumber == MaxControl \in Nat

VARIABLES
  rules,     \* the installed rules, with their remaining counts
  sightings, \* blinded_sightings: requests that carried each message
  proxy,     \* the proxy's thread of each request
  rule,      \* the fault chosen for it
  outcome,   \* what the backend gets: "none", "answer", "fault", "closed"
  control    \* control requests so far

proxyVars == <<rules, sightings, proxy, rule, outcome, control>>
vars == <<mintVars, proxyVars>>

Messages == {Blinded[r] : r \in Request}

Init ==
  /\ MintInit
  /\ rules = <<>>
  /\ sightings = [b \in Messages |-> {}]
  /\ proxy = [r \in Request |-> "unsent"]
  /\ rule = [r \in Request |-> "pass"]
  /\ outcome = [r \in Request |-> "none"]
  /\ control = 0
-----------------------------------------------------------------------------
Goto(r, l) == proxy' = [proxy EXCEPT ![r] = l] /\ UNCHANGED outcome

Answers(r, o) ==
  /\ proxy' = [proxy EXCEPT ![r] = "ended"]
  /\ outcome' = [outcome EXCEPT ![r] = o]

Sends(r) ==
  /\ proxy[r] = "unsent"
  /\ Goto(r, "observe")
  /\ UNCHANGED <<mintVars, rules, sightings, rule, control>>

\* Mistake: a request is observed when it is known to be forwarded to the end.
ObserveOnce(r) ==
  /\ proxy[r] = "observe"
  /\ sightings' = [sightings EXCEPT ![Blinded[r]] = IF @ = {} THEN {r} ELSE @]
  /\ Goto(r, "choose")
  /\ UNCHANGED <<mintVars, rules, rule, control>>

Observe(r) ==
  /\ proxy[r] = "observe"
  /\ sightings' = [sightings EXCEPT ![Blinded[r]] = @ \cup {r}]
  /\ Goto(r, "choose")
  /\ UNCHANGED <<mintVars, rules, rule, control>>

\* next_action may come to rule i: those before it are exhausted, or matched
\* and did not fire.
Passed(i) == \A j \in 1 .. i - 1 : rules[j].remaining = 0 \/ ~rules[j].certain

\* Rule.consume: the count of a rule goes down whether it fires or not.
UsedUp(i) ==
  [j \in DOMAIN rules |->
     IF j <= i /\ rules[j].remaining > 0
     THEN [rules[j] EXCEPT !.remaining = @ - 1] ELSE rules[j]]

\* next_action: the first rule that matches, is not exhausted and fires.
Choose(r) ==
  /\ proxy[r] = "choose"
  /\ \/ \E i \in DOMAIN rules :
          /\ rules[i].remaining # 0 /\ Passed(i)
          /\ rule' = [rule EXCEPT ![r] = rules[i].action]
          /\ rules' = UsedUp(i)
     \/ /\ Passed(Len(rules) + 1)
        /\ rules' = UsedUp(Len(rules))
        /\ UNCHANGED rule
  /\ Goto(r, "fault")
  /\ UNCHANGED <<mintVars, sightings, control>>

\* The faults on the way to the mint.
Fault(r) ==
  /\ proxy[r] = "fault"
  /\ CASE rule[r] \in {"reset", "drop"} -> Answers(r, "closed") /\ UNCHANGED mintVars
       [] rule[r] = "status"            -> Answers(r, "fault") /\ UNCHANGED mintVars
       [] OTHER -> Goto(r, "upstream") /\ (Arrives(r) \/ UNCHANGED mintVars)
  /\ UNCHANGED <<rules, sightings, rule, control>>

\* The mint's answer comes back, or is held back from the backend.
Returns(r) ==
  /\ proxy[r] = "upstream" /\ at[r] = "returned"
  /\ Answers(r, IF rule[r] = "drop_response" THEN "closed" ELSE "answer")
  /\ UNCHANGED <<mintVars, rules, sightings, rule, control>>

\* Upstream unreachable, or no answer in time: the backend gets a 502 at once,
\* whatever the rule says and the mint does.
Unreachable(r) ==
  /\ proxy[r] = "upstream"
  /\ Answers(r, "fault")
  /\ UNCHANGED <<mintVars, rules, sightings, rule, control>>

\* POST /__fault/control.
SetRules ==
  /\ control < MaxControl
  /\ control' = control + 1
  /\ rules' \in RuleSets \cup {<<>>}
  /\ UNCHANGED <<mintVars, sightings, proxy, rule, outcome>>

InjectsSwapErrors ==
  /\ errors <= 0
  /\ SetSwapError(MaxErrors)
  /\ UNCHANGED proxyVars

Serves(r) == Observe(r) \/ Choose(r) \/ Fault(r) \/ Returns(r) \/ Unreachable(r)

MintServes(r) == Handler(r) /\ UNCHANGED proxyVars

Next ==
  \/ \E r \in Request : Sends(r) \/ Serves(r) \/ MintServes(r)
  \/ SetRules \/ InjectsSwapErrors

Spec == Init /\ [][Next]_vars
-----------------------------------------------------------------------------
TypeOK ==
  /\ MintTypeOK
  /\ \A i \in DOMAIN rules : rules[i] \in Rule
  /\ sightings \in [Messages -> SUBSET Request]
  /\ proxy \in [Request -> {"unsent", "observe", "choose", "fault", "upstream", "ended"}]
  /\ rule \in [Request -> Actions]
  /\ outcome \in [Request -> {"none", "answer", "fault", "closed"}]
  /\ control \in 0 .. MaxControl

\* What `reused` reports.
Reused(b) == Cardinality(sightings[b]) > 1

Reached(b) == {r \in Request : Blinded[r] = b /\ at[r] # "away"}

\* No blinded message reaches the mint a second time without the proxy
\* reporting it, in whatever order the threads run and faults strike.
ReuseIsReported == \A b \in Messages : Cardinality(Reached(b)) > 1 => Reused(b)

\* "each blinded message must reach the mint at most once": what is reported
\* as reused did reach the mint more than once.
ReportedReachedTwice == \A b \in Messages : Reused(b) => Cardinality(Reached(b)) > 1
=============================================================================
