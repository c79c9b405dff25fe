---------------------------- MODULE MCDeployWindow ----------------------------
(***************************************************************************)
(* The bench router, with two deploys of different builds, with one deploy *)
(* and a session of deploy.py, or with a session alone.                    *)
(***************************************************************************)
EXTENDS CiDeploy, TLC

CONSTANTS d1, d2, s1, a, b, c

MCArtifact == d1 :> a @@ d2 :> b
\* "fix/x" and "fix-x" are two branches, and one file name passes for both.
MCBranch == [x \in Build |-> CASE x = a -> "fix/x" [] x = b -> "main" [] OTHER -> "fix-x"]
MCCarries == [x \in Build |-> IF x = b THEN {"main"} ELSE {"fix/x", "fix-x"}]
MCAge == [x \in Build |-> CASE x = a -> 1 [] x = b -> 2 [] OTHER -> 3]

Arguments(mode, clear, refuse, locked) ==
  [mode |-> mode, clear |-> clear, refuse |-> refuse, locked |-> locked]

Choices == <<
  Arguments("install", TRUE, FALSE, TRUE),
  Arguments("install", TRUE, FALSE, FALSE),
  Arguments("verify", TRUE, FALSE, TRUE),
  Arguments("dry", FALSE, TRUE, TRUE) >>

MCOptions == {Choices[i] : i \in DOMAIN Choices}

\* The deploys differ in nothing but the names of their builds; one installs.
Unordered ==
  \E i \in 1..2, j \in DOMAIN Choices :
    i <= j /\ opt = (d1 :> Choices[i] @@ d2 :> Choices[j])

Wish(asked, wait, reset, force, reboot) ==
  [branch |-> "fix/x", run |-> asked, wait |-> wait, reset |-> reset,
   force |-> force, reboot |-> reboot]

Plain == Wish(None, FALSE, "no", TRUE, FALSE)

MCWishes == {
  Plain,
  Wish(None, TRUE, "no", TRUE, FALSE),
  Wish(a, FALSE, "factory", FALSE, TRUE),
  Wish(None, FALSE, "firstboot", TRUE, FALSE) }

MCCasts == {{d1, d2}, {d2, s1}, {s1}}

\* What the deploys do not read is fixed where one is: two builds, both indexed,
\* and the third only what others left or bring: it waits in package_path, or d1's
\* own is staged already.  A session alone finds the build of "main"; the runs of
\* "main" and "fix-x" are green, that of its own branch is green, running or, when
\* it waits for the index, absent; after a firstboot it finds the index filled.  It waits before it asks
\* which package manager there is.
TwoBuilds == ciSteps = MaxCi /\ index = {a, b} /\ ci[c] = "absent" /\ bin = None

MCInit ==
  /\ DeploysInit
  /\ CASE cast = {d1, d2} -> /\ TwoBuilds /\ Unordered
                             /\ <<tmp["plain"], bomb>> \in {<<a, None>>, <<None, c>>}
       [] cast = {s1} -> /\ ciSteps = 0 /\ wish[s1] # Plain /\ bin = b
                         /\ ci[b] = "green" /\ ci[c] = "green"
                         /\ ci[a] = "absent" => wish[s1].wait
                         /\ index = {} => wish[s1].reset # "firstboot" /\ ci[a] # "absent"
                         /\ wish[s1].wait => manager = "opkg"
       [] OTHER -> /\ TwoBuilds /\ tmp["plain"] = None /\ bomb = None
                   /\ opt[d2] = Arguments("install", TRUE, FALSE, TRUE)
                   /\ wish[s1] = Plain

MCSpec == MCInit /\ [][DeploysNext]_allVars /\ Fairness /\ SessionFairness
=============================================================================
