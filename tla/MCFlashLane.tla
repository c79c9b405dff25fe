----------------------------- MODULE MCFlashLane -----------------------------
EXTENDS FlashLane, TLC

CommandLine(cmd) ==
  [cmd |-> cmd, switch |-> TRUE, model |-> "1.0", assume |-> FALSE, image |-> TRUE,
   allow |-> FALSE, sure |-> TRUE, dry |-> FALSE, volatile |-> FALSE,
   run |-> FALSE]

\* The commands as documented, and some with a gate in their way.
CommandLines ==
  {CommandLine(c) : c \in {"upload", "sysupgrade", "install", "paths", "suite"}} \cup
  {[CommandLine("sysupgrade") EXCEPT !.allow = TRUE],
   [CommandLine("sysupgrade") EXCEPT !.dry = TRUE],
   [CommandLine("upload") EXCEPT !.model = "2.0", !.assume = TRUE],
   [CommandLine("upload") EXCEPT !.sure = FALSE],
   [CommandLine("paths") EXCEPT !.allow = TRUE],
   [CommandLine("suite") EXCEPT !.switch = FALSE],
   [CommandLine("install") EXCEPT !.volatile = TRUE],
   [CommandLine("install") EXCEPT !.volatile = TRUE, !.sure = FALSE],
   [CommandLine("install") EXCEPT !.run = TRUE],
   [CommandLine("install") EXCEPT !.run = TRUE, !.dry = TRUE]}

Alike == Permutations(Run)
=============================================================================
