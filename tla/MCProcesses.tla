----------------------------- MODULE MCProcesses -----------------------------
(***************************************************************************)
(* The processes that the program starts, for TLC: a language server and    *)
(* the shell of a command.  The two share no state, and `part' names the    *)
(* one that moves in a behaviour, so that their states add up.              *)
(***************************************************************************)
EXTENDS LspManager

CONSTANTS Shell, Others, Hardened

VARIABLES
  part,
  unborn, running, parent, group, holders, stubborn, dying, signals, at, reason, known,
  remaining, seen

command == <<unborn, running, parent, group, holders, stubborn, dying, signals, at, reason, known,
             remaining, seen>>

Sh == INSTANCE ShellCommand

ASSUME ProcessesAssumption ==
  Shell \notin Others /\ \A ps \in Hardened : ps \subseteq Sh!Procs

PartsInit ==
  /\ part \in {"lsp", "shell"} /\ Init /\ Sh!Init
  /\ part # "shell" => stubborn = {} /\ signals

PartsNext ==
  \/ part = "lsp" /\ Next /\ UNCHANGED <<part, command>>
  \/ part = "shell" /\ Sh!Next /\ UNCHANGED <<part, vars>>

InShell(A) == part = "shell" /\ A

PartsSteps == PartsInit /\ [][PartsNext]_<<part, vars, command>>

\* The fairness of LspManager, and of ShellCommand where that is what moves.
PartsFairness ==
  /\ WF_vars(Reply) /\ (\A u \in Users : WF_vars(Use(u)))
  /\ WF_command(InShell(Sh!Step)) /\ WF_command(InShell(Sh!Limit))
  /\ WF_command(InShell(Sh!GraceOver)) /\ WF_command(InShell(Sh!RoundsOver))
  /\ \A p \in Sh!Procs : WF_command(InShell(p \in dying /\ Sh!Exit(p)))

PartsSpec == PartsSteps /\ PartsFairness

-----------------------------------------------------------------------------
\* The inductive invariant of the language server, and the types of the shell.
PartsOK == IInv /\ Sh!TypeOK

\* The processes the tool saw are gone when it answers (see ShellCommand).
SeenIsEnded == Sh!SeenIsEnded

\* The shell tool answers (see ShellCommand).
EveryCommandReturns == part = "shell" ~> at = "answered"
=============================================================================
