---------------------------- MODULE MCProcesses ----------------------------
(* Constants for model checking Processes. *)
EXTENDS Processes

OutsideSchedule == PC \ {"picked", "switch"}

\* Everywhere in the shell but while it links a new task or kills one.
OutsideLinkAndKill == SH \ {"link", "space", "kill", "kill2"}
OutsideKill == SH \ {"kill", "kill2"}

\* exit(-1) starts the program again.
LiveCalls == UserCall \ {"exit -1"}

\* RUN of a bad file does what REAP does; RUN and RUNELF differ in the loader
\* only; USERFAULT repeats the code of USERTEST for variables of its own.
SomeCommands == Command \ {"RUNELF", "REAP", "USERFAULT"}
LiveCommands == {"RUN", "RUNELF", "USERFAULT", "REAP", "KILL"}

=============================================================================
