---------------------------- MODULE MCCommandLine ----------------------------
(***************************************************************************)
(* Instances of CommandLine for TLC: the commands that are run.            *)
(***************************************************************************)
EXTENDS CommandLine

\* Deploys of either image without variables, and one of every other command.
EveryCommand ==
  [op : {"deploy"}, image : Images, env : {{}}]
    \cup [op : {"setEnv", "unsetEnv"}, env : {Names}]
    \cup [op : {"pause", "resume", "delete"}]
=============================================================================
