----------------------------- MODULE PolarisCli -----------------------------
(***************************************************************************)
(* The polaris CLI of the workspace container (infra/workspace/polaris-cli *)
(* /polaris.py): a process runs one command.  `polaris publish` audits the *)
(* project, posts the publish and follows it; the dev-* commands ask for   *)
(* the dependencies of the workspace; scaffold-publish and the audit work  *)
(* on the files of the project.  The parts share no state.                 *)
(***************************************************************************)
EXTENDS PublishFollow, DevDeps, SiteConfig

CONSTANT StartCommands   \* the start commands that are audited

ASSUME CommandsAssumption == StartCommands \subseteq Seq(Words)

VARIABLE command   \* the group of commands in use

cliVars == <<command, allVars, depVars, siteConfigVars>>

CliInit ==
    /\ FollowInit /\ DepInit /\ SiteInit
    /\ \/ command \in {"publish", "dev", "scaffold"} /\ start = <<>>
       \/ command = "audit" /\ start \in StartCommands

Publishing == command = "publish" /\ UNCHANGED <<command, depVars, siteConfigVars>>
Asking     == command = "dev" /\ UNCHANGED <<command, allVars, siteConfigVars>>
Auditing   == command = "audit" /\ UNCHANGED <<command, allVars, depVars>>
Preparing  == command = "scaffold" /\ UNCHANGED <<command, allVars, depVars>>

CliNext ==
    \/ Publishing /\ FollowNext
    \/ Asking /\ DepNext
    \/ Auditing /\ Audit
    \/ Preparing /\ SiteNext

CliSpec ==
    /\ CliInit /\ [][CliNext]_cliVars
    /\ WF_allVars(Publishing /\ PublishStep(Followed) /\ PipelineStep)
    /\ WF_allVars(Publishing /\ PromoteStep(Followed) /\ PipelineStep)
    /\ WF_allVars(Publishing /\ (Poll \/ Reconnect))
    /\ \A c \in Calls : WF_depVars(Asking /\ CallStep(c))

-----------------------------------------------------------------------------

CliTypeOK == FollowTypeOK /\ DepTypeOK /\ SiteTypeOK

\* A command returns: the stream that `polaris publish` follows ends as long as
\* the API lives and commits, and every call of the dev-deps routes ends, although
\* no docker command need succeed.
EveryCommandReturns == FollowerReturns /\ CallReturns

=============================================================================
