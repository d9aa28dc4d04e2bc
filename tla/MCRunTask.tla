----------------------------- MODULE MCRunTask -----------------------------
(***************************************************************************)
(* Instances of RunTask: every mode, for the harnesses that support it.    *)
(***************************************************************************)
EXTENDS RunTask

CONSTANTS MCModes, MCHarnesses, MCAccounts, MCStudies

\* The claude harness with an account in every mode, without an agent in an
\* ungated and in a gated one; a dry run; containers kept only by codex runs, whose
\* login file they may hold.
MCConfigs ==
    {c \in ConfigShape :
        /\ c.mode \in MCModes /\ c.harness \in MCHarnesses
        /\ c.study \in MCStudies /\ c.account \in MCAccounts
        /\ ~c.command
        /\ IF c.harness = "claude"
           THEN c.account \/ c.mode \in {"baseline", "mcp_only"}
           ELSE ~c.account
        /\ c.dry => c.mode = "baseline" /\ ~c.study /\ c.curator
        /\ c.keep => c.harness = "codex"}
=============================================================================
