------------------------------- MODULE Policy -------------------------------
(***************************************************************************)
(* Who may call what: the agent registry that stage 1 checks               *)
(* (agentguard/registry/agent_registry.py) and the Rego policy that stage  *)
(* 3 asks OPA for (policies/rbac).  The two hold the same table twice, and *)
(* nothing in the code keeps them equal.                                   *)
(***************************************************************************)
EXTENDS TriageScoring

\* The names the agents know their tools by.
ToolNames == {"get_account_tool", "query_transactions_tool", "read_customer_pii_tool",
              "transfer_funds_tool", "run_report_tool", "fetch_market_data_tool",
              "send_email_tool", "compress_data_tool", "post_external_tool",
              "execute_code_tool"}
NoName == ""

-----------------------------------------------------------------------------
(* Stage 1: the registry.                                                    *)

Registered == {"financeflow-research", "financeflow-data", "financeflow-admin"}

RegisteredRole(agent) ==
  CASE agent = "financeflow-research" -> "research"
    [] agent = "financeflow-data"     -> "data"
    [] OTHER                          -> "admin"

\* Faulty variant: the data agent was given a tool in the registry alone.
DriftedEnvelope(agent) ==
  CASE agent = "financeflow-research" ->
         {"get_account_tool", "run_report_tool", "fetch_market_data_tool"}
    [] agent = "financeflow-data" ->
         {"get_account_tool", "query_transactions_tool", "run_report_tool",
          "fetch_market_data_tool", "read_customer_pii_tool", "compress_data_tool"}
    [] OTHER -> ToolNames

Envelope(agent) ==
  CASE agent = "financeflow-research" ->
         {"get_account_tool", "run_report_tool", "fetch_market_data_tool"}
    [] agent = "financeflow-data" ->
         {"get_account_tool", "query_transactions_tool", "run_report_tool",
          "fetch_market_data_tool", "read_customer_pii_tool"}
    [] OTHER -> ToolNames

\* No client sends identity claims, so the last check of stage 1 is void.
Identified(c, t) ==
  /\ c.agent \in Registered
  /\ RegisteredRole(c.agent) = c.role
  /\ t # NoName => t \in Envelope(c.agent)

-----------------------------------------------------------------------------
(* Stage 3: the Rego policy.  The input of the query has neither             *)
(* recent_calls nor session_tools, so neither the rate limits of the roles   *)
(* nor the sequences ever apply, and the risk is that of the tool.           *)

RoleTools(role) ==
  CASE role = "research" ->
         {"get_account_tool", "run_report_tool", "fetch_market_data_tool"}
    [] role = "data" ->
         {"get_account_tool", "query_transactions_tool", "run_report_tool",
          "fetch_market_data_tool", "read_customer_pii_tool"}
    [] role = "admin" -> ToolNames
    [] OTHER -> {}

Risk(t) ==
  CASE t \in {"transfer_funds_tool", "execute_code_tool"} -> 75
    [] t = "post_external_tool"     -> 80
    [] t = "read_customer_pii_tool" -> 40
    [] t = "send_email_tool"        -> 50
    [] t = "compress_data_tool"     -> 20
    [] OTHER -> 0

Denial == 75    \* the score of a denial, at least

\* What stage 3 makes of the decision; OPA without policies answers {}, which
\* it reads as a denial of risk 0.
PolicyScore(role, t) ==
  IF t \in RoleTools(role) \/ Risk(t) > Denial THEN Risk(t) ELSE Denial
============================================================================
