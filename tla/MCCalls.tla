------------------------------ MODULE MCCalls ------------------------------
(* Calls on small instances: what is asked for and what is configured. *)
EXTENDS Calls

Req(tool, cat, target, compound, secret, meta) ==
    [tool |-> tool, category |-> cat, target |-> target, input |-> target,
     compound |-> compound, secret |-> secret, meta |-> meta]

BashMeta == {"shell", "destructive", "approval", "longrunning"}
McpMeta  == {"approval", "mcp"}

GitStatus  == Req("bash", "bash", "git status", FALSE, FALSE, BashMeta)
GitAndSo   == Req("bash", "bash", "git status; x", TRUE, FALSE, BashMeta)
McpCall    == Req("srv_t", "mcp", "{}", FALSE, FALSE, McpMeta)
MCRequests == {GitStatus, GitAndSo, McpCall}

Rule(action, patterns) == [action |-> action, patterns |-> patterns]
Rules(rules, global, disabled) ==
    [kind |-> "rules", rules |-> rules, global |-> global, disabled |-> disabled]

\* "bash": {"git *": "allow", "*": "ask"}, "mcp": "deny"; the library's policy.
Patterns == Rules([bash |-> Rule(NoAction,
                     {[literals |-> 4, action |-> "allow", matches |-> {"git status", "git status; x"}],
                      [literals |-> 0, action |-> "ask", matches |-> {"git status", "git status; x"}]}),
                   mcp |-> Rule("deny", {})], NoAction, {})

\* "ask", and "tools": {"mcp": false}
Strict == Rules(<<>>, "ask", {"mcp"})

\* {"*": "allow", "mcp": "ask"}
AskMcp  == Rules([mcp |-> Rule("ask", {})], "allow", {})
Library == [kind |-> "library", disabled |-> {},
            config |-> [k \in DOMAIN SecureConfig |->
                          IF k = "denyTags" THEN {} ELSE IF k = "shell" THEN "allow" ELSE NoAction]]
MCPolicies == {Patterns, Strict, AskMcp, Library}

McpRequests == {McpCall}
McpPolicies == {AskMcp}
=============================================================================
