---------------------------- MODULE Permissions ----------------------------
(***************************************************************************)
(* How a call's permission is decided before anybody is asked:             *)
(* the library's policy.approver (policy/policy.go), by what the tool's    *)
(* metadata says, and the example application's rules                      *)
(* (examples/gage-coding/permissions.go), by tool, category and pattern.   *)
(*                                                                         *)
(* A request is a record: tool, category, target (what patterns are        *)
(* matched with), input, compound (a shell command that chains, redirects  *)
(* or expands), secret (a file such as .env) and meta (the set of flags    *)
(* and tags of the tool's metadata).                                       *)
(***************************************************************************)
EXTENDS Naturals, FiniteSets, FiniteSetsExt

CONSTANT NoAction   \* no action configured

Actions == {"allow", "ask", "deny"}

-----------------------------------------------------------------------------
(* policy.New(cfg).Approve *)

SecureConfig ==
    [readOnly |-> "allow", filesystemRead |-> "allow", networkRead |-> "pause",
     sensitive |-> "pause", shell |-> "pause", unknown |-> "pause", denyTags |-> {}]

WithDefaults(cfg) ==
    [k \in DOMAIN cfg |-> IF cfg[k] = NoAction THEN SecureConfig[k] ELSE cfg[k]]

PolicyAction(cfg, meta) ==
    CASE "shell" \in meta -> cfg.shell
      [] "shell" \notin meta /\ meta \cap {"destructive", "approval"} # {} -> cfg.sensitive
      [] meta \cap {"shell", "destructive", "approval"} = {} /\ "network" \in meta -> cfg.networkRead
      [] meta \cap {"shell", "destructive", "approval", "network"} = {} /\ "readonly" \in meta ->
             IF "filesystem" \in meta THEN cfg.filesystemRead ELSE cfg.readOnly
      [] OTHER -> cfg.unknown

\* Allowed, denied, or ErrApprovalPending.
PolicyApprove(config, meta) ==
    LET cfg == WithDefaults(config)
    IN  IF cfg.denyTags \cap meta # {} THEN "deny"
        ELSE IF PolicyAction(cfg, meta) \in {"allow", "deny"} THEN PolicyAction(cfg, meta)
        ELSE "pause"

-----------------------------------------------------------------------------
(* configuredApprover.resolve *)

ActionRank(a) == CASE a = "deny" -> 2 [] a = "ask" -> 1 [] OTHER -> 0

\* The pattern with the most literal characters wins; of those with as many,
\* the most conservative action.
Match(rule, target) ==
    LET hits == {p \in rule.patterns : target \in p.matches}
        best == {p \in hits : \A q \in hits : q.literals <= p.literals}
    IN  IF hits = {} THEN rule.action
        ELSE (CHOOSE p \in best : \A q \in best : ActionRank(q.action) <= ActionRank(p.action)).action

DefaultPermission(req) ==
    IF req.tool = "read_file" /\ req.secret THEN "deny"
    ELSE IF "readonly" \in req.meta /\ req.meta \cap {"network", "destructive"} = {} THEN "allow"
    ELSE "ask"

\* The tool's own rule, then its category's, then "*"; then the global action.
Resolve(policy, req) ==
    LET keys == <<req.tool, req.category, "*">>
        Answer(i) == IF keys[i] \in DOMAIN policy.rules
                     THEN Match(policy.rules[keys[i]], req.target) ELSE NoAction
        says == {i \in 1 .. 3 : Answer(i) # NoAction}
    IN  IF says # {} THEN Answer(Min(says))
        ELSE IF policy.global # NoAction THEN policy.global
        ELSE DefaultPermission(req)

\* A rule never allows a compound shell command by itself.
Decide(policy, req) ==
    IF Resolve(policy, req) = "allow" /\ req.tool = "bash" /\ req.compound
    THEN "ask" ELSE Resolve(policy, req)

-----------------------------------------------------------------------------
(* toolsForMode: the tools a run's agent has *)

\* Planning only looks; reviewing may also run commands, but changes nothing.
ToolAllowedInMode(mode, req) ==
    CASE mode = "plan" ->
             \/ req.tool \in {"skill", "explore", "question", "todowrite", "todoread"}
             \/ "readonly" \in req.meta /\ req.meta \cap {"shell", "destructive", "approval"} = {}
      [] mode = "review" ->
             \/ req.tool = "bash"
             \/ /\ req.meta \cap {"destructive", "approval"} = {}
                /\ "filesystem" \in req.meta => "readonly" \in req.meta
      [] OTHER -> TRUE

\* "tools": {"<name, category or *>": false}
ToolEnabled(policy, req) == {req.tool, req.category, "*"} \cap policy.disabled = {}

\* -readonly, and without it the commands and servers that planning lacks.
BlockedByReadOnly(readOnly, req) ==
    /\ readOnly
    /\ \/ req.meta \cap {"shell", "destructive", "approval"} # {}
       \/ "filesystem" \in req.meta /\ "readonly" \notin req.meta

ToolsForMode(mode, readOnly, policy, reqs) ==
    LET all == {req \in reqs : req.tool = "bash" \/ "mcp" \in req.meta => mode # "plan" /\ ~readOnly}
    IN  {req.tool : req \in {r \in all : /\ ToolAllowedInMode(mode, r)
                                         /\ ToolEnabled(policy, r)
                                         /\ ~BlockedByReadOnly(readOnly, r)}}
=============================================================================
