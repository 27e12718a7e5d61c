------------------------------ MODULE MCGoverned ------------------------------
EXTENDS GovernedRun

\* The second version of the task lets the agent run for longer.
MCSettings ==
  [v1 |-> [task |-> "task", network |-> "proxy", domains |-> {"provider"}, proxy |-> "squid",
           agentSecs |-> 1, evalSecs |-> 1, judge |-> TRUE, judgeBackend |-> "claude",
           judgeModel |-> "m1", isolated |-> TRUE, tokens |-> 0, cost |-> 0],
   v2 |-> [task |-> "task", network |-> "open", domains |-> {}, proxy |-> None,
           agentSecs |-> 2, evalSecs |-> 1, judge |-> FALSE, judgeBackend |-> None,
           judgeModel |-> None, isolated |-> TRUE, tokens |-> 1, cost |-> 0],
   v3 |-> [task |-> "task", network |-> "open", domains |-> {}, proxy |-> None,
           agentSecs |-> 1, evalSecs |-> 1, judge |-> FALSE, judgeBackend |-> None,
           judgeModel |-> None, isolated |-> FALSE, tokens |-> 0, cost |-> 0]]

Request == [task |-> "task", agent |-> "claude-code", model |-> "m1", tenant |-> "t",
            project |-> "p", class |-> "internal", retention |-> "standard",
            tokens |-> 0, cost |-> 2]
Requests == {[Request EXCEPT !.tokens = 1], [Request EXCEPT !.class = "restricted"],
             [Request EXCEPT !.agent = "codex"]}

Image(digest, platform) ==
  [digest |-> digest, named |-> digest, task |-> "task", platform |-> platform]
Specs == {[config |-> "v1", tree |-> "v1", scans |-> s, judge |-> j] : s, j \in BOOLEAN}
Task  == [task |-> "task", status |-> "approved", tree |-> "v1", specs |-> Specs,
          images |-> {Image("approved", "amd64")}]
Model == [agent |-> "claude-code", model |-> "m1", status |-> "approved",
          classes |-> {"public", "internal"}, tokens |-> 2, cost |-> 3]
Judge == [backend |-> "claude", model |-> "m1", status |-> "approved",
          classes |-> {"public", "internal"}]
Rules == [tenants |-> {"t"}, projects |-> {"p"}, tasks |-> {"task"}, classes |-> {"internal", "restricted"},
          retentions |-> {"standard"}, networks |-> {"proxy", "open"}, domains |-> {"provider"},
          proxies |-> {"squid"}, scanners |-> {"allowed"}, requireScans |-> TRUE,
          requireJudge |-> FALSE, requireBroker |-> TRUE, trials |-> 2, agentSecs |-> 2,
          evalSecs |-> 1, tokens |-> 3, cost |-> 3]
Bundle == [rules |-> Rules, tasks |-> {Task}, models |-> {Model}, judges |-> {Judge}]
Bundles ==
  {[Bundle EXCEPT !.rules.agentSecs = 1, !.rules.networks = {"proxy"}],
   [Bundle EXCEPT !.rules.requireScans = FALSE, !.judges = {[Judge EXCEPT !.status = "blocked"]}],
   [Bundle EXCEPT !.rules.requireJudge = TRUE, !.rules.proxies = {}],
   [Bundle EXCEPT !.tasks = {[Task EXCEPT !.status = "deprecated"]}]}

CommandLine == [agent |-> "claude-code", model |-> "m1", trials |-> 2, scans |-> TRUE,
                judge |-> TRUE, broker |-> TRUE, builtin |-> TRUE, platform |-> "amd64"]
Options == {[CommandLine EXCEPT !.scans = FALSE, !.judge = FALSE],
            [CommandLine EXCEPT !.trials = 3], [CommandLine EXCEPT !.platform = "arm64"],
            [CommandLine EXCEPT !.builtin = FALSE], [CommandLine EXCEPT !.broker = FALSE]}

\* A run that may be admitted; and those that differ from it in one of the three,
\* or in policy and options.
Case(q, b, o) == [request |-> q, bundle |-> b, options |-> o]
MCCases == {Case(q, Bundle, CommandLine) : q \in Requests}
           \cup {Case(Request, b, o) : b \in Bundles \cup {Bundle}, o \in Options \cup {CommandLine}}

MCUsages ==
  {[tokens |-> 1, cost |-> 1], [tokens |-> 2, cost |-> 1], [tokens |-> 1, cost |-> 3],
             [tokens |-> 3, cost |-> 2],
             [tokens |-> Missing, cost |-> 1], [tokens |-> 1, cost |-> Missing]}
===============================================================================
