\* Two runs of one agent: a late session.started and a claim.
SPECIFICATION MCSpec
CONSTANTS
  r1 = r1
  r2 = r2
  r3 = r3
  agent = agent
  Run = {r1, r2}
  Agent = {agent}
  AgentOf <- MCAgentOf
  StartedBy <- Scheduled
  MaxSends <- Sends
  Stepping = {}
INVARIANTS OneRunning
CHECK_DEADLOCK FALSE
