\* Two runs of one agent, or one that is delivered twice, under the fairness of
\* the sweep.
SPECIFICATION MCSpec
CONSTANTS
  r1 = r1
  r2 = r2
  r3 = r3
  agent = agent
  Run = {r1, r2, r3}
  Agent = {agent}
  AgentOf <- MCAgentOf
  StartedBy <- Started
  MaxSends <- Sends
  Stepping = {r1, r3}
INVARIANTS OneDispatched LogIsWhole
PROPERTIES KeepsLedger NoRunHangs
CHECK_DEADLOCK FALSE
