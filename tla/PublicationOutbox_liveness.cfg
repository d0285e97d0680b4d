SPECIFICATION FairSpec
CONSTANTS
  m1 = m1  r1 = r1  r2 = r2  r3 = r3  w1 = w1
  p1 = p1  p2 = p2  e1 = e1  e2 = e2  o1 = o1
  NoMessage = NoMessage  NoOwner = NoOwner  NoFp = NoFp
  Messages = {m1}
  Requests = {r1, r2, r3}
  MsgOf <- OneMsgOf
  FpOf <- OneFpOf
  WsOf <- OneWsOf
  Processes = {p1, p2}
  Executors = {e1, e2}
  ProcOf <- TwoProcesses
  Operators = {o1}
  OperatorStatuses = {"cancelled"}
  MaxAttempts = 1
  BaseDelay = 1
  CapDelay = 1
  LeaseTTL = 2
  WakeCap = 1
  MaxFaults = 1
  MaxInterventions = 0
INVARIANTS AckedPayload
PROPERTIES AckedSettles
CHECK_DEADLOCK FALSE
