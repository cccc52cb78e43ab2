CONSTANTS
  TimerBase = 10
  Authored <- MCAuthored
  Timers <- MCTimers
  Plan <- MCPlan
  EventType <- MCEventType
  Silent = {"audit"}
  Authoritative = {"timer"}
  Tools = {"registry"}
  Versions = {v1, v2}
  Unavailable = Unavailable
  ActionTypes <- MCActionTypes
  Reads <- MCReads
  Verifiers = {"registry"}
  NotServed = NotServed
  Horizon = 3
  MaxTurns = 2
  MaxBatches = 1
  MaxInvocations = 2
  Delays <- MCDelays
SPECIFICATION Spec

PROPERTIES NothingWakesAFinishedOperation
