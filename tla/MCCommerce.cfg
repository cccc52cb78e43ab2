CONSTANTS
  TimerBase = 10
  HandoverReminderAfter = 1
  HandoverDeadlineAfter = 2
  ApprovalDeadlineAfter = 1
  CloseAfter = 2
  NoticeWithin = 1
  Horizon = 6
SPECIFICATION FairSpec
INVARIANT RecordIsTrue
PROPERTIES CooldownIsKept HandoverKeepsItsPromise NothingHangs
\* the run ends with the operation, or with the clock at its bound
CHECK_DEADLOCK FALSE
