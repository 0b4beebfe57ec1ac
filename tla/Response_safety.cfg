SPECIFICATION Spec
CONSTANTS
  r1 = r1
  a1 = a1
  a2 = a2
  p1 = p1
  p2 = p2
  q1 = q1
  q2 = q2
  Request <- MCRequest
  Approver <- MCApprover
  Action <- MCAction
  ApprovalOf <- MCApprovalOf
  Requester <- MCRequester
  NoAction = NoAction
  MaxCrashes = 1
INVARIANT DecisionIsRecorded
INVARIANT AttemptWasApproved
INVARIANT UndoesOnlyFailures
INVARIANT OutcomeIsAudited
CHECK_DEADLOCK FALSE
