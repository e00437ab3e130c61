SPECIFICATION Spec
CONSTANTS
  VCs = {1, 2}
  Types = {"gpu"}
  Jobs = {1, 2, 3}
  Users = {"ann", "bob"}
  Workloads <- TwoWorkloads
  Quotas <- TwoQuotas
  UserQuota <- UserLimit
  Nodes <- TwoNodes
  MaxEvents = 1
INVARIANTS
  TypeOK
  QuotaKept
PROPERTIES
  AllowedWithinReport
  LoweredQuotaKept
  PreemptedToMakeRoom
  NotOvertaken
  PassedOverForEnded
CHECK_DEADLOCK FALSE

