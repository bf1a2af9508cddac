CONSTANTS
  Campaigns = {c1, c2}
  Leads = {u1}
  Tenants <- OneTenant
  CampaignTenant <- OneCampaignTenant
  LeadTenant <- OneLeadTenant
  Connected <- OneTenant
  Workers = {w1}
  Statuses = {"hot"}
  Targets = {"none", "hot"}
  RedisConfigured = FALSE
  MaxPoll = 2
  LineResults = {"accepted"}
  MaxFaults <- LostDeadLetter
  Nobody = Nobody
SPECIFICATION Spec
INVARIANTS CommittedIsHandled
CHECK_DEADLOCK FALSE
