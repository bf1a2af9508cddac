CONSTANTS
  Campaigns = {c1}
  Leads = {u1, u2}
  Tenants <- OneTenant
  CampaignTenant <- OneCampaignTenant
  LeadTenant <- OneLeadTenant
  Connected <- OneTenant
  Workers = {w1}
  Statuses = {"hot"}
  Targets = {"none", "hot"}
  RedisConfigured = TRUE
  MaxPoll = 2
  LineResults = {"accepted"}
  MaxFaults <- NoFaults
  Nobody = Nobody
SPECIFICATION Spec
INVARIANTS UntargetedReachesAll
CHECK_DEADLOCK FALSE
