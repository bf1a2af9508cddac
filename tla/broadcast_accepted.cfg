CONSTANTS
  Campaigns = {c1, c2}
  Leads = {u1}
  Tenants <- TwoTenants
  CampaignTenant <- TwoCampaignTenant
  LeadTenant <- OneLeadTenant
  Connected <- OneTenant
  Workers = {w1}
  Statuses = {"hot"}
  Targets = {"hot"}
  RedisConfigured = TRUE
  MaxPoll = 2
  LineResults = {"accepted"}
  MaxFaults <- ProgressFaults
  Nobody = Nobody
SPECIFICATION FairSpec
INVARIANTS LossIsBounded
PROPERTIES AcceptedIsHandled
CHECK_DEADLOCK FALSE
