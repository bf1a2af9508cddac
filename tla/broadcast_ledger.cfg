CONSTANTS
  Campaigns = {c1}
  Leads = {u1, u2, u3}
  Tenants <- TwoTenants
  CampaignTenant <- OneCampaignTenant
  LeadTenant <- TwoLeadTenant
  Connected <- OneTenant
  Workers = {w1}
  Statuses = {"hot", "cold"}
  Targets = {"none", "hot", "cold"}
  RedisConfigured = TRUE
  MaxPoll = 2
  LineResults = {"accepted", "refused", "lostReply", "unreachable"}
  MaxFaults <- LedgerFaults
  Nobody = Nobody
SPECIFICATION Spec
INVARIANTS DeliveredOnlyToMatched SentCountBacked
 
CHECK_DEADLOCK FALSE
