CONSTANTS
  Campaigns = {c1, c2}
  Leads = {u1}
  Tenants <- OneTenant
  CampaignTenant <- OneCampaignTenant
  LeadTenant <- OneLeadTenant
  Connected <- OneTenant
  Workers = {w1, w2}
  Statuses = {"hot"}
  Targets = {"none", "hot"}
  RedisConfigured = FALSE
  MaxPoll = 2
  LineResults = {"accepted"}
  MaxFaults <- DeliveryFaults
  Nobody = Nobody
SPECIFICATION Spec
INVARIANTS DuplicatesAreBounded
PROPERTIES CommittedMovesForward
SYMMETRY Symmetry
CHECK_DEADLOCK FALSE
