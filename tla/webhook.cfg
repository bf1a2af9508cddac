CONSTANTS
  Replicas = {r1, r2}
  Editors = {e1}
  Users = {u1}
  Payloads <- AllPayloads
  EditedStatuses = {"new"}
  EditedPrices = {0, 500}
  MaxCampaigns = 1
  MaxRequests = 3
  MaxEdits = 1
  MaxWorker = 1
  MaxDenials = 1
  MaxFailures = 1
  NoLead = NoLead
SPECIFICATION Spec
INVARIANTS CountBacked CountExact LeadIsOfOneMessage
PROPERTIES NothingErased
SYMMETRY Symmetry
CHECK_DEADLOCK FALSE
