CONSTANTS
  Replicas = {r1}
  Editors = {}
  Users = {u1, u2}
  Payloads <- PairPayloads
  EditedStatuses = {}
  EditedPrices = {}
  MaxCampaigns = 0
  MaxRequests = 1
  MaxEdits = 0
  MaxWorker = 0
  MaxDenials = 0
  MaxFailures = 0
  NoLead = NoLead
SPECIFICATION Spec
INVARIANTS FirstRequestIsStored
CHECK_DEADLOCK FALSE
