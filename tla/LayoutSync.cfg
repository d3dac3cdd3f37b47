SPECIFICATION Spec
CONSTANTS
  a = a
  b = b
  c = c
  Machines = {a, b, c}
  Screen <- MCScreen
  Loaded <- MCLoaded
  Paired <- MCPaired
  Drafts <- MCDrafts
  Approvals <- MCApprovals
  MaxSaves = 2
INVARIANTS
  TypeOK
  OwnScreenPlaced
  LoneSaveReachesPeers
  
PROPERTY
  ApprovalKeepsApart
CHECK_DEADLOCK FALSE
