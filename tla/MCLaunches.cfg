SPECIFICATION BothSpec
CONSTANTS
  Launched <- TwoChildren
  Desktop <- OneChat
  Tools <- OneTool
  Procs <- AllProcs
  Peers <- ThreePeers
  Absent = Absent
  None = None
  MaxFaults = 1
  QuickExits = FALSE
  Launchers <- TwoLaunchers
  DroidPeers <- TwoPeers
  DroidFaults = 2
CHECK_DEADLOCK FALSE
INVARIANTS WakeableIsListed OneEngine ClaimNamesPeer
PROPERTIES RowsSurvive
