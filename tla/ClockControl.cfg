CONSTANTS
  PTP = PTP
  NTP = NTP
  None = None
  Configurations <- Checked
SPECIFICATION FairSpec
INVARIANTS
  ExclusiveControl
PROPERTIES
  PanicBeforeStep
  LargeOffsetIsStepped
  NtpTakesControl
  PtpTakesControl
  SlaveResumes
