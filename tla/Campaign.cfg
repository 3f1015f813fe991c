SPECIFICATION FairSpec
CONSTANTS
  Groups <- GROUPS
  Script <- GroupFunctions
  Required <- REQUIRED_CASES
  Families <- ObjectFamilies
  Selections <- SelectionsAll
  Reasons = {"none", "no opt-in"}
  MaxFaults = 1
  Series <- SeriesAll
  Scalars <- ScalarsAll
  Endpoints <- EndpointsAll
  Labels <- LabelsAll
  Codes <- CodesAll
  DateValues <- DateValuesAll
  Kinds <- KindsAll
  Missings <- MissingsAll
  Archived <- ArchivedAll
  Raws <- RawsAll
INVARIANTS
  PassIsEarned
  FlawlessPasses
  FailureIsLocal
  LifecycleFirst
PROPERTIES
  CampaignEnds
CHECK_DEADLOCK FALSE
