CONSTANTS
  Names = {"fourth"}
  Models <- MCModels
  Commented = FALSE
  ChronydRuns = FALSE
  Dries = {FALSE}
  Forces = {FALSE}
  Skips = {FALSE}
  MayFail = {}
  MaxRuns = 2
  None = None
SPECIFICATION FairSpec
PROPERTIES MailGetsSetUp
CHECK_DEADLOCK FALSE
