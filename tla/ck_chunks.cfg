SPECIFICATION Spec
CONSTANTS
  NoBody = NoBody
  StepBack = 3
  Jobs <- MCJobs
INVARIANTS TypeOK NothingLost PanicsOnlyIf Bounded PathLeads
PROPERTIES WindowAdvances
