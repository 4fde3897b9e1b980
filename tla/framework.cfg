CONSTANT None = None
SPECIFICATION Spec
INVARIANTS
  RouterServesTable
  VendorTransactional
  FreeIdentsExact
  FlowsGetWhatTheyUse
  GeneratedOrderSound
  
  HandlerGetsValidInput
  S3Exact
  WiringAsDeclared
  CommandTreeSound
  
  
PROPERTIES
  WritersTellTruth
  PlanNamesFollowContent
  BlobsStay
CHECK_DEADLOCK FALSE
