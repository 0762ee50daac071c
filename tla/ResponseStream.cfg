CONSTANTS
  Tools <- MCTools
  ParamType <- MCParamType
  NoTagThreshold = 6
  DecideAt = 3
  Outputs <- MCOutputs
  Thoughts <- MCThoughts
  Paces <- MCPaces
  MaxAsides = 1
  NewParser <- Unused
  ExtractToolCalls <- Extracting
  ExtractToolCallsStreaming <- Streaming
  ExtractReasoning <- Whole
  ExtractReasoningStreaming <- Reason
  FinalizeStreaming <- Finalize
SPECIFICATION Spec
INVARIANTS   BlocksWellFormed 
CHECK_DEADLOCK FALSE
