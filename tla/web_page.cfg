CONSTANTS
  MaxInputs = 2
  MaxCrashes = 1
SPECIFICATION PageSpec
  
PROPERTIES PanelCatchesUp
