\* The delete buttons of all the panels.
CONSTANTS
    PanelKinds <- AllPanels
    MaxTyped = 1
    MaxPanelFaults = 0
    MaxWire = 1
    MaxSubmits = 1
SPECIFICATION PanelSpec
INVARIANT DeleteButtonWorks
CHECK_DEADLOCK FALSE
