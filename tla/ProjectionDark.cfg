\* Through the compositor: one wall, and its slicer exits once.
SPECIFICATION FairSpec
CONSTANTS
    Outputs = {o1}
    Specs <- Whole
    None = None
    Direct = FALSE
    MaxMappings = 2
    MaxDocs = 1
    MaxFaults = 1
PROPERTY
    SlicerComesBack
