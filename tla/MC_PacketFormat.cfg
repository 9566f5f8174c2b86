\* Every header list of up to 3 headers over 4 keys and 2 values, and 3
\* body label maps.
CONSTANTS
    HeaderLists <- MC_HeaderLists
    BodyLabels <- MC_BodyLabels
    TsInputs <- MC_NoTs
    Threshold <- MC_Threshold
    Now <- MC_Now
    Raises = raises
SPECIFICATION Spec
INVARIANT HeadersSplitAsSpecified
