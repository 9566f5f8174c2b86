\* Every timestamp kind, and numbers n / d for n in -250..250, d in {1, 10},
\* around a threshold of 10.
CONSTANTS
    HeaderLists <- MC_NoHeaders
    BodyLabels <- MC_NoLabels
    TsInputs <- MC_TsInputs
    Threshold <- MC_Threshold
    Now <- MC_Now
    Raises = raises
SPECIFICATION Spec
INVARIANT TimestampAsSpecified
