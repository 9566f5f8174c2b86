\* The script's own constants: all 500 frames of the file.
SPECIFICATION Spec
INVARIANT LengthsMatchFrame
CHECK_DEADLOCK FALSE
