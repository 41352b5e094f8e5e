SPECIFICATION Spec
CONSTANTS
    MaxPictures = 4
    MaxAttribs = 4
INVARIANT TypeOK
INVARIANT ArraysMatchProgram
PROPERTY ShowsLatestPicture
CHECK_DEADLOCK FALSE
