SPECIFICATION Spec
CONSTANTS
  MaxRequests = 2
  MaxMedia = 2
PROPERTY MediaIsPublished
CHECK_DEADLOCK FALSE
