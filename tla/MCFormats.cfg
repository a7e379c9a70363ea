CONSTANTS
  Jobs <- MCJobs
  LowerCase <- MCLowerCase
  UpperCase <- MCUpperCase
  MAX_FIELD_LENGTH = 6
  FloatBits <- MCFloatBits
  NameText <- MCNameText
SPECIFICATION Spec
INVARIANTS
  TextReadsBack
  BinaryReadsWhatArrived
  XmlReadsTrees
  JsonReadsBack
\* A job ends when it is done.
CHECK_DEADLOCK FALSE
