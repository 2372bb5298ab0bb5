\* Sources: the types of api/v1alpha1 and 33 variants of them.
\* MaxDepth stands for the Go stack: more than there are struct types.
\* The tools stop when they are done.
SPECIFICATION Spec
CHECK_DEADLOCK FALSE
CONSTANTS
  Sources <- MCSources
  Length <- MCLength
  BareName <- MCBareName
  MaxDepth = 14
INVARIANTS
  TypeOK
  ScanIsOrderFree
  HiddenStaysInside
  EnrichmentTyped
  VerifiedIsRegistered
PROPERTIES
  ScanEnds
