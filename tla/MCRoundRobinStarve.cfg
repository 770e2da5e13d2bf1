CONSTANTS
  d1 = d1
  d2 = d2
  d3 = d3
  bad = bad
  Descriptors <- MCDescriptors
  BadDescriptor <- bad
  Capacity = 3
  SizeMax <- MCSizeMax
SPECIFICATION MCFairSpec
PROPERTY
  NoStarvation
