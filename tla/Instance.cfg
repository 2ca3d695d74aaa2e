SPECIFICATION Spec
CONSTANTS
  i1 = i1
  i2 = i2
  Instance = {i1, i2}
  Head = head
  NoThread = nothread
  Folder <- OnFolder
  Cancellable <- WithEvent
  Pullers = 2
  MaxInits = 1
  Careful = TRUE
INVARIANTS
  InstanceOutlivesUsers
  ListExact
  VolumeFollowsInstance
CHECK_DEADLOCK FALSE
