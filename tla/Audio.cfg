CONSTANTS
  Stream = {s3d}
  Stream3D = {s3d}
  Entity = {e}
  NoEntity = NoEntity
  Length = 1
  MaxSpeed = 2
  MaxTime = 2
SPECIFICATION FairSpec
INVARIANTS
  TypeOK
  SilenceIsKept
  NoSoundFromNowhere
PROPERTIES
  TransitionsApproach
  ImplementsPlayer
  PlayIsHeard
