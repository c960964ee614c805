CONSTANTS
  Photos = {p1, p2}
  DriveFiles = {d1, d2}
  NoImage = NoImage
  MaxDownloads = 2
SPECIFICATION Spec
INVARIANTS TypeOK CameraOnlyAsked
PROPERTIES LastPickWins DriveLoadingEnds
