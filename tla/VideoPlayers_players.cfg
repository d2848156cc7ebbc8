SPECIFICATION Spec
CONSTANTS
  Players = {"fake", "mpv"}
  Duration = 2
  MaxMedia = 3
  MaxPlays = 3
  None = None
INVARIANTS
  PlayerInv
  EndedWasPlaying
  PrepareShowsItsMedium
PROPERTIES
  PlaybackEnds
CHECK_DEADLOCK FALSE
