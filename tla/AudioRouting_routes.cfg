SPECIFICATION RouteSpec
CONSTANTS
  Streams = {song, ring}
  TvStreams = {song}
  Media = Media
  Null = Null
  Extra = {bt}
  Silence = Silence
  None = None
  Routes = {"auto", "all", "direct"}
  Env = {"moves", "kill", "norecord"}
  MaxEnv = 2
  MaxStarts = 1
INVARIANTS NothingMissed ReturnsHome OwnAnswer
CHECK_DEADLOCK FALSE
