SPECIFICATION MixerSpec
CONSTANTS
  a = a
  b = b
  effect = effect
  music = music
  scratch = scratch
  Threads = {a, b}
  Sounds = {effect, music, scratch}
  Streams = {music, scratch}
  Length <- MCLength
  Steps = {1, 3}
  Rate <- MCRate
  Frames = 1
  Chunk = 3
  DefaultLimit = 1
  Limits = {2}
  Positions = {0, 4}
  MaxPlays = 2
  Horizon = 7
INVARIANT VoicesAreSound
PROPERTIES LoopsGoOn ReadsInsideClip SoundEnds
