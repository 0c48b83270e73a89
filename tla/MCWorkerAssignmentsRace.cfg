CONSTANTS
  h1 = h1
  h2 = h2
  live = live
  vod = vod
  Handlers = {h1, h2}
  Resources = {live}
  Vod = {}
  MaxGeneration = 2
  Slots = 2
  MaxJobs = 3
  LastJob = 2
SPECIFICATION WorkerSpec
INVARIANTS OneEncoderPerResource
CHECK_DEADLOCK FALSE
