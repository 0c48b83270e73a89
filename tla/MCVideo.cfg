CONSTANTS
  s1 = s1 s2 = s2
  Syncers = {"publisher", "viewer"}
  MaxSegments = 1
  MaxLiveGeneration = 2
  MaxLiveFaults = 1
  Subs = {s1, s2}
  Layers = {0, 1}
  Targets <- MCTargets
  Rtps <- MCRtps
  Scenes <- MCScenes
  Throttle = 1
  MaxChanges = 1
SPECIFICATION Spec
INVARIANTS  SubscribersCanDecode
PROPERTIES PublisherStops WaitingIsServed
