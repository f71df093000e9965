\* All waveforms of seven samples at three levels, three settings; events of up
\* to ten hits, predictions anywhere in the range of hits.
CONSTANTS
  Wrap = 1000
  PedShare = 2
  Waves <- MCWaves
  Pars <- MCPars
  Cuts = {4}
  Others <- MCOthers
  Channel <- MCChannel
  fMinClus = 2
  fDistThresh = 1
  fHitMergeD = 1
  fGapCounter = 2
  fNoJoin = FALSE
  fNGapStep = 1
  ShowerHits = 2
  ShowerGroups = 1
  Builders = {"MTC", "Sm"}
  Predictions <- MCPredictions
  Inputs <- MCInputs
  RecoFiles <- MCRecoFiles
  Origin = 0
SPECIFICATION ChainSpec
INVARIANTS
  RegionsOfInterest
  HitsFound
  CollectionHoldsHits
  ClosestHit
  HitsAccountedFor
  TracksInOrder
  TracksDivideHits
  SinglesOnTrack
  RecoViewFollows
PROPERTIES
  ClustersAreComponents
  MergingEnds
