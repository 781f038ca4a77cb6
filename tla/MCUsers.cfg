SPECIFICATION Spec
CONSTANTS
  UmScenes <- MCUmScenes
  HistScenes <- MCHistScenes
  ListScenes <- MCListScenes
  NoOne = NoOne
  DelivScenes <- MCAllDeliv
  PrivScenes <- MCPrivScenes
  SrvScenes <- MCSrvScenes
INVARIANT UsersKnown
 
INVARIANT ListingHonest
INVARIANT SpeechDelivered
INVARIANT PrivateSpeech
 
INVARIANT OrdersKept
CHECK_DEADLOCK FALSE
