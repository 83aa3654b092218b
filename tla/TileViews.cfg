CONSTANTS
  Urls = {"a", "b", "c"}
  Viewports = {1, 2}
  Sizes = {256, 512}
  Tiles <- Rescaled
  Width <- Wide
  Rewritten = {}
  MaxPending = 2
  MaxEvents = 2
  NoTile = NoTile
SPECIFICATION FairSpec
INVARIANTS TypeOK CompletePicture QueueIsServed PendingIsInFlight
PROPERTY PictureCompletes
CHECK_DEADLOCK FALSE
