SPECIFICATION HooksSpec
CONSTANTS
  Hooks = {h1, h2}
  NoHook = NoHook
  PostTime = 10
  FirstPause = 30
  SecondPause = 120
  JobTimeout = 45
  MaxTroubles = 2
INVARIANT
  OneReceiptPerUrl
