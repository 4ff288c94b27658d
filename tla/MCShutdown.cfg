CONSTANTS
  ChannelSize = 2
  Word = 6
SPECIFICATION FairSpec
INVARIANTS CleanExitOwesNothing CounterFollows
 
