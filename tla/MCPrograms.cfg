SPECIFICATION ProgramsSpec
CONSTANTS
  MAX_THREAD = 4
  MaxCreate = 6
  Process = {1, 2, 3}
  Pipe = {"p2c", "c2p", "p2c2", "c2p2", "p_c1", "c1_c2", "c2_p"}
  Args <- MCArgs
  Junk = {0, 66, 75, 255}
  MaxFaults = 2
  Word <- MCWord
  Decimals <- MCDecimals
  Hexes <- MCHexes
  Lists <- MCLists
  Limit = 2
  MaxCalls = 2
INVARIANTS IInv AsPromised ExitZeroMeansDone ParentLast ShownAsAsked LimitAlongForks CommandsRight
PROPERTIES NoOvertaking NoStolenStack Implements NobodyStarves EveryoneEnds
