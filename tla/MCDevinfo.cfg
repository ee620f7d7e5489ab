CONSTANTS
  Devices = {"sda", "sdb"}
  Names = {"n"}
  LinkDirs = {"partuuid"}
  Attempts = 1
  MaxSkips = 1
  MaxMoves = 2
  Lines <- MCLines
  Retries = 2
  MaxTable = 3
SPECIFICATION Spec
INVARIANTS LookupsAnswerTruly ReadsAreConsistent StandingMountIsListed FirstMountAnswers
