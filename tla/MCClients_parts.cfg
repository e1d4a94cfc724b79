SPECIFICATION Spec
CONSTANTS
  Object = {o1, o2}
  MaxFd = 3
  UrlPairs <- Pairs
  None = None
  Chars = {"a", "A", " "}
  BuffInc = 2
  MaxText = 3
  MaxSlack = 2
  Opts <- Table
  AllowBad = 8
  Lines <- AllLines
  MaxSource = 5
  MaxUrl = 6
  Versions <- SomeVersions
  CtxNames = {"c1", "c2"}
  NullCtx = "null"
  Handlers = {"h1", "h2"}
  ParseNull = "parse_null"
  NoEntry = NoEntry
  FuncNames = {"f1", "f2", "f3"}
  FuncRoom = 3
  VarNames = {1, 2, 3}
  VarValues = {"a", "b"}
  MaxTable = 4
  Pieces <- SomePieces
  MaxPieces = 3
  ConfBuff = 8
  Worlds <- SomeWorlds
  FileNames <- SomeNames
  FileDirs <- SomeDirs
  PathLists <- SomePaths
  Places <- SomePlaces
  Homes <- SomeHomes
  NoPath = None
SYMMETRY Objects
CHECK_DEADLOCK FALSE
INVARIANTS
  TypesOK OneOwner FlagsTrue BoundWhereAsked
  SameText TextReadsAgree
  HandledAsWritten LeftAsWritten EndsInTime
  QuotedWordsComeBack ScansStopAtTheEnd WordsCounted
  UrlComesBack VersionsOrdered
  TablesAnswer ExpandsAsMeant DirectoryComesBack
PROPERTIES LostOnlyBySendOrAccept
