SPECIFICATION GeneratorSpec
CHECK_DEADLOCK FALSE
CONSTANTS
  ListId = {l1, l2}
  Node = {n1, n2, n3}
  Null = Null
  DictKey = {1, 2, 3}
  DictValue = {v1, v2}
  DictNull = DictNull
  Hash <- DictHash
  INIT_BUCKETS = 2
  Elem = {e1, e2, e3}
  NoElem = NoElem
  ARRAY_DEF_CAPACITY = 2
  MaxIndex = 3
  Item = {1, 2}
  Pointer = {1, 2, 3, 4}
  PointedAt <- Equal
  Lowest = 0
  Highest = 3
  Components = {"a", "b"}
  Separators = {".", "/"}
  MaxComponents = 3
  MaxNames = 2
  MaxNameSteps = 4
  MaxNodes = 5
  TableSize = 30
  Listed <- TableListed
  Codes = {1, 2, 3, 4, 5, 6, 7, 8, 9, 10, 11, 12, 13, 14, 15, 16, 17, 18, 19, 20, 21, 22}
  Callables = {"function"}
  Values = {"v"}
  MaxRegistered = 12
  Dynamic = 2
  MaxTypes = 3
  Fnc = {"New", "Iter"}
  FunctionNew = "New"
  TypeShapes <- ShapesOfTypes
  MaxInherits = 2
  IfaceFncs <- FncsOfInterfaces
  IfaceMethods <- MethodsOfInterfaces
  NextInterface = 3
  NoImpl = NoImpl
  IntBits = 3
  LongBits = 4
  MaxHalves = 4
  MaxOperands = 2
  AtomTypes = {"T", "A", "B"}
  Below = "T"
  BasesOf <- BasesOfAtoms
  AttrName = {"x", "y"}
  Outer = "o1"
  Inner = "o2"
  ResolvingShapes <- ShapesOfAtoms
  MaxSets = 2
  MethodShapes <- ShapesOfMethods
  ArgTypes = {"Int", "String", "Bool"}
  Subtype <- BoolIsInt
  AnyType = "Any"
  MaxArgs = 4
  Iterables <- ItemsDelivered
  Initial <- Zero
  Bodies <- GeneratorBodies
  CountedTo = 2
  MaxAsked = 5
  PlainWords = {"w"}
  Keys = {"a", "false"}
  Ints = {1}
  Years = {1969, 1972}
  Months = {0, 1, 2, 12, 13}
  MDays = {0, 1, 29, 31}
  Hours = {0, 23, 24}
  Minutes = {0, 59}
  Seconds = {59}
  FirstYear = 1895
  LastYear = 1975
  MaxAssigned = 2
  Functions_ <- ScriptFunctions
  UpOf <- DefinedIn
  ParamsOf <- FormalParams
  NamesRead = {"p", "inner", "outer", "self"}
  NamesSet = {"x"}
  MaxScopes = 3
  MaxObjects = 2
  MaxScopeSteps = 8
  Modules <- ModuleNames
  SysModule <- SysName
  SysDir = "share"
  UserPath <- UserDir
  NoModule = NoModule
  Disks <- DisksRead
  FileTexts <- TextsOfFiles
  MaxChunk = 2
  MaxFaults = 1
  MaxStreamOps = 3
  CommandLines <- LinesGiven
  OptionFlags <- FlagsOfOptions
  Strict = {"port"}
  Scripts <- ScriptsRun
  MaxLines = 3
  MaxRuns = 3
  Letter = {1, 2}
  MaxLength = 3
  Reader = {"stream", "string"}
  QuoteChars = {34, 39}
  Markers <- MarkersRead
  Keyword <- KeywordsRead
  IgnoreNewLine = FALSE
  IgnoreSpace = TRUE
  Signed = TRUE
  Texts <- TextsRead
  BufferSize = {3}
  Configured <- ConfiguredInOrder
  Tokens = {"a", "b", "c", ","}
  MaxTokens = 4
  Failing = {"k"}
INVARIANT GeneratorGoesOn
