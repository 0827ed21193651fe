SPECIFICATION PagesSpec
CONSTANTS
  fA = fA
  File = {fA}
  MaxFills = 2
  MaxUploads = 1
  MaxOrders = 2
  NoFile = NoFile
  NoAsset = NoAsset
  NoJob = NoJob
  NoForm = NoForm
  pA = pA
  pB = pB
  Product = {pA, pB}
  Listed = {pA}
  NoFee = NoFee
  Price <- ShopPrice
  OwnFee <- ShopFee
  GlobalFee <- UsualFee
  MinTotal = 1
  MaxQty = 2
  Totals = {0, 2}
  Starts <- TwoStarts
  MaxChanges = 2
  MaxEdits = 2
  NoOrder = NoOrder
  NoCart = NoCart
  Cases <- AllCases
  Fills <- Filled
  NoQuery <- NoList
  MaxOpenings = 2
  MaxDrafts = 2
  MaxCalls = 3
  MaxLost = 1
  Filters = {1, 2}
  MaxPages = 2
  MaxRemoved = 1
  LastDay = 4
  MonthStart = 2
CHECK_DEADLOCK FALSE
INVARIANTS
  NoSilentDuplicate
  UntouchedEditKeepsOrder
  ShownIsStored
  OrderedPerAnswer
  OncePerDraft
  OwnChangesShow
  PageInRange
  NamesWhatIsRead
  FiltersAgree
PROPERTY TypingSurvives
