SPECIFICATION MCSpec
CONSTANTS
  c1 = c1  c2 = c2  k1 = k1  k2 = k2  m = m  pc = pc  box = box
  p1 = p1  p2 = p2  url1 = url1  url2 = url2  None = None
  s1 = s1  s2 = s2  tap = tap  bath = bath  h = h  Null = Null
  Areas = {"numbers", "companies", "units", "clients", "images", "documents", "quotes"}
  Calls = {c1, c2}
  Companies = {k1, k2}
  Units = {m, pc}
  Words = {m, pc, box}
  Parties = {p1, p2}
  Urls = {url1, url2}
  UrlLists <- MCUrlLists
  MaxCalls <- MCMaxCalls  MaxImages = 3
  Headers = {h}
  Suppliers = {s1, s2}
  Products = {tap, bath}
  SupplierOf <- MCSupplierOf
  Multiple <- MCMultiple
  FirstDocs <- MCFirstDocs
  FirstId = 4
  Qtys = {3}
  HandQtys = {3}
  MaxEdits = 2  MaxExtras = 1
  Lines = {1, 2}  Blocks = {1, 2}  Nil = Nil  Vat = 20
  FirstQuotes <- MCFirstQuotes
  CellPrices = {0, 63}
  CellQtys = {0, 1000}
  CellRates <- MCRates
  Percents = {10, 99}
  SupplierPercents <- MCSupplierPercents
  MaxChanges = 2  MaxFormed = 1
SYMMETRY Symmetry
INVARIANTS NextNumberFree DirectoriesSound ImageFilesKept StoredAsSent DocumentsSound QtyFollowsLine FiguresAgree
PROPERTIES ListsKept OneMainImage PricesShown KpsComplete ApprovedSumStands
