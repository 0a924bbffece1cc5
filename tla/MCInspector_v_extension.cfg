SPECIFICATION Spec
CONSTANTS
  Extensions = {"csv", "txt", "xlsx", "xml", "json", "eml", "dat"}
  Files <- MCFiles
  Queues <- MCQueues
  MaxArrivals = 2
  MaxCrashes = 1
  FirstDay = 5
  LastDay = 6
  ClientOrder <- MCClientOrder
  DomainMap <- MCDomainMap
  HintDomain <- MCHintDomain
  Expectations <- MCExpectations
  Accounts <- MCAccounts
  CalendarOf <- MCCalendarOf
  Markets <- MCCalendars
  DefaultCalendar = "US_EQUITY"
  AccountColumns <- MCAccountColumns
  ScanLimit = 2
  Required <- MCRequired
  FieldWeight <- MCFieldWeight
  Outcomes <- MCOutcomes
  DispatchAt = 8500
  QuarantineAt = 6000
  ValueDateNames <- MCValueDateNames
  ValueDatePhrases = {}
  TradeDateNames <- MCTradeDateNames
  MonthLength = 3
  Months = 2
  MonthsWithT = {2}
  CalendarSteps = 5
  SettlementOffset = 1
  SampleLines = 20
  HeaderRows = 25
  RecordKeys <- MCRecordKeys
  MinRecords = 2
  EmailHeaders <- MCEmailHeaders
INVARIANT ParserIgnoresExtension
CHECK_DEADLOCK FALSE
