SPECIFICATION FairSpec
CONSTANTS
  s1 = s1  s2 = s2  USD = USD  EUR = EUR
  Jobs = {"feeds", "rates"}
  Feeds <- MCFeeds
  HourOf <- MCHourOf
  Currencies = {USD, EUR}
  NbuHour = 1
  DayHours = 3  MaxRetries = 1  MaxQueue = 1  MaxRun = 1  MaxEvents = 3
INVARIANT TriedDaily
PROPERTY UpdatedAgain
