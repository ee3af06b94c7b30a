SPECIFICATION Spec
CONSTANTS
  Order <- TwoFeeds
  MayBeEmpty = {"rainfall_alerts"}
  Located = {"flood_sensors"}
  ApiOnly = {"rainfall_alerts"}
  ScraperOnly = {}
  Slow = {"flood_sensors"}
  Switched = {"flood_sensors"}
  FastAge = 1
  SlowAge = 1
  Modes = {"live", "demo"}
  MaxClock = 2
  MaxSnapshot = 2
INVARIANTS Safety ReadyStandsOnFreshSources ReadyAfterSuccess BlockedStaysBlocked
CHECK_DEADLOCK FALSE
