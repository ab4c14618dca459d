\* A catalog with room for two events, over two days.
CONSTANTS
  Venues <- TwoVenues
  MaxItems = 4
  VenueLimit = 1
  EventLimit = 2
  MaxEvents = 3
  MaxOffers = 1
  LastDay = 2
SPECIFICATION Spec
PROPERTIES UpcomingIsShown
