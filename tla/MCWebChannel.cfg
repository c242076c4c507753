SPECIFICATION Spec
CONSTANTS
  s1 = s1
  Invented = Invented
  Plain = Plain
  Slots <- SlotsVal
  Offers <- OffersVal
  Texts <- TextsVal
  MaxInbox = 1
  SkillTries = 2
  MaxLoose = 1
  MaxSent = 3
  MaxRuns = 2
INVARIANTS
  MailedOnce
  ConfirmedReachedMerchant
  BookedWasOffered
PROPERTIES
  EveryMessageTaken
CHECK_DEADLOCK FALSE
