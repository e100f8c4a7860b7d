\* Long runs of approvals under a policy with shorts and options.
SPECIFICATION Spec
CONSTANTS
  Items <- MCItems
  Credits <- MCCredits
  Policy <- LongShort
  Equities = {0, 80, 100}
PROPERTIES CapsHold
