SPECIFICATION FairSpec
CONSTANTS
  i1 = i1  i2 = i2  d1 = d1
  Slots = {i1, i2}
  Days = {d1}
  NoOne = NoOne  NoPayload = NoPayload  NoAnswer = NoAnswer
  maxRetryCount = 2
  MaxTaps = 2
  MaxOthers = 1
INVARIANTS TypeOK AppliedOnce ModelFollowsCloud
PROPERTIES AnswersNeverGoBack SuccessShowsTap SendsEnd
