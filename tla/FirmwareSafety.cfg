\* Two polls, and requests that may take until after the deadline.
SPECIFICATION Spec
CONSTANTS
  Limit = 9
  HttpTime = 2
  Interval = 1
  Polls = 2
INVARIANT InstalledOnce
INVARIANT ErrorMeansNotBegun
INVARIANT OverrunBounded
PROPERTY VerifiedMeansInstalled
