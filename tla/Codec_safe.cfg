CONSTANTS
  p1 = p1
  p2 = p2
  Goroutine = {p1, p2}
  Type <- MCType
  Jobs <- MCJobs
  Input <- MCInput
  NoInput <- MCNoInput
  rate = 4
  dsbyte = 1
  outputLen = 2
SPECIFICATION Spec
INVARIANTS EncodingExact DigestExact RoundTrip DecodesCanonical SplitAgrees InfoComplete ListsNested LimitCoversList AtBoundary
