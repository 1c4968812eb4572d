\* Three searches, two of them for the same term, a change of the index.
SPECIFICATION FairFinderSpec
CONSTANTS
  s1 = s1  s2 = s2  s3 = s3  t1 = t1  t2 = t2
  Searcher = {s1, s2, s3}
  Nobody = Nobody
  term <- TwoAndOne
  MaxChanges = 1
PROPERTIES
  AnswerIsFresh
  SearchReturns
\* Every search ends; one that was dropped waits for ever.
CHECK_DEADLOCK FALSE
