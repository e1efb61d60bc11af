SPECIFICATION FairSpec
CONSTANTS
  CommentIds = {a, b, c}
  Threads = {f}
  Authors = {alice, anonymous}
  Bodies = {hello, bye}
  Times <- Times5
  Tasks = {t1, t2}
  Limit = 1
  Requests <- SomeRequests
  Starts <- SomeComments
  None = None
  a = a
  b = b
  c = c
  f = f
  t1 = t1
  t2 = t2
  alice = alice
  anonymous = anonymous
  hello = hello
  bye = bye
INVARIANTS DeletesCount EditsStay PagesSkipNothing
PROPERTIES OnlyAuthorsChangeComments EverythingIsAnswered
CHECK_DEADLOCK FALSE
