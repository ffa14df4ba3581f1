CONSTANTS
  A = A
  B = B
  w1 = w1
  w2 = w2
  Comment = Comment
  Blank = Blank
  Continued = Continued
  Keys = {A, B}
  Words = {w1, w2}
  more = more
  NoTail = NoTail
  Tails = {more}
  Raw = {Comment, Blank, Continued}
  Files <- MCFiles
  EnvKeys <- NamesAndOdd
  Secrets <- Values
  MaxDeploys = 3
SPECIFICATION Spec
INVARIANTS OtherLinesKept LastValueReadsBack RedeployKeepsLines PreviewShowsNoSecret
CHECK_DEADLOCK FALSE
