SPECIFICATION Spec
CONSTANTS
  MAXCAPTURES = 2
  Calls <- Given
  Answers <- Replies
INVARIANTS FirstMatch AllMatches InsideSubject
PROPERTY GoesForward
