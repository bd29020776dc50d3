\* Two workers, tokens expire once, the password is rotated once.
SPECIFICATION FairSpec
CONSTANTS
  Workers = {w1, w2}
  Tokens = {t1, t2, t3}
  NoToken = NoToken
  Anonymous = Anonymous
  Dockers = {{}, {"helper", "auth"}, {"store"}}
  MaxExpiries = 1
  MaxRotation = 2
INVARIANT TypeOK
PROPERTIES RejectionsEnd RequestsSucceed
