SPECIFICATION Spec
CONSTANTS
  Thread = {t1, t2}
  None = None
INVARIANT MapRaceFree
