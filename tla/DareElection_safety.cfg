CONSTANTS
  N = 3
  Lossy = {0}
  MaxElections = 2
  MaxWire = 1
SPECIFICATION Spec
INVARIANTS TypeOK GrantOncePerTerm OneWriterPerTerm Fenced
PROPERTIES SidNeverDecreases VoteOncePerTerm
CONSTRAINT FewBusy
CHECK_DEADLOCK FALSE
