\* One file, two uploads of it, up to two requests at the server.
SPECIFICATION SessionFairSpec
CONSTANTS
  BatchSize = 2
  MaxChunks = 3
  Upload = {u1, u2}
  None = None
  MaxRequests = 2
INVARIANTS SessionTypeOK InputsReady StoredIsSound AnswerTellsStored ToldPublished DraftExplained
PROPERTIES DraftSettles
