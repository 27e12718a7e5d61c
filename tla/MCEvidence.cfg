SPECIFICATION MCSpec
CONSTANTS
  Files = {"results.json", "audit.jsonl", "workspace/attestation.json", "workspace/app.py", "workspace/notes.md"}
  Results = "results.json"
  Log = "audit.jsonl"
  Workspace = {"workspace/attestation.json", "workspace/app.py", "workspace/notes.md"}
  Namesakes = {"workspace/attestation.json"}
  Changes = 2
  MaxSubjects = 3
  Long <- MCLong
  Unscannable <- MCUnscannable
  Heavy <- MCHeavy
  Letters <- MCLetters
  Values <- MCValues
  Texts <- MCTexts
  Added = {"a"}
  Most = 6
  Rounds = 2
INVARIANTS
  StreamIsExact
  JudgedAsAttested
  AcceptedIsComplete
  HonestVerifies
CHECK_DEADLOCK FALSE
