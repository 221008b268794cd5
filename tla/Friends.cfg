SPECIFICATION Spec
CONSTANTS
  Player = {"anna", "bento"}
INVARIANTS
  AnsweredAreFriends
