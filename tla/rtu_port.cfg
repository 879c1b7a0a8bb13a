SPECIFICATION Spec
CONSTANTS
  one  = one
  many = many
  Shapes = {one, many}
  Tries = 3
INVARIANTS AnswerIsOwn TriesSuffice
