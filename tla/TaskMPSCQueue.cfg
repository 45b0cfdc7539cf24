CONSTANTS
  Items = {a, b, c}
  Producers = {p1, p2}
  MaxChain = 2
  MaxPushes = 4
  Stub = stub
  Null = null

SPECIFICATION QueueSpec

INVARIANTS PopReturnsFront EmptyIsHonest

PROPERTY EverythingPopped
