SPECIFICATION StreamSpec
CONSTANTS
  a1 = a1  a2 = a2  m1 = m1  m2 = m2
  c1 = c1  c2 = c2  h1 = h1  h2 = h2
  None = None
  Agents = {a1, a2}
  MsgIDs = {m1}
  Conns = {c1, c2}
  Chats = {h1, h2}
  ConnAgent <- TwoOfOneAgent
  ChatAgent <- ChatsOfOneAgent
  ChatMsg <- SameMessage
  Cap = 1
  MaxStray = 2
  BrowserLeaves = TRUE
  RuntimesObey = FALSE
SYMMETRY TwinSymmetry
INVARIANTS NoChatForgotten TypeOK AnswersComeFromTaskConnection WaitersMatchRuntime RegisteredIsOpen
PROPERTIES StaleExitIsHarmless StreamsInOrder
CHECK_DEADLOCK FALSE
