SPECIFICATION FairSpec
CONSTANTS
  a1 = a1  a2 = a2  m1 = m1  m2 = m2
  c1 = c1  c2 = c2  h1 = h1  h2 = h2
  None = None
  Agents = {a1}
  MsgIDs = {m1, m2}
  Conns = {c1, c2}
  Chats = {h1, h2}
  ConnAgent <- TwoOfOneAgent
  ChatAgent <- ChatsOfOneAgent
  ChatMsg <- DistinctMessages
  Cap = 1
  MaxStray = 1
  BrowserLeaves = FALSE
  RuntimesObey = TRUE
INVARIANTS NoChatForgotten
PROPERTIES EveryChatEnds UnregisterCompletesPendingWaiters
CHECK_DEADLOCK FALSE
