SPECIFICATION FairSpec
CONSTANTS
  a1 = a1  a2 = a2  m1 = m1  m2 = m2
  c1 = c1  c2 = c2  h1 = h1  h2 = h2
  None = None
  Agents = {a1}
  MsgIDs = {m1}
  Conns = {c1}
  Chats = {h1}
  ConnAgent <- OneConn
  ChatAgent <- OneChat
  ChatMsg <- OneMessage
  Cap = 1
  MaxStray = 2
  BrowserLeaves = TRUE
  RuntimesObey = TRUE
PROPERTY UnregisterCompletesPendingWaiters
CHECK_DEADLOCK FALSE
