SPECIFICATION Spec
CONSTANTS
  None = None
  Backends = {"memory", "postgres"}
  Focuses = {"accounts", "agents", "models", "manifests", "identities", "settings"}
  Names = {ann, bob}
  Hashes = {"h1"}
  Providers = {"github"}
  Subjects = {s1, s2}
  PluginIds = {"p1", "p2"}
  Yamls = {"y1"}
  Keys = {"auth.mode", "auth.provider.a"}
  MaxIds = 3
  MaxRevision = 2
  Updatable = {3}
INVARIANTS KeysAreUnique CallsAgree
PROPERTIES IdentitiesStayPut MemoryImplementsPostgres
SYMMETRY Alike
CHECK_DEADLOCK FALSE
