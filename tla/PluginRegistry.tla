--------------------------- MODULE PluginRegistry ---------------------------
(***************************************************************************)
(* internal/plugins: integration plugins come from three sources (custom   *)
(* resources, rows of plugin_manifests, files) and are served from one     *)
(* merged view.  Each source registry keeps the list it has resolved and   *)
(* signals a change on a channel of capacity one; for each source a        *)
(* goroutine of MergedRegistry rebuilds the whole view on a signal.  The   *)
(* module starts where NewServer starts the registries.  Rebuilding reads  *)
(* the sources one after the other and swaps the view last, so rebuilds of *)
(* different goroutines interleave.                                        *)
(***************************************************************************)
EXTENDS Integers, Sequences, FiniteSets

CONSTANTS
    None,
    Ids,          \* well-formed plugin ids
    Manifests,    \* documents a resource, a row or a file may hold
    Doc,          \* the fields of each document
    Names,        \* names of custom resources
    Paths,        \* files, numbered in directory order
    MaxChanges    \* bound: changes made to the sources, and a first poll that fails

ASSUME PluginAssumption ==
    /\ None \notin Manifests /\ None \notin Ids
    /\ Paths \in SUBSET Nat
    /\ MaxChanges \in Nat
    /\ IsFiniteSet(Names) /\ IsFiniteSet(Paths)

\* NewMerged is called with the sources in order of precedence.
Order == <<"crd", "db", "file">>
Sources == {"crd", "db", "file"}
Pos(s) == CASE s = "crd" -> 1 [] s = "db" -> 2 [] s = "file" -> 3
Last == 4                       \* all sources read
Actors == Sources \cup {"run"}  \* the goroutine of each source, and Run

Pg == INSTANCE PostgresStore

VARIABLES
    crs,       \* custom resources in the cluster
    queue,     \* events the informer has not delivered yet
    db,        \* the table plugin_manifests
    files,     \* the plugin directory
    boot,      \* how far NewServer is
    watching,  \* FileRegistry's watcher has been added and still watches
    fsEvent,   \* fsnotify has reported a change, the debounce timer runs
    resolved,  \* source -> id -> manifest: each registry's resolved map
    nameToID,  \* CRDRegistry: resource -> id
    pathLast,  \* FileRegistry: file -> last valid manifest
    lastHash,  \* DBRegistry: ids and revisions of the last snapshot
    toSend,    \* sources that have swapped and not yet signalled
    chan,      \* source -> the channel MergedRegistry got from Subscribe
    reading,   \* actor -> next source to read, Last before the swap, 0 idle
    seen,      \* actor -> the lists it has read
    merged,    \* MergedRegistry.resolved
    changes,   \* how much of MaxChanges is used
    lost       \* history: why a change may be unnoticed

world == <<crs, db, files, changes>>
registries == <<resolved, nameToID, pathLast, lastHash>>
view == <<reading, seen, merged>>
vars == <<world, queue, boot, watching, fsEvent, registries, toSend, chan, view,
          lost>>

(***************************************************************************)
(* ParseManifest: the document unmarshals and Validate accepts it.         *)
(***************************************************************************)
Validate(d) ==
    /\ d.apiVersion = "shclop.io/v1alpha1" /\ d.kind = "IntegrationPlugin"
    /\ d.id \in Ids
    /\ d.pluginKind \in {"http_template", "sidecar"}
    /\ d.scopes \subseteq {"user", "org"}
    /\ d.auth = "pat_token" /\ d.fields # {} /\ "" \notin d.fields
    /\ d.pluginKind = "http_template" =>
         d.http # None /\ d.http.method \in {"GET", "POST", "HEAD"}
         /\ d.http.url # "" /\ d.http.success # {}
    /\ d.pluginKind = "sidecar" => d.sidecar \notin {None, ""}
    /\ \A r \in d.mcp : r.name # "" /\ (r.ref # None) # (r.external # None)
    /\ d.templatesParse

Valid(m) == Doc[m].unmarshals /\ Validate(Doc[m])
ID(m) == Doc[m].id

NoList == [id \in Ids |-> None]

TypeOK ==
    /\ crs \in [Names -> Manifests \cup {None}]
    /\ queue \in Seq([name : Names, obj : Manifests \cup {None}])
    /\ files \in [Paths -> Manifests \cup {None}]
    /\ boot \in {"scan", "watch", "poll", "inform", "rebuild", "subscribe", "done"}
    /\ watching \in BOOLEAN /\ fsEvent \in BOOLEAN
    /\ resolved \in [Sources -> [Ids -> Manifests \cup {None}]]
    /\ nameToID \in [Names -> Ids \cup {None}]
    /\ pathLast \in [Paths -> Manifests \cup {None}]
    /\ toSend \subseteq Sources
    /\ chan \in [Sources -> {"none", "empty", "full"}]
    /\ reading \in [Actors -> 0 .. Last]
    /\ seen \in [Actors -> [Sources -> [Ids -> Manifests \cup {None}]]]
    /\ merged \in [Ids -> [manifest : Manifests, source : Sources] \cup {None}]
    /\ changes \in 0 .. MaxChanges
    /\ lost \subseteq {"window", "overtaken", "recreated", "unwatched", "unread",
                        "renamed"}

\* The table holds what earlier runs of the server wrote: bound, one row,
\* which may be one an older version accepted and this one does not.
Init ==
    /\ crs = [n \in Names |-> None]
    /\ files = [p \in Paths |-> None]
    /\ \E old \in SUBSET {m \in Manifests : ID(m) \in Ids} :
         /\ Cardinality(old) < 2
         /\ db = [plugin_manifests |->
                    {[id |-> ID(m), yaml |-> m, enabled |-> TRUE,
                      revision |-> 1] : m \in old}]
    /\ queue = <<>> /\ boot = "scan" /\ watching = FALSE /\ fsEvent = FALSE
    /\ resolved = [s \in Sources |-> NoList]
    /\ nameToID = [n \in Names |-> None]
    /\ pathLast = [p \in Paths |-> None]
    /\ lastHash = None
    /\ toSend = {}
    /\ chan = [s \in Sources |-> "none"]
    /\ reading = [a \in Actors |-> 0]
    /\ seen = [a \in Actors |-> [s \in Sources |-> NoList]]
    /\ merged = NoList
    /\ changes = 0 /\ lost = {}
-----------------------------------------------------------------------------
(* Changes to the sources *)

Changed == changes < MaxChanges /\ changes' = changes + 1
Informing == boot \in {"rebuild", "subscribe", "done"}

\* The informer hears of a resource that is applied or deleted (m = None).
ChangeCR(n, m) ==
    /\ Changed
    /\ m # None \/ crs[n] # None
    /\ crs' = [crs EXCEPT ![n] = m]
    /\ queue' = IF Informing THEN Append(queue, [name |-> n, obj |-> m])
                ELSE queue
    /\ UNCHANGED <<db, files, boot, watching, fsEvent, registries, toSend, chan, view,
                   lost>>

\* The last poll saw a row of this id and it has been deleted since.
Recreates(id) ==
    /\ Pg!GetPluginManifest(db, id).err # ""
    /\ lastHash # None /\ \E e \in lastHash : e[1] = id

\* handleAdminUpsertPlugin: what does not parse is answered 400.
UpsertPlugin(m, enabled) ==
    /\ Changed
    /\ Valid(m)
    /\ db' = Pg!UpsertPluginManifest(db, ID(m), m, enabled).db
    /\ lost' = IF Recreates(ID(m)) THEN lost \cup {"recreated"} ELSE lost
    /\ UNCHANGED <<crs, files, queue, boot, watching, fsEvent, registries, toSend, chan,
                   view>>

\* handleAdminDeletePlugin: an id without a row is answered 404.
DeletePlugin(id) ==
    /\ Changed
    /\ Pg!DeletePluginManifest(db, id).err = ""
    /\ db' = Pg!DeletePluginManifest(db, id).db
    /\ UNCHANGED <<crs, files, queue, boot, watching, fsEvent, registries, toSend, chan,
                   view, lost>>

\* A file is written, replaced or removed (m = None).  The directory may go with
\* its last file, and a directory made in its place is not watched.
ChangeFile(p, m) ==
    /\ Changed
    /\ m # None \/ files[p] # None
    /\ files' = [files EXCEPT ![p] = m]
    /\ fsEvent' = (fsEvent \/ watching)
    /\ \/ UNCHANGED watching
       \/ watching' = FALSE /\ \A q \in Paths : files'[q] = None
    /\ lost' = IF boot # "scan" /\ ~ watching THEN lost \cup {"unwatched"} ELSE lost
    /\ UNCHANGED <<crs, db, queue, boot, registries, toSend, chan, view>>
-----------------------------------------------------------------------------
(* FileRegistry *)

\* scan: a file that cannot be read or does not parse keeps its last valid
\* manifest, of two files with one id the later in the directory wins.
ScannedLast(unread) ==
    [p \in Paths |-> IF files[p] = None THEN None
                     ELSE IF p \notin unread /\ Valid(files[p]) THEN files[p]
                     ELSE pathLast[p]]

ScannedList(last) ==
    [id \in Ids |->
        LET ps == {p \in Paths : last[p] # None /\ ID(last[p]) = id}
        IN  IF ps = {} THEN None
            ELSE last[CHOOSE p \in ps : \A q \in ps : q <= p]]

\* ReadDir may fail, and nothing changes, and ReadFile for any file.  No other
\* scan is due then; one that misses nothing sees every change so far.
Scan ==
    \E last \in {pathLast} \cup {ScannedLast(unread) : unread \in SUBSET Paths} :
        /\ pathLast' = last
        /\ resolved' = [resolved EXCEPT !["file"] = ScannedList(last)]
        /\ lost' = IF last = ScannedLast({}) THEN lost \ {"unread", "unwatched"}
                   ELSE lost \cup {"unread"}

\* watch: the debounce timer fires.
Rescan ==
    /\ fsEvent /\ "file" \notin toSend
    /\ fsEvent' = FALSE
    /\ Scan
    /\ toSend' = toSend \cup {"file"}
    /\ UNCHANGED <<world, queue, boot, watching, nameToID, lastHash, chan, view>>
-----------------------------------------------------------------------------
(* DBRegistry.poll *)

Rows == Pg!ListPluginManifests(db, TRUE).rows
RowOf(id) == CHOOSE r \in Rows : r.id = id

\* Mutant: a row is served without being parsed.
PolledUnparsed ==
    [id \in Ids |-> IF \A r \in Rows : r.id # id THEN None ELSE RowOf(id).yaml]

\* A row that does not parse keeps the previous entry of its id.
PolledList ==
    [id \in Ids |-> IF \A r \in Rows : r.id # id THEN None
                    ELSE IF Valid(RowOf(id).yaml) THEN RowOf(id).yaml
                    ELSE resolved["db"][id]]

\* Mutant: the snapshot is compared by its ids.
IdsOnly == {<<r.id, 0>> : r \in Rows}

SnapshotHash == {<<r.id, r.revision>> : r \in Rows}

\* An equal hash is taken for an equal snapshot.
PollSwap ==
    IF SnapshotHash = lastHash THEN UNCHANGED <<resolved, lastHash>>
    ELSE /\ resolved' = [resolved EXCEPT !["db"] = PolledList]
         /\ lastHash' = SnapshotHash

Poll ==
    /\ boot \notin {"scan", "watch", "poll"} /\ "db" \notin toSend
    /\ PollSwap
    /\ toSend' = IF SnapshotHash = lastHash THEN toSend ELSE toSend \cup {"db"}
    /\ UNCHANGED <<world, queue, boot, watching, fsEvent, nameToID, pathLast, chan,
                   view, lost>>
-----------------------------------------------------------------------------
(* CRDRegistry: upsert and delete, one event at a time *)

Deliver ==
    /\ queue # <<>> /\ "crd" \notin toSend
    /\ queue' = Tail(queue)
    /\ LET n == Head(queue).name
           m == Head(queue).obj
           old == nameToID[n]
       IN  \/ /\ m # None /\ Valid(m)
              /\ resolved' = [resolved EXCEPT !["crd"][ID(m)] = m]
              /\ nameToID' = [nameToID EXCEPT ![n] = ID(m)]
              /\ toSend' = toSend \cup {"crd"}
              /\ lost' = IF \/ old \notin {None, ID(m)}
                            \/ \E k \in Names \ {n} : nameToID[k] = ID(m)
                         THEN lost \cup {"renamed"} ELSE lost
           \/ /\ m # None /\ ~ Valid(m)
              /\ UNCHANGED <<resolved, nameToID, toSend, lost>>
           \/ /\ m = None /\ old # None
              /\ resolved' = [resolved EXCEPT !["crd"][old] = None]
              /\ nameToID' = [nameToID EXCEPT ![n] = None]
              /\ toSend' = toSend \cup {"crd"}
              /\ UNCHANGED lost
           \/ /\ m = None /\ old = None
              /\ UNCHANGED <<resolved, nameToID, toSend, lost>>
    /\ UNCHANGED <<world, boot, watching, fsEvent, pathLast, lastHash, chan, view>>
-----------------------------------------------------------------------------
(* Subscribe and broadcast of the source registries *)

\* Run has read the source and has no channel from it yet.
InWindow(s) == chan[s] = "none" /\ (reading["run"] > Pos(s) \/ boot = "subscribe")

\* A full channel already promises a rebuild; a send never blocks.
Broadcast(s) ==
    /\ s \in toSend
    /\ toSend' = toSend \ {s}
    /\ chan' = IF chan[s] = "none" THEN chan ELSE [chan EXCEPT ![s] = "full"]
    /\ lost' = IF InWindow(s) THEN lost \cup {"window"} ELSE lost
    /\ UNCHANGED <<world, queue, boot, watching, fsEvent, registries, view>>
-----------------------------------------------------------------------------
(* MergedRegistry *)

\* Mutant: an entry is kept without the source it came from.
MergeUnlabelled(lists) ==
    [id \in Ids |->
        LET from == {s \in Sources : lists[s][id] # None}
        IN  IF from = {} THEN None
            ELSE LET s == CHOOSE s \in from : \A t \in from : Pos(s) <= Pos(t)
                 IN  lists[s][id]]

\* rebuild: per id the entry of the first source that has one.
Merge(lists) ==
    [id \in Ids |->
        LET from == {s \in Sources : lists[s][id] # None}
        IN  IF from = {} THEN None
            ELSE LET s == CHOOSE s \in from : \A t \in from : Pos(s) <= Pos(t)
                 IN  [manifest |-> lists[s][id], source |-> s]]

\* src.List() of the next source.
Read(a) ==
    /\ reading[a] \in 1 .. 3
    /\ seen' = [seen EXCEPT ![a][Order[reading[a]]] = resolved[Order[reading[a]]]]
    /\ reading' = [reading EXCEPT ![a] = @ + 1]
    /\ UNCHANGED <<world, queue, boot, watching, fsEvent, registries, toSend, chan, merged,
                   lost>>

\* The swap under m.mu; another rebuild may be under way with other lists.
Swap(a) ==
    /\ reading[a] = Last
    /\ merged' = Merge(seen[a])
    /\ reading' = [reading EXCEPT ![a] = 0]
    /\ seen' = [seen EXCEPT ![a] = [s \in Sources |-> NoList]]
    /\ lost' = IF \E b \in Actors \ {a} : reading[b] # 0
               THEN lost \cup {"overtaken"} ELSE lost
    /\ boot' = IF a = "run" THEN "subscribe" ELSE boot
    /\ UNCHANGED <<world, queue, watching, fsEvent, registries, toSend, chan>>

\* Mutant: the signal is taken off the channel when the rebuild is done, so
\* one sent meanwhile goes with it.
NoticeLate(s) ==
    \/ /\ chan[s] = "full" /\ reading[s] = 0
       /\ reading' = [reading EXCEPT ![s] = 1]
       /\ UNCHANGED chan
    \/ /\ chan[s] = "full" /\ reading[s] = Last
       /\ chan' = [chan EXCEPT ![s] = "empty"]
       /\ UNCHANGED reading

\* The goroutine of a source takes a signal and starts to rebuild.
TakeSignal(s) ==
    /\ chan[s] = "full" /\ reading[s] = 0
    /\ chan' = [chan EXCEPT ![s] = "empty"]
    /\ reading' = [reading EXCEPT ![s] = 1]

Notice(s) ==
    /\ TakeSignal(s)
    /\ UNCHANGED <<world, queue, boot, watching, fsEvent, registries, toSend, seen, merged,
                   lost>>
-----------------------------------------------------------------------------
(* NewServer: the file registry, the DB registry, the informers, the view *)

BootScan ==
    /\ boot = "scan" /\ boot' = "watch"
    /\ Scan
    /\ UNCHANGED <<world, queue, watching, fsEvent, nameToID, lastHash, toSend, chan,
                   view>>

\* NewWatcher or watcher.Add may fail, and is not tried again.
BootWatch ==
    /\ boot = "watch" /\ boot' = "poll"
    /\ watching' \in BOOLEAN
    /\ UNCHANGED <<world, queue, fsEvent, registries, toSend, chan, view, lost>>

\* Nobody has subscribed yet: the broadcast of this poll goes nowhere.  A poll
\* that fails, as any later one may, changes nothing.
BootPoll ==
    /\ boot = "poll" /\ boot' = "inform"
    /\ \/ PollSwap /\ UNCHANGED changes
       \/ Changed /\ UNCHANGED <<resolved, lastHash>>
    /\ UNCHANGED <<crs, db, files, queue, watching, fsEvent, nameToID, pathLast, toSend,
                   chan, view, lost>>

\* factory.Start: the informer lists what exists, in some order.
BootInform ==
    /\ boot = "inform" /\ boot' = "rebuild"
    /\ LET present == {n \in Names : crs[n] # None}
       IN  \E q \in [1 .. Cardinality(present) -> present] :
             /\ \A n \in present : \E i \in DOMAIN q : q[i] = n
             /\ queue' = [i \in DOMAIN q |-> [name |-> q[i], obj |-> crs[q[i]]]]
    /\ reading' = [reading EXCEPT !["run"] = 1]
    /\ UNCHANGED <<world, watching, fsEvent, registries, toSend, chan, seen, merged,
                   lost>>

\* Run subscribes to the sources one after the other.
BootSubscribe ==
    /\ boot = "subscribe"
    /\ \E s \in Sources :
         /\ chan[s] = "none" /\ \A t \in Sources : Pos(t) < Pos(s) => chan[t] # "none"
         /\ chan' = [chan EXCEPT ![s] = "empty"]
         /\ boot' = IF s = "file" THEN "done" ELSE boot
    /\ UNCHANGED <<world, queue, watching, fsEvent, registries, toSend, view, lost>>

Boot == BootScan \/ BootWatch \/ BootPoll \/ BootInform \/ BootSubscribe
-----------------------------------------------------------------------------
WorldChange ==
    \/ \E n \in Names, m \in Manifests \cup {None} : ChangeCR(n, m)
    \/ \E m \in Manifests, e \in BOOLEAN : UpsertPlugin(m, e)
    \/ \E id \in Ids : DeletePlugin(id)
    \/ \E p \in Paths, m \in Manifests \cup {None} : ChangeFile(p, m)

Rebuild(a) == Read(a) \/ Swap(a)

Next ==
    \/ WorldChange \/ Boot \/ Rescan \/ Poll \/ Deliver
    \/ \E s \in Sources : Broadcast(s) \/ Notice(s)
    \/ \E a \in Actors : Rebuild(a)

(***************************************************************************)
(* The goroutines run, the poll ticker and the debounce timer fire, not    *)
(* every poll fails and the informer delivers; nothing obliges anyone to   *)
(* change a source, or a scan or the watcher to succeed.                   *)
(***************************************************************************)
Fairness ==
    /\ WF_vars(Boot) /\ WF_vars(Rescan) /\ WF_vars(Poll) /\ WF_vars(Deliver)
    /\ \A s \in Sources : WF_vars(Broadcast(s)) /\ WF_vars(Notice(s))
    /\ \A a \in Actors : WF_vars(Rebuild(a))

Spec == Init /\ [][Next]_vars
FairSpec == Spec /\ Fairness
-----------------------------------------------------------------------------
RebuildPending ==
    \/ boot \notin {"subscribe", "done"}
    \/ \E s \in Sources : s \in toSend \/ chan[s] = "full" \/ reading[s] # 0

(***************************************************************************)
(* The view is the merge of what the sources have resolved, or a rebuild   *)
(* that will see it is still to come: no signal is lost in a full channel  *)
(* or while a rebuild runs (MergedRegistry.Run, rebuild, broadcast).  The  *)
(* two cases in which the code does lose one are excluded by name: a       *)
(* signal sent between Run's own rebuild and its Subscribe, and a rebuild  *)
(* that swaps in its lists while another one is under way.                 *)
(***************************************************************************)
ViewFollowsSources ==
    lost \cap {"window", "overtaken"} = {} =>
        merged = Merge(resolved) \/ RebuildPending

(***************************************************************************)
(* Whatever resources, rows and files hold, what is served under an id is  *)
(* a manifest that ParseManifest accepts and that has this id: no source   *)
(* lets one through, also not a row an older version wrote, and no rebuild *)
(* confuses the ids (scan, poll, upsert, rebuild).                         *)
(***************************************************************************)
OnlyValidIsServed ==
    \A id \in Ids : merged[id] # None =>
        Valid(merged[id].manifest) /\ ID(merged[id].manifest) = id

\* The plugin a reader of the three sources expects under an id.
Expected(id) ==
    LET cr == {n \in Names : crs[n] # None /\ ID(crs[n]) = id}
        row == {r \in Rows : r.id = id}
        file == {p \in Paths : files[p] # None /\ ID(files[p]) = id}
    IN  IF cr # {} THEN {[manifest |-> crs[n], source |-> "crd"] : n \in cr}
        ELSE IF row # {} THEN {[manifest |-> r.yaml, source |-> "db"] : r \in row}
        ELSE IF file # {} THEN {[manifest |-> files[p], source |-> "file"] : p \in file}
        ELSE {None}

HoldsInvalid ==
    \/ \E n \in Names : crs[n] # None /\ ~ Valid(crs[n])
    \/ \E r \in Rows : ~ Valid(r.yaml)
    \/ \E p \in Paths : files[p] # None /\ ~ Valid(files[p])

(***************************************************************************)
(* When the sources stop changing, the view becomes what they hold, with   *)
(* resources before rows before files, and stays so.  Manifests that do    *)
(* not parse are served in their last valid form instead, and the          *)
(* excluded cases are the six entries of lost: besides the two above a     *)
(* file changed while nothing watches the directory (before watcher.Add,   *)
(* or after it failed), a directory or file the last scan could not read,  *)
(* a row deleted and created again between two polls (equal ids and        *)
(* revisions), and resources that share or change their spec.id.  A later  *)
(* scan that reads everything makes up for the two cases of files.         *)
(***************************************************************************)
ViewSettles ==
    <>[](lost = {}) =>
        <>[](HoldsInvalid \/ \A id \in Ids : merged[id] \in Expected(id))
=============================================================================
