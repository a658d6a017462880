------------------------------ MODULE ModelSync ------------------------------
(***************************************************************************)
(* The models of several instances that share a database and a Redis       *)
(* channel: the administration of models and deployments                   *)
(* (internal/api/admin/models.go, deployments.go, provider_accounts.go),   *)
(* the rows (internal/db/models.go), each instance's registry, its start   *)
(* and the reload that an invalidation message triggers                    *)
(* (internal/app/app.go).                                                  *)
(*                                                                         *)
(* A handler validates its request, writes the database, changes the       *)
(* registry of its own instance and publishes, and anything may happen     *)
(* between these.  A reload lists the rows at once but reads the           *)
(* deployments of each model, and adds it, on its own.                     *)
(***************************************************************************)
EXTENDS Naturals, FiniteSets, Sequences

CONSTANTS
    Names,            \* canonical names and aliases share one namespace
    None,             \* no name, no entry, no row
    Instances, Callers,
    At,               \* At[w]: the instances caller w sends its requests to
    MaxRows,          \* bound: rows ever created; ids are time-ordered
    Contents,         \* what stands for all fields the properties do not tell apart
    Deployments,
    Creates,          \* bound: the create requests that are sent
    Updates,          \* bound: the update requests; Keep where a field is absent
    Imports,          \* bound: the sets of names a provider may list
    Imported,         \* the content of an imported model
    Keep, Gone,
    Yaml,             \* Yaml[n]: content, aliases, fallback and deployments of model n of the file
    FallbackAt,       \* the instances at which fallbacks are administered
    MaxReloads,       \* bound: subscribers that reload at the same time
    MaxEvents         \* bound: admin requests, lost messages, failed calls,
                      \* restarts and changes of the licence, all together

VARIABLES
    rows,             \* the models table, soft-deleted rows included
    registry,         \* by instance
    task,             \* what each handler, and each instance's subscriber, is doing
    channel,          \* by instance: undelivered "reload" messages
    mutex,            \* by instance: the holder of fallbackMu
    up,               \* the instances that are subscribed and serve
    licensed,         \* by instance: the licence has fallback chains
    missed,           \* history, by instance: a change was not announced to it
                      \* since it last listed the rows
    events            \* how many of these have happened

vars == <<rows, registry, task, channel, mutex, up, licensed, missed, events>>

-----------------------------------------------------------------------------
(***************************************************************************)
(* The registry of one instance (internal/proxy/registry.go): the served   *)
(* models by canonical name, and the alias map.  Every operator is what    *)
(* one method does under the registry's lock.  Both maps are total here,   *)
(* with None where the code's map has no entry.                            *)
(***************************************************************************)
Entry(content, deployments, aliases, fallback) ==
    [content     |-> content,      \* the fields copied as they are
     deployments |-> deployments,
     aliases     |-> aliases,
     fallback    |-> fallback]

EmptyRegistry == [models |-> [n \in Names |-> None], aliases |-> [n \in Names |-> None]]

AliasesOf(r, n) == IF r.models[n] = None THEN {} ELSE r.models[n].aliases

\* Mutant of WithoutAliasesOf: the aliases of a replaced or removed model stay.
KeepsAliasesOf(r, n) == r.aliases

\* The alias map after "for alias in old.Aliases: delete(r.aliases, alias)".
WithoutAliasesOf(r, n) ==
    [a \in Names |-> IF a \in AliasesOf(r, n) THEN None ELSE r.aliases[a]]

AddModel(r, n, entry) ==
    [models  |-> [r.models EXCEPT ![n] = entry],
     aliases |-> [a \in Names |-> IF a \in entry.aliases
                                  THEN n ELSE WithoutAliasesOf(r, n)[a]]]

RemoveModel(r, n) ==
    [models  |-> [r.models EXCEPT ![n] = None],
     aliases |-> WithoutAliasesOf(r, n)]

StripAllFallbacks(r) ==
    [r EXCEPT !.models =
        [n \in Names |-> IF r.models[n] = None THEN None
                         ELSE [r.models[n] EXCEPT !.fallback = None]]]

\* A canonical name wins over an alias.
Resolve(r, n) == IF r.models[n] # None THEN n ELSE r.aliases[n]
-----------------------------------------------------------------------------
Ids     == 1..MaxRows
Workers == Callers \cup Instances
Idle    == [step |-> "idle"]

\* The fields of a request, of a model of the file, of what a registry holds and of
\* a row.
Creations == [name: Names, content: Contents, aliases: SUBSET Names, fallback: Names \cup {None}]
Patches   == [name: Names \cup {Keep}, content: Contents \cup {Keep},
              aliases: (SUBSET Names) \cup {Keep}, fallback: Names \cup {None, Keep}]
Models    == [content: Contents, aliases: SUBSET Names, fallback: Names \cup {None},
              deployments: [Deployments -> Contents \cup {None}]]
Entries   == [content: Contents, deployments: SUBSET (Deployments \X Contents),
              aliases: SUBSET Names, fallback: Names \cup {None}]

Rows      == [name: Names, content: Contents, aliases: SUBSET Names, fallback: Ids \cup {None},
              deployments: [Deployments -> Contents \cup {None, Gone}],
              active: BOOLEAN, deleted: BOOLEAN, source: {"api", "yaml", "provider_account"}]

ASSUME SyncAssumption ==
    /\ MaxRows \in Nat /\ MaxEvents \in Nat /\ Instances \cap Callers = {}
    /\ DOMAIN Yaml \subseteq Names /\ \A n \in DOMAIN Yaml : Yaml[n] \in Models
    /\ Imported \in Contents /\ Imports \subseteq SUBSET Names
    /\ Creates \subseteq Creations /\ Updates \subseteq Patches
    /\ {None, Keep} \cap Ids = {} /\ None \notin Entries \cup Rows \cup Callers

-----------------------------------------------------------------------------
(* The models table. *)

Row(name, content, aliases, fallback, source) ==
    [name |-> name, content |-> content, aliases |-> aliases, fallback |-> fallback,
     deployments |-> [d \in Deployments |-> None],
     active |-> TRUE, deleted |-> FALSE, source |-> source]

Live(id) == rows[id] # None /\ ~rows[id].deleted
ActiveIds == {id \in Ids : Live(id) /\ rows[id].active}
\* The UNIQUE constraint on the name counts soft-deleted rows.
Taken(n, id) == \E k \in Ids \ {id} : rows[k] # None /\ rows[k].name = n
LiveNamed(n) == {id \in Ids : Live(id) /\ rows[id].name = n}
FreeIds == {id \in Ids : rows[id] = None /\ \A k \in 1..(id - 1) : rows[k] # None}

\* A deployment is None until it is created and Gone once it is deleted; its
\* name stays taken.
Served(row) == {<<d, row.deployments[d]>> : d \in {e \in Deployments : row.deployments[e] \in Contents}}

\* resolveFallbackName: any undeleted model, active or not.
FallbackName(id) == IF id = None THEN None
                    ELSE IF Live(id) THEN rows[id].name ELSE None

\* checkFallbackCycle walks the fallbacks of undeleted models, at most this far.
FallbackCycleMaxSteps == 20

NextFallback(id) == IF id # None /\ Live(id) THEN rows[id].fallback ELSE None

FallbackChain(target) ==
    LET walk[k \in 0..FallbackCycleMaxSteps] ==
            IF k = 0 THEN target ELSE NextFallback(walk[k - 1])
    IN walk

FormsCycle(source, target) ==
    \E k \in 0..FallbackCycleMaxSteps : FallbackChain(target)[k] = source

\* validateAndJoinAliases at instance i for a model named exclude.
AliasesFree(i, aliases, exclude) ==
    \A a \in aliases : /\ Resolve(registry[i], a) \in {None, exclude}
                       /\ LiveNamed(a) # {} => a = exclude

\* dbModelToProxy: a handler's entry has no deployments.
HandlerEntry(row, fallbackName) == Entry(row.content, {}, row.aliases, fallbackName)

-----------------------------------------------------------------------------
(* Steps that all handlers share.  A task that has written the database    *)
(* carries the registry changes it still has to make; the entry None       *)
(* stands for a removal.                                                   *)

Become(w, t) == task' = [task EXCEPT ![w] = t]

Finish(w) ==
    /\ Become(w, Idle)
    /\ mutex' = [i \in Instances |-> IF mutex[i] = w THEN None ELSE mutex[i]]

Event == events < MaxEvents /\ events' = events + 1

Begin(w, i) ==
    /\ w \in Callers /\ task[w] = Idle /\ i \in up \cap At[w]
    /\ Event
    /\ UNCHANGED <<rows, registry, channel, mutex, up, licensed, missed>>

\* Some instances are not told of what changed.
Unannounced(is) == missed' = [i \in Instances |-> missed[i] \/ i \in is]

Changed(r, change) ==
    IF change.entry = None THEN RemoveModel(r, change.name)
    ELSE AddModel(r, change.name, change.entry)

\* The next registry call of a handler; then it publishes, or an import goes
\* on with the next model.
ChangeRegistry(w) ==
    LET t == task[w] IN
    /\ t.step = "registry"
    /\ registry' = [registry EXCEPT ![t.on] = Changed(@, Head(t.changes))]
    /\ Become(w, IF Len(t.changes) > 1 THEN [t EXCEPT !.changes = Tail(@)]
                 ELSE [t EXCEPT !.step = IF t.op = "import" THEN "import" ELSE "publish"])
    /\ UNCHANGED <<rows, channel, mutex, up, licensed, missed, events>>

\* The stored key cannot be written or decrypted: create and activate return
\* an error, update goes on to publish.
KeyFails(w) ==
    LET t == task[w] IN
    /\ t.step = "registry" /\ Head(t.changes).entry # None /\ Event
    /\ \/ /\ t.op \in {"create", "activate"}
          /\ Finish(w) /\ Unannounced(Instances)
       \/ /\ t.op = "update"
          /\ Become(w, [t EXCEPT !.step = "publish"])
          /\ UNCHANGED <<mutex, missed>>
    /\ UNCHANGED <<rows, registry, channel, up, licensed>>

\* Mutant of Publish: the instance does not listen to what it published itself.
PublishToOthers(w) ==
    /\ task[w].step = "publish"
    /\ channel' = [i \in Instances |-> IF i \in up \ {task[w].on} THEN channel[i] + 1 ELSE channel[i]]
    /\ Unannounced(Instances \ up)
    /\ Finish(w)
    /\ UNCHANGED <<rows, registry, up, licensed, events>>

\* PublishInvalidation reaches the instances that are subscribed.
Publish(w) ==
    /\ task[w].step = "publish"
    /\ channel' = [i \in Instances |-> IF i \in up THEN channel[i] + 1 ELSE channel[i]]
    /\ Unannounced(Instances \ up)
    /\ Finish(w)
    /\ UNCHANGED <<rows, registry, up, licensed, events>>

PublishFails(w) ==
    /\ task[w].step = "publish" /\ Event
    /\ Unannounced(Instances)
    /\ Finish(w)
    /\ UNCHANGED <<rows, registry, channel, up, licensed>>

-----------------------------------------------------------------------------
(* CreateModel and UpdateModel. *)

\* A request that names a fallback needs the licence and an undeleted target.
FallbackAllowed(i, n) == i \in FallbackAt /\ licensed[i] /\ LiveNamed(n) # {}

BeginCreate(w) ==
    \E i \in Instances, req \in Creates, target \in Ids \cup {None} :
        /\ Begin(w, i)
        /\ AliasesFree(i, req.aliases, None)
        /\ IF req.fallback = None THEN target = None
           ELSE FallbackAllowed(i, req.fallback) /\ target \in LiveNamed(req.fallback)
        /\ Become(w, [step |-> IF target = None THEN "insert" ELSE "lock", on |-> i,
                      op |-> "create", req |-> req, target |-> target])

BeginUpdate(w) ==
    \E i \in Instances, id \in Ids, req \in Updates, target \in Ids \cup {None, Keep} :
        /\ Begin(w, i) /\ Live(id)
        /\ req.aliases # Keep => AliasesFree(i, req.aliases, rows[id].name)
        /\ IF req.fallback \in {None, Keep} THEN target = req.fallback
           ELSE /\ FallbackAllowed(i, req.fallback)
                /\ target \in LiveNamed(req.fallback) \ {id}
        /\ Become(w, [step |-> IF target \in Ids THEN "lock" ELSE "update", on |-> i,
                      op |-> "update", req |-> req, target |-> target, id |-> id,
                      old |-> rows[id].name,
                      fallbackName |-> IF req.fallback = Keep THEN FallbackName(rows[id].fallback)
                                       ELSE req.fallback])

\* Mutant of LockFree: the mutex is not taken into account.
LockIgnored(i) == TRUE
LockFree(i) == mutex[i] = None

\* fallbackMu is held until the handler returns.
LockAndCheck(w) ==
    LET t == task[w] IN
    /\ t.step = "lock" /\ LockFree(t.on)
    /\ IF t.op = "update" /\ FormsCycle(t.id, t.target)
       THEN Become(w, Idle) /\ UNCHANGED mutex
       ELSE /\ Become(w, [t EXCEPT !.step = IF t.op = "create" THEN "insert" ELSE "update"])
            /\ mutex' = [mutex EXCEPT ![t.on] = w]
    /\ UNCHANGED <<rows, registry, channel, up, licensed, missed, events>>

Insert(w) ==
    LET t == task[w] IN
    /\ t.step = "insert"
    /\ IF Taken(t.req.name, 0) THEN Finish(w) /\ UNCHANGED rows
       ELSE \E id \in FreeIds :
              LET row == Row(t.req.name, t.req.content, t.req.aliases, t.target, "api") IN
              /\ rows' = [rows EXCEPT ![id] = row]
              /\ Become(w, [step |-> "registry", on |-> t.on, op |-> "create", changes |->
                     <<[name |-> row.name, entry |-> HandlerEntry(row, t.req.fallback)]>>])
              /\ UNCHANGED mutex
    /\ UNCHANGED <<registry, channel, up, licensed, missed, events>>

Written(row, req, target) ==
    [row EXCEPT !.name     = IF req.name = Keep THEN @ ELSE req.name,
                !.content  = IF req.content = Keep THEN @ ELSE req.content,
                !.aliases  = IF req.aliases = Keep THEN @ ELSE req.aliases,
                !.fallback = IF target = Keep THEN @ ELSE target]

\* What UpdateModel does to the registry for a row that was named old.
Refresh(old, row, fallbackName) ==
    LET removal == [name |-> old, entry |-> None] IN
    IF ~row.active THEN <<removal>>
    ELSE (IF row.name # old THEN <<removal>> ELSE <<>>)
         \o <<[name |-> row.name, entry |-> HandlerEntry(row, fallbackName)]>>

Update(w) ==
    LET t == task[w] IN
    /\ t.step = "update"
    /\ IF ~Live(t.id) \/ Taken(t.req.name, t.id) THEN Finish(w) /\ UNCHANGED rows
       ELSE LET row == Written(rows[t.id], t.req, t.target) IN
            /\ rows' = [rows EXCEPT ![t.id] = row]
            /\ Become(w, [step |-> "registry", on |-> t.on, op |-> "update",
                          changes |-> Refresh(t.old, row, t.fallbackName)])
            /\ UNCHANGED mutex
    /\ UNCHANGED <<registry, channel, up, licensed, missed, events>>

-----------------------------------------------------------------------------
(* DeleteModel, DeactivateModel and ActivateModel. *)

Deleted(row)     == [row EXCEPT !.deleted = TRUE]
Deactivated(row) == [row EXCEPT !.active = FALSE]
Activated(row)   == [row EXCEPT !.active = TRUE]

BeginRemove(w, op) ==
    \E i \in Instances, id \in Ids :
        /\ Begin(w, i) /\ Live(id)
        /\ Become(w, [step |-> "remove", on |-> i, op |-> op, id |-> id,
                      old |-> rows[id].name])

BeginDelete(w) == BeginRemove(w, "delete")
BeginDeactivate(w) == BeginRemove(w, "deactivate")

Remove(w) ==
    LET t == task[w] IN
    /\ t.step = "remove"
    /\ IF ~Live(t.id) THEN Finish(w) /\ UNCHANGED rows
       ELSE /\ rows' = [rows EXCEPT ![t.id] =
                           IF t.op = "delete" THEN Deleted(@) ELSE Deactivated(@)]
            /\ Become(w, [step |-> "registry", on |-> t.on, op |-> t.op,
                          changes |-> <<[name |-> t.old, entry |-> None]>>])
            /\ UNCHANGED mutex
    /\ UNCHANGED <<registry, channel, up, licensed, missed, events>>

Activate(w) ==
    \E i \in Instances, id \in Ids :
        /\ w \in Callers /\ task[w] = Idle /\ i \in up \cap At[w]
        /\ Live(id)
        /\ Event
        /\ rows' = [rows EXCEPT ![id] = Activated(@)]
        /\ Become(w, [step |-> "activated", on |-> i, id |-> id])
        /\ UNCHANGED <<registry, channel, mutex, up, licensed, missed>>

\* The row is read again; a model deleted meanwhile ends the request.
AfterActivate(w) ==
    LET t == task[w] IN
    /\ t.step = "activated"
    /\ Become(w, IF ~Live(t.id) THEN Idle
                 ELSE [step |-> "registry", on |-> t.on, op |-> "activate", changes |->
                       <<[name  |-> rows[t.id].name,
                          entry |-> HandlerEntry(rows[t.id], FallbackName(rows[t.id].fallback))]>>])
    /\ UNCHANGED <<rows, registry, channel, mutex, up, licensed, missed, events>>

-----------------------------------------------------------------------------
(* A reload, by the subscriber of an instance, by a handler or by the start *)
(* of an instance (loadModelsIntoRegistry).                                 *)

Listing(w, i) ==
    /\ Become(w, [step |-> "reload", on |-> i, left |-> ActiveIds,
                  listed |-> [id \in ActiveIds |-> rows[id]]])
    /\ missed' = [missed EXCEPT ![i] = FALSE]

List(w) ==
    /\ task[w].step = "list"
    /\ Listing(w, task[w].on)
    /\ UNCHANGED <<rows, registry, channel, mutex, up, licensed, events>>

\* The name of a fallback is known only when the target is listed too.
ListedEntry(listed, id) ==
    Entry(listed[id].content, Served(rows[id]), listed[id].aliases,
          IF listed[id].fallback \in DOMAIN listed THEN listed[listed[id].fallback].name ELSE None)

AddNext(w) ==
    LET t == task[w] IN
    /\ t.step = "reload" /\ t.left # {}
    /\ \E id \in t.left :
          /\ \A k \in t.left : id <= k
          /\ registry' = [registry EXCEPT ![t.on] =
                             AddModel(@, t.listed[id].name, ListedEntry(t.listed, id))]
          /\ Become(w, [t EXCEPT !.left = @ \ {id}])
    /\ UNCHANGED <<rows, channel, mutex, up, licensed, missed, events>>

AfterReload(w, i) ==
    Become(w, CASE w \in Callers -> [step |-> "publish", on |-> i]
                [] w \in up      -> Idle
                [] OTHER         -> [step |-> "start", on |-> i])

\* gateFallback
Gate(w) ==
    LET t == task[w] IN
    /\ t.step = "reload" /\ t.left = {}
    /\ registry' = IF licensed[t.on] THEN registry
                   ELSE [registry EXCEPT ![t.on] = StripAllFallbacks(@)]
    /\ AfterReload(w, t.on)
    /\ UNCHANGED <<rows, channel, mutex, up, licensed, missed, events>>

\* The process does not come up.
Fails(i) == Become(i, [step |-> "down", on |-> i])

\* A query fails: the rest of the models is not loaded and nothing is gated.  At
\* a start this is fatal.
ReloadFails(w) ==
    LET t == task[w] IN
    /\ t.step \in {"list", "reload"} /\ Event
    /\ IF w \in Instances \ up THEN Fails(w)
       ELSE AfterReload(w, t.on)
    /\ Unannounced({t.on})
    /\ UNCHANGED <<rows, registry, channel, mutex, up, licensed>>

\* A handler that changes a deployment reloads the registry of its own instance
\* before it publishes.
WriteDeployment(w, id, d, c) ==
    \E i \in Instances :
        /\ w \in Callers /\ task[w] = Idle /\ i \in up \cap At[w]
        /\ Event
        /\ rows' = [rows EXCEPT ![id].deployments[d] = c]
        /\ Become(w, [step |-> "list", on |-> i])
        /\ UNCHANGED <<registry, channel, mutex, up, licensed, missed>>

\* The name of a soft-deleted deployment is taken.
CreateDeployment(w) ==
    \E id \in Ids, d \in Deployments, c \in Contents :
        /\ Live(id) /\ rows[id].deployments[d] = None
        /\ WriteDeployment(w, id, d, c)

UpdateDeployment(w) ==
    \E id \in Ids, d \in Deployments, c \in Contents :
        /\ Live(id) /\ rows[id].deployments[d] \in Contents \ {c}
        /\ WriteDeployment(w, id, d, c)

DeleteDeployment(w) ==
    \E id \in Ids, d \in Deployments :
        /\ Live(id) /\ rows[id].deployments[d] \in Contents
        /\ WriteDeployment(w, id, d, Gone)

\* SetLicense
SetLicense(w) ==
    \E i \in Instances :
        /\ w \in Callers /\ task[w] = Idle /\ i \in up \cap At[w]
        /\ Event
        /\ licensed' = [licensed EXCEPT ![i] = ~@]
        /\ Become(w, [step |-> "list", on |-> i])
        /\ UNCHANGED <<rows, registry, channel, mutex, up, missed>>

\* The licence lapses, or the heartbeat refreshes it; nothing is reloaded.
Heartbeat(i) ==
    /\ i \in up /\ Event
    /\ licensed' = [licensed EXCEPT ![i] = ~@]
    /\ Unannounced({i})
    /\ UNCHANGED <<rows, registry, task, channel, mutex, up>>

-----------------------------------------------------------------------------
(* The import of the models a provider account lists. *)

BeginImport(w) ==
    \E i \in Instances, names \in Imports :
        /\ Begin(w, i)
        /\ Become(w, [step |-> "import", on |-> i, left |-> names])

\* upsertImportedModel: an existing row keeps its aliases, its fallback and its
\* activity, and is added to the registry whether it is active or not.
ImportOne(w) ==
    LET t == task[w] IN
    \E n \in IF t.step = "import" THEN t.left ELSE {} :
        LET Goes(id, row) ==
              /\ rows' = [rows EXCEPT ![id] = row]
              /\ Become(w, [step |-> "registry", on |-> t.on, op |-> "import",
                            left |-> t.left \ {n}, changes |->
                     <<[name |-> n, entry |-> HandlerEntry(row, FallbackName(row.fallback))]>>])
        IN
        /\ \/ \E id \in LiveNamed(n) : Goes(id, [rows[id] EXCEPT !.content = Imported])
           \/ /\ ~Taken(n, 0)
              /\ \E id \in FreeIds : Goes(id, Row(n, Imported, {}, None, "provider_account"))
           \/ /\ Taken(n, 0) /\ LiveNamed(n) = {}
              /\ Become(w, [t EXCEPT !.left = @ \ {n}]) /\ UNCHANGED rows
        /\ UNCHANGED <<registry, channel, mutex, up, licensed, missed, events>>

ImportEnds(w) ==
    LET t == task[w] IN
    /\ t.step = "import" /\ t.left = {}
    /\ Become(w, [step |-> "publish", on |-> t.on])
    /\ UNCHANGED <<rows, registry, channel, mutex, up, licensed, missed, events>>

-----------------------------------------------------------------------------
(* The channel, and the life of an instance. *)

\* SubscribeInvalidations handles one message at a time.
Receive(i) ==
    /\ i \in up /\ task[i] = Idle /\ channel[i] > 0
    /\ Cardinality({j \in up : task[j] # Idle}) < MaxReloads
    /\ channel' = [channel EXCEPT ![i] = @ - 1]
    /\ Listing(i, i)
    /\ UNCHANGED <<rows, registry, mutex, up, licensed, events>>

\* Redis delivers at most once; a subscriber that reconnects misses messages.
Lose(i) ==
    /\ channel[i] > 0 /\ Event
    /\ channel' = [channel EXCEPT ![i] = @ - 1]
    /\ Unannounced({i})
    /\ UNCHANGED <<rows, registry, task, mutex, up, licensed>>

\* The process ends, its handlers with it, and starts again.
Restart(i) ==
    LET killed == {w \in Callers : task[w] # Idle /\ task[w].on = i} IN
    /\ task[i].step \in {"idle", "list", "reload", "down"} /\ Event
    /\ task' = [w \in Workers |-> CASE w = i -> [step |-> "sync", on |-> i, left |-> DOMAIN Yaml]
                                    [] w \in killed -> Idle
                                    [] OTHER -> task[w]]
    /\ mutex' = [mutex EXCEPT ![i] = None]
    /\ up' = up \ {i}
    /\ channel' = [channel EXCEPT ![i] = 0]
    /\ \E has \in BOOLEAN : licensed' = [licensed EXCEPT ![i] = has]
    /\ Unannounced(IF killed = {} THEN {} ELSE Instances)
    /\ UNCHANGED <<rows, registry>>

YamlRow(n) == [Row(n, Yaml[n].content, Yaml[n].aliases, None, "yaml")
                  EXCEPT !.deployments = Yaml[n].deployments]

\* A row that came from the file gets the file's values; its activity and its
\* fallback stay.
SyncedRow(row, n) == [row EXCEPT !.content = Yaml[n].content, !.aliases = Yaml[n].aliases]

\* syncYAMLDeployments: the deployments of the file are created or updated, the
\* others are deleted.
SyncedDeployments(old, n) ==
    [d \in Deployments |-> IF Yaml[n].deployments[d] # None THEN Yaml[n].deployments[d]
                           ELSE IF old[d] = None THEN None ELSE Gone]

\* The name of a soft-deleted deployment cannot be created again.
Blocked(old, n) == \E d \in Deployments : Yaml[n].deployments[d] # None /\ old[d] = Gone

\* SyncYAMLModels, one model: a model that is not found is created, one that
\* came from the file is overwritten, another is left alone.  The name of a
\* soft-deleted model is taken, and the start fails.
SyncOne(i) ==
    LET t == task[i] IN
    \E n \in IF t.step = "sync" THEN t.left ELSE {} :
        LET Synced == Become(i, [t EXCEPT !.left = @ \ {n}])
            Overwrite(id) ==
                LET row == SyncedRow(rows[id], n) IN
                /\ Unannounced(Instances)
                /\ IF Blocked(row.deployments, n)
                   THEN rows' = [rows EXCEPT ![id] = row] /\ Fails(i)
                   ELSE /\ rows' = [rows EXCEPT ![id] = [row EXCEPT
                                       !.deployments = SyncedDeployments(@, n)]]
                        /\ Synced
        IN
        /\ \/ /\ Taken(n, 0) /\ LiveNamed(n) = {}
              /\ Fails(i) /\ UNCHANGED <<rows, missed>>
           \/ /\ ~Taken(n, 0)
              /\ \E id \in FreeIds : rows' = [rows EXCEPT ![id] = YamlRow(n)]
              /\ Synced /\ Unannounced(Instances)
           \/ \E id \in LiveNamed(n) :
              IF rows[id].source = "yaml" THEN Overwrite(id)
              ELSE Synced /\ UNCHANGED <<rows, missed>>
        /\ UNCHANGED <<registry, channel, mutex, up, licensed, events>>

\* NewRegistry: the models of the file with their aliases and fallbacks.
FromYaml ==
    [models  |-> [n \in Names |-> IF n \in DOMAIN Yaml
                     THEN Entry(Yaml[n].content, Served(YamlRow(n)), Yaml[n].aliases, Yaml[n].fallback)
                     ELSE None],
     aliases |-> [a \in Names |-> IF \E n \in DOMAIN Yaml : a \in Yaml[n].aliases
                     THEN CHOOSE n \in DOMAIN Yaml : a \in Yaml[n].aliases ELSE None]]

NewRegistry(i) ==
    /\ task[i].step = "sync" /\ task[i].left = {}
    /\ registry' = [registry EXCEPT ![i] = FromYaml]
    /\ Become(i, [step |-> "list", on |-> i])
    /\ UNCHANGED <<rows, channel, mutex, up, licensed, missed, events>>

\* What is published before the subscription is lost to the instance.
Subscribe(i) ==
    /\ task[i].step = "start"
    /\ up' = up \cup {i}
    /\ Become(i, Idle)
    /\ UNCHANGED <<rows, registry, channel, mutex, licensed, missed, events>>

-----------------------------------------------------------------------------

\* Two starts on an empty database have created the models of the file, in its
\* order, and each instance has loaded them: what the file says of fallbacks is
\* not stored, so the load has overwritten it.
Init ==
    /\ \E order \in [1..Cardinality(DOMAIN Yaml) -> DOMAIN Yaml] :
          /\ \A j, k \in DOMAIN order : order[j] = order[k] => j = k
          /\ rows = [id \in Ids |-> IF id \in DOMAIN order THEN YamlRow(order[id]) ELSE None]
    /\ registry = [i \in Instances |-> StripAllFallbacks(FromYaml)]
    /\ task = [w \in Workers |-> Idle]
    /\ channel = [i \in Instances |-> 0]
    /\ mutex = [i \in Instances |-> None]
    /\ up = Instances
    /\ licensed = [i \in Instances |-> TRUE]
    /\ missed = [i \in Instances |-> FALSE]
    /\ events = 0

Administer(w) ==
    /\ task[w] = Idle /\ events < MaxEvents
    /\ \/ BeginCreate(w) \/ BeginUpdate(w) \/ BeginDelete(w) \/ BeginDeactivate(w)
       \/ Activate(w) \/ CreateDeployment(w) \/ UpdateDeployment(w) \/ DeleteDeployment(w)
       \/ SetLicense(w) \/ BeginImport(w)

Continue(w) ==
    \/ LockAndCheck(w) \/ Insert(w) \/ Update(w) \/ Remove(w) \/ AfterActivate(w)
    \/ ImportOne(w) \/ ImportEnds(w) \/ ChangeRegistry(w) \/ KeyFails(w)
    \/ Publish(w) \/ PublishFails(w)

Reload(w) == List(w) \/ AddNext(w) \/ Gate(w) \/ ReloadFails(w)

Run(i) ==
    \/ Receive(i) \/ Lose(i) \/ Heartbeat(i)
    \/ Restart(i) \/ SyncOne(i) \/ NewRegistry(i) \/ Subscribe(i)

Next ==
    \/ \E w \in Callers : Administer(w) \/ Continue(w)
    \/ \E w \in Workers : Reload(w)
    \/ \E i \in Instances : Run(i)

Spec == Init /\ [][Next]_vars

-----------------------------------------------------------------------------

\* An alias in the map of a registry belongs to a model that is registered and
\* lists it.  Resolve dereferences the model of an alias without a check
\* (registry.go:294), so an alias that outlives its model is a nil pointer in
\* every request that names it.
AliasesOwned ==
    \A i \in Instances : \A a \in Names :
        LET owner == registry[i].aliases[a] IN
        owner # None => owner \in Names /\ a \in AliasesOf(registry[i], owner)

\* Every change is announced and every announcement has been acted on.
Settled(i) ==
    /\ i \in up /\ task[i] = Idle /\ channel[i] = 0 /\ ~missed[i]
    /\ \A w \in Callers : task[w].step \notin
           {"activated", "registry", "import", "list", "reload", "publish"}

\* What an instance should serve for an active row.
ExpectedEntry(i, id) ==
    LET row == rows[id] IN
    Entry(row.content, Served(row), row.aliases,
          IF licensed[i] /\ row.fallback \in ActiveIds THEN rows[row.fallback].name ELSE None)

\* Whatever handlers, reloads and starts were interleaved: when all changes have
\* been announced to an instance and it has handled the announcements, it serves
\* every active model as the database has it now, with its deployments, and a
\* fallback only under a licence.  A handler that changes its registry after
\* another one wrote the row, or a reload that read before, leaves a stale entry
\* that only the message still in flight repairs.
QuietMeansCurrent ==
    \A i \in Instances : Settled(i) =>
        \A id \in ActiveIds : registry[i].models[rows[id].name] = ExpectedEntry(i, id)

\* Fallbacks administered through one process never form a cycle, although each
\* handler checks the chain some time before it writes the row.
FallbacksAcyclic ==
    ~ \E loop \in (SUBSET Ids) \ {{}} : \A id \in loop : Live(id) /\ rows[id].fallback \in loop
=============================================================================
