-------------------------- MODULE ModelSync_proofs --------------------------
(***************************************************************************)
(* Proofs about ModelSync, for any number of instances, handlers, models,  *)
(* aliases and rows, and any file: the types, the owners of the aliases,   *)
(* that an instance that has handled every announcement serves what the    *)
(* database holds, and that the fallbacks form no cycle.                   *)
(***************************************************************************)
EXTENDS ModelSync, SequenceTheorems, FiniteSetTheorems, WellFoundedInduction, TLAPS

Lists == UNION {[ids -> Rows] : ids \in SUBSET Ids}
Registries == [models: [Names -> Entries \cup {None}], aliases: [Names -> Names \cup {None}]]
Changes == Seq([name: Names, entry: Entries \cup {None}]) \ {<<>>}

\* The tasks of a handler, by step.
CreateTasks == [step: {"insert", "lock"}, on: Instances, op: {"create"}, req: Creations,
                target: Ids \cup {None}]
UpdateTasks == [step: {"update", "lock"}, on: Instances, op: {"update"}, req: Patches,
                target: Ids \cup {None, Keep}, id: Ids, old: Names,
                fallbackName: Names \cup {None}]
RemoveTasks == [step: {"remove"}, on: Instances, op: {"delete", "deactivate"}, id: Ids, old: Names]
ActiveTasks == [step: {"activated"}, on: Instances, id: Ids]
WriteTasks  == [step: {"registry", "publish"}, on: Instances,
                op: {"create", "update", "delete", "deactivate", "activate"}, changes: Changes]
AddTasks    == [step: {"registry", "import"}, on: Instances, op: {"import"},
                left: SUBSET Names, changes: Changes]
ImportTasks == [step: {"import"}, on: Instances, left: SUBSET Names]
TellTasks   == [step: {"list", "publish"}, on: Instances]
\* The rows that a reload has still to add are rows that it listed.
ReloadTasks(is) == {t \in [step: {"reload"}, on: is, left: SUBSET Ids, listed: Lists] :
                       t.left \subseteq DOMAIN t.listed}

CallerTasks == {Idle} \cup CreateTasks \cup UpdateTasks \cup RemoveTasks \cup ActiveTasks
               \cup WriteTasks \cup AddTasks \cup ImportTasks \cup TellTasks
               \cup ReloadTasks(Instances)
\* An instance works on its own registry.
InstanceTasks(i) == {Idle} \cup [step: {"list", "start", "down"}, on: {i}]
                    \cup [step: {"sync"}, on: {i}, left: SUBSET DOMAIN Yaml] \cup ReloadTasks({i})

RowsOK     == rows \in [Ids -> Rows \cup {None}]
RegistryOK == registry \in [Instances -> Registries]
TasksOK    == /\ DOMAIN task = Workers /\ task = [w \in Workers |-> task[w]]
              /\ \A w \in Callers : task[w] \in CallerTasks
              /\ \A i \in Instances : task[i] \in InstanceTasks(i)
RestOK     == /\ channel \in [Instances -> Nat]
              /\ mutex \in [Instances -> Callers \cup {None}]
              /\ up \subseteq Instances
              /\ licensed \in [Instances -> BOOLEAN] /\ missed \in [Instances -> BOOLEAN]
              /\ events \in 0..MaxEvents
Typed == RowsOK /\ RegistryOK /\ TasksOK /\ RestOK

\* No two rows that exist have one name, whether deleted or not.
NamesUnique == \A j, k \in Ids : rows[j] # None /\ rows[k] # None /\ j # k
                                 => rows[j].name # rows[k].name

\* Every alias of a registry is listed by the model it names.
Owned(r) == \A a \in Names : r.aliases[a] # None =>
                /\ r.aliases[a] \in Names
                /\ a \in AliasesOf(r, r.aliases[a])
AllOwned == \A i \in Instances : Owned(registry[i])

\* A handler that has yet to announce what it changed.  Whoever activated a model
\* that was deleted meanwhile announces nothing: whoever deleted it does.
Owing(w) == \/ task[w].step \in {"registry", "import", "list", "reload", "publish"}
            \/ task[w].step = "activated" /\ Live(task[w].id)

Current(i) == \A id \in ActiveIds : registry[i].models[rows[id].name] = ExpectedEntry(i, id)

\* A reload that read what the rows still are, as far as it got.
Faithful(i) ==
    /\ task[i].listed = [id \in ActiveIds |-> rows[id]]
    /\ \A id \in ActiveIds \ task[i].left :
          registry[i].models[rows[id].name] = ListedEntry(task[i].listed, id)

\* Either something will make the instance list the rows again, or what it has, or
\* is about to have, is what the rows are.
Told(i) ==
    \/ missed[i] \/ channel[i] > 0 \/ \E w \in Callers : Owing(w)
    \/ task[i].step \in {"sync", "list", "down"}
    \/ task[i].step \in {"idle", "start"} /\ Current(i)
    \/ task[i].step = "reload" /\ Faithful(i)

SyncInv == Typed /\ NamesUnique /\ AllOwned /\ \A i \in Instances : Told(i)

-----------------------------------------------------------------------------
(* The operators of the registry. *)

\* Entries are told from None, so that what is stored is found again.
LEMMA EntryFound ==
  ASSUME NEW e \in Entries
  PROVE  e # None /\ e.aliases \subseteq Names
BY SyncAssumption DEF Entries

\* AddModel keeps the maps and their owners: the aliases of the entry that is
\* replaced leave before the new ones come.
LEMMA AddKeeps ==
  ASSUME NEW r \in Registries, NEW n \in Names, NEW e \in Entries
  PROVE  /\ AddModel(r, n, e) \in Registries
         /\ Owned(r) => Owned(AddModel(r, n, e))
         /\ AddModel(r, n, e).models[n] = e
         /\ \A m \in Names \ {n} : AddModel(r, n, e).models[m] = r.models[m]
<1> DEFINE s == AddModel(r, n, e)
<1>1. /\ s.models = [r.models EXCEPT ![n] = e]
      /\ s.aliases = [a \in Names |-> IF a \in e.aliases THEN n
                        ELSE IF a \in AliasesOf(r, n) THEN None ELSE r.aliases[a]]
  BY DEF AddModel, WithoutAliasesOf
<1>2. r.models \in [Names -> Entries \cup {None}] /\ r.aliases \in [Names -> Names \cup {None}]
  BY DEF Registries
<1>3. s \in Registries
  BY <1>2 DEF Registries, AddModel, WithoutAliasesOf
<1>4. s.models[n] = e /\ \A m \in Names \ {n} : s.models[m] = r.models[m]
  BY <1>1, <1>2
<1>5. ASSUME Owned(r), NEW a \in Names, s.aliases[a] # None
      PROVE  s.aliases[a] \in Names /\ a \in AliasesOf(s, s.aliases[a])
  <2>1. CASE a \in e.aliases
    BY <2>1, <1>1, <1>4, EntryFound DEF AliasesOf
  <2>2. CASE a \notin e.aliases
    <3>1. s.aliases[a] = r.aliases[a] /\ a \notin AliasesOf(r, n)
      BY <2>2, <1>1, <1>5
    <3>2. r.aliases[a] \in Names /\ a \in AliasesOf(r, r.aliases[a])
      BY <3>1, <1>5 DEF Owned
    <3>3. s.models[r.aliases[a]] = r.models[r.aliases[a]]
      BY <3>1, <3>2, <1>4
    <3> QED BY <3>1, <3>2, <3>3 DEF AliasesOf
  <2> QED BY <2>1, <2>2
<1> HIDE DEF s
<1>6. Owned(r) => Owned(s)
  BY <1>5 DEF Owned
<1> QED BY <1>3, <1>4, <1>6 DEF s

\* RemoveModel takes the aliases of the model with it.
LEMMA RemoveKeeps ==
  ASSUME NEW r \in Registries, NEW n \in Names
  PROVE  /\ RemoveModel(r, n) \in Registries
         /\ Owned(r) => Owned(RemoveModel(r, n))
<1> DEFINE s == RemoveModel(r, n)
<1>1. /\ s.models = [r.models EXCEPT ![n] = None]
      /\ s.aliases = [a \in Names |-> IF a \in AliasesOf(r, n) THEN None ELSE r.aliases[a]]
  BY DEF RemoveModel, WithoutAliasesOf
<1>2. r.models \in [Names -> Entries \cup {None}] /\ r.aliases \in [Names -> Names \cup {None}]
  BY DEF Registries
<1>3. s \in Registries
  BY <1>2 DEF Registries, RemoveModel, WithoutAliasesOf
<1>4. \A m \in Names \ {n} : s.models[m] = r.models[m]
  BY <1>1, <1>2
<1>5. ASSUME Owned(r), NEW a \in Names, s.aliases[a] # None
      PROVE  s.aliases[a] \in Names /\ a \in AliasesOf(s, s.aliases[a])
  <2>1. s.aliases[a] = r.aliases[a] /\ a \notin AliasesOf(r, n)
    BY <1>1, <1>5
  <2>2. r.aliases[a] \in Names /\ a \in AliasesOf(r, r.aliases[a])
    BY <2>1, <1>5 DEF Owned
  <2>3. s.models[r.aliases[a]] = r.models[r.aliases[a]]
    BY <2>1, <2>2, <1>4
  <2> QED BY <2>1, <2>2, <2>3 DEF AliasesOf
<1> HIDE DEF s
<1>6. Owned(r) => Owned(s)
  BY <1>5 DEF Owned
<1> QED BY <1>3, <1>6 DEF s

\* A registry without a licence loses its fallbacks and nothing else.
LEMMA StripKeeps ==
  ASSUME NEW r \in Registries
  PROVE  /\ StripAllFallbacks(r) \in Registries
         /\ Owned(r) => Owned(StripAllFallbacks(r))
         /\ \A n \in Names : r.models[n] # None =>
               StripAllFallbacks(r).models[n] = [r.models[n] EXCEPT !.fallback = None]
<1> DEFINE s == StripAllFallbacks(r)
<1>1. r.models \in [Names -> Entries \cup {None}] /\ r.aliases \in [Names -> Names \cup {None}]
  BY DEF Registries
<1>2. /\ s.aliases = r.aliases
      /\ s.models = [n \in Names |-> IF r.models[n] = None THEN None
                                     ELSE [r.models[n] EXCEPT !.fallback = None]]
      /\ s = [models |-> s.models, aliases |-> s.aliases]
  BY DEF StripAllFallbacks, Registries
<1>3. ASSUME NEW n \in Names, r.models[n] # None
      PROVE  /\ s.models[n] \in Entries
             /\ s.models[n].aliases = r.models[n].aliases
    <2>1. r.models[n] \in Entries
      BY <1>1, <1>3
    <2>2. s.models[n] = [r.models[n] EXCEPT !.fallback = None]
      BY <1>2, <1>3
    <2> QED BY <2>1, <2>2 DEF Entries
<1>4. \A n \in Names : s.models[n] \in Entries \cup {None}
  BY <1>2, <1>3
<1>5. s.models \in [Names -> Entries \cup {None}]
  BY <1>2, <1>4
<1>6. s \in Registries
  BY <1>1, <1>2, <1>5 DEF Registries
<1>7. \A n \in Names : AliasesOf(r, n) \subseteq AliasesOf(s, n)
  BY <1>3, EntryFound DEF AliasesOf
<1>8. \A n \in Names : r.models[n] # None => s.models[n] = [r.models[n] EXCEPT !.fallback = None]
  BY <1>2
<1> HIDE DEF s
<1>9. Owned(r) => Owned(s)
  BY <1>2, <1>7 DEF Owned
<1> QED BY <1>6, <1>8, <1>9 DEF s

\* What is served of a row are pairs of a deployment and its content.
LEMMA ServedType ==
  ASSUME NEW row
  PROVE  Served(row) \in SUBSET (Deployments \X Contents)
BY DEF Served

\* The row of a model of the file, and what the registry makes of the file.
LEMMA YamlRowType ==
  ASSUME NEW n \in DOMAIN Yaml
  PROVE  /\ YamlRow(n) \in Rows
         /\ YamlRow(n).name = n /\ YamlRow(n).fallback = None
         /\ YamlRow(n).content = Yaml[n].content /\ YamlRow(n).aliases = Yaml[n].aliases
         /\ YamlRow(n).active /\ ~YamlRow(n).deleted
<1>1. n \in Names /\ Yaml[n] \in Models
  BY SyncAssumption
<1>2. Yaml[n].deployments \in [Deployments -> Contents \cup {None, Gone}]
  BY <1>1 DEF Models
<1> QED BY <1>1, <1>2 DEF YamlRow, Row, Rows, Models

LEMMA FromYamlType == FromYaml \in Registries /\ Owned(FromYaml)
<1> DEFINE r == FromYaml
<1>1. ASSUME NEW n \in DOMAIN Yaml
      PROVE  Entry(Yaml[n].content, Served(YamlRow(n)), Yaml[n].aliases, Yaml[n].fallback)
                \in Entries
  <2>1. Yaml[n] \in Models
    BY SyncAssumption
  <2>2. Served(YamlRow(n)) \in SUBSET (Deployments \X Contents)
    BY ServedType
  <2> QED BY <2>1, <2>2 DEF Entry, Entries, Models
<1>2. /\ r.models = [n \in Names |-> IF n \in DOMAIN Yaml
             THEN Entry(Yaml[n].content, Served(YamlRow(n)), Yaml[n].aliases, Yaml[n].fallback)
             ELSE None]
      /\ r.aliases = [a \in Names |-> IF \E n \in DOMAIN Yaml : a \in Yaml[n].aliases
             THEN CHOOSE n \in DOMAIN Yaml : a \in Yaml[n].aliases ELSE None]
      /\ r = [models |-> r.models, aliases |-> r.aliases]
  BY DEF FromYaml
<1>3. ASSUME NEW a \in Names
      PROVE  \/ r.aliases[a] = None
             \/ r.aliases[a] \in DOMAIN Yaml /\ a \in Yaml[r.aliases[a]].aliases
  BY <1>2
<1>4. DOMAIN Yaml \subseteq Names
  BY SyncAssumption
<1>5. r.models \in [Names -> Entries \cup {None}]
  BY <1>1, <1>2
<1>6. r.aliases \in [Names -> Names \cup {None}]
  <2>1. \A a \in Names : r.aliases[a] \in Names \cup {None}
    BY <1>3, <1>4
  <2> QED BY <1>2, <2>1
<1>7. \A n \in DOMAIN Yaml : AliasesOf(r, n) = Yaml[n].aliases
  <2>1. ASSUME NEW n \in DOMAIN Yaml
        PROVE  r.models[n] \in Entries /\ r.models[n].aliases = Yaml[n].aliases
    <3>1. r.models[n] = Entry(Yaml[n].content, Served(YamlRow(n)), Yaml[n].aliases,
                              Yaml[n].fallback)
      BY <1>2, <1>4
    <3> QED BY <3>1, <1>1 DEF Entry
  <2> HIDE DEF r
  <2> QED BY <2>1, EntryFound DEF AliasesOf
<1>8. r \in Registries
  BY <1>2, <1>5, <1>6 DEF Registries
<1>9. Owned(r)
  BY <1>3, <1>4, <1>7 DEF Owned
<1> QED BY <1>8, <1>9
-----------------------------------------------------------------------------
(* The parts of a step. *)

\* The types, the names and the aliases, before what the instances were told.
Base == Typed /\ NamesUnique /\ AllOwned

\* A row is written under its own name, or under one that no other row has.
LEMMA RowWritten ==
  ASSUME RowsOK, NamesUnique, NEW id \in Ids, NEW row \in Rows,
         \/ rows[id] # None /\ row.name = rows[id].name
         \/ ~Taken(row.name, id) \/ ~Taken(row.name, 0),
         rows' = [rows EXCEPT ![id] = row]
  PROVE  RowsOK' /\ NamesUnique'
<1>1. rows' \in [Ids -> Rows \cup {None}] /\ rows'[id] = row
      /\ \A k \in Ids \ {id} : rows'[k] = rows[k]
  BY DEF RowsOK
<1>2. \A k \in Ids \ {id} : rows[k] # None => rows[k].name # row.name
  <2>1. 0 \notin Ids
    BY SyncAssumption DEF Ids
  <2> QED BY <2>1 DEF Taken, NamesUnique
<1>3. NamesUnique'
  BY <1>1, <1>2 DEF NamesUnique
<1> QED BY <1>1, <1>3 DEF RowsOK

\* A registry changes at one instance, and its aliases keep their owners.
LEMMA RegistryChanged ==
  ASSUME RegistryOK, AllOwned, NEW i \in Instances, NEW r \in Registries,
         Owned(registry[i]) => Owned(r), registry' = [registry EXCEPT ![i] = r]
  PROVE  RegistryOK' /\ AllOwned'
<1>1. registry' \in [Instances -> Registries] /\ registry'[i] = r
      /\ \A j \in Instances \ {i} : registry'[j] = registry[j]
  BY DEF RegistryOK
<1>2. \A j \in Instances : Owned(registry'[j])
  BY <1>1 DEF AllOwned
<1> QED BY <1>1, <1>2 DEF RegistryOK, AllOwned

LEMMA RowsStay ==
  ASSUME RowsOK, NamesUnique, UNCHANGED rows
  PROVE  RowsOK' /\ NamesUnique'
BY DEF RowsOK, NamesUnique

LEMMA RegistryStays ==
  ASSUME RegistryOK, AllOwned, UNCHANGED registry
  PROVE  RegistryOK' /\ AllOwned'
BY DEF RegistryOK, AllOwned

\* A worker goes on with a task of its own kind.
LEMMA TaskBecomes ==
  ASSUME TasksOK, NEW w \in Workers, NEW t,
         w \in Callers => t \in CallerTasks, w \in Instances => t \in InstanceTasks(w),
         Become(w, t)
  PROVE  TasksOK'
<1>1. /\ DOMAIN task' = Workers /\ task' = [v \in Workers |-> task'[v]] /\ task'[w] = t
      /\ \A v \in Workers \ {w} : task'[v] = task[v]
  BY DEF Become, TasksOK
<1>2. \A v \in Callers : task'[v] \in CallerTasks
  BY <1>1 DEF TasksOK, Workers
<1>3. \A i \in Instances : task'[i] \in InstanceTasks(i)
  BY <1>1 DEF TasksOK, Workers
<1>4. \A i : InstanceTasks(i)' = InstanceTasks(i)
  BY DEF InstanceTasks, ReloadTasks, Lists, Rows, Ids, Idle
<1> QED BY <1>1, <1>2, <1>3 DEF TasksOK

\* A handler goes on with a task of its own kind.
LEMMA CallerBecomes ==
  ASSUME TasksOK, NEW w \in Callers, NEW t \in CallerTasks, Become(w, t)
  PROVE  TasksOK'
<1>1. w \in Workers /\ w \notin Instances
  BY SyncAssumption DEF Workers
<1> QED BY <1>1, TaskBecomes

LEMMA TasksStay ==
  ASSUME TasksOK, UNCHANGED task
  PROVE  TasksOK'
BY DEF TasksOK

\* What a handler is doing, by step.
LEMMA CallerByStep ==
  ASSUME TasksOK, NEW w \in Callers
  PROVE  /\ task[w].step = "insert" => task[w] \in CreateTasks
         /\ task[w].step = "lock" => task[w] \in CreateTasks \cup UpdateTasks
         /\ task[w].step = "update" => task[w] \in UpdateTasks
         /\ task[w].step = "remove" => task[w] \in RemoveTasks
         /\ task[w].step = "activated" => task[w] \in ActiveTasks
         /\ task[w].step = "registry" => task[w] \in WriteTasks \cup AddTasks
         /\ task[w].step = "import" => task[w] \in AddTasks \cup ImportTasks
         /\ task[w].step = "publish" => task[w] \in WriteTasks \cup TellTasks
<1>1. task[w] \in CallerTasks
  BY DEF TasksOK
<1> QED BY <1>1 DEF CallerTasks, CreateTasks, UpdateTasks, RemoveTasks, ActiveTasks, WriteTasks,
            AddTasks, ImportTasks, TellTasks, ReloadTasks, Idle

\* What any worker that loads the models is doing.
LEMMA LoaderByStep ==
  ASSUME TasksOK, NEW w \in Workers
  PROVE  /\ task[w].step \in {"list", "reload"} =>
               task[w].on \in Instances /\ (w \in Instances => task[w].on = w)
         /\ task[w].step = "reload" => task[w] \in ReloadTasks({task[w].on})
<1>1. CASE w \in Callers
  <2>1. task[w] \in CallerTasks /\ w \notin Instances
    BY <1>1, SyncAssumption DEF TasksOK
  <2> QED BY <2>1 DEF CallerTasks, CreateTasks, UpdateTasks, RemoveTasks, ActiveTasks, WriteTasks,
              AddTasks, ImportTasks, TellTasks, ReloadTasks, Idle
<1>2. CASE w \in Instances
  <2>1. task[w] \in InstanceTasks(w)
    BY <1>2 DEF TasksOK
  <2> QED BY <1>2, <2>1 DEF InstanceTasks, ReloadTasks, Idle
<1> QED BY <1>1, <1>2 DEF Workers

\* The counts and marks that every step moves alike.
LEMMA EventCounted ==
  ASSUME RestOK, Event
  PROVE  events' \in 0..MaxEvents
BY SyncAssumption DEF RestOK, Event

LEMMA MarkedMissed ==
  ASSUME RestOK, NEW is, Unannounced(is)
  PROVE  /\ missed' \in [Instances -> BOOLEAN]
         /\ \A i \in Instances : (missed[i] => missed'[i]) /\ (i \in is => missed'[i])
BY DEF RestOK, Unannounced

LEMMA Finished ==
  ASSUME RestOK, TasksOK, NEW w \in Callers, Finish(w)
  PROVE  TasksOK' /\ mutex' \in [Instances -> Callers \cup {None}] /\ task'[w] = Idle
<1>1. Become(w, Idle) /\ Idle \in CallerTasks
  BY DEF Finish, CallerTasks
<1>2. TasksOK'
  BY <1>1, CallerBecomes
<1>3. task'[w] = Idle
  BY <1>1 DEF Become, TasksOK, Workers
<1> QED BY <1>2, <1>3 DEF Finish, RestOK

\* What a handler stores for a row.
LEMMA EntryTypes ==
  ASSUME RowsOK
  PROVE  /\ \A id \in Ids : Live(id) => rows[id] \in Rows
         /\ \A id \in Ids \cup {None} : FallbackName(id) \in Names \cup {None}
         /\ \A row \in Rows, n \in Names \cup {None} : HandlerEntry(row, n) \in Entries
         /\ \A listed \in Lists : \A id \in DOMAIN listed : ListedEntry(listed, id) \in Entries
<1>1. \A id \in Ids : Live(id) => rows[id] \in Rows
  BY DEF RowsOK, Live
<1>2. \A id \in Ids \cup {None} : FallbackName(id) \in Names \cup {None}
  BY <1>1 DEF FallbackName, Rows
<1>3. \A row \in Rows, n \in Names \cup {None} : HandlerEntry(row, n) \in Entries
  BY DEF HandlerEntry, Entry, Entries, Rows
<1>4. ASSUME NEW listed \in Lists, NEW id \in DOMAIN listed
      PROVE  ListedEntry(listed, id) \in Entries
  <2>1. \A k \in DOMAIN listed : listed[k] \in Rows
    BY DEF Lists
  <2>2. listed[id] \in Rows
    BY <2>1
  <2>3. Served(rows[id]) \in SUBSET (Deployments \X Contents)
    BY ServedType
  <2>4. (IF listed[id].fallback \in DOMAIN listed THEN listed[listed[id].fallback].name ELSE None)
           \in Names \cup {None}
    BY <2>1 DEF Rows
  <2> QED BY <2>2, <2>3, <2>4 DEF ListedEntry, Entry, Entries, Rows
<1> QED BY <1>1, <1>2, <1>3, <1>4
-----------------------------------------------------------------------------
(* Every step keeps the types, the names and the owners of the aliases. *)

\* A request is accepted: nothing but the handler's task changes.
LEMMA BeginKeeps ==
  ASSUME Base, NEW w \in Callers, NEW i \in Instances, NEW t \in CallerTasks,
         Begin(w, i), Become(w, t)
  PROVE  Base'
<1>1. RowsOK' /\ NamesUnique' /\ RegistryOK' /\ AllOwned'
  BY RowsStay, RegistryStays DEF Base, Typed, Begin
<1>2. TasksOK'
  BY CallerBecomes DEF Base, Typed
<1>3. RestOK'
  BY EventCounted DEF Base, Typed, RestOK, Begin
<1> QED BY <1>1, <1>2, <1>3 DEF Base, Typed

\* A request that writes at once.
LEMMA WriteKeeps ==
  ASSUME Base, NEW w \in Callers, NEW t \in CallerTasks, Become(w, t), Event,
         RowsOK' /\ NamesUnique', licensed' \in [Instances -> BOOLEAN],
         UNCHANGED <<registry, channel, mutex, up, missed>>
  PROVE  Base'
<1>1. RegistryOK' /\ AllOwned'
  BY RegistryStays DEF Base, Typed
<1>2. TasksOK'
  BY CallerBecomes DEF Base, Typed
<1>3. RestOK'
  BY EventCounted DEF Base, Typed, RestOK
<1> QED BY <1>1, <1>2, <1>3 DEF Base, Typed

\* A deployment is written to a row.
LEMMA DeploymentKeeps ==
  ASSUME Base, NEW w \in Callers, NEW id \in Ids, Live(id), NEW d \in Deployments,
         NEW c \in Contents \cup {Gone}, WriteDeployment(w, id, d, c)
  PROVE  Base'
<1> DEFINE row == [rows[id] EXCEPT !.deployments[d] = c]
<1>1. rows[id] \in Rows /\ rows[id] # None
  BY EntryTypes DEF Base, Typed, Live
<1>2. row \in Rows /\ row.name = rows[id].name
  BY <1>1 DEF Rows
<1>3. rows' = [rows EXCEPT ![id] = row]
  BY DEF WriteDeployment, Base, Typed, RowsOK
<1> HIDE DEF row
<1>4. RowsOK' /\ NamesUnique'
  BY <1>1, <1>2, <1>3, RowWritten DEF Base, Typed
<1>5. PICK i \in Instances : Become(w, [step |-> "list", on |-> i])
  BY DEF WriteDeployment
<1>6. [step |-> "list", on |-> i] \in CallerTasks
  BY <1>5 DEF CallerTasks, TellTasks
<1>7. licensed' \in [Instances -> BOOLEAN]
  BY DEF WriteDeployment, Base, Typed, RestOK
<1> QED BY <1>4, <1>5, <1>6, <1>7, WriteKeeps DEF WriteDeployment

LEMMA AdministerKeeps ==
  ASSUME Base, NEW w \in Callers, Administer(w)
  PROVE  Base'
<1>1. CASE BeginCreate(w)
  <2>1. PICK i \in Instances, req \in Creates, target \in Ids \cup {None} :
           /\ Begin(w, i)
           /\ Become(w, [step |-> IF target = None THEN "insert" ELSE "lock", on |-> i,
                         op |-> "create", req |-> req, target |-> target])
    BY <1>1 DEF BeginCreate
  <2>2. [step |-> IF target = None THEN "insert" ELSE "lock", on |-> i,
         op |-> "create", req |-> req, target |-> target] \in CreateTasks
    BY SyncAssumption DEF CreateTasks
  <2> QED BY <2>1, <2>2, BeginKeeps DEF CallerTasks
<1>2. CASE BeginUpdate(w)
  <2>1. PICK i \in Instances, id \in Ids, req \in Updates, target \in Ids \cup {None, Keep} :
           /\ Begin(w, i) /\ Live(id)
           /\ Become(w, [step |-> IF target \in Ids THEN "lock" ELSE "update", on |-> i,
                      op |-> "update", req |-> req, target |-> target, id |-> id,
                      old |-> rows[id].name,
                      fallbackName |-> IF req.fallback = Keep THEN FallbackName(rows[id].fallback)
                                       ELSE req.fallback])
    BY <1>2 DEF BeginUpdate
  <2>2. rows[id] \in Rows /\ req \in Patches
    BY <2>1, EntryTypes, SyncAssumption DEF Base, Typed
  <2>3. FallbackName(rows[id].fallback) \in Names \cup {None}
    BY <2>2, EntryTypes DEF Rows, Base, Typed
  <2>4. (IF req.fallback = Keep THEN FallbackName(rows[id].fallback) ELSE req.fallback)
            \in Names \cup {None}
    BY <2>2, <2>3 DEF Patches
  <2>5. rows[id].name \in Names
    BY <2>2 DEF Rows
  <2>6. [step |-> IF target \in Ids THEN "lock" ELSE "update", on |-> i,
         op |-> "update", req |-> req, target |-> target, id |-> id, old |-> rows[id].name,
         fallbackName |-> IF req.fallback = Keep THEN FallbackName(rows[id].fallback)
                          ELSE req.fallback] \in UpdateTasks
    BY <2>1, <2>2, <2>4, <2>5 DEF UpdateTasks
  <2> QED BY <2>1, <2>6, BeginKeeps DEF CallerTasks
<1>3. ASSUME NEW op \in {"delete", "deactivate"}, BeginRemove(w, op)
      PROVE  Base'
  <2>1. PICK i \in Instances, id \in Ids :
           /\ Begin(w, i) /\ Live(id)
           /\ Become(w, [step |-> "remove", on |-> i, op |-> op, id |-> id, old |-> rows[id].name])
    BY <1>3 DEF BeginRemove
  <2>2. rows[id].name \in Names
    BY <2>1, EntryTypes DEF Rows, Base, Typed
  <2>3. [step |-> "remove", on |-> i, op |-> op, id |-> id, old |-> rows[id].name] \in RemoveTasks
    BY <2>1, <2>2, <1>3 DEF RemoveTasks
  <2> QED BY <2>1, <2>3, BeginKeeps DEF CallerTasks
<1>4. CASE Activate(w)
  <2>1. PICK i \in Instances, id \in Ids :
           /\ Live(id) /\ Event
           /\ rows' = [rows EXCEPT ![id] = Activated(@)]
           /\ Become(w, [step |-> "activated", on |-> i, id |-> id])
           /\ UNCHANGED <<registry, channel, mutex, up, licensed, missed>>
    BY <1>4 DEF Activate
  <2>2. rows[id] \in Rows /\ rows[id] # None
    BY <2>1, EntryTypes DEF Base, Typed, Live
  <2>3. Activated(rows[id]) \in Rows /\ Activated(rows[id]).name = rows[id].name
    BY <2>2 DEF Rows, Activated
  <2>4. rows' = [rows EXCEPT ![id] = Activated(rows[id])]
    BY <2>1
  <2>5. RowsOK' /\ NamesUnique'
    BY <2>2, <2>3, <2>4, RowWritten DEF Base, Typed
  <2>6. [step |-> "activated", on |-> i, id |-> id] \in CallerTasks
    BY <2>1 DEF CallerTasks, ActiveTasks
  <2>7. licensed' \in [Instances -> BOOLEAN]
    BY <2>1 DEF Base, Typed, RestOK
  <2> QED BY <2>1, <2>5, <2>6, <2>7, WriteKeeps
<1>5. CASE CreateDeployment(w)
  BY <1>5, DeploymentKeeps DEF CreateDeployment
<1>6. CASE UpdateDeployment(w)
  BY <1>6, DeploymentKeeps DEF UpdateDeployment
<1>7. CASE DeleteDeployment(w)
  BY <1>7, DeploymentKeeps DEF DeleteDeployment
<1>8. CASE SetLicense(w)
  <2>1. PICK i \in Instances :
           /\ Event /\ licensed' = [licensed EXCEPT ![i] = ~@]
           /\ Become(w, [step |-> "list", on |-> i])
           /\ UNCHANGED <<rows, registry, channel, mutex, up, missed>>
    BY <1>8 DEF SetLicense
  <2>2. licensed' \in [Instances -> BOOLEAN]
    BY <2>1 DEF Base, Typed, RestOK
  <2>3. [step |-> "list", on |-> i] \in CallerTasks
    BY <2>1 DEF CallerTasks, TellTasks
  <2>4. RowsOK' /\ NamesUnique'
    BY <2>1, RowsStay DEF Base, Typed
  <2> QED BY <2>1, <2>2, <2>3, <2>4, WriteKeeps
<1>9. CASE BeginImport(w)
  <2>1. PICK i \in Instances, names \in Imports :
           Begin(w, i) /\ Become(w, [step |-> "import", on |-> i, left |-> names])
    BY <1>9 DEF BeginImport
  <2>2. [step |-> "import", on |-> i, left |-> names] \in ImportTasks
    BY <2>1, SyncAssumption DEF ImportTasks
  <2> QED BY <2>1, <2>2, BeginKeeps DEF CallerTasks
<1> QED BY <1>1, <1>2, <1>3, <1>4, <1>5, <1>6, <1>7, <1>8, <1>9
        DEF Administer, BeginDelete, BeginDeactivate

\* One registry change to make, and those of an update.
LEMMA OneChange ==
  ASSUME NEW n \in Names, NEW e \in Entries \cup {None}
  PROVE  <<[name |-> n, entry |-> e]>> \in Changes
BY DEF Changes

LEMMA RefreshType ==
  ASSUME NEW old \in Names, NEW row \in Rows, NEW n \in Names \cup {None}, RowsOK
  PROVE  Refresh(old, row, n) \in Changes
<1> DEFINE removal  == [name |-> old, entry |-> None]
           addition == [name |-> row.name, entry |-> HandlerEntry(row, n)]
           Change   == [name: Names, entry: Entries \cup {None}]
<1>1. removal \in Change
  OBVIOUS
<1>2. HandlerEntry(row, n) \in Entries /\ row.name \in Names
  BY EntryTypes DEF Rows
<1>3. addition \in Change
  BY <1>2
<1>4. Refresh(old, row, n) \in {<<removal>>, <<removal>> \o <<addition>>, <<>> \o <<addition>>}
  BY DEF Refresh
<1> HIDE DEF removal, addition, Change
<1>5. /\ <<removal>> \in Seq(Change) /\ <<addition>> \in Seq(Change) /\ <<>> \in Seq(Change)
      /\ Len(<<removal>>) = 1 /\ Len(<<addition>>) = 1 /\ Len(<<>>) = 0
  BY <1>1, <1>3
<1>6. ASSUME NEW s \in Seq(Change), NEW t \in Seq(Change), Len(t) = 1
      PROVE  s \o t \in Seq(Change) \ {<<>>}
  <2>1. s \o t \in Seq(Change) /\ Len(s \o t) = Len(s) + Len(t) /\ Len(s) \in Nat
    BY ConcatProperties, LenProperties
  <2> QED BY <1>5, <1>6, <2>1
<1>7. <<removal>> \in Seq(Change) \ {<<>>}
  BY <1>5
<1>8. <<removal>> \o <<addition>> \in Seq(Change) \ {<<>>}
  BY <1>5, <1>6
<1>9. <<>> \o <<addition>> \in Seq(Change) \ {<<>>}
  BY <1>5, <1>6
<1> QED BY <1>4, <1>7, <1>8, <1>9 DEF Changes, Change

\* The change made next, and the others.
LEMMA NextChange ==
  ASSUME NEW changes \in Changes
  PROVE  /\ Head(changes) \in [name: Names, entry: Entries \cup {None}]
         /\ Len(changes) > 1 => Tail(changes) \in Changes
<1> DEFINE Change == [name: Names, entry: Entries \cup {None}]
<1>1. changes \in Seq(Change) /\ changes # <<>>
  BY DEF Changes
<1> HIDE DEF Change
<1>2. Head(changes) \in Change /\ Tail(changes) \in Seq(Change)
      /\ Len(Tail(changes)) = Len(changes) - 1 /\ Len(changes) \in Nat
  BY <1>1, HeadTailProperties, LenProperties
<1>3. Len(changes) > 1 => Tail(changes) # <<>>
  <2>1. Len(<<>>) = 0
    OBVIOUS
  <2> QED BY <1>2, <2>1
<1> QED BY <1>2, <1>3 DEF Changes, Change

\* A handler goes on: whatever it writes keeps its type.
LEMMA ContinueKeepsAll ==
  ASSUME Base, NEW w \in Callers, NEW t \in CallerTasks, Become(w, t),
         RowsOK' /\ NamesUnique', RegistryOK' /\ AllOwned',
         mutex' \in [Instances -> Callers \cup {None}],
         UNCHANGED <<channel, up, licensed, missed, events>>
  PROVE  Base'
<1>1. TasksOK'
  BY CallerBecomes DEF Base, Typed
<1> QED BY <1>1 DEF Base, Typed, RestOK

\* A handler writes the row of a model and turns to the registry, or gives up.
LEMMA WriterKeeps ==
  ASSUME Base, NEW w \in Callers,
         \/ Finish(w) /\ UNCHANGED rows
         \/ /\ \E t \in CallerTasks : Become(w, t)
            /\ RowsOK' /\ NamesUnique' /\ UNCHANGED mutex,
         UNCHANGED <<registry, channel, up, licensed, missed, events>>
  PROVE  Base'
<1>1. RegistryOK' /\ AllOwned'
  BY RegistryStays DEF Base, Typed
<1>2. CASE Finish(w) /\ UNCHANGED rows
  <2>1. TasksOK' /\ mutex' \in [Instances -> Callers \cup {None}]
    BY <1>2, Finished DEF Base, Typed
  <2>2. RowsOK' /\ NamesUnique'
    BY <1>2, RowsStay DEF Base, Typed
  <2> QED BY <1>1, <2>1, <2>2 DEF Base, Typed, RestOK
<1>3. CASE /\ \E t \in CallerTasks : Become(w, t)
           /\ RowsOK' /\ NamesUnique' /\ UNCHANGED mutex
  <2>1. mutex' \in [Instances -> Callers \cup {None}]
    BY <1>3 DEF Base, Typed, RestOK
  <2> QED BY <1>1, <1>3, <2>1, ContinueKeepsAll
<1> QED BY <1>2, <1>3

LEMMA LockKeeps ==
  ASSUME Base, NEW w \in Callers, LockAndCheck(w)
  PROVE  Base'
<1>1. task[w] \in CreateTasks \cup UpdateTasks
  BY CallerByStep DEF LockAndCheck, Base, Typed
<1>2. RowsOK' /\ NamesUnique' /\ RegistryOK' /\ AllOwned'
  BY RowsStay, RegistryStays DEF LockAndCheck, Base, Typed
<1>3. mutex' \in [Instances -> Callers \cup {None}]
  BY DEF LockAndCheck, Base, Typed, RestOK
<1>4. PICK t : Become(w, t) /\ t \in {Idle, [task[w] EXCEPT !.step =
                                    IF task[w].op = "create" THEN "insert" ELSE "update"]}
  BY DEF LockAndCheck
<1>5. t \in CallerTasks
  <2>1. CASE task[w] \in CreateTasks
    <3>1. [task[w] EXCEPT !.step = IF task[w].op = "create" THEN "insert" ELSE "update"]
             \in CreateTasks
      BY <2>1 DEF CreateTasks
    <3> QED BY <3>1, <1>4 DEF CallerTasks
  <2>2. CASE task[w] \in UpdateTasks
    <3>1. [task[w] EXCEPT !.step = IF task[w].op = "create" THEN "insert" ELSE "update"]
             \in UpdateTasks
      BY <2>2 DEF UpdateTasks
    <3> QED BY <3>1, <1>4 DEF CallerTasks
  <2> QED BY <1>1, <2>1, <2>2
<1>6. UNCHANGED <<channel, up, licensed, missed, events>>
  BY DEF LockAndCheck
<1> QED BY <1>2, <1>3, <1>4, <1>5, <1>6, ContinueKeepsAll

LEMMA InsertKeeps ==
  ASSUME Base, NEW w \in Callers, Insert(w)
  PROVE  Base'
<1> DEFINE t == task[w]
           row == Row(t.req.name, t.req.content, t.req.aliases, t.target, "api")
<1>1. t \in CreateTasks
  BY CallerByStep DEF Insert, Base, Typed
<1>2. row \in Rows /\ row.name = t.req.name
  BY <1>1 DEF CreateTasks, Creations, Row, Rows
<1>3. ASSUME NEW id \in Ids, ~Taken(t.req.name, 0), rows' = [rows EXCEPT ![id] = row]
      PROVE  RowsOK' /\ NamesUnique'
  BY <1>2, <1>3, RowWritten DEF Base, Typed
<1>4. [step |-> "registry", on |-> t.on, op |-> "create", changes |->
          <<[name |-> row.name, entry |-> HandlerEntry(row, t.req.fallback)]>>] \in CallerTasks
  <2>1. HandlerEntry(row, t.req.fallback) \in Entries /\ row.name \in Names /\ t.on \in Instances
    BY <1>1, <1>2, EntryTypes DEF CreateTasks, Creations, Base, Typed
  <2>2. <<[name |-> row.name, entry |-> HandlerEntry(row, t.req.fallback)]>> \in Changes
    BY <2>1, OneChange
  <2> HIDE DEF row
  <2>3. [step |-> "registry", on |-> t.on, op |-> "create", changes |->
          <<[name |-> row.name, entry |-> HandlerEntry(row, t.req.fallback)]>>] \in WriteTasks
    BY <2>1, <2>2 DEF WriteTasks
  <2> QED BY <2>3 DEF CallerTasks
<1>5. \/ Finish(w) /\ UNCHANGED rows
      \/ /\ ~Taken(t.req.name, 0)
         /\ \E id \in Ids : rows' = [rows EXCEPT ![id] = row]
         /\ Become(w, [step |-> "registry", on |-> t.on, op |-> "create", changes |->
              <<[name |-> row.name, entry |-> HandlerEntry(row, t.req.fallback)]>>])
         /\ UNCHANGED mutex
  BY DEF Insert, FreeIds
<1>6. UNCHANGED <<registry, channel, up, licensed, missed, events>>
  BY DEF Insert
<1> HIDE DEF t, row
<1>7. \/ Finish(w) /\ UNCHANGED rows
      \/ /\ \E u \in CallerTasks : Become(w, u)
         /\ RowsOK' /\ NamesUnique' /\ UNCHANGED mutex
  BY <1>3, <1>4, <1>5
<1> QED BY <1>6, <1>7, WriterKeeps

\* What an update makes of a row.
LEMMA WrittenRow ==
  ASSUME NEW old \in Rows, NEW req \in Patches, NEW target \in Ids \cup {None, Keep}
  PROVE  LET row == Written(old, req, target) IN
         /\ row \in Rows /\ row.name \in {old.name, req.name} /\ row.deleted = old.deleted
         /\ row.fallback = IF target = Keep THEN old.fallback ELSE target
<1> DEFINE name     == IF req.name = Keep THEN old.name ELSE req.name
           content  == IF req.content = Keep THEN old.content ELSE req.content
           aliases  == IF req.aliases = Keep THEN old.aliases ELSE req.aliases
           fallback == IF target = Keep THEN old.fallback ELSE target
<1>1. name \in Names /\ content \in Contents /\ aliases \in SUBSET Names
      /\ fallback \in Ids \cup {None}
  BY DEF Rows, Patches
<1>2. Written(old, req, target) = [old EXCEPT !.name = name, !.content = content,
                                              !.aliases = aliases, !.fallback = fallback]
  BY DEF Written
<1>3. name \in {old.name, req.name}
  OBVIOUS
<1> HIDE DEF name, content, aliases
<1>4. fallback = IF target = Keep THEN old.fallback ELSE target
  OBVIOUS
<1> HIDE DEF fallback
<1> QED BY <1>1, <1>2, <1>3, <1>4 DEF Rows

LEMMA UpdateKeeps ==
  ASSUME Base, NEW w \in Callers, Update(w)
  PROVE  Base'
<1> DEFINE t == task[w]
           row == Written(rows[t.id], t.req, t.target)
           next == [step |-> "registry", on |-> t.on, op |-> "update",
                    changes |-> Refresh(t.old, row, t.fallbackName)]
<1>1. t \in UpdateTasks
  BY CallerByStep DEF Update, Base, Typed
<1>2. t.id \in Ids /\ t.old \in Names /\ t.fallbackName \in Names \cup {None} /\ t.on \in Instances
      /\ t.req \in Patches /\ t.target \in Ids \cup {None, Keep}
  BY <1>1 DEF UpdateTasks
<1>3. ASSUME Live(t.id), ~Taken(t.req.name, t.id)
      PROVE  /\ row \in Rows /\ rows[t.id] # None
             /\ row.name = rows[t.id].name \/ ~Taken(row.name, t.id)
  <2>1. rows[t.id] \in Rows /\ rows[t.id] # None
    BY <1>2, <1>3, EntryTypes DEF Base, Typed, Live
  <2>2. row \in Rows /\ row.name \in {rows[t.id].name, t.req.name}
    BY <2>1, <1>2, WrittenRow
  <2> QED BY <2>1, <2>2, <1>3
<1>4. ASSUME Live(t.id), ~Taken(t.req.name, t.id), rows' = [rows EXCEPT ![t.id] = row]
      PROVE  RowsOK' /\ NamesUnique' /\ next \in CallerTasks
  <2>1. RowsOK' /\ NamesUnique'
    BY <1>2, <1>3, <1>4, RowWritten DEF Base, Typed
  <2>2. Refresh(t.old, row, t.fallbackName) \in Changes
    BY <1>2, <1>3, <1>4, RefreshType DEF Base, Typed
  <2>3. next \in WriteTasks
    BY <1>2, <2>2 DEF WriteTasks
  <2> QED BY <2>1, <2>3 DEF CallerTasks
<1>5. \/ Finish(w) /\ UNCHANGED rows
      \/ /\ Live(t.id) /\ ~Taken(t.req.name, t.id) /\ rows' = [rows EXCEPT ![t.id] = row]
         /\ Become(w, next) /\ UNCHANGED mutex
  BY DEF Update
<1>6. UNCHANGED <<registry, channel, up, licensed, missed, events>>
  BY DEF Update
<1> HIDE DEF t, row, next
<1> QED BY <1>4, <1>5, <1>6, WriterKeeps

LEMMA RemoveStepKeeps ==
  ASSUME Base, NEW w \in Callers, Remove(w)
  PROVE  Base'
<1> DEFINE t == task[w]
           row == IF t.op = "delete" THEN Deleted(rows[t.id]) ELSE Deactivated(rows[t.id])
           next == [step |-> "registry", on |-> t.on, op |-> t.op,
                    changes |-> <<[name |-> t.old, entry |-> None]>>]
<1>1. t \in RemoveTasks
  BY CallerByStep DEF Remove, Base, Typed
<1>2. t.id \in Ids /\ t.old \in Names /\ t.on \in Instances /\ t.op \in {"delete", "deactivate"}
  BY <1>1 DEF RemoveTasks
<1>3. ASSUME Live(t.id), rows' = [rows EXCEPT ![t.id] = row]
      PROVE  RowsOK' /\ NamesUnique'
  <2>1. rows[t.id] \in Rows /\ rows[t.id] # None
    BY <1>2, <1>3, EntryTypes DEF Base, Typed, Live
  <2>2. row \in Rows /\ row.name = rows[t.id].name
    BY <2>1 DEF Deleted, Deactivated, Rows
  <2> QED BY <1>2, <1>3, <2>1, <2>2, RowWritten DEF Base, Typed
<1>4. next \in CallerTasks
  <2>1. <<[name |-> t.old, entry |-> None]>> \in Changes
    BY <1>2, OneChange
  <2>2. next \in WriteTasks
    BY <1>2, <2>1 DEF WriteTasks
  <2> QED BY <2>2 DEF CallerTasks
<1>5. \/ Finish(w) /\ UNCHANGED rows
      \/ /\ Live(t.id) /\ rows' = [rows EXCEPT ![t.id] = row]
         /\ Become(w, next) /\ UNCHANGED mutex
  BY DEF Remove
<1>6. UNCHANGED <<registry, channel, up, licensed, missed, events>>
  BY DEF Remove
<1> HIDE DEF t, row, next
<1> QED BY <1>3, <1>4, <1>5, <1>6, WriterKeeps

LEMMA AfterActivateKeeps ==
  ASSUME Base, NEW w \in Callers, AfterActivate(w)
  PROVE  Base'
<1> DEFINE t == task[w]
           next == [step |-> "registry", on |-> t.on, op |-> "activate", changes |->
                      <<[name  |-> rows[t.id].name,
                         entry |-> HandlerEntry(rows[t.id], FallbackName(rows[t.id].fallback))]>>]
<1>1. t \in ActiveTasks
  BY CallerByStep DEF AfterActivate, Base, Typed
<1>2. t.id \in Ids /\ t.on \in Instances
  BY <1>1 DEF ActiveTasks
<1>3. ASSUME Live(t.id) PROVE next \in CallerTasks
  <2>1. rows[t.id] \in Rows
    BY <1>2, <1>3, EntryTypes DEF Base, Typed
  <2>2. rows[t.id].fallback \in Ids \cup {None} /\ rows[t.id].name \in Names
    BY <2>1 DEF Rows
  <2>3. HandlerEntry(rows[t.id], FallbackName(rows[t.id].fallback)) \in Entries
    BY <2>1, <2>2, EntryTypes DEF Base, Typed
  <2>4. <<[name  |-> rows[t.id].name,
           entry |-> HandlerEntry(rows[t.id], FallbackName(rows[t.id].fallback))]>> \in Changes
    BY <2>2, <2>3, OneChange
  <2>5. next \in WriteTasks
    BY <1>2, <2>4 DEF WriteTasks
  <2> QED BY <2>5 DEF CallerTasks
<1>4. Become(w, Idle) \/ (Live(t.id) /\ Become(w, next))
  BY DEF AfterActivate
<1>5. UNCHANGED <<rows, registry, channel, mutex, up, licensed, missed, events>>
  BY DEF AfterActivate
<1> HIDE DEF t, next
<1>6. PICK u \in CallerTasks : Become(w, u)
  BY <1>3, <1>4 DEF CallerTasks
<1>7. RowsOK' /\ NamesUnique' /\ RegistryOK' /\ AllOwned'
  BY <1>5, RowsStay, RegistryStays DEF Base, Typed
<1>8. mutex' \in [Instances -> Callers \cup {None}]
  BY <1>5 DEF Base, Typed, RestOK
<1> QED BY <1>5, <1>6, <1>7, <1>8, ContinueKeepsAll

\* What an import stores for a name it found, or did not.
LEMMA ImportOneKeeps ==
  ASSUME Base, NEW w \in Callers, ImportOne(w)
  PROVE  Base'
<1> DEFINE t == task[w]
           next(n, row) ==
              [step |-> "registry", on |-> t.on, op |-> "import", left |-> t.left \ {n},
               changes |-> <<[name |-> n,
                              entry |-> HandlerEntry(row, FallbackName(row.fallback))]>>]
<1>0. t.step = "import" /\ t \in AddTasks \cup ImportTasks
  BY CallerByStep DEF ImportOne, Base, Typed
<1>1. t.on \in Instances /\ t.left \in SUBSET Names
  BY <1>0 DEF AddTasks, ImportTasks
<1>2. ASSUME NEW n \in t.left, NEW row \in Rows
      PROVE  next(n, row) \in CallerTasks
  <2>1. FallbackName(row.fallback) \in Names \cup {None}
    BY EntryTypes DEF Rows, Base, Typed
  <2>2. HandlerEntry(row, FallbackName(row.fallback)) \in Entries
    BY <2>1, EntryTypes DEF Base, Typed
  <2>3. n \in Names
    BY <1>1
  <2>4. <<[name |-> n, entry |-> HandlerEntry(row, FallbackName(row.fallback))]>> \in Changes
    BY <2>2, <2>3, OneChange
  <2>5. next(n, row) \in AddTasks
    BY <1>1, <2>4 DEF AddTasks
  <2> QED BY <2>5 DEF CallerTasks
<1>3. ASSUME NEW n \in t.left
      PROVE  [t EXCEPT !.left = @ \ {n}] \in CallerTasks
  <2>1. t \in AddTasks => [t EXCEPT !.left = @ \ {n}] \in AddTasks
    BY DEF AddTasks
  <2>2. t \in ImportTasks => [t EXCEPT !.left = @ \ {n}] \in ImportTasks
    BY DEF ImportTasks
  <2> QED BY <1>0, <2>1, <2>2 DEF CallerTasks
<1>4. PICK n \in t.left :
        \/ \E id \in LiveNamed(n) :
              /\ rows' = [rows EXCEPT ![id] = [rows[id] EXCEPT !.content = Imported]]
              /\ Become(w, next(n, [rows[id] EXCEPT !.content = Imported]))
        \/ /\ ~Taken(n, 0)
           /\ \E id \in FreeIds :
                 /\ rows' = [rows EXCEPT ![id] = Row(n, Imported, {}, None, "provider_account")]
                 /\ Become(w, next(n, Row(n, Imported, {}, None, "provider_account")))
        \/ Become(w, [t EXCEPT !.left = @ \ {n}]) /\ UNCHANGED rows
  BY <1>0 DEF ImportOne
<1>5. UNCHANGED <<registry, channel, mutex, up, licensed, missed, events>>
  BY DEF ImportOne
<1>6. RowsOK' /\ NamesUnique' /\ \E u \in CallerTasks : Become(w, u)
  <2>1. ASSUME NEW id \in LiveNamed(n),
               rows' = [rows EXCEPT ![id] = [rows[id] EXCEPT !.content = Imported]],
               Become(w, next(n, [rows[id] EXCEPT !.content = Imported]))
        PROVE  RowsOK' /\ NamesUnique' /\ \E u \in CallerTasks : Become(w, u)
    <3>1. id \in Ids /\ rows[id] \in Rows /\ rows[id] # None
      BY <2>1, EntryTypes DEF LiveNamed, Base, Typed, Live
    <3>2. /\ [rows[id] EXCEPT !.content = Imported] \in Rows
          /\ [rows[id] EXCEPT !.content = Imported].name = rows[id].name
      BY <3>1, SyncAssumption DEF Rows
    <3>3. next(n, [rows[id] EXCEPT !.content = Imported]) \in CallerTasks
      BY <3>2, <1>2
    <3> QED BY <2>1, <3>1, <3>2, <3>3, RowWritten DEF Base, Typed
  <2>2. ASSUME ~Taken(n, 0), NEW id \in FreeIds,
               rows' = [rows EXCEPT ![id] = Row(n, Imported, {}, None, "provider_account")],
               Become(w, next(n, Row(n, Imported, {}, None, "provider_account")))
        PROVE  RowsOK' /\ NamesUnique' /\ \E u \in CallerTasks : Become(w, u)
    <3>1. id \in Ids /\ n \in Names
      BY <1>1 DEF FreeIds
    <3>2. /\ Row(n, Imported, {}, None, "provider_account") \in Rows
          /\ Row(n, Imported, {}, None, "provider_account").name = n
      BY <3>1, SyncAssumption DEF Row, Rows
    <3>3. next(n, Row(n, Imported, {}, None, "provider_account")) \in CallerTasks
      BY <3>2, <1>2
    <3> QED BY <2>2, <3>1, <3>2, <3>3, RowWritten DEF Base, Typed
  <2>3. ASSUME Become(w, [t EXCEPT !.left = @ \ {n}]), UNCHANGED rows
        PROVE  RowsOK' /\ NamesUnique' /\ \E u \in CallerTasks : Become(w, u)
    BY <2>3, <1>3, RowsStay DEF Base, Typed
  <2> HIDE DEF t, next
  <2> QED BY <1>4, <2>1, <2>2, <2>3
<1>7. UNCHANGED mutex
  BY <1>5
<1> QED BY <1>5, <1>6, <1>7, WriterKeeps

LEMMA ImportEndsKeeps ==
  ASSUME Base, NEW w \in Callers, ImportEnds(w)
  PROVE  Base'
<1>1. task[w] \in AddTasks \cup ImportTasks
  BY CallerByStep DEF ImportEnds, Base, Typed
<1>2. [step |-> "publish", on |-> task[w].on] \in CallerTasks
  BY <1>1 DEF AddTasks, ImportTasks, TellTasks, CallerTasks
<1>3. RowsOK' /\ NamesUnique'
  BY RowsStay DEF ImportEnds, Base, Typed
<1> QED BY <1>2, <1>3, WriterKeeps DEF ImportEnds

\* The registry call of a handler.
LEMMA ChangedKeeps ==
  ASSUME NEW r \in Registries, NEW c \in [name: Names, entry: Entries \cup {None}]
  PROVE  /\ Changed(r, c) \in Registries
         /\ Owned(r) => Owned(Changed(r, c))
<1>1. CASE c.entry = None
  BY <1>1, RemoveKeeps DEF Changed
<1>2. CASE c.entry # None
  BY <1>2, AddKeeps DEF Changed
<1> QED BY <1>1, <1>2

LEMMA ChangeRegistryKeeps ==
  ASSUME Base, NEW w \in Callers, ChangeRegistry(w)
  PROVE  Base'
<1> DEFINE t == task[w]
           next == IF Len(t.changes) > 1 THEN [t EXCEPT !.changes = Tail(@)]
                   ELSE [t EXCEPT !.step = IF t.op = "import" THEN "import" ELSE "publish"]
           changed == Changed(registry[t.on], Head(t.changes))
<1>1. t.step = "registry" /\ t \in WriteTasks \cup AddTasks
  BY CallerByStep DEF ChangeRegistry, Base, Typed
<1>2. t.on \in Instances /\ t.changes \in Changes
  BY <1>1 DEF WriteTasks, AddTasks
<1>3. Head(t.changes) \in [name: Names, entry: Entries \cup {None}]
      /\ (Len(t.changes) > 1 => Tail(t.changes) \in Changes)
  BY <1>2, NextChange
<1>4. changed \in Registries /\ (Owned(registry[t.on]) => Owned(changed))
  BY <1>2, <1>3, ChangedKeeps DEF Base, Typed, RegistryOK
<1>5. next \in CallerTasks
  <2>1. CASE t \in WriteTasks
    <3>1. t.op # "import"
      BY <2>1 DEF WriteTasks
    <3>2. [t EXCEPT !.step = "publish"] \in WriteTasks
      BY <2>1 DEF WriteTasks
    <3>3. Len(t.changes) > 1 => [t EXCEPT !.changes = Tail(@)] \in WriteTasks
      BY <2>1, <1>3 DEF WriteTasks
    <3> HIDE DEF t
    <3> QED BY <3>1, <3>2, <3>3 DEF CallerTasks
  <2>2. CASE t \in AddTasks
    <3>1. t.op = "import"
      BY <2>2 DEF AddTasks
    <3>2. [t EXCEPT !.step = "import"] \in AddTasks
      BY <2>2 DEF AddTasks
    <3>3. Len(t.changes) > 1 => [t EXCEPT !.changes = Tail(@)] \in AddTasks
      BY <2>2, <1>3 DEF AddTasks
    <3> HIDE DEF t
    <3> QED BY <3>1, <3>2, <3>3 DEF CallerTasks
  <2> QED BY <1>1, <2>1, <2>2
<1>6. registry' = [registry EXCEPT ![t.on] = changed] /\ Become(w, next)
      /\ UNCHANGED <<rows, channel, mutex, up, licensed, missed, events>>
  BY DEF ChangeRegistry
<1> HIDE DEF t, next, changed
<1>7. RowsOK' /\ NamesUnique' /\ RegistryOK' /\ AllOwned'
  BY <1>2, <1>4, <1>6, RowsStay, RegistryChanged DEF Base, Typed
<1>8. mutex' \in [Instances -> Callers \cup {None}]
  BY <1>6 DEF Base, Typed, RestOK
<1> QED BY <1>5, <1>6, <1>7, <1>8, ContinueKeepsAll

LEMMA KeyFailsKeeps ==
  ASSUME Base, NEW w \in Callers, KeyFails(w)
  PROVE  Base'
<1>1. RowsOK' /\ NamesUnique' /\ RegistryOK' /\ AllOwned'
  BY RowsStay, RegistryStays DEF KeyFails, Base, Typed
<1>2. events' \in 0..MaxEvents
  BY EventCounted DEF KeyFails, Base, Typed
<1>3. CASE Finish(w) /\ Unannounced(Instances)
  <2>1. TasksOK' /\ mutex' \in [Instances -> Callers \cup {None}]
        /\ missed' \in [Instances -> BOOLEAN]
    BY <1>3, Finished, MarkedMissed DEF Base, Typed
  <2> QED BY <1>1, <1>2, <2>1 DEF KeyFails, Base, Typed, RestOK
<1>4. CASE Become(w, [task[w] EXCEPT !.step = "publish"]) /\ task[w].op = "update"
           /\ UNCHANGED <<mutex, missed>>
  <2>1. task[w] \in WriteTasks \cup AddTasks
    BY CallerByStep DEF KeyFails, Base, Typed
  <2>2. [task[w] EXCEPT !.step = "publish"] \in WriteTasks
    BY <1>4, <2>1 DEF WriteTasks, AddTasks
  <2>3. TasksOK'
    BY <1>4, <2>2, CallerBecomes DEF CallerTasks, Base, Typed
  <2> QED BY <1>1, <1>2, <1>4, <2>3 DEF KeyFails, Base, Typed, RestOK
<1> QED BY <1>3, <1>4 DEF KeyFails

LEMMA PublishKeeps ==
  ASSUME Base, NEW w \in Callers, Publish(w) \/ PublishFails(w)
  PROVE  Base'
<1>1. RowsOK' /\ NamesUnique' /\ RegistryOK' /\ AllOwned'
  BY RowsStay, RegistryStays DEF Publish, PublishFails, Base, Typed
<1>2. events' \in 0..MaxEvents
  BY EventCounted DEF Publish, PublishFails, Base, Typed, RestOK
<1>3. TasksOK' /\ mutex' \in [Instances -> Callers \cup {None}]
  BY Finished DEF Publish, PublishFails, Base, Typed
<1>4. missed' \in [Instances -> BOOLEAN]
  BY MarkedMissed DEF Publish, PublishFails, Base, Typed
<1>5. channel' \in [Instances -> Nat]
  BY DEF Publish, PublishFails, Base, Typed, RestOK
<1>6. up' \subseteq Instances /\ licensed' \in [Instances -> BOOLEAN]
  BY DEF Publish, PublishFails, Base, Typed, RestOK
<1> QED BY <1>1, <1>2, <1>3, <1>4, <1>5, <1>6 DEF Base, Typed, RestOK

LEMMA ContinueKeeps ==
  ASSUME Base, NEW w \in Callers, Continue(w)
  PROVE  Base'
BY LockKeeps, InsertKeeps, UpdateKeeps, RemoveStepKeeps, AfterActivateKeeps, ImportOneKeeps,
   ImportEndsKeeps, ChangeRegistryKeeps, KeyFailsKeeps, PublishKeeps DEF Continue

\* A reload begins with the active rows as they are.
LEMMA ListedType ==
  ASSUME RowsOK, NEW i, NEW is, i \in is
  PROVE  [step |-> "reload", on |-> i, left |-> ActiveIds,
          listed |-> [id \in ActiveIds |-> rows[id]]] \in ReloadTasks(is)
<1>1. ActiveIds \in SUBSET Ids
  BY DEF ActiveIds
<1>2. \A id \in ActiveIds : rows[id] \in Rows
  BY EntryTypes DEF ActiveIds
<1>3. [id \in ActiveIds |-> rows[id]] \in [ActiveIds -> Rows]
  BY <1>2
<1>4. [id \in ActiveIds |-> rows[id]] \in Lists
  BY <1>1, <1>3 DEF Lists
<1> QED BY <1>1, <1>4 DEF ReloadTasks

LEMMA ListingKeeps ==
  ASSUME RowsOK, TasksOK, RestOK, NEW w \in Workers, NEW i \in Instances,
         w \in Instances => i = w, Listing(w, i)
  PROVE  TasksOK' /\ missed' \in [Instances -> BOOLEAN]
<1> DEFINE t == [step |-> "reload", on |-> i, left |-> ActiveIds,
                 listed |-> [id \in ActiveIds |-> rows[id]]]
<1>1. t \in ReloadTasks(Instances) /\ t \in ReloadTasks({i})
  BY ListedType
<1>2. Become(w, t)
  BY DEF Listing
<1> HIDE DEF t
<1>3. TasksOK'
  BY <1>1, <1>2, TaskBecomes DEF CallerTasks, InstanceTasks
<1> QED BY <1>3 DEF Listing, RestOK

\* What follows a reload, or the failure of a start.
LEMMA AfterReloadKeeps ==
  ASSUME TasksOK, RestOK, NEW w \in Workers, task[w].step \in {"list", "reload"},
         AfterReload(w, task[w].on) \/ (w \in Instances /\ Fails(w))
  PROVE  TasksOK'
<1>1. task[w].on \in Instances /\ (w \in Instances => task[w].on = w)
  BY LoaderByStep
<1>2. CASE w \in Callers
  <2>1. w \notin Instances /\ w \notin up
    BY <1>2, SyncAssumption DEF RestOK
  <2>2. Become(w, [step |-> "publish", on |-> task[w].on])
    BY <1>2, <2>1 DEF AfterReload
  <2>3. [step |-> "publish", on |-> task[w].on] \in CallerTasks
    BY <1>1 DEF CallerTasks, TellTasks
  <2> QED BY <1>2, <2>2, <2>3, CallerBecomes
<1>3. CASE w \in Instances
  <2>1. w \notin Callers
    BY <1>3, SyncAssumption
  <2>2. PICK t \in {Idle, [step |-> "start", on |-> w], [step |-> "down", on |-> w]} : Become(w, t)
    BY <1>1, <1>3, <2>1 DEF AfterReload, Fails
  <2>3. t \in InstanceTasks(w)
    BY <2>2 DEF InstanceTasks
  <2> QED BY <2>1, <2>2, <2>3, TaskBecomes
<1> QED BY <1>2, <1>3 DEF Workers

LEMMA AddNextKeeps ==
  ASSUME Base, NEW w \in Workers, AddNext(w)
  PROVE  Base'
<1> DEFINE t == task[w]
<1>1. t.step = "reload" /\ t \in ReloadTasks({t.on}) /\ t.on \in Instances
      /\ (w \in Instances => t.on = w)
  BY LoaderByStep DEF AddNext, Base, Typed
<1>2. PICK id \in t.left :
         /\ registry' = [registry EXCEPT ![t.on] =
                             AddModel(@, t.listed[id].name, ListedEntry(t.listed, id))]
         /\ Become(w, [t EXCEPT !.left = @ \ {id}])
  BY DEF AddNext
<1>3. t.listed \in Lists /\ t.left \subseteq DOMAIN t.listed
  BY <1>1 DEF ReloadTasks
<1>4. t.listed[id] \in Rows
  BY <1>2, <1>3 DEF Lists
<1>5. t.listed[id].name \in Names /\ ListedEntry(t.listed, id) \in Entries
  BY <1>2, <1>3, <1>4, EntryTypes DEF Rows, Base, Typed
<1>6. RegistryOK' /\ AllOwned'
  <2> DEFINE r == AddModel(registry[t.on], t.listed[id].name, ListedEntry(t.listed, id))
  <2>1. registry[t.on] \in Registries
    BY <1>1 DEF Base, Typed, RegistryOK
  <2>2. r \in Registries /\ (Owned(registry[t.on]) => Owned(r))
    BY <1>5, <2>1, AddKeeps
  <2>3. registry' = [registry EXCEPT ![t.on] = r]
    BY <1>2
  <2> HIDE DEF r, t
  <2> QED BY <1>1, <2>2, <2>3, RegistryChanged DEF Base, Typed
<1>7. [t EXCEPT !.left = @ \ {id}] \in ReloadTasks({t.on})
  BY <1>1 DEF ReloadTasks
<1>8. [t EXCEPT !.left = @ \ {id}] \in ReloadTasks(Instances)
  BY <1>1, <1>7 DEF ReloadTasks
<1>9. TasksOK'
  <2> HIDE DEF t
  <2>1. w \in Callers => [t EXCEPT !.left = @ \ {id}] \in CallerTasks
    BY <1>8 DEF CallerTasks
  <2>2. w \in Instances => [t EXCEPT !.left = @ \ {id}] \in InstanceTasks(w)
    BY <1>1, <1>7 DEF InstanceTasks
  <2> QED BY <1>2, <2>1, <2>2, TaskBecomes DEF Base, Typed
<1>10. RowsOK' /\ NamesUnique'
  BY RowsStay DEF AddNext, Base, Typed
<1> QED BY <1>6, <1>9, <1>10 DEF AddNext, Base, Typed, RestOK

LEMMA GateKeeps ==
  ASSUME Base, NEW w \in Workers, Gate(w)
  PROVE  Base'
<1>1. task[w].on \in Instances
  BY LoaderByStep DEF Gate, Base, Typed
<1>2. RegistryOK' /\ AllOwned'
  <2>1. CASE licensed[task[w].on]
    BY <2>1, RegistryStays DEF Gate, Base, Typed
  <2>2. CASE ~licensed[task[w].on]
    <3> DEFINE r == StripAllFallbacks(registry[task[w].on])
    <3>1. registry[task[w].on] \in Registries
      BY <1>1 DEF Base, Typed, RegistryOK
    <3>2. r \in Registries /\ (Owned(registry[task[w].on]) => Owned(r))
      BY <3>1, StripKeeps
    <3>3. registry' = [registry EXCEPT ![task[w].on] = r]
      BY <2>2 DEF Gate
    <3> HIDE DEF r
    <3> QED BY <1>1, <3>2, <3>3, RegistryChanged DEF Base, Typed
  <2> QED BY <2>1, <2>2
<1>3. TasksOK'
  BY AfterReloadKeeps DEF Gate, Base, Typed
<1>4. RowsOK' /\ NamesUnique'
  BY RowsStay DEF Gate, Base, Typed
<1> QED BY <1>2, <1>3, <1>4 DEF Gate, Base, Typed, RestOK

LEMMA ReloadKeeps ==
  ASSUME Base, NEW w \in Workers, Reload(w)
  PROVE  Base'
<1>1. CASE List(w)
  <2>1. RowsOK' /\ NamesUnique' /\ RegistryOK' /\ AllOwned'
    BY <1>1, RowsStay, RegistryStays DEF List, Base, Typed
  <2>2. task[w].on \in Instances /\ (w \in Instances => task[w].on = w)
    BY <1>1, LoaderByStep DEF List, Base, Typed
  <2>3. TasksOK' /\ missed' \in [Instances -> BOOLEAN]
    BY <1>1, <2>2, ListingKeeps DEF List, Base, Typed
  <2> QED BY <1>1, <2>1, <2>3 DEF List, Base, Typed, RestOK
<1>2. CASE AddNext(w)
  BY <1>2, AddNextKeeps
<1>3. CASE Gate(w)
  BY <1>3, GateKeeps
<1>4. CASE ReloadFails(w)
  <2>1. RowsOK' /\ NamesUnique' /\ RegistryOK' /\ AllOwned'
    BY <1>4, RowsStay, RegistryStays DEF ReloadFails, Base, Typed
  <2>2. TasksOK'
    BY <1>4, AfterReloadKeeps DEF ReloadFails, Base, Typed
  <2>3. events' \in 0..MaxEvents /\ missed' \in [Instances -> BOOLEAN]
    BY <1>4, EventCounted, MarkedMissed DEF ReloadFails, Base, Typed
  <2> QED BY <1>4, <2>1, <2>2, <2>3 DEF ReloadFails, Base, Typed, RestOK
<1> QED BY <1>1, <1>2, <1>3, <1>4 DEF Reload

\* An instance restarts; what its handlers did ends with it.
LEMMA RestartKeeps ==
  ASSUME Base, NEW i \in Instances, Restart(i)
  PROVE  Base'
<1>1. RowsOK' /\ NamesUnique' /\ RegistryOK' /\ AllOwned'
  BY RowsStay, RegistryStays DEF Restart, Base, Typed
<1>2. TasksOK'
  <2> DEFINE killed == {w \in Callers : task[w] # Idle /\ task[w].on = i}
             sync == [step |-> "sync", on |-> i, left |-> DOMAIN Yaml]
  <2>1. task' = [w \in Workers |-> CASE w = i -> sync [] w \in killed -> Idle [] OTHER -> task[w]]
    BY DEF Restart
  <2>2. sync \in InstanceTasks(i)
    BY DEF InstanceTasks
  <2>3. Instances \cap Callers = {}
    BY SyncAssumption
  <2> HIDE DEF sync
  <2>4. \A w \in Callers : task'[w] \in {Idle, task[w]}
    BY <2>1, <2>3 DEF Workers
  <2>5. \A j \in Instances : task'[j] = IF j = i THEN sync ELSE task[j]
    BY <2>1, <2>3 DEF Workers
  <2> HIDE DEF killed
  <2>6. DOMAIN task' = Workers /\ task' = [w \in Workers |-> task'[w]]
    BY <2>1
  <2>7. \A w \in Callers : task'[w] \in CallerTasks
    BY <2>4 DEF TasksOK, CallerTasks, Base, Typed
  <2>8. \A j \in Instances : task'[j] \in InstanceTasks(j)
    BY <2>2, <2>5 DEF TasksOK, Base, Typed
  <2> QED BY <2>6, <2>7, <2>8 DEF TasksOK
<1>3. events' \in 0..MaxEvents /\ missed' \in [Instances -> BOOLEAN]
  BY EventCounted, MarkedMissed DEF Restart, Base, Typed
<1>4. mutex' \in [Instances -> Callers \cup {None}]
  BY DEF Restart, Base, Typed, RestOK
<1>5. channel' \in [Instances -> Nat] /\ up' \subseteq Instances
  BY DEF Restart, Base, Typed, RestOK
<1>6. licensed' \in [Instances -> BOOLEAN]
  BY DEF Restart, Base, Typed, RestOK
<1> QED BY <1>1, <1>2, <1>3, <1>4, <1>5, <1>6 DEF Base, Typed, RestOK

\* The synchronisation of the file writes rows and marks everyone.
LEMMA SyncOneKeeps ==
  ASSUME Base, NEW i \in Instances, SyncOne(i)
  PROVE  Base'
<1> DEFINE t == task[i]
           down == [step |-> "down", on |-> i]
<1>1. t.step = "sync" /\ t \in [step: {"sync"}, on: {i}, left: SUBSET DOMAIN Yaml]
  BY DEF SyncOne, InstanceTasks, ReloadTasks, Idle, Base, Typed, TasksOK
<1>2. PICK n \in t.left :
        \/ Become(i, down) /\ UNCHANGED <<rows, missed>>
        \/ /\ ~Taken(n, 0) /\ \E id \in FreeIds : rows' = [rows EXCEPT ![id] = YamlRow(n)]
           /\ Become(i, [t EXCEPT !.left = @ \ {n}]) /\ Unannounced(Instances)
        \/ \E id \in LiveNamed(n) :
              /\ Become(i, down) \/ Become(i, [t EXCEPT !.left = @ \ {n}])
              /\ Unannounced(Instances)
              /\ rows' \in {[rows EXCEPT ![id] = SyncedRow(rows[id], n)],
                            [rows EXCEPT ![id] = [SyncedRow(rows[id], n) EXCEPT
                                                    !.deployments = SyncedDeployments(@, n)]]}
        \/ Become(i, [t EXCEPT !.left = @ \ {n}]) /\ UNCHANGED <<rows, missed>>
  BY <1>1 DEF SyncOne, Fails
<1>3. n \in DOMAIN Yaml /\ n \in Names /\ Yaml[n] \in Models
  BY <1>1, <1>2, SyncAssumption
<1>4. RowsOK' /\ NamesUnique'
  <2>1. CASE UNCHANGED rows
    BY <2>1, RowsStay DEF Base, Typed
  <2>2. ASSUME ~Taken(n, 0), NEW id \in FreeIds, rows' = [rows EXCEPT ![id] = YamlRow(n)]
        PROVE  RowsOK' /\ NamesUnique'
    BY <1>3, <2>2, YamlRowType, RowWritten DEF FreeIds, Base, Typed
  <2>3. ASSUME NEW id \in LiveNamed(n),
               rows' \in {[rows EXCEPT ![id] = SyncedRow(rows[id], n)],
                          [rows EXCEPT ![id] = [SyncedRow(rows[id], n) EXCEPT
                                                  !.deployments = SyncedDeployments(@, n)]]}
        PROVE  RowsOK' /\ NamesUnique'
    <3> DEFINE synced == SyncedRow(rows[id], n)
               full == [synced EXCEPT !.deployments = SyncedDeployments(@, n)]
    <3>1. id \in Ids /\ rows[id] \in Rows /\ rows[id] # None
      BY <2>3, EntryTypes DEF LiveNamed, Live, Base, Typed
    <3>2. synced \in Rows /\ synced.name = rows[id].name
      BY <1>3, <3>1 DEF SyncedRow, Rows, Models
    <3> HIDE DEF synced
    <3>3. SyncedDeployments(synced.deployments, n) \in [Deployments -> Contents \cup {None, Gone}]
      BY <1>3, <3>2 DEF SyncedDeployments, Models
    <3>4. full \in Rows /\ full.name = rows[id].name
      BY <3>2, <3>3 DEF Rows
    <3>5. rows' = [rows EXCEPT ![id] = synced] \/ rows' = [rows EXCEPT ![id] = full]
      BY <2>3 DEF synced
    <3> HIDE DEF full
    <3> QED BY <3>1, <3>2, <3>4, <3>5, RowWritten DEF Base, Typed
  <2> HIDE DEF t
  <2> QED BY <1>2, <2>1, <2>2, <2>3
<1>5. TasksOK'
  <2>1. [t EXCEPT !.left = @ \ {n}] \in InstanceTasks(i) /\ down \in InstanceTasks(i)
    BY <1>1 DEF InstanceTasks
  <2>2. Become(i, [t EXCEPT !.left = @ \ {n}]) \/ Become(i, down)
    BY <1>2
  <2>3. i \in Workers /\ i \notin Callers
    BY SyncAssumption DEF Workers
  <2> HIDE DEF t, down
  <2> QED BY <2>1, <2>2, <2>3, TaskBecomes DEF Base, Typed
<1>6. missed' \in [Instances -> BOOLEAN]
  <2>1. UNCHANGED missed \/ Unannounced(Instances)
    BY <1>2
  <2> QED BY <2>1, MarkedMissed DEF Base, Typed, RestOK
<1>7. RegistryOK' /\ AllOwned'
  BY RegistryStays DEF SyncOne, Base, Typed
<1> QED BY <1>4, <1>5, <1>6, <1>7 DEF SyncOne, Base, Typed, RestOK

LEMMA RunKeeps ==
  ASSUME Base, NEW i \in Instances, Run(i)
  PROVE  Base'
<1>0. i \in Workers /\ i \notin Callers
  BY SyncAssumption DEF Workers
<1>1. CASE Receive(i)
  <2>1. RowsOK' /\ NamesUnique' /\ RegistryOK' /\ AllOwned'
    BY <1>1, RowsStay, RegistryStays DEF Receive, Base, Typed
  <2>2. TasksOK' /\ missed' \in [Instances -> BOOLEAN]
    BY <1>0, <1>1, ListingKeeps DEF Receive, Base, Typed
  <2>3. channel' \in [Instances -> Nat]
    BY <1>1 DEF Receive, Base, Typed, RestOK
  <2> QED BY <1>1, <2>1, <2>2, <2>3 DEF Receive, Base, Typed, RestOK
<1>2. CASE Lose(i)
  <2>1. RowsOK' /\ NamesUnique' /\ RegistryOK' /\ AllOwned' /\ TasksOK'
    BY <1>2, RowsStay, RegistryStays, TasksStay DEF Lose, Base, Typed
  <2>2. events' \in 0..MaxEvents /\ missed' \in [Instances -> BOOLEAN]
    BY <1>2, EventCounted, MarkedMissed DEF Lose, Base, Typed
  <2>3. channel' \in [Instances -> Nat]
    BY <1>2 DEF Lose, Base, Typed, RestOK
  <2> QED BY <1>2, <2>1, <2>2, <2>3 DEF Lose, Base, Typed, RestOK
<1>3. CASE Heartbeat(i)
  <2>1. RowsOK' /\ NamesUnique' /\ RegistryOK' /\ AllOwned' /\ TasksOK'
    BY <1>3, RowsStay, RegistryStays, TasksStay DEF Heartbeat, Base, Typed
  <2>2. events' \in 0..MaxEvents /\ missed' \in [Instances -> BOOLEAN]
    BY <1>3, EventCounted, MarkedMissed DEF Heartbeat, Base, Typed
  <2>3. licensed' \in [Instances -> BOOLEAN]
    BY <1>3 DEF Heartbeat, Base, Typed, RestOK
  <2> QED BY <1>3, <2>1, <2>2, <2>3 DEF Heartbeat, Base, Typed, RestOK
<1>4. CASE Restart(i)
  BY <1>4, RestartKeeps
<1>5. CASE SyncOne(i)
  BY <1>5, SyncOneKeeps
<1>6. CASE NewRegistry(i)
  <2>1. RowsOK' /\ NamesUnique'
    BY <1>6, RowsStay DEF NewRegistry, Base, Typed
  <2>2. RegistryOK' /\ AllOwned'
    BY <1>6, FromYamlType, RegistryChanged DEF NewRegistry, Base, Typed
  <2>3. [step |-> "list", on |-> i] \in InstanceTasks(i)
    BY DEF InstanceTasks
  <2>4. TasksOK'
    BY <1>0, <1>6, <2>3, TaskBecomes DEF NewRegistry, Base, Typed
  <2> QED BY <1>6, <2>1, <2>2, <2>4 DEF NewRegistry, Base, Typed, RestOK
<1>7. CASE Subscribe(i)
  <2>1. RowsOK' /\ NamesUnique' /\ RegistryOK' /\ AllOwned'
    BY <1>7, RowsStay, RegistryStays DEF Subscribe, Base, Typed
  <2>2. Idle \in InstanceTasks(i)
    BY DEF InstanceTasks
  <2>3. TasksOK'
    BY <1>0, <1>7, <2>2, TaskBecomes DEF Subscribe, Base, Typed
  <2> QED BY <1>7, <2>1, <2>3 DEF Subscribe, Base, Typed, RestOK
<1> QED BY <1>1, <1>2, <1>3, <1>4, <1>5, <1>6, <1>7 DEF Run

\* The rows at the start are those of the file, each once.
LEMMA InitRows ==
  ASSUME Init
  PROVE  /\ RowsOK /\ NamesUnique
         /\ \A id \in Ids : rows[id] # None => \E n \in DOMAIN Yaml : rows[id] = YamlRow(n)
<1>1. PICK order \in [1..Cardinality(DOMAIN Yaml) -> DOMAIN Yaml] :
         /\ \A j, k \in DOMAIN order : order[j] = order[k] => j = k
         /\ rows = [id \in Ids |-> IF id \in DOMAIN order THEN YamlRow(order[id]) ELSE None]
  BY DEF Init
<1>2. \A id \in Ids : /\ id \in DOMAIN order /\ order[id] \in DOMAIN Yaml
                         /\ rows[id] = YamlRow(order[id])
                      \/ rows[id] = None
  BY <1>1
<1>3. \A n \in DOMAIN Yaml : YamlRow(n) \in Rows /\ YamlRow(n).name = n
  BY YamlRowType
<1>4. RowsOK
  <2>1. \A id \in Ids : rows[id] \in Rows \cup {None}
    BY <1>2, <1>3
  <2> QED BY <1>1, <2>1 DEF RowsOK
<1>5. NamesUnique
  BY <1>1, <1>2, <1>3 DEF NamesUnique
<1> QED BY <1>2, <1>4, <1>5

LEMMA InitBase == Init => Base
<1> SUFFICES ASSUME Init PROVE Base
  OBVIOUS
<1>1. RegistryOK /\ AllOwned
  <2>1. StripAllFallbacks(FromYaml) \in Registries /\ Owned(StripAllFallbacks(FromYaml))
    BY FromYamlType, StripKeeps
  <2>2. registry = [i \in Instances |-> StripAllFallbacks(FromYaml)]
    BY DEF Init
  <2> QED BY <2>1, <2>2 DEF RegistryOK, AllOwned
<1>2. TasksOK
  BY DEF Init, TasksOK, Workers, CallerTasks, InstanceTasks
<1>3. RestOK
  BY SyncAssumption DEF Init, RestOK
<1> QED BY <1>1, <1>2, <1>3, InitRows DEF Base, Typed

LEMMA StepBase == Base /\ [Next]_vars => Base'
<1> SUFFICES ASSUME Base, [Next]_vars PROVE Base'
  OBVIOUS
<1>1. ASSUME NEW w \in Callers, Administer(w) \/ Continue(w) PROVE Base'
  BY <1>1, AdministerKeeps, ContinueKeeps
<1>2. ASSUME NEW w \in Workers, Reload(w) PROVE Base'
  BY <1>2, ReloadKeeps
<1>3. ASSUME NEW i \in Instances, Run(i) PROVE Base'
  BY <1>3, RunKeeps
<1>4. CASE UNCHANGED vars
  <2>1. RowsOK' /\ NamesUnique' /\ RegistryOK' /\ AllOwned' /\ TasksOK'
    BY <1>4, RowsStay, RegistryStays, TasksStay DEF vars, Base, Typed
  <2> QED BY <1>4, <2>1 DEF vars, Base, Typed, RestOK
<1> QED BY <1>1, <1>2, <1>3, <1>4 DEF Next

\* Whatever handlers, imports, reloads and restarts do to one registry at the same
\* time, an alias in it belongs to a registered model that lists it: Resolve never
\* meets an alias whose model is gone.
THEOREM AliasesKeepOwners == Spec => []AliasesOwned
<1>1. Init => Base
  BY InitBase
<1>2. Base /\ [Next]_vars => Base'
  BY StepBase
<1>3. Base => AliasesOwned
  BY DEF Base, AllOwned, Owned, AliasesOwned
<1> QED BY <1>1, <1>2, <1>3, PTL DEF Spec

-----------------------------------------------------------------------------
(* What the instances were told. *)

\* A step that leaves the rows, what the instance does and what it serves as they
\* are takes no reason away, but for another one.
LEMMA StillTold ==
  ASSUME NEW i \in Instances, Told(i), UNCHANGED rows, registry'[i] = registry[i],
         task'[i] = task[i], licensed'[i] = licensed[i], missed[i] => missed'[i],
         channel[i] > 0 => channel'[i] > 0,
         \A w \in Callers : Owing(w) => Owing(w)'
  PROVE  Told(i)'
<1>1. Current(i) => Current(i)'
  BY DEF Current, ActiveIds, Live, ExpectedEntry, Served
<1>2. Faithful(i) => Faithful(i)'
  <2>1. ActiveIds' = ActiveIds
    BY DEF ActiveIds, Live
  <2> QED BY <2>1 DEF Faithful, ListedEntry
<1> QED BY <1>1, <1>2 DEF Told

\* Whoever has yet to announce a change tells everyone.
LEMMA OwingTells ==
  ASSUME TasksOK, NEW w \in Callers, NEW t, Become(w, t),
         t.step \in {"registry", "import", "list", "reload", "publish"},
         NEW i \in Instances
  PROVE  Told(i)'
<1>1. task'[w] = t
  BY DEF Become, TasksOK, Workers
<1> QED BY <1>1 DEF Told, Owing

\* A handler that owes nothing changes what it does and nothing else.
LEMMA CallerTells ==
  ASSUME TasksOK, NEW w \in Callers, ~Owing(w), NEW t, Become(w, t),
         NEW i \in Instances, Told(i), UNCHANGED <<rows, registry, licensed, missed, channel>>
  PROVE  Told(i)'
<1>1. task'[i] = task[i] /\ \A v \in Callers \ {w} : task'[v] = task[v]
  BY SyncAssumption DEF Become, TasksOK, Workers
<1>2. \A v \in Callers : Owing(v) => Owing(v)'
  BY <1>1 DEF Owing, Live
<1> QED BY <1>1, <1>2, StillTold

\* An instance goes on with its own work, on its own registry.
LEMMA OthersTold ==
  ASSUME TasksOK, NEW j \in Instances, NEW t, Become(j, t), NEW i \in Instances \ {j}, Told(i),
         UNCHANGED rows, registry'[i] = registry[i], licensed'[i] = licensed[i],
         missed[i] => missed'[i], channel[i] > 0 => channel'[i] > 0
  PROVE  Told(i)'
<1>1. task'[i] = task[i] /\ \A v \in Callers : task'[v] = task[v]
  BY SyncAssumption DEF Become, TasksOK, Workers
<1>2. \A v \in Callers : Owing(v) => Owing(v)'
  BY <1>1 DEF Owing, Live
<1> QED BY <1>1, <1>2, StillTold

LEMMA AdministerTells ==
  ASSUME Base, NEW w \in Callers, Administer(w), NEW i \in Instances, Told(i)
  PROVE  Told(i)'
<1>1. TasksOK /\ task[w] = Idle /\ ~Owing(w)
  BY DEF Administer, Base, Typed, Owing, Idle
<1>2. ASSUME NEW j, Begin(w, j), NEW t, Become(w, t)
      PROVE  Told(i)'
  <2>1. UNCHANGED <<rows, registry, licensed, missed, channel>>
    BY <1>2 DEF Begin
  <2> QED BY <1>1, <1>2, <2>1, CallerTells
<1>3. CASE BeginCreate(w)
  BY <1>2, <1>3 DEF BeginCreate
<1>4. CASE BeginUpdate(w)
  BY <1>2, <1>4 DEF BeginUpdate
<1>5. CASE BeginDelete(w) \/ BeginDeactivate(w)
  BY <1>2, <1>5 DEF BeginDelete, BeginDeactivate, BeginRemove
<1>6. CASE Activate(w)
  <2>1. PICK on \in Instances, id \in Ids :
           /\ Live(id) /\ rows' = [rows EXCEPT ![id] = Activated(@)]
           /\ Become(w, [step |-> "activated", on |-> on, id |-> id])
    BY <1>6 DEF Activate
  <2>2. rows[id] \in Rows /\ ~rows[id].deleted
    BY <2>1, EntryTypes DEF Live, Base, Typed
  <2>3. Activated(rows[id]) \in Rows /\ ~Activated(rows[id]).deleted
    BY <2>2 DEF Activated, Rows
  <2>4. rows'[id] = Activated(rows[id])
    BY <2>1 DEF Base, Typed, RowsOK
  <2>5. rows'[id] # None /\ ~rows'[id].deleted
    BY <2>3, <2>4, SyncAssumption
  <2>6. task'[w] = [step |-> "activated", on |-> on, id |-> id]
    BY <1>1, <2>1 DEF Become, TasksOK, Workers
  <2>7. Owing(w)'
    BY <2>5, <2>6 DEF Owing, Live
  <2> QED BY <2>7 DEF Told
<1>7. ASSUME NEW id, NEW d, NEW c, WriteDeployment(w, id, d, c)
      PROVE  Told(i)'
  <2>1. PICK on : Become(w, [step |-> "list", on |-> on])
    BY <1>7 DEF WriteDeployment
  <2> QED BY <1>1, <2>1, OwingTells
<1>8. CASE CreateDeployment(w) \/ UpdateDeployment(w) \/ DeleteDeployment(w)
  BY <1>7, <1>8 DEF CreateDeployment, UpdateDeployment, DeleteDeployment
<1>9. CASE SetLicense(w)
  <2>1. PICK on : Become(w, [step |-> "list", on |-> on])
    BY <1>9 DEF SetLicense
  <2> QED BY <1>1, <2>1, OwingTells
<1>10. CASE BeginImport(w)
  BY <1>2, <1>10 DEF BeginImport
<1> QED BY <1>3, <1>4, <1>5, <1>6, <1>8, <1>9, <1>10 DEF Administer

\* A handler that has not written yet gives up, or writes and owes.
LEMMA WriterTells ==
  ASSUME Base, NEW w \in Callers, ~Owing(w), NEW i \in Instances, Told(i),
         \/ Finish(w) /\ UNCHANGED rows
         \/ \E t : Become(w, t) /\ t.step = "registry",
         UNCHANGED <<registry, channel, licensed, missed>>
  PROVE  Told(i)'
<1>1. CASE Finish(w) /\ UNCHANGED rows
  BY <1>1, CallerTells DEF Finish, Base, Typed
<1>2. CASE \E t : Become(w, t) /\ t.step = "registry"
  BY <1>2, OwingTells DEF Base, Typed
<1> QED BY <1>1, <1>2

LEMMA ContinueTells ==
  ASSUME Base, NEW w \in Callers, Continue(w), NEW i \in Instances, Told(i)
  PROVE  Told(i)'
<1>0. TasksOK
  BY DEF Base, Typed
<1>1. CASE LockAndCheck(w)
  <2>1. ~Owing(w) /\ \E t : Become(w, t)
    BY <1>1 DEF LockAndCheck, Owing
  <2>2. UNCHANGED <<rows, registry, licensed, missed, channel>>
    BY <1>1 DEF LockAndCheck
  <2> QED BY <1>0, <2>1, <2>2, CallerTells
<1>2. CASE Insert(w)
  <2>1. /\ ~Owing(w)
        /\ UNCHANGED <<registry, channel, licensed, missed>>
    BY <1>2 DEF Insert, Owing
  <2>2. \/ Finish(w) /\ UNCHANGED rows
        \/ \E t : Become(w, t) /\ t.step = "registry"
    BY <1>2 DEF Insert
  <2> QED BY <2>1, <2>2, WriterTells
<1>3. CASE Update(w)
  <2>1. /\ ~Owing(w)
        /\ UNCHANGED <<registry, channel, licensed, missed>>
    BY <1>3 DEF Update, Owing
  <2>2. \/ Finish(w) /\ UNCHANGED rows
        \/ \E t : Become(w, t) /\ t.step = "registry"
    BY <1>3 DEF Update
  <2> QED BY <2>1, <2>2, WriterTells
<1>4. CASE Remove(w)
  <2>1. /\ ~Owing(w)
        /\ UNCHANGED <<registry, channel, licensed, missed>>
    BY <1>4 DEF Remove, Owing
  <2>2. \/ Finish(w) /\ UNCHANGED rows
        \/ \E t : Become(w, t) /\ t.step = "registry"
    BY <1>4 DEF Remove
  <2> QED BY <2>1, <2>2, WriterTells
<1>5. CASE AfterActivate(w)
  <2>1. UNCHANGED <<rows, registry, channel, licensed, missed>>
    BY <1>5 DEF AfterActivate
  <2>2. CASE Live(task[w].id)
    <3>1. \E t : Become(w, t) /\ t.step = "registry"
      BY <1>5, <2>2 DEF AfterActivate
    <3> QED BY <1>0, <3>1, OwingTells
  <2>3. CASE ~Live(task[w].id)
    <3>1. ~Owing(w) /\ Become(w, Idle)
      BY <1>5, <2>3 DEF AfterActivate, Owing
    <3> QED BY <1>0, <2>1, <3>1, CallerTells
  <2> QED BY <2>2, <2>3
<1>6. CASE ImportOne(w)
  <2>1. task[w].step = "import" /\ task[w] \in AddTasks \cup ImportTasks
    BY <1>0, <1>6, CallerByStep DEF ImportOne
  <2>2. \A n : [task[w] EXCEPT !.left = @ \ {n}].step = "import"
    BY <2>1 DEF AddTasks, ImportTasks
  <2>3. PICK n \in task[w].left :
          \/ Become(w, [task[w] EXCEPT !.left = @ \ {n}])
          \/ \E changes : Become(w, [step |-> "registry", on |-> task[w].on, op |-> "import",
                                    left |-> task[w].left \ {n}, changes |-> changes])
    BY ZenonT(30), <1>6, <2>1 DEF ImportOne
  <2>4. CASE Become(w, [task[w] EXCEPT !.left = @ \ {n}])
    BY <1>0, <2>2, <2>4, OwingTells
  <2>5. ASSUME NEW changes,
               Become(w, [step |-> "registry", on |-> task[w].on, op |-> "import",
                          left |-> task[w].left \ {n}, changes |-> changes])
        PROVE  Told(i)'
    BY <1>0, <2>5, OwingTells
  <2> QED BY <2>3, <2>4, <2>5
<1>7. CASE ImportEnds(w)
  <2>1. \E t : Become(w, t) /\ t.step = "publish"
    BY <1>7 DEF ImportEnds
  <2> QED BY <1>0, <2>1, OwingTells
<1>8. CASE ChangeRegistry(w)
  <2>1. task[w].step = "registry" /\ task[w] \in WriteTasks \cup AddTasks
    BY <1>0, <1>8, CallerByStep DEF ChangeRegistry
  <2>2. [task[w] EXCEPT !.changes = Tail(@)].step = "registry"
    BY <2>1 DEF AddTasks, WriteTasks
  <2>3. \A s : [task[w] EXCEPT !.step = s].step = s
    BY <2>1 DEF AddTasks, WriteTasks
  <2>4. \E t : Become(w, t) /\ t.step \in {"registry", "import", "publish"}
    BY <1>8, <2>2, <2>3 DEF ChangeRegistry
  <2> QED BY <1>0, <2>4, OwingTells
<1>9. CASE KeyFails(w)
  <2>1. CASE Unannounced(Instances)
    BY <2>1 DEF Unannounced, Told
  <2>2. CASE Become(w, [task[w] EXCEPT !.step = "publish"])
    <3>1. task[w] \in WriteTasks \cup AddTasks
      BY <1>0, <1>9, CallerByStep DEF KeyFails
    <3>2. [task[w] EXCEPT !.step = "publish"].step = "publish"
      BY <3>1 DEF AddTasks, WriteTasks
    <3> QED BY <1>0, <2>2, <3>2, OwingTells
  <2> QED BY <1>9, <2>1, <2>2 DEF KeyFails
<1>10. CASE Publish(w)
  <2>1. CASE i \in up
    <3>1. channel[i] \in Nat /\ channel'[i] = channel[i] + 1
      BY <1>10, <2>1 DEF Publish, Base, Typed, RestOK
    <3>2. channel'[i] > 0
      BY <3>1
    <3> QED BY <3>2 DEF Told
  <2>2. CASE i \notin up
    <3>1. missed'[i]
      BY <1>10, <2>2 DEF Publish, Unannounced
    <3> QED BY <3>1 DEF Told
  <2> QED BY <2>1, <2>2
<1>11. CASE PublishFails(w)
  BY <1>11 DEF PublishFails, Unannounced, Told
<1> QED BY <1>1, <1>2, <1>3, <1>4, <1>5, <1>6, <1>7, <1>8, <1>9, <1>10, <1>11 DEF Continue

\* An instance adds a model that it listed: no other model has its name.
LEMMA AddedFaithfully ==
  ASSUME Base, NEW i \in Instances, AddNext(i), Faithful(i)
  PROVE  Faithful(i)' /\ task'[i].step = "reload"
<1> DEFINE t == task[i]
<1>1. t.step = "reload" /\ t \in ReloadTasks({t.on}) /\ t.on = i
  BY LoaderByStep DEF AddNext, Workers, Base, Typed
<1>2. PICK id \in t.left :
         /\ registry' = [registry EXCEPT ![i] =
                             AddModel(@, t.listed[id].name, ListedEntry(t.listed, id))]
         /\ Become(i, [t EXCEPT !.left = @ \ {id}])
  BY <1>1 DEF AddNext
<1>3. t.listed = [k \in ActiveIds |-> rows[k]] /\ t.listed \in Lists
      /\ id \in ActiveIds /\ t.left \subseteq ActiveIds
  BY <1>1, <1>2 DEF Faithful, ReloadTasks
<1>4. t.listed[id] = rows[id] /\ rows[id] \in Rows
  BY <1>3, EntryTypes DEF ActiveIds, Base, Typed
<1>5. rows[id].name \in Names /\ ListedEntry(t.listed, id) \in Entries
      /\ registry[i] \in Registries
  BY <1>3, <1>4, EntryTypes DEF Rows, Base, Typed, RegistryOK
<1>6. /\ registry'[i].models[rows[id].name] = ListedEntry(t.listed, id)
      /\ \A n \in Names \ {rows[id].name} : registry'[i].models[n] = registry[i].models[n]
  <2>1. registry'[i] = AddModel(registry[i], rows[id].name, ListedEntry(t.listed, id))
    BY <1>2, <1>4 DEF Base, Typed, RegistryOK
  <2> HIDE DEF t
  <2> QED BY <1>5, <2>1, AddKeeps
<1>7. task'[i] = [t EXCEPT !.left = @ \ {id}]
  BY <1>2 DEF Become, Base, Typed, TasksOK, Workers
<1>8. task'[i].listed = t.listed /\ task'[i].left = t.left \ {id} /\ task'[i].step = "reload"
  BY <1>1, <1>7 DEF ReloadTasks
<1>9. UNCHANGED rows
  BY DEF AddNext
<1>10. \A k \in ActiveIds \ {id} : rows[k].name \in Names /\ rows[k].name # rows[id].name
  <2>1. \A k \in ActiveIds : k \in Ids /\ rows[k] # None /\ rows[k] \in Rows
    BY EntryTypes DEF ActiveIds, Live, Base, Typed
  <2>2. \A k \in ActiveIds \ {id} : rows[k].name # rows[id].name
    BY <1>3, <2>1 DEF Base, NamesUnique
  <2> QED BY <2>1, <2>2 DEF Rows
<1>11. \A k \in ActiveIds \ (t.left \ {id}) :
          registry'[i].models[rows[k].name] = ListedEntry(t.listed, k)
  <2>1. \A k \in ActiveIds \ t.left : registry[i].models[rows[k].name] = ListedEntry(t.listed, k)
    BY DEF Faithful
  <2> HIDE DEF t
  <2> QED BY <1>6, <1>10, <2>1
<1>12. ActiveIds' = ActiveIds
  BY <1>9 DEF ActiveIds, Live
<1>13. task'[i].listed = [k \in ActiveIds' |-> rows'[k]]
  BY <1>3, <1>8, <1>9, <1>12
<1>14. \A k \in ActiveIds' \ task'[i].left :
          registry'[i].models[rows'[k].name] = ListedEntry(task[i].listed, k)'
  BY <1>8, <1>9, <1>11, <1>12 DEF ListedEntry
<1> QED BY <1>8, <1>13, <1>14 DEF Faithful

\* The gate of a finished reload, and what the instance then has.
LEMMA GatedCurrent ==
  ASSUME Base, NEW i \in Instances, Gate(i), Faithful(i)
  PROVE  Current(i)' /\ task'[i].step \in {"idle", "start"}
<1> DEFINE t == task[i]
<1>1. t.step = "reload" /\ t.left = {} /\ t.on = i
  BY LoaderByStep DEF Gate, Workers, Base, Typed
<1>2. i \notin Callers /\ i \in Workers
  BY SyncAssumption DEF Workers
<1>3. task'[i] \in {Idle, [step |-> "start", on |-> i]}
  BY <1>1, <1>2 DEF Gate, AfterReload, Become, Base, Typed, TasksOK
<1>4. task'[i].step \in {"idle", "start"}
  BY <1>3 DEF Idle
<1>5. UNCHANGED rows /\ UNCHANGED licensed
  BY DEF Gate
<1>6. ActiveIds' = ActiveIds
  BY <1>5 DEF ActiveIds, Live
<1>7. registry[i] \in Registries
  BY DEF Base, Typed, RegistryOK
<1>8. registry'[i] = IF licensed[i] THEN registry[i] ELSE StripAllFallbacks(registry[i])
  BY <1>1 DEF Gate, Base, Typed, RegistryOK
<1>9. \A id \in ActiveIds : id \in Ids /\ rows[id] \in Rows /\ rows[id].name \in Names
  BY EntryTypes DEF ActiveIds, Rows, Base, Typed
<1>10. ASSUME NEW id \in ActiveIds
       PROVE  registry'[i].models[rows[id].name] = ExpectedEntry(i, id)
  <2> DEFINE full == Entry(rows[id].content, Served(rows[id]), rows[id].aliases,
                           IF rows[id].fallback \in ActiveIds
                           THEN rows[rows[id].fallback].name ELSE None)
  <2>1. t.listed = [k \in ActiveIds |-> rows[k]]
    BY DEF Faithful
  <2>2. registry[i].models[rows[id].name] = ListedEntry(t.listed, id)
    BY <1>1, <1>10 DEF Faithful
  <2>3. ListedEntry(t.listed, id) = full
    BY <2>1 DEF ListedEntry
  <2>4. full \in Entries /\ full # None
    <3>1. Served(rows[id]) \in SUBSET (Deployments \X Contents)
      BY ServedType
    <3>2. (IF rows[id].fallback \in ActiveIds THEN rows[rows[id].fallback].name ELSE None)
             \in Names \cup {None}
      BY <1>9
    <3>3. full \in Entries
      BY <1>9, <3>1, <3>2 DEF Entry, Entries, Rows
    <3> QED BY <3>3, EntryFound
  <2>5. CASE licensed[i]
    BY <1>8, <2>2, <2>3, <2>5 DEF ExpectedEntry
  <2>6. CASE ~licensed[i]
    <3>1. registry'[i].models[rows[id].name] = [full EXCEPT !.fallback = None]
      <4> HIDE DEF full, t
      <4> QED BY <1>7, <1>8, <1>9, <2>2, <2>3, <2>4, <2>6, StripKeeps
    <3> QED BY <2>6, <3>1 DEF ExpectedEntry, Entry
  <2> QED BY <2>5, <2>6
<1>11. Current(i)'
  BY <1>5, <1>6, <1>10 DEF Current, ExpectedEntry
<1> QED BY <1>4, <1>11

\* The reloads: a handler's ends in a publication, an instance's own in what the
\* rows are.
LEMMA ReloadTells ==
  ASSUME Base, NEW w \in Workers, Reload(w), NEW i \in Instances, Told(i)
  PROVE  Told(i)'
<1>0. TasksOK /\ UNCHANGED <<rows, licensed, channel>>
  BY DEF Reload, List, AddNext, Gate, ReloadFails, Base, Typed
<1>1. /\ task[w].step \in {"list", "reload"}
      /\ task[w].on \in Instances /\ (w \in Instances => task[w].on = w)
  BY <1>0, LoaderByStep DEF Reload, List, AddNext, Gate, ReloadFails
<1>2. task[w].step = "reload" => task[w] \in ReloadTasks({task[w].on})
  BY <1>0, LoaderByStep
<1>3. CASE w \in Callers
  <2>1. w \notin Instances /\ w \notin up
    BY <1>3, SyncAssumption DEF Base, Typed, RestOK
  <2>2. CASE List(w)
    <3>1. \E t : Become(w, t) /\ t.step = "reload"
      BY <2>2 DEF List, Listing
    <3> QED BY <1>0, <1>3, <3>1, OwingTells
  <2>3. CASE AddNext(w)
    <3>1. PICK id : Become(w, [task[w] EXCEPT !.left = @ \ {id}])
      BY <2>3 DEF AddNext
    <3>2. [task[w] EXCEPT !.left = @ \ {id}].step = "reload"
      BY <1>2, <2>3 DEF AddNext, ReloadTasks
    <3> QED BY <1>0, <1>3, <3>1, <3>2, OwingTells
  <2>4. CASE Gate(w) \/ ReloadFails(w)
    <3>1. AfterReload(w, task[w].on)
      BY <2>1, <2>4 DEF Gate, ReloadFails
    <3>2. Become(w, [step |-> "publish", on |-> task[w].on])
      BY <1>3, <2>1, <3>1 DEF AfterReload
    <3> QED BY <1>0, <1>3, <3>2, OwingTells
  <2> QED BY <2>2, <2>3, <2>4 DEF Reload
<1>4. CASE w \in Instances /\ i # w
  <2>1. \E t : Become(w, t)
    BY DEF Reload, List, Listing, AddNext, Gate, ReloadFails, AfterReload, Fails
  <2>2. registry'[i] = registry[i]
    BY <1>1, <1>4 DEF Reload, List, AddNext, Gate, ReloadFails, Base, Typed, RegistryOK
  <2>3. missed[i] => missed'[i]
    BY <1>1, <1>4 DEF Reload, List, Listing, AddNext, Gate, ReloadFails, Unannounced,
                      Base, Typed, RestOK
  <2> QED BY <1>0, <1>4, <2>1, <2>2, <2>3, OthersTold
<1>5. CASE w \in Instances /\ i = w
  <2>0. task[i].on = i /\ i \in Workers
    BY <1>1, <1>5
  <2>1. CASE List(i)
    <3>1. task'[i] = [step |-> "reload", on |-> i, left |-> ActiveIds,
                      listed |-> [id \in ActiveIds |-> rows[id]]]
      BY <1>0, <2>0, <2>1 DEF List, Listing, Become, TasksOK
    <3>2. ActiveIds' = ActiveIds
      BY <1>0 DEF ActiveIds, Live
    <3>3. Faithful(i)'
      BY <1>0, <3>1, <3>2 DEF Faithful
    <3> QED BY <3>1, <3>3 DEF Told
  <2>2. \A v \in Callers : Owing(v) => Owing(v)'
    <3>1. \E t : Become(i, t)
      BY <1>5 DEF Reload, List, Listing, AddNext, Gate, ReloadFails, AfterReload, Fails
    <3>2. \A v \in Callers : task'[v] = task[v]
      BY <1>0, <3>1, SyncAssumption DEF Become, TasksOK, Workers
    <3> QED BY <1>0, <3>2 DEF Owing, Live
  <2>3. CASE AddNext(i)
    <3>1. UNCHANGED missed /\ task[i].step = "reload"
      BY <2>3 DEF AddNext
    <3>2. Faithful(i) => Told(i)'
      BY <2>3, AddedFaithfully DEF Told
    <3> QED BY <1>0, <2>2, <3>1, <3>2 DEF Told
  <2>4. CASE Gate(i)
    <3>1. UNCHANGED missed /\ task[i].step = "reload"
      BY <2>4 DEF Gate
    <3>2. Faithful(i) => Told(i)'
      BY <2>4, GatedCurrent DEF Told
    <3> QED BY <1>0, <2>2, <3>1, <3>2 DEF Told
  <2>5. CASE ReloadFails(i)
    BY <2>0, <2>5 DEF ReloadFails, Unannounced, Told
  <2> QED BY <1>5, <2>1, <2>3, <2>4, <2>5 DEF Reload
<1> QED BY <1>3, <1>4, <1>5 DEF Workers

\* A restart either ends handlers, and then everyone is marked, or concerns the
\* instance alone, which will list the rows.
LEMMA RestartTells ==
  ASSUME Base, NEW j \in Instances, Restart(j), NEW i \in Instances, Told(i)
  PROVE  Told(i)'
<1> DEFINE killed == {w \in Callers : task[w] # Idle /\ task[w].on = j}
           sync == [step |-> "sync", on |-> j, left |-> DOMAIN Yaml]
<1>1. task' = [w \in Workers |-> CASE w = j -> sync [] w \in killed -> Idle [] OTHER -> task[w]]
  BY DEF Restart
<1>2. Unannounced(IF killed = {} THEN {} ELSE Instances)
  BY DEF Restart
<1>3. Instances \cap Callers = {} /\ i \in Workers /\ Callers \subseteq Workers
  BY SyncAssumption DEF Workers
<1>4. CASE killed # {}
  BY <1>2, <1>4 DEF Unannounced, Told
<1>5. CASE killed = {} /\ i = j
  <2>1. task'[i] = sync
    BY <1>1, <1>3, <1>5
  <2> QED BY <2>1 DEF Told
<1>6. CASE killed = {} /\ i # j
  <2>1. task'[i] = task[i] /\ \A w \in Callers : task'[w] = task[w]
    <3> HIDE DEF sync
    <3> QED BY <1>1, <1>3, <1>6
  <2>2. UNCHANGED <<rows, registry>> /\ licensed'[i] = licensed[i] /\ channel'[i] = channel[i]
    BY <1>6 DEF Restart, Base, Typed, RestOK
  <2>3. missed[i] => missed'[i]
    BY <1>2, <1>6 DEF Unannounced
  <2>4. \A w \in Callers : Owing(w) => Owing(w)'
    BY <2>1, <2>2 DEF Owing, Live
  <2> QED BY <2>1, <2>2, <2>3, <2>4, StillTold
<1> QED BY <1>4, <1>5, <1>6

LEMMA SyncOneTells ==
  ASSUME Base, NEW j \in Instances, SyncOne(j), NEW i \in Instances, Told(i)
  PROVE  Told(i)'
<1>1. task[j].step = "sync" /\ task[j] \in [step: {"sync"}, on: {j}, left: SUBSET DOMAIN Yaml]
  BY DEF SyncOne, InstanceTasks, ReloadTasks, Idle, Base, Typed, TasksOK
<1>2. PICK n : /\ Become(j, [step |-> "down", on |-> j])
                  \/ Become(j, [task[j] EXCEPT !.left = @ \ {n}])
               /\ Unannounced(Instances) \/ UNCHANGED <<rows, missed>>
  BY ZenonT(30), <1>1 DEF SyncOne, Fails
<1>3. CASE Unannounced(Instances)
  BY <1>3 DEF Unannounced, Told
<1>4. CASE UNCHANGED <<rows, missed>> /\ i # j
  <2>1. TasksOK /\ UNCHANGED <<rows, registry, licensed, missed, channel>>
    BY <1>4 DEF SyncOne, Base, Typed
  <2>2. \E t : Become(j, t)
    BY <1>2
  <2> QED BY <1>4, <2>1, <2>2, OthersTold
<1>5. CASE i = j
  <2> DEFINE next == [task[j] EXCEPT !.left = @ \ {n}]
  <2>1. next.step = "sync"
    BY <1>1
  <2>2. task'[j] = [step |-> "down", on |-> j] \/ task'[j] = next
    BY <1>2 DEF Become, Base, Typed, TasksOK, Workers
  <2> HIDE DEF next
  <2>3. task'[j].step \in {"sync", "down"}
    BY <2>1, <2>2
  <2> QED BY <1>5, <2>3 DEF Told
<1> QED BY <1>2, <1>3, <1>4, <1>5

LEMMA RunTells ==
  ASSUME Base, NEW j \in Instances, Run(j), NEW i \in Instances, Told(i)
  PROVE  Told(i)'
<1>0. TasksOK /\ j \in Workers
  BY DEF Workers, Base, Typed
<1>1. CASE Receive(j)
  <2>1. UNCHANGED <<rows, registry, licensed>>
    BY <1>1 DEF Receive
  <2>2. CASE i = j
    <3>1. task'[i] = [step |-> "reload", on |-> i, left |-> ActiveIds,
                      listed |-> [id \in ActiveIds |-> rows[id]]]
      BY <1>0, <1>1, <2>2 DEF Receive, Listing, Become, TasksOK
    <3>2. ActiveIds' = ActiveIds
      BY <2>1 DEF ActiveIds, Live
    <3>3. Faithful(i)'
      BY <2>1, <3>1, <3>2 DEF Faithful
    <3> QED BY <3>1, <3>3 DEF Told
  <2>3. CASE i # j
    <3>1. channel'[i] = channel[i] /\ missed'[i] = missed[i] /\ \E t : Become(j, t)
      BY <1>1, <2>3 DEF Receive, Listing, Base, Typed, RestOK
    <3> QED BY <1>0, <2>1, <2>3, <3>1, OthersTold
  <2> QED BY <2>2, <2>3
<1>2. CASE Lose(j)
  <2>1. UNCHANGED <<rows, registry, licensed, task>>
    BY <1>2 DEF Lose
  <2>2. CASE i = j
    BY <1>2, <2>2 DEF Lose, Unannounced, Told
  <2>3. CASE i # j
    <3>1. channel'[i] = channel[i] /\ (missed[i] => missed'[i])
      BY <1>2, <2>3 DEF Lose, Unannounced, Base, Typed, RestOK
    <3>2. \A w \in Callers : Owing(w) => Owing(w)'
      BY <2>1 DEF Owing, Live
    <3> QED BY <2>1, <3>1, <3>2, StillTold
  <2> QED BY <2>2, <2>3
<1>3. CASE Heartbeat(j)
  <2>1. UNCHANGED <<rows, registry, channel, task>>
    BY <1>3 DEF Heartbeat
  <2>2. CASE i = j
    BY <1>3, <2>2 DEF Heartbeat, Unannounced, Told
  <2>3. CASE i # j
    <3>1. licensed'[i] = licensed[i] /\ (missed[i] => missed'[i])
      BY <1>3, <2>3 DEF Heartbeat, Unannounced, Base, Typed, RestOK
    <3>2. \A w \in Callers : Owing(w) => Owing(w)'
      BY <2>1 DEF Owing, Live
    <3> QED BY <2>1, <3>1, <3>2, StillTold
  <2> QED BY <2>2, <2>3
<1>4. CASE Restart(j)
  BY <1>4, RestartTells
<1>5. CASE SyncOne(j)
  BY <1>5, SyncOneTells
<1>6. CASE NewRegistry(j)
  <2>1. Become(j, [step |-> "list", on |-> j]) /\ UNCHANGED <<rows, channel, licensed, missed>>
    BY <1>6 DEF NewRegistry
  <2>2. CASE i = j
    <3>1. task'[i] = [step |-> "list", on |-> i]
      BY <1>0, <2>1, <2>2 DEF Become, TasksOK
    <3> QED BY <3>1 DEF Told
  <2>3. CASE i # j
    <3>1. registry'[i] = registry[i]
      BY <1>6, <2>3 DEF NewRegistry, Base, Typed, RegistryOK
    <3> QED BY <1>0, <2>1, <2>3, <3>1, OthersTold
  <2> QED BY <2>2, <2>3
<1>7. CASE Subscribe(j)
  <2>1. Become(j, Idle) /\ task[j].step = "start"
        /\ UNCHANGED <<rows, registry, channel, licensed, missed>>
    BY <1>7 DEF Subscribe
  <2>2. CASE i = j
    <3>1. task'[i] = Idle
      BY <1>0, <2>1, <2>2 DEF Become, TasksOK
    <3>2. \A w \in Callers : Owing(w) => Owing(w)'
      <4>1. \A w \in Callers : task'[w] = task[w]
        BY <1>0, <2>1, SyncAssumption DEF Become, TasksOK, Workers
      <4> QED BY <2>1, <4>1 DEF Owing, Live
    <3>3. Current(i) => Current(i)'
      BY <2>1 DEF Current, ActiveIds, Live, ExpectedEntry, Served
    <3>4. task'[i].step = "idle"
      BY <3>1 DEF Idle
    <3> QED BY <2>1, <2>2, <3>2, <3>3, <3>4 DEF Told
  <2>3. CASE i # j
    BY <1>0, <2>1, <2>3, OthersTold
  <2> QED BY <2>2, <2>3
<1> QED BY <1>1, <1>2, <1>3, <1>4, <1>5, <1>6, <1>7 DEF Run

\* At the start each instance has loaded what the file made the rows.
LEMMA InitTold ==
  ASSUME Init, NEW i \in Instances
  PROVE  Told(i)
<1> DEFINE r == StripAllFallbacks(FromYaml)
<1>1. registry[i] = r /\ task[i] = Idle
  BY DEF Init, Workers
<1>2. ASSUME NEW id \in ActiveIds
      PROVE  registry[i].models[rows[id].name] = ExpectedEntry(i, id)
  <2>1. id \in Ids /\ rows[id] # None
    BY DEF ActiveIds, Live
  <2>2. PICK n \in DOMAIN Yaml : rows[id] = YamlRow(n)
    BY <2>1, InitRows
  <2> DEFINE e == Entry(Yaml[n].content, Served(YamlRow(n)), Yaml[n].aliases, Yaml[n].fallback)
  <2>3. n \in Names /\ Yaml[n] \in Models /\ Served(YamlRow(n)) \in SUBSET (Deployments \X Contents)
    BY SyncAssumption, ServedType
  <2>4. FromYaml.models[n] = e
    BY <2>3 DEF FromYaml
  <2>5. e \in Entries /\ e # None
    <3>1. e \in Entries
      BY <2>3 DEF Entry, Entries, Models
    <3> QED BY <3>1, EntryFound
  <2>6. r.models[n] = [e EXCEPT !.fallback = None]
    <3> HIDE DEF e
    <3> QED BY <2>3, <2>4, <2>5, FromYamlType, StripKeeps
  <2>7. rows[id].fallback \notin ActiveIds
    <3>1. rows[id].fallback = None
      BY <2>2, YamlRowType
    <3> QED BY <3>1, SyncAssumption DEF ActiveIds
  <2>8. ExpectedEntry(i, id) = Entry(Yaml[n].content, Served(YamlRow(n)), Yaml[n].aliases, None)
    BY <2>2, <2>7, YamlRowType DEF ExpectedEntry
  <2>9. [e EXCEPT !.fallback = None]
           = Entry(Yaml[n].content, Served(YamlRow(n)), Yaml[n].aliases, None)
    BY DEF Entry
  <2>10. rows[id].name = n
    BY <2>2, YamlRowType
  <2> HIDE DEF e, r
  <2> QED BY <1>1, <2>6, <2>8, <2>9, <2>10
<1>3. Current(i)
  BY <1>2 DEF Current
<1> QED BY <1>1, <1>3 DEF Told, Idle

\* However handlers, reloads, imports, losses, restarts and starts are interleaved on
\* any number of instances: one that has handled every announcement, and to which
\* every change was announced, serves every active model as the database has it,
\* with its deployments, and with a fallback only under a licence.
THEOREM QuietInstancesAreCurrent == Spec => []QuietMeansCurrent
<1>1. Init => SyncInv
  BY InitBase, InitTold DEF SyncInv, Base
<1>2. SyncInv /\ [Next]_vars => SyncInv'
  <2> SUFFICES ASSUME SyncInv, [Next]_vars PROVE SyncInv'
    OBVIOUS
  <2>1. Base /\ Base' /\ \A i \in Instances : Told(i)
    BY StepBase DEF SyncInv, Base
  <2>2. ASSUME NEW i \in Instances PROVE Told(i)'
    <3>1. Told(i)
      BY <2>1
    <3>2. ASSUME NEW w \in Callers, Administer(w) \/ Continue(w) PROVE Told(i)'
      BY <2>1, <3>1, <3>2, AdministerTells, ContinueTells
    <3>3. ASSUME NEW w \in Workers, Reload(w) PROVE Told(i)'
      BY <2>1, <3>1, <3>3, ReloadTells
    <3>4. ASSUME NEW j \in Instances, Run(j) PROVE Told(i)'
      BY <2>1, <3>1, <3>4, RunTells
    <3>5. CASE UNCHANGED vars
      <4>1. UNCHANGED <<rows, registry, task, licensed, missed, channel>>
        BY <3>5 DEF vars
      <4>2. \A w \in Callers : Owing(w) => Owing(w)'
        BY <4>1 DEF Owing, Live
      <4> QED BY <3>1, <4>1, <4>2, StillTold
    <3> QED BY <3>2, <3>3, <3>4, <3>5 DEF Next
  <2> QED BY <2>1, <2>2 DEF SyncInv, Base
<1>3. SyncInv => QuietMeansCurrent
  <2> SUFFICES ASSUME SyncInv, NEW i \in Instances, Settled(i)
               PROVE  \A id \in ActiveIds :
                         registry[i].models[rows[id].name] = ExpectedEntry(i, id)
    BY DEF QuietMeansCurrent
  <2>1. Told(i)
    BY DEF SyncInv
  <2>2. ~missed[i] /\ ~(channel[i] > 0) /\ task[i] = Idle
    BY DEF Settled, SyncInv, Typed, RestOK
  <2>3. \A w \in Callers : ~Owing(w)
    BY DEF Settled, Owing
  <2>4. Current(i)
    BY <2>1, <2>2, <2>3 DEF Told, Idle
  <2> QED BY <2>4 DEF Current
<1> QED BY <1>1, <1>2, <1>3, PTL DEF Spec

-----------------------------------------------------------------------------
(* The fallbacks.  A set of rows is a loop when all are live and each falls *)
(* back within the set.                                                     *)

Exists(id) == rows[id] # None

\* The edge from source to target closes no loop with the edges there are.
Safe(source, target) ==
    ~ \E loop \in SUBSET Ids :
          /\ source \in loop /\ target \in loop
          /\ \A id \in loop \ {source} : Live(id) /\ rows[id].fallback \in loop

\* No row falls back on one that is still to be created.
Grounded == \A id \in Ids : Exists(id) /\ rows[id].fallback \in Ids => Exists(rows[id].fallback)

\* A handler that is about to write a fallback holds the lock where fallbacks are
\* administered, and what it found when it walked the chain still holds.
Chained(w) ==
    LET t == task[w] IN
    /\ t.step = "lock" => t.on \in FallbackAt /\ t.target \in Ids
    /\ t.step \in {"lock", "insert", "update"} /\ t.target \in Ids => Exists(t.target)
    /\ t.step \in {"lock", "update"} /\ t.op = "update" => Exists(t.id)
    /\ t.step = "update" /\ t.target \in Ids =>
          t.on \in FallbackAt /\ mutex[t.on] = w /\ Safe(t.id, t.target)

ChainInv == FallbacksAcyclic /\ Grounded /\ \A w \in Callers : Chained(w)

\* What a step does to the rows, as far as fallbacks are concerned.
Tame ==
    /\ \A id \in Ids : Exists(id) => Exists(id)'
    /\ FallbacksAcyclic => FallbacksAcyclic'
    /\ Grounded => Grounded'
    /\ \A s, t \in Ids : Exists(s) /\ Exists(t) /\ Safe(s, t) => Safe(s, t)'

LEMMA StayTame ==
  ASSUME UNCHANGED rows
  PROVE  Tame
BY DEF Tame, Exists, FallbacksAcyclic, Grounded, Safe, Live

\* A new row closes no loop, because no row falls back on it.
LEMMA AddTame ==
  ASSUME RowsOK, Grounded, NEW x \in Ids, ~Exists(x), NEW row \in Rows,
         row.fallback \in Ids => Exists(row.fallback), rows' = [rows EXCEPT ![x] = row]
  PROVE  Tame
<1>1. rows'[x] = row /\ \A id \in Ids \ {x} : rows'[id] = rows[id]
  BY DEF RowsOK
<1>2. row # None
  BY SyncAssumption
<1>3. \A id \in Ids : Exists(id) => Exists(id)'
  BY <1>1, <1>2 DEF Exists
<1>4. Grounded'
  BY <1>1, <1>2 DEF Grounded, Exists
<1>5. \A id \in Ids \ {x} : Live(id)' => Live(id) /\ rows'[id].fallback # x
  BY <1>1 DEF Live, Exists, Grounded
<1>6. row.fallback # x
  BY DEF Exists
<1>7. ASSUME FallbacksAcyclic PROVE FallbacksAcyclic'
  <2> SUFFICES ASSUME NEW loop \in (SUBSET Ids) \ {{}},
                      \A id \in loop : Live(id)' /\ rows'[id].fallback \in loop
               PROVE  FALSE
    BY DEF FallbacksAcyclic
  <2> DEFINE old == loop \ {x}
  <2>1. old # {}
    BY <1>1, <1>6
  <2>2. \A id \in old : Live(id) /\ rows[id].fallback \in old
    BY <1>1, <1>5
  <2> QED BY <1>7, <2>1, <2>2 DEF FallbacksAcyclic
<1>8. ASSUME NEW s \in Ids, NEW t \in Ids, Exists(s), Exists(t), Safe(s, t)
      PROVE  Safe(s, t)'
  <2> SUFFICES ASSUME NEW loop \in SUBSET Ids, s \in loop, t \in loop,
                      \A id \in loop \ {s} : Live(id)' /\ rows'[id].fallback \in loop
               PROVE  FALSE
    BY DEF Safe
  <2> DEFINE old == loop \ {x}
  <2>1. s \in old /\ t \in old
    BY <1>8
  <2>2. \A id \in old \ {s} : Live(id) /\ rows[id].fallback \in old
    BY <1>1, <1>5
  <2> QED BY <1>8, <2>1, <2>2 DEF Safe
<1> QED BY <1>3, <1>4, <1>7, <1>8 DEF Tame

\* A row that keeps its fallback, or loses it, closes no loop.
LEMMA RewriteTame ==
  ASSUME RowsOK, NEW x \in Ids, Exists(x), NEW row \in Rows,
         row.fallback \in {rows[x].fallback, None}, ~row.deleted => ~rows[x].deleted,
         rows' = [rows EXCEPT ![x] = row]
  PROVE  Tame
<1>1. rows'[x] = row /\ \A id \in Ids \ {x} : rows'[id] = rows[id]
  BY DEF RowsOK
<1>2. row # None /\ None \notin Ids
  BY SyncAssumption
<1>3. \A id \in Ids : Exists(id) => Exists(id)'
  BY <1>1, <1>2 DEF Exists
<1>4. \A id \in Ids : /\ Live(id)' => Live(id)
                      /\ rows'[id].fallback \in Ids => rows'[id].fallback = rows[id].fallback
  BY <1>1, <1>2 DEF Live, Exists
<1>5. Grounded => Grounded'
  BY <1>1, <1>3, <1>4 DEF Grounded, Exists
<1>6. FallbacksAcyclic => FallbacksAcyclic'
  <2> SUFFICES ASSUME FallbacksAcyclic, NEW loop \in (SUBSET Ids) \ {{}},
                      \A id \in loop : Live(id)' /\ rows'[id].fallback \in loop
               PROVE  FALSE
    BY DEF FallbacksAcyclic
  <2>1. \A id \in loop : Live(id) /\ rows[id].fallback \in loop
    BY <1>4
  <2> QED BY <2>1 DEF FallbacksAcyclic
<1>7. ASSUME NEW s \in Ids, NEW t \in Ids, Safe(s, t)
      PROVE  Safe(s, t)'
  <2> SUFFICES ASSUME NEW loop \in SUBSET Ids, s \in loop, t \in loop,
                      \A id \in loop \ {s} : Live(id)' /\ rows'[id].fallback \in loop
               PROVE  FALSE
    BY DEF Safe
  <2>1. \A id \in loop \ {s} : Live(id) /\ rows[id].fallback \in loop
    BY <1>4
  <2> QED BY <1>7, <2>1 DEF Safe
<1> QED BY <1>3, <1>5, <1>6, <1>7 DEF Tame

\* A fallback that is safe to write keeps the graph free of loops.
LEMMA LinkAcyclic ==
  ASSUME RowsOK, FallbacksAcyclic, Grounded, NEW x \in Ids, Exists(x), NEW row \in Rows,
         row.fallback \in Ids, Exists(row.fallback), Safe(x, row.fallback),
         rows' = [rows EXCEPT ![x] = row]
  PROVE  FallbacksAcyclic' /\ Grounded' /\ \A id \in Ids : Exists(id) => Exists(id)'
<1>1. rows'[x] = row /\ \A id \in Ids \ {x} : rows'[id] = rows[id]
  BY DEF RowsOK
<1>2. \A id \in Ids : Exists(id) => Exists(id)'
  BY <1>1, SyncAssumption DEF Exists
<1>3. Grounded'
  BY <1>1, <1>2 DEF Grounded, Exists
<1>4. FallbacksAcyclic'
  <2> SUFFICES ASSUME NEW loop \in (SUBSET Ids) \ {{}},
                      \A id \in loop : Live(id)' /\ rows'[id].fallback \in loop
               PROVE  FALSE
    BY DEF FallbacksAcyclic
  <2>1. \A id \in loop \ {x} : Live(id) /\ rows[id].fallback \in loop
    BY <1>1 DEF Live
  <2>2. CASE x \in loop
    <3>1. row.fallback \in loop
      BY <1>1, <2>2
    <3> QED BY <2>1, <2>2, <3>1 DEF Safe
  <2>3. CASE x \notin loop
    BY <2>1, <2>3 DEF FallbacksAcyclic
  <2> QED BY <2>2, <2>3
<1> QED BY <1>2, <1>3, <1>4

\* Every set of numbers that is not empty has a least one.
LEMMA Least ==
  ASSUME NEW S \in SUBSET Nat, S # {}
  PROVE  \E n \in S : \A m \in S : n <= m
<1>1. PICK n \in S : \A m \in S : <<m, n>> \notin OpToRel(<, Nat)
  BY WFMin, NatLessThanWellFounded
<1>2. \A m \in S : ~(m < n)
  BY <1>1 DEF OpToRel
<1> QED BY <1>2

\* The chain that checkFallbackCycle follows.
LEMMA ChainSteps ==
  ASSUME RowsOK, NEW target \in Ids
  PROVE  LET c == FallbackChain(target) IN
         /\ c[0] = target
         /\ \A k \in 1..FallbackCycleMaxSteps : c[k] = NextFallback(c[k - 1])
<1> DEFINE Follows(g, n) == /\ DOMAIN g = 0..n /\ g = [k \in 0..n |-> g[k]] /\ g[0] = target
                            /\ \A k \in 1..n : g[k] = NextFallback(g[k - 1])
           short == {n \in Nat : ~ \E g : Follows(g, n)}
<1>1. short = {}
  <2> SUFFICES ASSUME short # {} PROVE FALSE
    OBVIOUS
  <2>1. PICK n \in short : \A m \in short : n <= m
    <3> HIDE DEF short
    <3>1. short \in SUBSET Nat
      BY DEF short
    <3> QED BY <3>1, Least
  <2>2. n \in Nat /\ ~ \E g : Follows(g, n)
    OBVIOUS
  <2>3. CASE n = 0
    <3>1. Follows([k \in 0..0 |-> target], 0)
      OBVIOUS
    <3> QED BY <2>2, <2>3, <3>1
  <2>4. CASE n # 0
    <3>1. n - 1 \in Nat /\ n - 1 \notin short
      BY <2>1, <2>2, <2>4
    <3>2. PICK g : Follows(g, n - 1)
      BY <3>1
    <3> DEFINE h == [k \in 0..n |-> IF k = n THEN NextFallback(g[n - 1]) ELSE g[k]]
    <3>3. h[0] = target
      BY <2>2, <2>4, <3>2
    <3>4. ASSUME NEW k \in 1..n PROVE h[k] = NextFallback(h[k - 1])
      <4>1. h[k - 1] = g[k - 1] /\ k - 1 \in 0..(n - 1)
        BY <2>2, <2>4
      <4>2. h[k] = IF k = n THEN NextFallback(g[n - 1]) ELSE g[k]
        BY <2>2, <2>4
      <4>3. k # n => g[k] = NextFallback(g[k - 1])
        <5>1. \A m \in 1..(n - 1) : g[m] = NextFallback(g[m - 1])
          BY <3>2
        <5>2. k # n => k \in 1..(n - 1)
          BY <2>2
        <5> HIDE DEF Follows, short
        <5> QED BY <5>1, <5>2
      <4> HIDE DEF h
      <4> QED BY <4>1, <4>2, <4>3
    <3>5. Follows(h, n)
      BY <3>3, <3>4
    <3> QED BY <2>2, <3>5
  <2> QED BY <2>3, <2>4
<1>2. PICK g : Follows(g, FallbackCycleMaxSteps)
  BY <1>1 DEF FallbackCycleMaxSteps
<1>3. g = [k \in 0..FallbackCycleMaxSteps |-> IF k = 0 THEN target ELSE NextFallback(g[k - 1])]
  BY <1>2 DEF FallbackCycleMaxSteps
<1> DEFINE c == FallbackChain(target)
<1>4. c = CHOOSE w : w = [k \in 0..FallbackCycleMaxSteps |->
                             IF k = 0 THEN target ELSE NextFallback(w[k - 1])]
  BY DEF FallbackChain
<1>5. c = [k \in 0..FallbackCycleMaxSteps |-> IF k = 0 THEN target ELSE NextFallback(c[k - 1])]
  <2> HIDE DEF c
  <2> QED BY <1>3, <1>4
<1>6. c[0] = target /\ \A k \in 1..FallbackCycleMaxSteps : c[k] = NextFallback(c[k - 1])
  <2> HIDE DEF c
  <2> QED BY <1>5 DEF FallbackCycleMaxSteps
<1> QED BY <1>6

\* When the chain from target does not come to source in as many steps as there may
\* be rows, it does not come to source at all: a loop through both would hold the whole
\* chain, which then meets itself and is a loop already.
LEMMA UncheckedIsSafe ==
  ASSUME RowsOK, FallbacksAcyclic, MaxRows <= FallbackCycleMaxSteps,
         NEW source \in Ids, NEW target \in Ids, ~FormsCycle(source, target)
  PROVE  Safe(source, target)
<1> SUFFICES ASSUME NEW loop \in SUBSET Ids, source \in loop, target \in loop,
                    \A id \in loop \ {source} : Live(id) /\ rows[id].fallback \in loop
             PROVE  FALSE
  BY DEF Safe
<1> DEFINE N == FallbackCycleMaxSteps
           c == FallbackChain(target)
<1>0. N = 20 /\ MaxRows \in Nat
  BY SyncAssumption DEF FallbackCycleMaxSteps
<1>1. c[0] = target /\ \A k \in 1..N : c[k] = NextFallback(c[k - 1])
  BY ChainSteps
<1>2. \A k \in 0..N : c[k] # source
  BY DEF FormsCycle
<1> HIDE DEF c, N
<1>3. \A id \in loop \ {source} : NextFallback(id) = rows[id].fallback /\ NextFallback(id) \in loop
  BY SyncAssumption DEF NextFallback
<1>4. \A k \in 0..N : c[k] \in loop
  <2> DEFINE out == {k \in 0..N : c[k] \notin loop}
  <2> SUFFICES ASSUME out # {} PROVE FALSE
    OBVIOUS
  <2>1. out \in SUBSET Nat
    BY <1>0
  <2>2. PICK k \in out : \A m \in out : k <= m
    <3> HIDE DEF out
    <3> QED BY <2>1, Least
  <2>3. k # 0 /\ k \in 1..N
    BY <1>0, <1>1
  <2>4. k - 1 \in 0..N /\ ~(k <= k - 1)
    BY <1>0, <2>3
  <2>5. c[k - 1] \in loop
    BY <2>2, <2>4
  <2>6. c[k] \in loop
    BY <1>1, <1>2, <1>3, <2>3, <2>4, <2>5
  <2> QED BY <2>6
<1>5. \A k \in 0..N : c[k] \in Ids
  BY <1>4
<1>6. PICK a, b \in 0..N : a < b /\ c[a] = c[b]
  <2> DEFINE f == [k \in 0..N |-> c[k]]
  <2>1. f \in [0..N -> Ids]
    BY <1>5
  <2>2. IsFiniteSet(0..N) /\ Cardinality(0..N) = 21
    <3>1. 0 \in Int /\ N \in Int /\ ~(0 > N) /\ N - 0 + 1 = 21
      BY <1>0
    <3>2. IsFiniteSet(0..N) /\ Cardinality(0..N) = IF 0 > N THEN 0 ELSE N - 0 + 1
      BY <3>1, FS_Interval
    <3> QED BY <3>1, <3>2
  <2>3. IsFiniteSet(Ids) /\ Cardinality(Ids) = MaxRows
    BY <1>0, FS_Interval DEF Ids
  <2>4. Cardinality(Ids) < Cardinality(0..N)
    BY <1>0, <2>2, <2>3 DEF N
  <2> HIDE DEF f
  <2>5. PICK x, y \in 0..N : x # y /\ f[x] = f[y]
    <3> DEFINE S == 0..N
    <3>1. IsFiniteSet(S) /\ Cardinality(Ids) < Cardinality(S) /\ f \in [S -> Ids]
      BY <2>1, <2>2, <2>4
    <3> HIDE DEF S
    <3>2. \E x, y \in S : x # y /\ f[x] = f[y]
      BY <2>3, <3>1, FS_PigeonHole
    <3> QED BY <3>2 DEF S
  <2>6. c[x] = c[y]
    BY <2>5 DEF f
  <2>7. x < y \/ y < x
    BY <1>0, <2>5
  <2> QED BY <2>6, <2>7
<1> DEFINE round == {c[k] : k \in a..(b - 1)}
<1>7. a \in a..(b - 1) /\ a..(b - 1) \subseteq 0..N
  BY <1>0, <1>6
<1>8. round \in (SUBSET Ids) \ {{}}
  BY <1>5, <1>7
<1>9. ASSUME NEW k \in a..(b - 1)
      PROVE  Live(c[k]) /\ rows[c[k]].fallback \in round
  <2>1. k \in 0..N /\ k + 1 \in 1..N /\ (k + 1) - 1 = k
    BY <1>0, <1>6
  <2>2. c[k] \in loop \ {source}
    BY <1>2, <1>4, <2>1
  <2>3. Live(c[k]) /\ c[k + 1] = rows[c[k]].fallback
    BY <1>1, <1>3, <2>1, <2>2
  <2>4. k + 1 = b \/ k + 1 \in a..(b - 1)
    BY <1>0, <1>6
  <2>5. c[k + 1] \in round
    BY <1>6, <1>7, <2>4
  <2> QED BY <2>3, <2>5
<1>10. \A id \in round : Live(id) /\ rows[id].fallback \in round
  BY <1>9
<1> HIDE DEF round
<1> QED BY <1>8, <1>10 DEF FallbacksAcyclic

\* The steps of a handler in which its task matters to the fallbacks.
Linking == {"lock", "insert", "update"}

\* A tame step leaves what another handler found when it walked its chain, as long
\* as it leaves that handler its lock.
LEMMA StillChained ==
  ASSUME TasksOK, Tame, NEW v \in Callers, Chained(v), task'[v] = task[v],
         task[v].step = "update" /\ mutex[task[v].on] = v => mutex'[task[v].on] = v
  PROVE  Chained(v)'
<1> DEFINE t == task[v]
<1>1. t.step = "lock" => t \in CreateTasks \cup UpdateTasks
  BY CallerByStep
<1>2. t.step = "update" => t \in UpdateTasks
  BY CallerByStep
<1>3. t.step = "update" \/ (t.step = "lock" /\ t.op = "update") => t.id \in Ids
  BY <1>1, <1>2 DEF CreateTasks, UpdateTasks
<1>4. /\ t.step = "lock" => t.on \in FallbackAt /\ t.target \in Ids
      /\ t.step \in Linking /\ t.target \in Ids => Exists(t.target)'
      /\ t.step \in {"lock", "update"} /\ t.op = "update" => Exists(t.id)'
  BY <1>3 DEF Chained, Tame, Linking
<1>5. ASSUME t.step = "update", t.target \in Ids
      PROVE  t.on \in FallbackAt /\ mutex'[t.on] = v /\ Safe(t.id, t.target)'
  <2>1. t.op = "update" /\ t.id \in Ids
    BY <1>2, <1>5 DEF UpdateTasks
  <2>2. t.on \in FallbackAt /\ mutex[t.on] = v /\ Safe(t.id, t.target)
        /\ Exists(t.id) /\ Exists(t.target)
    BY <1>5, <2>1 DEF Chained
  <2> QED BY <1>5, <2>1, <2>2 DEF Tame
<1> QED BY <1>4, <1>5 DEF Chained, Linking

\* A handler goes on to a step that is not about fallbacks; it may give back its lock.
LEMMA CallerChains ==
  ASSUME Base, ChainInv, Tame, NEW w \in Callers, NEW t, Become(w, t), t.step \notin Linking,
         UNCHANGED mutex \/ Finish(w)
  PROVE  ChainInv'
<1>1. task'[w] = t /\ \A v \in Callers \ {w} : task'[v] = task[v]
  BY DEF Become, Base, Typed, TasksOK, Workers
<1>2. Chained(w)'
  BY <1>1 DEF Chained, Linking
<1>3. ASSUME NEW v \in Callers \ {w} PROVE Chained(v)'
  <2>1. task[v].step = "update" /\ mutex[task[v].on] = v => mutex'[task[v].on] = v
    <3>1. CASE UNCHANGED mutex
      BY <3>1
    <3>2. CASE Finish(w)
      <4>1. \A i \in Instances : mutex[i] # w => mutex'[i] = mutex[i]
        BY <3>2 DEF Finish
      <4>2. task[v].step = "update" => task[v].on \in Instances
        BY CallerByStep DEF UpdateTasks, Base, Typed
      <4> QED BY <1>3, <4>1, <4>2
    <3> QED BY <3>1, <3>2
  <2> QED BY <1>1, <2>1, StillChained DEF ChainInv, Base, Typed
<1> QED BY <1>2, <1>3 DEF ChainInv, Tame

\* The request is over, and its handler gives back its lock.
LEMMA FinishChains ==
  ASSUME Base, ChainInv, Tame, NEW w \in Callers, Finish(w)
  PROVE  ChainInv'
BY CallerChains DEF Finish, Idle, Linking

\* No handler's task changes, and no lock.
LEMMA InstanceChains ==
  ASSUME Base, ChainInv, Tame, \A v \in Callers : task'[v] = task[v], UNCHANGED mutex
  PROVE  ChainInv'
<1>1. \A v \in Callers : Chained(v)'
  BY StillChained DEF ChainInv, Base, Typed
<1> QED BY <1>1 DEF ChainInv, Tame

LEMMA AdministerChains ==
  ASSUME Base, ChainInv, NEW w \in Callers, Administer(w)
  PROVE  ChainInv'
<1>0. RowsOK /\ TasksOK /\ Grounded
  BY DEF Base, Typed, ChainInv
<1>1. ASSUME NEW i, Begin(w, i), NEW t, Become(w, t), Chained(w)'
      PROVE  ChainInv'
  <2>1. UNCHANGED <<rows, mutex>>
    BY <1>1 DEF Begin
  <2>2. Tame
    BY <2>1, StayTame
  <2>3. \A v \in Callers \ {w} : task'[v] = task[v]
    BY <1>0, <1>1 DEF Become, TasksOK, Workers
  <2>4. \A v \in Callers \ {w} : Chained(v)'
    BY <1>0, <2>1, <2>2, <2>3, StillChained DEF ChainInv
  <2> QED BY <1>1, <2>2, <2>4 DEF ChainInv, Tame
<1>2. ASSUME NEW i, Begin(w, i), NEW t, Become(w, t), t.step \notin Linking
      PROVE  ChainInv'
  <2>1. Tame /\ UNCHANGED mutex
    BY <1>2, StayTame DEF Begin
  <2> QED BY <1>2, <2>1, CallerChains
<1>3. CASE BeginCreate(w)
  <2>1. PICK i \in Instances, req \in Creates, target \in Ids \cup {None} :
           /\ Begin(w, i)
           /\ IF req.fallback = None THEN target = None
              ELSE FallbackAllowed(i, req.fallback) /\ target \in LiveNamed(req.fallback)
           /\ Become(w, [step |-> IF target = None THEN "insert" ELSE "lock", on |-> i,
                         op |-> "create", req |-> req, target |-> target])
    BY <1>3 DEF BeginCreate
  <2> DEFINE t == [step |-> IF target = None THEN "insert" ELSE "lock", on |-> i,
                   op |-> "create", req |-> req, target |-> target]
  <2>2. target # None => i \in FallbackAt /\ target \in Ids /\ Exists(target)
    BY <2>1 DEF FallbackAllowed, LiveNamed, Live, Exists
  <2>3. task'[w] = t /\ UNCHANGED rows
    BY <1>0, <2>1 DEF Become, TasksOK, Workers, Begin
  <2>4. None \notin Ids
    BY SyncAssumption
  <2>5. Chained(w)'
    BY <2>2, <2>3, <2>4 DEF Chained, Exists
  <2> QED BY <1>1, <2>1, <2>5
<1>4. CASE BeginUpdate(w)
  <2>1. PICK i \in Instances, id \in Ids, req \in Updates, target \in Ids \cup {None, Keep} :
           /\ Begin(w, i) /\ Live(id)
           /\ IF req.fallback \in {None, Keep} THEN target = req.fallback
              ELSE /\ FallbackAllowed(i, req.fallback)
                   /\ target \in LiveNamed(req.fallback) \ {id}
           /\ Become(w, [step |-> IF target \in Ids THEN "lock" ELSE "update", on |-> i,
                      op |-> "update", req |-> req, target |-> target, id |-> id,
                      old |-> rows[id].name,
                      fallbackName |-> IF req.fallback = Keep THEN FallbackName(rows[id].fallback)
                                       ELSE req.fallback])
    BY <1>4 DEF BeginUpdate
  <2>2. target \in Ids => i \in FallbackAt /\ Exists(target)
    BY <2>1, SyncAssumption DEF FallbackAllowed, LiveNamed, Live, Exists
  <2>3. Exists(id)
    BY <2>1 DEF Live, Exists
  <2>4. UNCHANGED rows
    BY <2>1 DEF Begin
  <2> DEFINE t == [step |-> IF target \in Ids THEN "lock" ELSE "update", on |-> i,
                   op |-> "update", req |-> req, target |-> target, id |-> id,
                   old |-> rows[id].name,
                   fallbackName |-> IF req.fallback = Keep THEN FallbackName(rows[id].fallback)
                                    ELSE req.fallback]
  <2>5. /\ task'[w].step = IF target \in Ids THEN "lock" ELSE "update"
        /\ task'[w].on = i /\ task'[w].op = "update" /\ task'[w].target = target
        /\ task'[w].id = id
    <3>1. /\ t.step = IF target \in Ids THEN "lock" ELSE "update"
          /\ t.on = i /\ t.op = "update" /\ t.target = target /\ t.id = id
      OBVIOUS
    <3>2. Become(w, t)
      BY <2>1
    <3> HIDE DEF t
    <3>3. task'[w] = t
      BY <1>0, <3>2 DEF Become, TasksOK, Workers
    <3> QED BY <3>1, <3>3
  <2>6. Chained(w)'
    BY <2>2, <2>3, <2>4, <2>5 DEF Chained, Exists
  <2> QED BY <1>1, <2>1, <2>6
<1>5. ASSUME NEW op, BeginRemove(w, op)
      PROVE  ChainInv'
  <2>1. PICK i \in Instances, id \in Ids :
           /\ Begin(w, i)
           /\ Become(w, [step |-> "remove", on |-> i, op |-> op, id |-> id, old |-> rows[id].name])
    BY <1>5 DEF BeginRemove
  <2>2. [step |-> "remove", on |-> i, op |-> op, id |-> id, old |-> rows[id].name].step \notin Linking
    BY DEF Linking
  <2> QED BY <1>2, <2>1, <2>2
<1>6. CASE Activate(w)
  <2>1. PICK i \in Instances, id \in Ids :
           /\ Live(id) /\ rows' = [rows EXCEPT ![id] = Activated(rows[id])]
           /\ Become(w, [step |-> "activated", on |-> i, id |-> id]) /\ UNCHANGED mutex
    BY <1>6 DEF Activate
  <2>2. rows[id] \in Rows /\ Exists(id)
    BY <1>0, <2>1, EntryTypes DEF Live, Exists
  <2>3. Activated(rows[id]) \in Rows /\ Activated(rows[id]).fallback = rows[id].fallback
        /\ Activated(rows[id]).deleted = rows[id].deleted
    BY <2>2 DEF Activated, Rows
  <2>4. Tame
    BY <1>0, <2>1, <2>2, <2>3, RewriteTame
  <2> QED BY <2>1, <2>4, CallerChains DEF Linking
<1>7. ASSUME NEW id \in Ids, Live(id), NEW d \in Deployments, NEW c \in Contents \cup {Gone},
             WriteDeployment(w, id, d, c)
      PROVE  ChainInv'
  <2> DEFINE row == [rows[id] EXCEPT !.deployments[d] = c]
  <2>1. rows[id] \in Rows /\ Exists(id)
    BY <1>0, <1>7, EntryTypes DEF Live, Exists
  <2>2. row \in Rows /\ row.fallback = rows[id].fallback /\ row.deleted = rows[id].deleted
    BY <2>1 DEF Rows
  <2>3. rows' = [rows EXCEPT ![id] = row]
    BY <1>7 DEF WriteDeployment, Base, Typed, RowsOK
  <2> HIDE DEF row
  <2>4. Tame
    BY <1>0, <2>1, <2>2, <2>3, RewriteTame
  <2>5. PICK i : Become(w, [step |-> "list", on |-> i]) /\ UNCHANGED mutex
    BY <1>7 DEF WriteDeployment
  <2> QED BY <2>4, <2>5, CallerChains DEF Linking
<1>8. CASE CreateDeployment(w) \/ UpdateDeployment(w) \/ DeleteDeployment(w)
  BY <1>7, <1>8 DEF CreateDeployment, UpdateDeployment, DeleteDeployment
<1>9. CASE SetLicense(w)
  <2>1. PICK i : Become(w, [step |-> "list", on |-> i]) /\ UNCHANGED <<rows, mutex>>
    BY <1>9 DEF SetLicense
  <2> QED BY <2>1, StayTame, CallerChains DEF Linking
<1>10. CASE BeginImport(w)
  <2>1. PICK i, t : Begin(w, i) /\ Become(w, t) /\ t.step = "import"
    BY <1>10 DEF BeginImport
  <2> QED BY <1>2, <2>1 DEF Linking
<1> QED BY <1>3, <1>4, <1>5, <1>6, <1>8, <1>9, <1>10 DEF Administer, BeginDelete, BeginDeactivate

\* The lock is free, the chain is walked under it, and nobody else has an edge to
\* write at this instance.
LEMMA LockChains ==
  ASSUME Base, ChainInv, MaxRows <= FallbackCycleMaxSteps,
         NEW w \in Callers, LockAndCheck(w)
  PROVE  ChainInv'
<1> DEFINE t == task[w]
<1>0. RowsOK /\ TasksOK /\ UNCHANGED rows /\ Tame
  BY StayTame DEF LockAndCheck, Base, Typed
<1>1. t.step = "lock" /\ t \in CreateTasks \cup UpdateTasks
  BY <1>0, CallerByStep DEF LockAndCheck
<1>2. t.on \in FallbackAt /\ t.target \in Ids /\ Exists(t.target)
      /\ (t.op = "update" => Exists(t.id)) /\ t.on \in Instances
  BY <1>1 DEF ChainInv, Chained, CreateTasks, UpdateTasks
<1>3. CASE Become(w, Idle) /\ UNCHANGED mutex
  BY <1>0, <1>3, CallerChains DEF Idle, Linking
<1>4. CASE /\ ~(t.op = "update" /\ FormsCycle(t.id, t.target))
           /\ Become(w, [t EXCEPT !.step = IF t.op = "create" THEN "insert" ELSE "update"])
           /\ mutex' = [mutex EXCEPT ![t.on] = w] /\ LockFree(t.on)
  <2> DEFINE u == [t EXCEPT !.step = IF t.op = "create" THEN "insert" ELSE "update"]
  <2>1. task'[w] = u /\ \A v \in Callers \ {w} : task'[v] = task[v]
    BY <1>0, <1>4 DEF Become, TasksOK, Workers
  <2>2. mutex[t.on] = None /\ mutex'[t.on] = w
        /\ \A i \in Instances \ {t.on} : mutex'[i] = mutex[i]
    BY <1>2, <1>4 DEF LockFree, Base, Typed, RestOK
  <2>3. \A v \in Callers \ {w} : Chained(v)'
    <3> SUFFICES ASSUME NEW v \in Callers \ {w} PROVE Chained(v)'
      OBVIOUS
    <3>1. task[v].step = "update" => task[v].on \in Instances
      BY <1>0, CallerByStep DEF UpdateTasks
    <3>2. v # None
      BY SyncAssumption
    <3>3. task[v].step = "update" /\ mutex[task[v].on] = v => mutex'[task[v].on] = v
      <4> HIDE DEF t
      <4> QED BY <2>2, <3>1, <3>2
    <3> QED BY <1>0, <2>1, <3>3, StillChained DEF ChainInv
  <2>4. Chained(w)'
    <3>1. CASE t \in CreateTasks
      <4>1. u.step = "insert" /\ u.target = t.target
        BY <3>1 DEF CreateTasks
      <4> HIDE DEF u
      <4> QED BY <1>0, <1>2, <2>1, <4>1 DEF Chained, Exists
    <3>2. CASE t \in UpdateTasks
      <4>1. u.step = "update" /\ u.target = t.target /\ u.op = "update" /\ u.id = t.id
            /\ u.on = t.on /\ t.op = "update" /\ t.id \in Ids
        BY <3>2 DEF UpdateTasks
      <4>2. Safe(t.id, t.target)
        BY <1>0, <1>2, <1>4, <4>1, UncheckedIsSafe DEF ChainInv
      <4>3. PICK source, target \in Ids : source = t.id /\ target = t.target
        BY <1>2, <4>1
      <4>4. Safe(source, target)' /\ Exists(source)' /\ Exists(target)'
        BY <1>0, <1>2, <4>1, <4>2, <4>3 DEF Tame
      <4> HIDE DEF u
      <4>5. /\ task'[w].step = "update" /\ task'[w].on = t.on
            /\ task'[w].id = source /\ task'[w].target = target
        BY <2>1, <4>1, <4>3
      <4>6. t.on \in FallbackAt /\ mutex'[t.on] = w
        BY <1>2, <2>2
      <4> HIDE DEF t
      <4> QED BY <4>4, <4>5, <4>6 DEF Chained
    <3> QED BY <1>1, <3>1, <3>2
  <2> QED BY <1>0, <2>3, <2>4 DEF ChainInv, Tame
<1> QED BY <1>3, <1>4 DEF LockAndCheck

\* A new row falls back only on one that exists.
LEMMA InsertChains ==
  ASSUME Base, ChainInv, NEW w \in Callers, Insert(w)
  PROVE  ChainInv'
<1> DEFINE t == task[w]
           row == Row(t.req.name, t.req.content, t.req.aliases, t.target, "api")
           next == [step |-> "registry", on |-> t.on, op |-> "create", changes |->
                      <<[name |-> row.name, entry |-> HandlerEntry(row, t.req.fallback)]>>]
<1>0. RowsOK /\ TasksOK /\ Grounded
  BY DEF Base, Typed, ChainInv
<1>1. t \in CreateTasks /\ t.step = "insert"
  BY <1>0, CallerByStep DEF Insert
<1>2. row \in Rows /\ row.fallback = t.target
  BY <1>1 DEF CreateTasks, Creations, Row, Rows
<1>3. t.target \in Ids => Exists(t.target)
  BY <1>1 DEF ChainInv, Chained
<1>4. \/ Finish(w) /\ UNCHANGED rows
      \/ /\ \E id \in FreeIds : rows' = [rows EXCEPT ![id] = row]
         /\ Become(w, next) /\ UNCHANGED mutex
  BY DEF Insert
<1>5. next.step \notin Linking
  BY DEF Linking
<1> HIDE DEF next, row, t
<1>6. CASE Finish(w) /\ UNCHANGED rows
  BY <1>6, FinishChains, StayTame
<1>7. ASSUME NEW id \in FreeIds, rows' = [rows EXCEPT ![id] = row], UNCHANGED mutex,
             Become(w, next)
      PROVE  ChainInv'
  <2>1. id \in Ids /\ ~Exists(id)
    BY DEF FreeIds, Exists
  <2>2. Tame
    BY <1>0, <1>2, <1>3, <1>7, <2>1, AddTame
  <2> QED BY <1>5, <1>7, <2>2, CallerChains
<1> QED BY <1>4, <1>6, <1>7

\* A fallback is written under the lock, so that no other handler is about to write one
\* where fallbacks are administered.
LEMMA UpdateChains ==
  ASSUME Base, ChainInv, NEW i \in Instances, FallbackAt \subseteq {i},
         NEW w \in Callers, Update(w)
  PROVE  ChainInv'
<1> DEFINE t == task[w]
           row == Written(rows[t.id], t.req, t.target)
           next == [step |-> "registry", on |-> t.on, op |-> "update",
                    changes |-> Refresh(t.old, row, t.fallbackName)]
<1>0. RowsOK /\ TasksOK /\ Grounded /\ FallbacksAcyclic
  BY DEF Base, Typed, ChainInv
<1>1. t \in UpdateTasks /\ t.step = "update"
  BY <1>0, CallerByStep DEF Update
<1>2. t.id \in Ids /\ t.req \in Patches /\ t.target \in Ids \cup {None, Keep}
  BY <1>1 DEF UpdateTasks
<1>3. \/ Finish(w) /\ UNCHANGED rows
      \/ /\ Live(t.id) /\ rows' = [rows EXCEPT ![t.id] = row]
         /\ Become(w, next) /\ UNCHANGED mutex
  BY DEF Update
<1>4. CASE Finish(w) /\ UNCHANGED rows
  BY <1>4, FinishChains, StayTame
<1>5. CASE /\ Live(t.id) /\ rows' = [rows EXCEPT ![t.id] = row]
           /\ Become(w, next) /\ UNCHANGED mutex
  <2>1. rows[t.id] \in Rows /\ Exists(t.id)
    BY <1>0, <1>2, <1>5, EntryTypes DEF Live, Exists
  <2>2. /\ row \in Rows /\ row.deleted = rows[t.id].deleted
        /\ row.fallback = IF t.target = Keep THEN rows[t.id].fallback ELSE t.target
    BY <2>1, <1>2, WrittenRow
  <2>3. next.step \notin Linking
    BY DEF Linking
  <2> HIDE DEF row, next
  <2>4. CASE t.target \notin Ids
    <3>1. row.fallback \in {rows[t.id].fallback, None}
      BY <1>2, <2>2, <2>4
    <3>2. Tame
      <4> HIDE DEF t
      <4> QED BY <1>0, <1>2, <1>5, <2>1, <2>2, <3>1, RewriteTame
    <3> QED BY <1>5, <2>3, <3>2, CallerChains
  <2>5. CASE t.target \in Ids
    <3>1. row.fallback = t.target
      BY <2>2, <2>5, SyncAssumption
    <3>2. t.on = i /\ mutex[i] = w /\ Exists(t.target) /\ Safe(t.id, t.target)
      BY <1>1, <2>5 DEF ChainInv, Chained
    <3>3. FallbacksAcyclic' /\ Grounded' /\ \A id \in Ids : Exists(id) => Exists(id)'
      <4> HIDE DEF t
      <4> QED BY <1>0, <1>2, <1>5, <2>1, <2>2, <2>5, <3>1, <3>2, LinkAcyclic
    <3>4. task'[w] = next /\ \A v \in Callers \ {w} : task'[v] = task[v]
      BY <1>0, <1>5 DEF Become, TasksOK, Workers
    <3>5. Chained(w)'
      BY <2>3, <3>4 DEF Chained, Linking
    <3>6. ASSUME NEW v \in Callers \ {w} PROVE Chained(v)'
      <4> HIDE DEF t
      <4>1. task[v].step = "update" => task[v].target \notin Ids
        BY <3>2 DEF ChainInv, Chained
      <4>2. task[v].step = "lock" => task[v] \in CreateTasks \cup UpdateTasks
        BY <1>0, CallerByStep
      <4>3. task[v].step = "update" => task[v] \in UpdateTasks
        BY <1>0, CallerByStep
      <4>4. task[v].step \in {"lock", "update"} /\ task[v].op = "update" => task[v].id \in Ids
        BY <4>2, <4>3 DEF CreateTasks, UpdateTasks
      <4>5. Chained(v) /\ task'[v] = task[v]
        BY <3>4 DEF ChainInv
      <4> QED BY <3>3, <4>1, <4>4, <4>5 DEF Chained
    <3> QED BY <3>3, <3>5, <3>6 DEF ChainInv
  <2> QED BY <2>4, <2>5
<1> QED BY <1>3, <1>4, <1>5

\* An import adds rows without a fallback and leaves that of the others.
LEMMA ImportOneChains ==
  ASSUME Base, ChainInv, NEW w \in Callers, ImportOne(w)
  PROVE  ChainInv'
<1> DEFINE t == task[w]
           next(n, row) ==
              [step |-> "registry", on |-> t.on, op |-> "import", left |-> t.left \ {n},
               changes |-> <<[name |-> n,
                              entry |-> HandlerEntry(row, FallbackName(row.fallback))]>>]
           added(n) == Row(n, Imported, {}, None, "provider_account")
           found(id) == [rows[id] EXCEPT !.content = Imported]
<1>0. RowsOK /\ TasksOK /\ Grounded
  BY DEF Base, Typed, ChainInv
<1>1. t.step = "import" /\ t \in AddTasks \cup ImportTasks
  BY <1>0, CallerByStep DEF ImportOne
<1>2. t.left \in SUBSET Names
  BY <1>1 DEF AddTasks, ImportTasks
<1>3. PICK n \in t.left :
        \/ \E id \in LiveNamed(n) :
              rows' = [rows EXCEPT ![id] = found(id)] /\ Become(w, next(n, found(id)))
        \/ \E id \in FreeIds :
              rows' = [rows EXCEPT ![id] = added(n)] /\ Become(w, next(n, added(n)))
        \/ Become(w, [t EXCEPT !.left = @ \ {n}]) /\ UNCHANGED rows
  BY <1>1 DEF ImportOne
<1>4. UNCHANGED mutex
  BY DEF ImportOne
<1>5. ASSUME NEW id \in LiveNamed(n), rows' = [rows EXCEPT ![id] = found(id)]
      PROVE  Tame
  <2>1. id \in Ids /\ rows[id] \in Rows /\ Exists(id)
    BY <1>0, EntryTypes DEF LiveNamed, Live, Exists
  <2>2. /\ found(id) \in Rows /\ found(id).fallback = rows[id].fallback
        /\ found(id).deleted = rows[id].deleted
    BY <2>1, SyncAssumption DEF Rows
  <2> HIDE DEF found
  <2> QED BY <1>0, <1>5, <2>1, <2>2, RewriteTame
<1>6. ASSUME NEW id \in FreeIds, rows' = [rows EXCEPT ![id] = added(n)]
      PROVE  Tame
  <2>1. id \in Ids /\ ~Exists(id)
    BY DEF FreeIds, Exists
  <2>2. added(n) \in Rows /\ added(n).fallback \notin Ids
    BY <1>2, SyncAssumption DEF Row, Rows
  <2> HIDE DEF added
  <2> QED BY <1>0, <1>6, <2>1, <2>2, AddTame
<1>7. \A row : next(n, row).step \notin Linking
  BY DEF Linking
<1>8. [t EXCEPT !.left = @ \ {n}].step \notin Linking
  BY <1>1 DEF AddTasks, ImportTasks, Linking
<1> HIDE DEF t, next, added, found
<1> QED BY <1>3, <1>4, <1>5, <1>6, <1>7, <1>8, StayTame, CallerChains

LEMMA ContinueChains ==
  ASSUME Base, ChainInv, MaxRows <= FallbackCycleMaxSteps,
         NEW i \in Instances, FallbackAt \subseteq {i}, NEW w \in Callers, Continue(w)
  PROVE  ChainInv'
<1> DEFINE t == task[w]
<1>0. RowsOK /\ TasksOK
  BY DEF Base, Typed
<1>1. CASE LockAndCheck(w)
  BY <1>1, LockChains
<1>2. CASE Insert(w)
  BY <1>2, InsertChains
<1>3. CASE Update(w)
  BY <1>3, UpdateChains
<1>4. CASE Remove(w)
  <2> DEFINE row == IF t.op = "delete" THEN Deleted(rows[t.id]) ELSE Deactivated(rows[t.id])
             next == [step |-> "registry", on |-> t.on, op |-> t.op,
                      changes |-> <<[name |-> t.old, entry |-> None]>>]
  <2>1. t \in RemoveTasks
    BY <1>0, <1>4, CallerByStep DEF Remove
  <2>2. \/ Finish(w) /\ UNCHANGED rows
        \/ /\ Live(t.id) /\ rows' = [rows EXCEPT ![t.id] = row]
           /\ Become(w, next) /\ UNCHANGED mutex
    BY <1>4 DEF Remove
  <2>3. CASE Finish(w) /\ UNCHANGED rows
    BY <2>3, StayTame, FinishChains
  <2>4. CASE /\ Live(t.id) /\ rows' = [rows EXCEPT ![t.id] = row]
             /\ Become(w, next) /\ UNCHANGED mutex
    <3>1. t.id \in Ids /\ rows[t.id] \in Rows /\ Exists(t.id)
      BY <1>0, <2>1, <2>4, EntryTypes DEF RemoveTasks, Live, Exists
    <3>2. row \in Rows /\ row.fallback = rows[t.id].fallback /\ (~row.deleted => ~rows[t.id].deleted)
      BY <3>1 DEF Deleted, Deactivated, Rows
    <3>3. next.step \notin Linking
      BY DEF Linking
    <3> HIDE DEF t, row, next
    <3>4. Tame
      BY <1>0, <2>4, <3>1, <3>2, RewriteTame
    <3> QED BY <2>4, <3>3, <3>4, CallerChains
  <2> QED BY <2>2, <2>3, <2>4
<1>5. CASE AfterActivate(w)
  <2> DEFINE next == [step |-> "registry", on |-> t.on, op |-> "activate", changes |->
                        <<[name  |-> rows[t.id].name,
                           entry |-> HandlerEntry(rows[t.id], FallbackName(rows[t.id].fallback))]>>]
  <2>1. (Become(w, Idle) \/ Become(w, next)) /\ UNCHANGED <<rows, mutex>>
    BY <1>5 DEF AfterActivate
  <2>2. Idle.step \notin Linking /\ next.step \notin Linking
    BY DEF Linking, Idle
  <2> HIDE DEF next
  <2> QED BY <2>1, <2>2, StayTame, CallerChains
<1>6. CASE ImportOne(w)
  BY <1>6, ImportOneChains
<1>7. CASE ImportEnds(w)
  <2>1. Become(w, [step |-> "publish", on |-> t.on]) /\ UNCHANGED <<rows, mutex>>
    BY <1>7 DEF ImportEnds
  <2> QED BY <2>1, StayTame, CallerChains DEF Linking
<1>8. CASE ChangeRegistry(w)
  <2> DEFINE next == IF Len(t.changes) > 1 THEN [t EXCEPT !.changes = Tail(@)]
                     ELSE [t EXCEPT !.step = IF t.op = "import" THEN "import" ELSE "publish"]
  <2>1. t.step = "registry" /\ t \in WriteTasks \cup AddTasks
    BY <1>0, <1>8, CallerByStep DEF ChangeRegistry
  <2>2. Become(w, next) /\ UNCHANGED <<rows, mutex>>
    BY <1>8 DEF ChangeRegistry
  <2>3. next.step \notin Linking
    BY <2>1 DEF WriteTasks, AddTasks, Linking
  <2> HIDE DEF next
  <2> QED BY <2>2, <2>3, StayTame, CallerChains
<1>9. CASE KeyFails(w)
  <2>1. t \in WriteTasks \cup AddTasks
    BY <1>0, <1>9, CallerByStep DEF KeyFails
  <2>2. [t EXCEPT !.step = "publish"].step \notin Linking
    BY <2>1 DEF WriteTasks, AddTasks, Linking
  <2>3. CASE Finish(w) /\ UNCHANGED rows
    BY <2>3, StayTame, FinishChains
  <2>4. CASE Become(w, [t EXCEPT !.step = "publish"]) /\ UNCHANGED <<rows, mutex>>
    <3> HIDE DEF t
    <3> QED BY <2>2, <2>4, StayTame, CallerChains
  <2> QED BY <1>9, <2>3, <2>4 DEF KeyFails
<1>10. CASE Publish(w) \/ PublishFails(w)
  <2>1. Finish(w) /\ UNCHANGED rows
    BY <1>10 DEF Publish, PublishFails
  <2> QED BY <2>1, StayTame, FinishChains
<1> QED BY <1>1, <1>2, <1>3, <1>4, <1>5, <1>6, <1>7, <1>8, <1>9, <1>10 DEF Continue

\* A worker that loads the models writes no row and holds no lock that it gives back.
LEMMA WorkerChains ==
  ASSUME Base, ChainInv, Tame, NEW w \in Workers, NEW t, Become(w, t), t.step \notin Linking,
         UNCHANGED mutex
  PROVE  ChainInv'
<1>1. CASE w \in Callers
  BY <1>1, CallerChains
<1>2. CASE w \notin Callers
  <2>1. \A v \in Callers : task'[v] = task[v]
    BY <1>2 DEF Become, Base, Typed, TasksOK, Workers
  <2> QED BY <2>1, InstanceChains
<1> QED BY <1>1, <1>2

LEMMA ReloadChains ==
  ASSUME Base, ChainInv, NEW w \in Workers, Reload(w)
  PROVE  ChainInv'
<1> DEFINE t == task[w]
<1>1. UNCHANGED <<rows, mutex>> /\ Tame
  BY StayTame DEF Reload, List, AddNext, Gate, ReloadFails
<1>2. ASSUME AfterReload(w, t.on)
      PROVE  \E u : Become(w, u) /\ u.step \notin Linking
  <2> DEFINE publish == [step |-> "publish", on |-> t.on]
             start == [step |-> "start", on |-> t.on]
  <2>1. Become(w, publish) \/ Become(w, Idle) \/ Become(w, start)
    BY <1>2 DEF AfterReload
  <2>2. publish.step \notin Linking /\ Idle.step \notin Linking /\ start.step \notin Linking
    BY DEF Idle, Linking
  <2> HIDE DEF publish, start
  <2> QED BY <2>1, <2>2
<1>3. CASE List(w)
  <2> DEFINE u == [step |-> "reload", on |-> t.on, left |-> ActiveIds,
                   listed |-> [id \in ActiveIds |-> rows[id]]]
  <2>1. Become(w, u) /\ u.step \notin Linking
    BY <1>3 DEF List, Listing, Linking
  <2> HIDE DEF u
  <2> QED BY <1>1, <2>1, WorkerChains
<1>4. CASE AddNext(w)
  <2>1. PICK id : Become(w, [t EXCEPT !.left = @ \ {id}])
    BY <1>4 DEF AddNext
  <2>2. t \in ReloadTasks({t.on})
    BY <1>4, LoaderByStep DEF AddNext, Base, Typed
  <2>3. [t EXCEPT !.left = @ \ {id}].step \notin Linking
    BY <2>2 DEF ReloadTasks, Linking
  <2> HIDE DEF t
  <2> QED BY <1>1, <2>1, <2>3, WorkerChains
<1>5. CASE Gate(w)
  BY <1>1, <1>2, <1>5, WorkerChains DEF Gate
<1>6. CASE ReloadFails(w)
  <2>1. CASE AfterReload(w, t.on)
    BY <1>1, <1>2, <2>1, WorkerChains
  <2>2. CASE Fails(w)
    BY <1>1, <2>2, WorkerChains DEF Fails, Linking
  <2> QED BY <1>6, <2>1, <2>2 DEF ReloadFails
<1> QED BY <1>3, <1>4, <1>5, <1>6 DEF Reload

\* An instance that restarts takes the locks of its handlers with it, and the handlers.
LEMMA RestartChains ==
  ASSUME Base, ChainInv, NEW i \in Instances, Restart(i)
  PROVE  ChainInv'
<1>1. UNCHANGED rows /\ Tame /\ TasksOK
  BY StayTame DEF Restart, Base, Typed
<1>2. \A j \in Instances \ {i} : mutex'[j] = mutex[j]
  BY DEF Restart, Base, Typed, RestOK
<1>3. \A v \in Callers : task'[v] = Idle \/ (task'[v] = task[v] /\ (task[v] = Idle \/ task[v].on # i))
  BY SyncAssumption DEF Restart, Workers
<1>4. ASSUME NEW v \in Callers PROVE Chained(v)'
  <2>1. CASE task'[v] = Idle
    BY <2>1 DEF Chained, Idle
  <2>2. CASE task'[v] = task[v] /\ task[v].on # i
    <3>1. task[v].step = "update" => task[v].on \in Instances
      BY <1>1, CallerByStep DEF UpdateTasks
    <3>2. task[v].step = "update" /\ mutex[task[v].on] = v => mutex'[task[v].on] = v
      BY <1>2, <2>2, <3>1
    <3> QED BY <1>1, <2>2, <3>2, StillChained DEF ChainInv
  <2> QED BY <1>3, <2>1, <2>2
<1> QED BY <1>1, <1>4 DEF ChainInv, Tame

\* The file's models are stored without their fallbacks, and overwritten with the
\* fallbacks that the rows had.
LEMMA SyncOneChains ==
  ASSUME Base, ChainInv, NEW i \in Instances, SyncOne(i)
  PROVE  ChainInv'
<1> DEFINE t == task[i]
           down == [step |-> "down", on |-> i]
           synced(id, n) == SyncedRow(rows[id], n)
           full(id, n) == [synced(id, n) EXCEPT !.deployments = SyncedDeployments(@, n)]
<1>0. RowsOK /\ Grounded /\ i \in Workers
  BY DEF Base, Typed, ChainInv, Workers
<1>1. t.step = "sync" /\ t \in [step: {"sync"}, on: {i}, left: SUBSET DOMAIN Yaml]
  BY DEF SyncOne, InstanceTasks, ReloadTasks, Idle, Base, Typed, TasksOK
<1>2. PICK n \in t.left :
        /\ Become(i, down) \/ Become(i, [t EXCEPT !.left = @ \ {n}])
        /\ \/ UNCHANGED rows
           \/ \E id \in FreeIds : rows' = [rows EXCEPT ![id] = YamlRow(n)]
           \/ \E id \in LiveNamed(n) : rows' \in {[rows EXCEPT ![id] = synced(id, n)],
                                                  [rows EXCEPT ![id] = full(id, n)]}
  BY <1>1 DEF SyncOne, Fails
<1>3. n \in Names /\ n \in DOMAIN Yaml /\ Yaml[n] \in Models
  BY <1>1, <1>2, SyncAssumption
<1>4. ASSUME NEW id \in FreeIds, rows' = [rows EXCEPT ![id] = YamlRow(n)]
      PROVE  Tame
  <2>1. id \in Ids /\ ~Exists(id)
    BY DEF FreeIds, Exists
  <2>2. YamlRow(n) \in Rows /\ YamlRow(n).fallback \notin Ids
    BY <1>3, YamlRowType, SyncAssumption DEF YamlRow, Row
  <2> QED BY <1>0, <1>4, <2>1, <2>2, AddTame
<1>5. ASSUME NEW id \in LiveNamed(n), rows' \in {[rows EXCEPT ![id] = synced(id, n)],
                                                 [rows EXCEPT ![id] = full(id, n)]}
      PROVE  Tame
  <2>1. id \in Ids /\ rows[id] \in Rows /\ Exists(id)
    BY <1>0, EntryTypes DEF LiveNamed, Live, Exists
  <2>2. /\ synced(id, n) \in Rows /\ synced(id, n).fallback = rows[id].fallback
        /\ synced(id, n).deleted = rows[id].deleted
    BY <1>3, <2>1 DEF SyncedRow, Rows, Models
  <2> HIDE DEF synced
  <2>3. SyncedDeployments(synced(id, n).deployments, n) \in [Deployments -> Contents \cup {None, Gone}]
    BY <1>3, <2>2 DEF SyncedDeployments, Models
  <2>4. /\ full(id, n) \in Rows /\ full(id, n).fallback = rows[id].fallback
        /\ full(id, n).deleted = rows[id].deleted
    BY <2>2, <2>3 DEF Rows
  <2> HIDE DEF full
  <2>5. rows' = [rows EXCEPT ![id] = synced(id, n)] \/ rows' = [rows EXCEPT ![id] = full(id, n)]
    BY <1>5
  <2> QED BY <1>0, <2>1, <2>2, <2>4, <2>5, RewriteTame
<1>6. Tame
  <2> HIDE DEF t, synced, full
  <2> QED BY <1>2, <1>4, <1>5, StayTame
<1>7. [t EXCEPT !.left = @ \ {n}].step \notin Linking /\ down.step \notin Linking
  BY <1>1 DEF Linking
<1>8. UNCHANGED mutex
  BY DEF SyncOne
<1> HIDE DEF t, down
<1> QED BY <1>0, <1>2, <1>6, <1>7, <1>8, WorkerChains

LEMMA RunChains ==
  ASSUME Base, ChainInv, NEW i \in Instances, Run(i)
  PROVE  ChainInv'
<1>0. i \in Workers
  BY DEF Workers
<1>1. CASE Receive(i)
  <2> DEFINE u == [step |-> "reload", on |-> i, left |-> ActiveIds,
                   listed |-> [id \in ActiveIds |-> rows[id]]]
  <2>1. Become(i, u) /\ u.step \notin Linking /\ UNCHANGED <<rows, mutex>>
    BY <1>1 DEF Receive, Listing, Linking
  <2> HIDE DEF u
  <2> QED BY <1>0, <2>1, StayTame, WorkerChains
<1>2. CASE Lose(i) \/ Heartbeat(i)
  <2>1. UNCHANGED <<rows, task, mutex>>
    BY <1>2 DEF Lose, Heartbeat
  <2> QED BY <2>1, StayTame, InstanceChains
<1>3. CASE NewRegistry(i)
  <2>1. Become(i, [step |-> "list", on |-> i]) /\ UNCHANGED <<rows, mutex>>
    BY <1>3 DEF NewRegistry
  <2> QED BY <1>0, <2>1, StayTame, WorkerChains DEF Linking
<1>4. CASE Subscribe(i)
  <2>1. Become(i, Idle) /\ Idle.step \notin Linking /\ UNCHANGED <<rows, mutex>>
    BY <1>4 DEF Subscribe, Idle, Linking
  <2> QED BY <1>0, <2>1, StayTame, WorkerChains
<1> QED BY <1>1, <1>2, <1>3, <1>4, RestartChains, SyncOneChains DEF Run

\* The rows at the start have no fallbacks.
LEMMA InitChain == Init => ChainInv
<1> SUFFICES ASSUME Init PROVE ChainInv
  OBVIOUS
<1>1. \A id \in Ids : rows[id] # None => rows[id].fallback \notin Ids
  <2>1. \A n \in DOMAIN Yaml : YamlRow(n).fallback = None
    BY DEF YamlRow, Row
  <2> QED BY <2>1, InitRows, SyncAssumption
<1>2. FallbacksAcyclic
  BY <1>1 DEF FallbacksAcyclic, Live
<1>3. Grounded
  BY <1>1 DEF Grounded, Exists
<1>4. \A w \in Callers : Chained(w)
  BY DEF Init, Chained, Workers, Idle
<1> QED BY <1>2, <1>3, <1>4 DEF ChainInv

\* When fallbacks are administered through one process and there are no more models
\* than the steps that checkFallbackCycle walks, the fallbacks of the models that are
\* not deleted never form a cycle, however handlers, imports and restarts interleave
\* between the walk and the write.
THEOREM FallbacksStayAcyclic ==
  ASSUME NEW i \in Instances, FallbackAt \subseteq {i}, MaxRows <= FallbackCycleMaxSteps
  PROVE  Spec => []FallbacksAcyclic
<1>1. Init => Base /\ ChainInv
  BY InitBase, InitChain
<1>2. Base /\ ChainInv /\ [Next]_vars => (Base /\ ChainInv)'
  <2> SUFFICES ASSUME Base, ChainInv, [Next]_vars PROVE ChainInv'
    BY StepBase
  <2>1. ASSUME NEW w \in Callers, Administer(w) \/ Continue(w) PROVE ChainInv'
    BY <2>1, AdministerChains, ContinueChains
  <2>2. ASSUME NEW w \in Workers, Reload(w) PROVE ChainInv'
    BY <2>2, ReloadChains
  <2>3. ASSUME NEW j \in Instances, Run(j) PROVE ChainInv'
    BY <2>3, RunChains
  <2>4. CASE UNCHANGED vars
    <3>1. UNCHANGED <<rows, task, mutex>>
      BY <2>4 DEF vars
    <3> QED BY <3>1, StayTame, InstanceChains
  <2> QED BY <2>1, <2>2, <2>3, <2>4 DEF Next
<1>3. Base /\ ChainInv => FallbacksAcyclic
  BY DEF ChainInv
<1> QED BY <1>1, <1>2, <1>3, PTL DEF Spec
=============================================================================
