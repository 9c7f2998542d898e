---------------------------- MODULE ApiKeysExport ----------------------------
(***************************************************************************)
(* The export of the API keys of the institutions that an aggregator       *)
(* manages (apps/backoffice, subscriptions/business.ts), for one user.     *)
(*                                                                         *)
(* A request writes an empty file that says IN_PROGRESS and is answered;   *)
(* a task that nobody waits for gathers the keys and overwrites the file,  *)
(* or marks it as failed, or stops with its instance. The files are the    *)
(* only state: a file IN_PROGRESS keeps further requests out until it      *)
(* expires, and the most recent file decides what is downloaded. Each      *)
(* export is encrypted with the password of its own request.               *)
(***************************************************************************)
EXTENDS Naturals, Sequences, SequencesExt

CONSTANTS
  Aggregate,     \* institutions that may be managed
  Task,          \* requests at work at once, over all instances
  Duration,      \* seconds before a file expires
  GroupPage,     \* the size of a page of groups (2000)
  DelegationPage,\* and of delegations (10000)
  MaxFile,       \* bound: accepted requests
  MaxChange,     \* bound: changes of the institutions
  MaxFailure     \* bound: errors and stops

ASSUME DurationAssumption == Duration \in Nat \ {0}
ASSUME AggregateAssumption == IsFiniteSet(Aggregate)
ASSUME PageAssumption == GroupPage \in Nat \ {0} /\ DelegationPage \in Nat \ {0}
ASSUME ChangeAssumption == MaxChange \in Nat /\ MaxFailure \in Nat

VARIABLES
  delegated,     \* self-care: the institutions that the aggregator manages now
  groups,        \* and their groups, both in the order of the pages
  files,         \* the container, in the order of the requests
  task,          \* what each request has come to
  offered,       \* the file of the last download link, 0 if none since the last request
  changes, failures,
  lasting,       \* history: the groups that have not changed since each request
  shifted,       \* history: the files whose pages moved while they were being read
  together,      \* history: two requests looked before either had its file
  outlived       \* history: a task was still at work when its file expired

selfcare == <<delegated, groups, changes, lasting, shifted>>
exportVars == <<selfcare, files, task, offered, failures, together, outlived>>

\* An institution may have more than one group.
Group == Aggregate \X {1, 2}

State == {"IN_PROGRESS", "DONE", "FAILED"}

\* age: seconds since lastModified, as far as it matters. rows: the groups whose
\* keys are in it.
File == [state : State, age : 0..Duration, rows : SUBSET Group]

\* What a task has read so far: its groups, then its delegations.
NoTask == [step |-> "idle", file |-> 0, groups |-> <<>>, aggregates |-> <<>>, rows |-> {}]

-----------------------------------------------------------------------------
(* Self-care, and time                                                      *)

\* An entry comes, wherever the order of self-care puts it, or one goes.
Edits(list, entries) ==
  {InsertAt(list, i, e) : i \in 1..Len(list) + 1, e \in entries \ Range(list)}
    \cup {RemoveAt(list, i) : i \in DOMAIN list}

\* The groups of an institution that is managed have lasted since the request.
Lasting(ds, gs) == {g \in Range(gs) : g[1] \in Range(ds)}

\* What t has read of the list that it is reading no longer comes first in it.
Shifts(t, ds, gs) ==
  \/ task[t].step = "groups" /\ ~ IsPrefix(task[t].groups, gs)
  \/ task[t].step = "aggregates" /\ ~ IsPrefix(task[t].aggregates, ds)

Change ==
  /\ changes < MaxChange
  /\ changes' = changes + 1
  /\ \/ delegated' \in Edits(delegated, Aggregate) /\ UNCHANGED groups
     \/ groups' \in Edits(groups, Group) /\ UNCHANGED delegated
  /\ lasting' = [i \in DOMAIN lasting |-> lasting[i] \cap Lasting(delegated', groups')]
  /\ shifted' = shifted \cup
       {task[t].file : t \in {u \in Task : Shifts(u, delegated', groups')}}
  /\ UNCHANGED <<files, task, offered, failures, together, outlived>>

Expired(file) == file.age >= Duration

Running == {t \in Task : task[t].step \in {"groups", "aggregates", "finalize"}}

SecondPasses ==
  /\ \E i \in DOMAIN files : ~ Expired(files[i])
  /\ files' = [i \in DOMAIN files |->
                 [files[i] EXCEPT !.age = IF @ < Duration THEN @ + 1 ELSE @]]
  /\ outlived' = (outlived \/ \E t \in Running : Expired(files'[task[t].file]))
  /\ UNCHANGED <<selfcare, task, offered, failures, together>>

-----------------------------------------------------------------------------
(* The request                                                              *)

\* Wrong on purpose: a file is never too old.
findOldFilesToo == DOMAIN files

\* findExportsFiles: files past their duration are skipped.
findExportsFiles == {i \in DOMAIN files : ~ Expired(files[i])}

\* Wrong on purpose: it looks for exports that can be downloaded.
AlreadyDone == \E i \in findExportsFiles : files[i].state = "DONE"

AlreadyInProgress == \E i \in findExportsFiles : files[i].state = "IN_PROGRESS"

\* generateApiKeysExports, up to its first await.
Request(t) ==
  /\ task[t] = NoTask
  /\ ~ AlreadyInProgress
  /\ task' = [task EXCEPT ![t].step = "initialize"]
  /\ together' = (together \/ \E u \in Task : task[u].step = "initialize")
  /\ UNCHANGED <<selfcare, files, offered, failures, outlived>>

\* initializeFile, after which the request is answered.
InitializeFile(t) ==
  /\ task[t].step = "initialize"
  /\ Len(files) < MaxFile
  /\ files' = Append(files, [state |-> "IN_PROGRESS", age |-> 0, rows |-> {}])
  /\ task' = [task EXCEPT ![t] = [NoTask EXCEPT !.step = "groups", !.file = Len(files')]]
  /\ lasting' = Append(lasting, Lasting(delegated, groups))
  /\ offered' = 0
  /\ UNCHANGED <<delegated, groups, changes, shifted, failures, together, outlived>>

-----------------------------------------------------------------------------
(* The task                                                                 *)

\* One page of a list of which some is read. Every page but the last is full, so
\* that the next page starts where what was read ends.
PageAfter(list, read, size) ==
  SubSeq(list, Len(read) + 1,
         IF Len(read) + size < Len(list) THEN Len(read) + size ELSE Len(list))

\* page >= totalPages, once it is counted.
IsLastPage(list, read, size) == Len(read) + size >= Len(list)

Fails(t) ==
  task' = [task EXCEPT ![t] = [NoTask EXCEPT !.step = "fail", !.file = task[t].file]]

\* The list may change between two pages.
RetrieveAggregatorGroups(t) ==
  /\ task[t].step = "groups"
  /\ task' = [task EXCEPT
       ![t].groups = @ \o PageAfter(groups, @, GroupPage),
       ![t].step = IF IsLastPage(groups, task[t].groups, GroupPage)
                   THEN "aggregates" ELSE @]
  /\ UNCHANGED <<selfcare, files, offered, failures, together, outlived>>

\* The map keeps the last group that was read of each institution.
aggregateToGroupMap(read) ==
  {read[i] : i \in {j \in DOMAIN read :
                      \A k \in DOMAIN read : k > j => read[k][1] # read[j][1]}}

\* Wrong on purpose: more groups than institutions will do.
EnoughGroups(read, aggregates) == Len(read) >= Len(aggregates)

\* groupsCounter and aggregatesCounter.
SameCount(read, aggregates) == Len(read) = Len(aggregates)

\* One page of delegations, each of an institution that the map knows.
RetrieveAggregates(t) ==
  /\ task[t].step = "aggregates"
  /\ LET read == task[t].groups
         page == PageAfter(delegated, task[t].aggregates, DelegationPage)
         aggregates == task[t].aggregates \o page
         known == Range(page) \subseteq {g[1] : g \in Range(read)}
         last == IsLastPage(delegated, task[t].aggregates, DelegationPage)
     IN \/ known /\ ~ last /\ task' = [task EXCEPT ![t].aggregates = aggregates]
        \/ /\ known /\ last /\ SameCount(read, aggregates)
           /\ task' = [task EXCEPT ![t] = [NoTask EXCEPT
                !.step = "finalize", !.file = task[t].file,
                !.rows = {g \in aggregateToGroupMap(read) : g[1] \in Range(aggregates)}]]
        \/ ~ (known /\ (last => SameCount(read, aggregates))) /\ Fails(t)
  /\ UNCHANGED <<selfcare, files, offered, failures, together, outlived>>

\* Wrong on purpose: the upload does not set the tags.
UploadFile(t) ==
  /\ task[t].step = "finalize"
  /\ files' = [files EXCEPT ![task[t].file].age = 0, ![task[t].file].rows = task[t].rows]
  /\ task' = [task EXCEPT ![t] = NoTask]
  /\ UNCHANGED <<selfcare, offered, failures, together, outlived>>

\* The keys of every group, the archive and its upload, which replaces the file.
\* An upload may be reported as failed although it took place.
FinalizeFile(t) ==
  /\ task[t].step = "finalize"
  /\ files' = [files EXCEPT ![task[t].file] =
                 [state |-> "DONE", age |-> 0, rows |-> task[t].rows]]
  /\ \/ task' = [task EXCEPT ![t] = NoTask] /\ UNCHANGED failures
     \/ Fails(t) /\ failures < MaxFailure /\ failures' = failures + 1
  /\ UNCHANGED <<selfcare, offered, together, outlived>>

Fault == failures < MaxFailure /\ failures' = failures + 1

\* Self-care, the API manager or the storage does not answer.
FailTask(t) ==
  /\ t \in Running
  /\ Fault /\ Fails(t)
  /\ UNCHANGED <<selfcare, files, offered, together, outlived>>

\* markFileAsFailed: the tags change, lastModified does not.
MarkFileAsFailed(t) ==
  /\ task[t].step = "fail"
  /\ files' = [files EXCEPT ![task[t].file].state = "FAILED"]
  /\ task' = [task EXCEPT ![t] = NoTask]
  /\ UNCHANGED <<selfcare, offered, failures, together, outlived>>

\* The instance stops, or the file cannot be written or marked.
Stop(t) ==
  /\ task[t] # NoTask
  /\ Fault
  /\ task' = [task EXCEPT ![t] = NoTask]
  /\ UNCHANGED <<selfcare, files, offered, together, outlived>>

-----------------------------------------------------------------------------
(* The download                                                             *)

\* Wrong on purpose: the oldest of the exports that can be downloaded.
OldestExports ==
  {i \in findExportsFiles : \A j \in findExportsFiles : files[i].age >= files[j].age}

\* retrieveMostRecentApiKeysExport: any of them, if they have the same date.
MostRecentExports ==
  {i \in findExportsFiles : \A j \in findExportsFiles : files[i].age <= files[j].age}

\* generateApiKeysExportsDownloadLink: refused unless the export is done.
Download ==
  /\ \E i \in MostRecentExports : files[i].state = "DONE" /\ offered' = i
  /\ UNCHANGED <<selfcare, files, task, failures, together, outlived>>

-----------------------------------------------------------------------------
ExportInit ==
  /\ delegated \in SetToAllKPermutations(Aggregate)
  /\ groups \in SetToAllKPermutations(Range(delegated) \X {1, 2})
  /\ files = <<>> /\ lasting = <<>> /\ shifted = {}
  /\ task = [t \in Task |-> NoTask]
  /\ offered = 0 /\ changes = 0 /\ failures = 0
  /\ together = FALSE /\ outlived = FALSE

Work(t) ==
  \/ InitializeFile(t)
  \/ RetrieveAggregatorGroups(t) \/ RetrieveAggregates(t)
  \/ FinalizeFile(t)
  \/ FailTask(t) \/ MarkFileAsFailed(t)

ExportNext ==
  \/ Change \/ SecondPasses \/ Download
  \/ \E t \in Task : Request(t) \/ Work(t) \/ Stop(t)

ExportSpec == ExportInit /\ [][ExportNext]_exportVars

\* Time passes, and a task that does not stop with its instance goes on.
Fairness ==
  /\ WF_exportVars(SecondPasses)
  /\ \A t \in Task : WF_exportVars(Work(t))

FairSpec == ExportSpec /\ Fairness

-----------------------------------------------------------------------------
(* Properties                                                               *)

\* The shape of the state; what a file says and what is in it.
ExportTypeOK ==
  /\ delegated \in Seq(Aggregate) /\ IsInjective(delegated)
  /\ groups \in Seq(Group) /\ IsInjective(groups)
  /\ files \in Seq(File)
  /\ \A i \in DOMAIN files : files[i].state = "IN_PROGRESS" => files[i].rows = {}
  /\ task \in [Task -> [step : {"idle", "initialize", "groups", "aggregates",
                                "finalize", "fail"},
                        file : 0..Len(files), groups : Seq(Group),
                        aggregates : Seq(Aggregate), rows : SUBSET Group]]
  /\ offered \in 0..Len(files)
  /\ lasting \in Seq(SUBSET Group) /\ Len(lasting) = Len(files)
  /\ shifted \subseteq DOMAIN files
  /\ changes \in 0..MaxChange /\ failures \in 0..MaxFailure
  /\ together \in BOOLEAN /\ outlived \in BOOLEAN

\* An export that can be downloaded leaves out no group of an institution that
\* was there from the request to the end, whatever self-care changes meanwhile,
\* between two pages too; unless what was already read moved the pages to come.
NoGroupLeftOut ==
  \A i \in DOMAIN files :
    files[i].state = "DONE" => i \in shifted \/ lasting[i] \subseteq files[i].rows

\* What is downloaded is the export of the last request that was accepted, under
\* its password, or one that ended in the second in which the last one started;
\* unless two exports were being made at once.
LinkIsOfLastRequest ==
  [][offered' \notin {0, offered} =>
       \/ together \/ outlived
       \/ offered' = Len(files)
       \/ files[offered'].age = files[Len(files)].age]_exportVars

\* No file keeps the user from asking for another export for ever, even one
\* whose task has stopped without marking it.
NobodyIsLockedOut == \A i \in 1..MaxFile :
  LET Locks == IF i \in DOMAIN files
               THEN i \in findExportsFiles /\ files[i].state = "IN_PROGRESS" ELSE FALSE
  IN Locks ~> ~ Locks
=============================================================================
