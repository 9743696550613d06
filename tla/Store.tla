------------------------------- MODULE Store --------------------------------
(***************************************************************************)
(* The state store (internal/store) by file operations, with those who use *)
(* it at the same time: the goroutine that holds the controller's mutex    *)
(* (commands, StartRun, the effect delete_run), an HTTP DELETE and the     *)
(* recovery at daemon start, both without the mutex.  The runs share one   *)
(* workspace but for those Apart, which have one of their own.             *)
(*                                                                         *)
(* Of a Run a file holds the revision, the status and the handoffs; "busy" *)
(* stands for active and transitioning.  A crash kills the daemon and      *)
(* leaves the files as they are.  Bounds: MaxRevision, MaxCrashes, and one *)
(* DELETE at a time.                                                       *)
(***************************************************************************)
EXTENDS Naturals, FiniteSets

CONSTANTS Runs, Apart, Handoffs, NoRun, NoFile, MaxRevision, MaxCrashes

Status == {"starting", "busy", "blocked", "completed", "stopped"}
Version == [rev : Nat, status : Status, hands : SUBSET Handoffs]

ASSUME StoreAssumption ==
  /\ NoRun \notin Runs /\ Apart \subseteq Runs
  /\ NoFile \notin Version
  /\ MaxRevision \in Nat \ {0} /\ MaxCrashes \in Nat

VARIABLES
  dir,      \* the directories runs/<id>
  json,     \* the file run.json of a directory
  files,    \* the files in handoffs/
  temp,     \* the writers whose temporary file is in their run's directory
  job,      \* what each of the three is doing
  listing,  \* what List has still to load, and what it found
  boot,     \* RecoverPersistedRuns
  life,     \* how far a run's creation or deletion ever got
  again,    \* the runs that became busy again after they were not
  aside,    \* the runs this daemon blocked beside the mutex
  owed,     \* the runs unfinished at start, neither ended nor dealt with since
  crashes

fileVars == <<dir, json, files, temp>>
ghostVars == <<life, again, aside, owed>>
storeVars == <<fileVars, job, listing, boot, ghostVars, crashes>>

Who == {"mutex", "http", "boot"}
\* "lent": the recovery at start has the mutex.
Step == {"idle", "lent", "load", "link", "handoff", "linkHandoff", "check", "replace", "rename",
         "remove", "unlink"}
Job == [at : Step, run : Runs \cup {NoRun}, old : Version \cup {NoFile},
        new : Version \cup {NoFile}, names : SUBSET (Handoffs \cup Who \cup {"run.json"})]
Idle == [at |-> "idle", run |-> NoRun, old |-> NoFile, new |-> NoFile, names |-> {}]
Listing == [left : SUBSET Runs, found : [Runs -> Status \cup {"none"}]]
NoListing == [left |-> {}, found |-> [r \in Runs |-> "none"]]

StoreInit ==
  /\ dir = {} /\ temp = {} /\ crashes = 0
  /\ again = {} /\ aside = {} /\ owed = {}
  /\ json = [r \in Runs |-> NoFile]
  /\ files = [r \in Runs |-> {}]
  /\ job = [p \in Who |-> Idle]
  /\ listing = [p \in Who |-> NoListing]
  /\ boot = "done"
  /\ life = [r \in Runs |-> "unused"]

Alive == boot # "off"
Present(r) == json[r] # NoFile
HasStatus(r, set) == Present(r) /\ json[r].status \in set
Occupies == {"starting", "busy"}
SameWorkspace(r, s) == {r, s} \cap Apart = {}
Goto(p, step) == job' = [job EXCEPT ![p].at = step]

\* p goes on with another job; the recovery gives back the mutex.
GoOn(p, next) ==
  job' = [[q \in Who |-> IF p = "boot" /\ job[q].at = "lent" THEN Idle ELSE job[q]]
            EXCEPT ![p] = next]
Return(p) == GoOn(p, Idle)

-----------------------------------------------------------------------------
(* FS.List *)

\* os.ReadDir; the runs found are loaded one by one.
ReadDir == [NoListing EXCEPT !.left = dir]

LoadEntry(p) ==
  /\ job[p].at = "load"
  /\ \E r \in listing[p].left :
       /\ Present(r)
       /\ listing' = [listing EXCEPT ![p].left = @ \ {r}, ![p].found[r] = json[r].status]
  /\ UNCHANGED <<fileVars, job, boot, ghostVars, crashes>>

\* One directory without run.json fails the whole list.
ListFails(p) ==
  /\ job[p].at = "load"
  /\ \E r \in listing[p].left : ~Present(r)
  /\ listing' = [listing EXCEPT ![p] = NoListing]
  /\ Return(p)
  /\ boot' = IF p = "boot" THEN "failed" ELSE boot
  /\ UNCHANGED <<fileVars, ghostVars, crashes>>

-----------------------------------------------------------------------------
(* Engine.startRun and FS.Create *)

StartRun(r) ==
  /\ Alive /\ job["mutex"].at = "idle" /\ life[r] = "unused"
  /\ listing' = [listing EXCEPT !["mutex"] = ReadDir]
  /\ job' = [job EXCEPT !["mutex"] =
       [Idle EXCEPT !.at = "load", !.run = r,
                    !.new = [rev |-> 1, status |-> "starting", hands |-> {}]]]
  /\ UNCHANGED <<fileVars, boot, ghostVars, crashes>>

\* Mutant of RunOccupiesWorkspace: a run that is starting does not count.
BusyOccupiesWorkspace(status) == status = "busy"

RunOccupiesWorkspace(status) == status \in Occupies

\* The workspace is free: Create makes the directory and the temporary file.
Create ==
  LET r == job["mutex"].run IN
  /\ job["mutex"].at = "load" /\ listing["mutex"].left = {}
  /\ listing' = [listing EXCEPT !["mutex"] = NoListing]
  /\ IF \E s \in Runs : SameWorkspace(r, s) /\ RunOccupiesWorkspace(listing["mutex"].found[s])
       THEN Return("mutex") /\ UNCHANGED <<dir, temp, life>>
       ELSE /\ dir' = dir \cup {r}
            /\ temp' = temp \cup {"mutex"}
            /\ life' = [life EXCEPT ![r] = "creating"]
            /\ Goto("mutex", "link")
  /\ UNCHANGED <<json, files, boot, again, aside, owed, crashes>>

LinkRun ==
  LET r == job["mutex"].run IN
  /\ job["mutex"].at = "link"
  /\ json' = [json EXCEPT ![r] = job["mutex"].new]
  /\ temp' = temp \ {"mutex"}
  /\ life' = [life EXCEPT ![r] = "born"]
  /\ Return("mutex")
  /\ UNCHANGED <<dir, files, listing, boot, again, aside, owed, crashes>>

-----------------------------------------------------------------------------
(* A command of the engine: load, change, SaveHandoff, Save *)

\* What commands do to the status.  A late registration makes a run busy that
\* was blocked or stopped; a turn that ends completes a blocked run; a failed
\* StopRun blocks, and BlockRun asks for no status, so a completed run is blocked
\* when one of its threads waits for the user.
NextStatus(status) ==
  CASE status = "starting" -> {"starting", "busy", "blocked", "stopped"}
    [] status = "busy" -> {"busy", "blocked", "stopped", "completed"}
    [] status = "blocked" -> Status \ {"starting"}
    [] status = "stopped" -> {"stopped", "busy", "blocked"}
    [] status = "completed" -> {"completed", "blocked"}

\* Mutant of FirstWrite: the run is saved without its handoff on disk.
SaveFirst(hands) == "check"

\* recordHandoff writes the handoff before the run that refers to it.
FirstWrite(hands) == IF hands = {} THEN "check" ELSE "handoff"

\* Run r is loaded, to be saved with this status and these further handoffs.
Saving(r, status, hands) ==
  [at |-> FirstWrite(hands), run |-> r, old |-> json[r], names |-> hands,
   new |-> [rev |-> json[r].rev + 1, status |-> status, hands |-> json[r].hands \cup hands]]

Command(r) ==
  /\ Alive /\ job["mutex"].at = "idle" /\ Present(r) /\ json[r].rev < MaxRevision
  /\ \/ \E status \in NextStatus(json[r].status) : GoOn("mutex", Saving(r, status, {}))
     \/ \E h \in Handoffs \ files[r] :
          json[r].status = "busy" /\ GoOn("mutex", Saving(r, "busy", {h}))
  /\ UNCHANGED <<fileVars, listing, boot, ghostVars, crashes>>

\* writeTemporaryJSON, which creates the directory if need be.
WriteTemporary(p, here, next) ==
  /\ job[p].at = here
  /\ dir' = dir \cup {job[p].run}
  /\ temp' = temp \cup {p}
  /\ Goto(p, next)
  /\ UNCHANGED <<json, files, listing, boot, ghostVars, crashes>>

\* writeImmutableJSON of a handoff, whose id is fresh.
LinkHandoff(p) ==
  LET r == job[p].run IN
  /\ job[p].at = "linkHandoff"
  /\ IF p \in temp
       THEN files' = [files EXCEPT ![r] = @ \cup job[p].names] /\ Goto(p, "check")
       ELSE UNCHANGED files /\ Return(p)
  /\ temp' = temp \ {p}
  /\ UNCHANGED <<dir, json, listing, boot, ghostVars, crashes>>

\* FS.Save loads again and compares revisions.
CheckRevision(p) ==
  LET r == job[p].run IN
  /\ job[p].at = "check"
  /\ IF Present(r) /\ json[r].rev + 1 = job[p].new.rev
       THEN Goto(p, "replace") ELSE Return(p)
  /\ UNCHANGED <<fileVars, listing, boot, ghostVars, crashes>>

\* Mutant of Replaced: the old file is removed before the new one is in place.
Unlinked(p) == NoFile

\* What rename leaves in run.json.
Replaced(p) == job[p].new

\* A turn that completes the run, for the second time perhaps, deletes it after
\* its app-server is stopped, which may fail; other saves of it do not.
AfterSave(p) ==
  IF job[p].new.status = "completed"
    THEN {Idle, [Idle EXCEPT !.at = "remove", !.run = job[p].run]}
    ELSE {Idle}

Rename(p) ==
  LET r == job[p].run IN
  /\ job[p].at = "rename"
  /\ IF p \in temp
       THEN /\ json' = [json EXCEPT ![r] = Replaced(p)]
            /\ again' = IF job[p].new.status = "busy"
                             /\ job[p].old.status \notin Occupies
                          THEN again \cup {r} ELSE again
            /\ \E next \in AfterSave(p) : GoOn(p, next)
            /\ owed' = IF job[p].new.status \in Occupies THEN owed ELSE owed \ {r}
       ELSE UNCHANGED <<json, again, owed>> /\ Return(p)
  /\ temp' = temp \ {p}
  /\ UNCHANGED <<dir, files, listing, boot, life, aside, crashes>>

\* A full disk, a cancelled context: the temporary file is removed, a directory
\* that Create made stays.
WriteFails(p) ==
  /\ job[p].at \in {"link", "handoff", "linkHandoff", "check", "replace", "rename"}
  /\ temp' = temp \ {p}
  /\ Return(p)
  /\ UNCHANGED <<dir, json, files, listing, boot, ghostVars, crashes>>

-----------------------------------------------------------------------------
(* FS.Delete: os.RemoveAll lists the directory, unlinks what it listed and   *)
(* removes the directory, which fails if something else is in it by then     *)

Contents(r) ==
  files[r] \cup {p \in temp : job[p].run = r}
    \cup (IF Present(r) THEN {"run.json"} ELSE {})

ListContents(p) ==
  LET r == job[p].run IN
  /\ job[p].at = "remove"
  /\ job' = [job EXCEPT ![p].at = "unlink", ![p].names = Contents(r)]
  /\ life' = [life EXCEPT ![r] = "doomed"]
  /\ UNCHANGED <<fileVars, listing, boot, again, aside, owed, crashes>>

Unlink(p) ==
  LET r == job[p].run IN
  /\ job[p].at = "unlink"
  /\ \E name \in job[p].names :
       /\ job' = [job EXCEPT ![p].names = @ \ {name}]
       /\ files' = [files EXCEPT ![r] = @ \ {name}]
       /\ temp' = {q \in temp : q = name => job[q].run # r}
       /\ json' = IF name = "run.json" THEN [json EXCEPT ![r] = NoFile] ELSE json
  /\ UNCHANGED <<dir, listing, boot, ghostVars, crashes>>

\* Mutant of Removable: the directory goes with whatever is in it.
AnyRemovable(r) == TRUE

Removable(r) == Contents(r) = {}

RemoveDirectory(p) ==
  LET r == job[p].run IN
  /\ job[p].at = "unlink" /\ job[p].names = {}
  /\ dir' = IF Removable(r) THEN dir \ {r} ELSE dir
  /\ Return(p)
  /\ UNCHANGED <<json, files, temp, listing, boot, ghostVars, crashes>>

\* DELETE looks at the status and takes no lock.
DeleteRequest(r) ==
  /\ Alive /\ job["http"].at = "idle"
  /\ HasStatus(r, {"completed", "stopped"})
  /\ job' = [job EXCEPT !["http"] = [Idle EXCEPT !.at = "remove", !.run = r]]
  /\ UNCHANGED <<fileVars, listing, boot, ghostVars, crashes>>

-----------------------------------------------------------------------------
(* The daemon starts, recovers what it finds, and dies *)

BootList ==
  /\ boot = "ready" /\ boot' = "listing"
  /\ listing' = [listing EXCEPT !["boot"] = ReadDir]
  /\ job' = [job EXCEPT !["boot"].at = "load"]
  /\ owed' = {r \in Runs : HasStatus(r, Occupies)}
  /\ UNCHANGED <<fileVars, life, again, aside, crashes>>

Listed ==
  /\ job["boot"].at = "load" /\ listing["boot"].left = {}
  /\ boot' = "recovering" /\ Return("boot")
  /\ UNCHANGED <<fileVars, listing, ghostVars, crashes>>

Found == listing["boot"].found

\* Mutant of RecoverableOnStart: a run without a root is passed over.
RecoverableIfBusy(status) == status \in {"busy", "blocked", "completed"}

\* What the loop does not pass over.
RecoverableOnStart(status) == status \in {"starting", "busy", "blocked", "completed"}

\* The loop is at run r, which List found with one of these statuses.
AtRun(r, set) ==
  /\ boot = "recovering" /\ job["boot"].at = "idle"
  /\ Found[r] \in set /\ RecoverableOnStart(Found[r])
  /\ listing' = [listing EXCEPT !["boot"].found[r] = "none"]
  /\ owed' = owed \ {r}

\* A completed run is deleted if its app-server is gone.
BootRemove(r) ==
  /\ AtRun(r, {"completed"})
  /\ \E next \in {Idle, [Idle EXCEPT !.at = "remove", !.run = r]} :
       job' = [job EXCEPT !["boot"] = next]
  /\ UNCHANGED <<fileVars, boot, life, again, aside, crashes>>

\* A run without a root is blocked, without the mutex.
BootBlock(r) ==
  /\ AtRun(r, {"starting"})
  /\ IF Present(r) THEN GoOn("boot", Saving(r, "blocked", {})) ELSE UNCHANGED job
  /\ aside' = aside \cup {r}
  /\ UNCHANGED <<fileVars, boot, life, again, crashes>>

\* Mutant of Lent: Recover does not take the mutex.
NotLent == Idle

Lent == [Idle EXCEPT !.at = "lent"]

\* Recover takes the mutex and saves the run, whatever it has become: recovered,
\* or blocked because that failed; its several saves are one here.  Of the
\* blocked runs those are taken up whose recovery failed.
BootRecover(r) ==
  /\ AtRun(r, {"busy", "blocked"})
  /\ job["mutex"].at = "idle"
  /\ \/ Present(r) /\ \E status \in {"busy", "blocked"} :
          job' = [job EXCEPT !["boot"] = Saving(r, status, {}), !["mutex"] = Lent]
     \/ (~Present(r) \/ Found[r] = "blocked") /\ UNCHANGED job
  /\ UNCHANGED <<fileVars, boot, life, again, aside, crashes>>

BootEnds ==
  /\ boot = "recovering" /\ job["boot"].at = "idle"
  /\ \A r \in Runs : ~RecoverableOnStart(Found[r])
  /\ boot' = "done"
  /\ listing' = [listing EXCEPT !["boot"] = NoListing]
  /\ UNCHANGED <<fileVars, job, ghostVars, crashes>>

\* A temporary file left behind is never read.
Crash ==
  /\ Alive /\ crashes < MaxCrashes
  /\ boot' = "off" /\ crashes' = crashes + 1
  /\ temp' = {} /\ owed' = {} /\ aside' = {}
  /\ job' = [p \in Who |-> Idle]
  /\ listing' = [p \in Who |-> NoListing]
  /\ UNCHANGED <<dir, json, files, life, again>>

Restart ==
  /\ boot = "off" /\ boot' = "ready"
  /\ UNCHANGED <<fileVars, job, listing, ghostVars, crashes>>

-----------------------------------------------------------------------------

\* What whoever is at work in the store does next.
Works(p) ==
  \/ LoadEntry(p) \/ ListFails(p)
  \/ WriteTemporary(p, "handoff", "linkHandoff") \/ LinkHandoff(p)
  \/ CheckRevision(p) \/ WriteTemporary(p, "replace", "rename") \/ Rename(p)
  \/ WriteFails(p)
  \/ ListContents(p) \/ Unlink(p) \/ RemoveDirectory(p)

Creates == Create \/ LinkRun

Boots ==
  \/ BootList \/ Listed \/ BootEnds
  \/ \E r \in Runs : BootRemove(r) \/ BootBlock(r)

Recovers == \E r \in Runs : BootRecover(r)

StoreNext ==
  \/ \E p \in Who : Works(p)
  \/ Creates \/ Boots \/ Recovers
  \/ \E r \in Runs : StartRun(r) \/ Command(r) \/ DeleteRequest(r)
  \/ Crash \/ Restart

StoreSpec == StoreInit /\ [][StoreNext]_storeVars

\* Goroutines run; the recovery gets the mutex it waits for.
StoreFairness ==
  /\ \A p \in Who : WF_storeVars(Works(p))
  /\ WF_storeVars(Creates) /\ WF_storeVars(Boots) /\ SF_storeVars(Recovers)

FairStoreSpec == StoreSpec /\ StoreFairness

-----------------------------------------------------------------------------
(* Properties *)

\* The type invariant of the store: in particular files are in directories.
StoreTypeOK ==
  /\ dir \subseteq Runs
  /\ json \in [Runs -> Version \cup {NoFile}]
  /\ files \in [Runs -> SUBSET Handoffs]
  /\ temp \subseteq Who
  /\ job \in [Who -> Job]
  /\ listing \in [Who -> Listing]
  /\ boot \in {"off", "ready", "listing", "failed", "recovering", "done"}
  /\ life \in [Runs -> {"unused", "creating", "born", "doomed"}]
  /\ again \subseteq Runs /\ aside \subseteq Runs /\ owed \subseteq Runs
  /\ crashes \in 0..MaxCrashes
  /\ \A r \in Runs : Contents(r) # {} => r \in dir

\* A run that was created can be loaded until its deletion begins, whatever
\* is saved at the same time and wherever the daemon dies: a directory that
\* fails List belongs to a creation that is not finished, or to a run whose
\* deletion has begun at some time.
CreatedRunsStay == \A r \in Runs : life[r] = "born" => Present(r)

\* The handoffs a run refers to are on disk, after a crash as well: a recovery
\* and a successor can read them.  Exempt is every run whose deletion ever began,
\* for a save that races with it may bring run.json back without them.
HandoffsOnDisk ==
  \A r \in Runs : Present(r) /\ life[r] # "doomed" => json[r].hands \subseteq files[r]

\* A save replaces the revision it was computed from, with one exception: the
\* recovery at start blocks a run without a root beside the mutex.
NoLostUpdate ==
  [][\A r \in Runs :
       Present(r) /\ json'[r] \notin {NoFile, json[r]} /\ r \notin aside =>
         json'[r].rev = json[r].rev + 1 /\ json[r].hands \subseteq json'[r].hands]_storeVars

\* One busy run in the workspace ("A workspace may have one active root run",
\* docs/spec.md:10), unless one of the two was resumed, recovered or revived
\* after it had been blocked, stopped or completed: nothing looks at the
\* workspace then.
OneBusyRun ==
  \A r, s \in Runs :
    r # s /\ SameWorkspace(r, s) /\ HasStatus(r, Occupies) /\ HasStatus(s, Occupies)
      => r \in again \/ s \in again

\* When the recovery at start is through, it has dealt with every run that was
\* unfinished when it began and that nobody else has ended since, even if
\* some changed or vanished while it listed.
NothingOwed == boot = "done" => owed = {}

\* "The daemon automatically recovers incomplete runs after restart"
\* (docs/spec.md:97): every one of them, whatever else is on disk.
IncompleteRunsRecovered ==
  \A r \in Runs : r \in owed ~> r \notin owed

=============================================================================
