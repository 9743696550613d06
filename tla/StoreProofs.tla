---------------------------- MODULE StoreProofs -----------------------------
(***************************************************************************)
(* What the store keeps on disk, for any number of runs, handoffs, saves   *)
(* and crashes.  StoreInv says what each of the three that work on the     *)
(* files may rely on while the others go on; Dealt what the recovery still *)
(* has to do; Busy who may make a run busy.  One lemma per action; the     *)
(* lemmas on Spares, SameDisk and BusyLess say what a step that is no      *)
(* business of somebody's leaves alone.                                    *)
(***************************************************************************)
EXTENDS Store, TLAPS

Saves == {"handoff", "linkHandoff", "check", "replace", "rename"}
Known == {"born", "doomed"}

StoreType ==
  /\ dir \subseteq Runs
  /\ json \in [Runs -> Version \cup {NoFile}]
  /\ files \in [Runs -> SUBSET Handoffs]
  /\ temp \subseteq Who
  /\ job \in [Who -> Job]
  /\ listing \in [Who -> Listing]
  /\ boot \in {"off", "ready", "listing", "failed", "recovering", "done"}
  /\ life \in [Runs -> {"unused", "creating", "born", "doomed"}]
  /\ again \subseteq Runs /\ aside \subseteq Runs /\ owed \subseteq Runs
  /\ crashes \in 0..MaxCrashes

\* Who does what, and whose temporary file there is.
JobFits(p) ==
  /\ p # "mutex" => job[p].at \notin {"lent", "link"}
  /\ p = "http" => job[p].at \in {"idle", "remove", "unlink"}
  /\ job[p].at \in Saves \cup {"link", "remove", "unlink"} => job[p].run \in Runs
  /\ p = "mutex" /\ job[p].at = "load" => job[p].run \in Runs
  /\ p \in temp => job[p].at \in {"link", "linkHandoff", "rename"}
  /\ job[p].at = "link" => p \in temp

\* How far its run got: one that is listed, saved or removed was created, one
\* whose files are being unlinked is doomed.
LifeFits(p) ==
  /\ job[p].at \in Saves \cup {"remove"} => life[job[p].run] \in Known
  /\ job[p].at = "unlink" => life[job[p].run] = "doomed"
  /\ \A r \in Runs : listing[p].found[r] # "none" => life[r] \in Known
  /\ p = "mutex" /\ job[p].at = "load" => life[job[p].run] = "unused"
  /\ job[p].at = "link" => life[job[p].run] = "creating"

\* A save is computed from a version, and is about to be the next one; no save
\* makes a run start that was not starting.
VersionFits(p) ==
  /\ job[p].at \in Saves =>
       /\ job[p].old \in Version /\ job[p].new \in Version
       /\ job[p].new.status = "starting" => job[p].old.status = "starting"
       /\ job[p].new.rev = job[p].old.rev + 1
       /\ job[p].old.hands \subseteq job[p].new.hands
  /\ job[p].at = "link" \/ (p = "mutex" /\ job[p].at = "load") =>
       job[p].new \in Version /\ job[p].new.hands = {} /\ job[p].new.status = "starting"

\* The handoffs a save will refer to are there before the save is.
HandoffsFit(p) ==
  /\ job[p].at \in {"handoff", "linkHandoff"} => job[p].names \subseteq Handoffs
  /\ job[p].at \in {"handoff", "linkHandoff"} /\ life[job[p].run] # "doomed" =>
       job[p].new.hands \subseteq files[job[p].run] \cup job[p].names
  /\ job[p].at \in {"check", "replace", "rename"} /\ life[job[p].run] # "doomed" =>
       job[p].new.hands \subseteq files[job[p].run]

\* But for the runs blocked beside the mutex, a run is saved by one at a time
\* and stays what it was when it was loaded, or is deleted.
SaveFits(p) ==
  /\ p = "boot" /\ job[p].at \in Saves /\ job[p].run \notin aside => job["mutex"].at = "lent"
  /\ job[p].at \in Saves /\ job[p].run \notin aside /\ Present(job[p].run) =>
       json[job[p].run] = job[p].old

Fits(p) == JobFits(p) /\ LifeFits(p) /\ VersionFits(p) /\ HandoffsFit(p) /\ SaveFits(p)

\* What is on disk.
PresentWereCreated == \A r \in Runs : Present(r) => life[r] \in Known
Directories == \A r \in Runs : Contents(r) # {} => r \in dir
Disk == PresentWereCreated /\ Directories /\ CreatedRunsStay /\ HandoffsOnDisk

\* Before the recovery begins it does nothing.
Asleep == boot \in {"off", "ready"} => job["boot"].at = "idle"

StoreInv == StoreType /\ Disk /\ Asleep /\ \A p \in Who : Fits(p)

-----------------------------------------------------------------------------
(* Jobs *)

\* Idle and empty are jobs and listings.
LEMMA IdleType == Idle \in Job /\ Idle.at = "idle" /\ NoListing \in Listing
BY DEF Idle, Job, Step, NoListing, Listing

\* The others keep their jobs; the recovery may give back the mutex.
OthersKeep(p) ==
  \A q \in Who \ {p} :
    job'[q] = job[q] \/ (p = "boot" /\ job[q].at = "lent" /\ job'[q] = Idle)

\* A job that goes to its next step is otherwise the same.
LEMMA GotoJob ==
  ASSUME job \in [Who -> Job], NEW p \in Who, NEW step \in Step, Goto(p, step)
  PROVE  /\ job' \in [Who -> Job]
         /\ job'[p].at = step /\ job'[p].run = job[p].run
         /\ job'[p].old = job[p].old /\ job'[p].new = job[p].new /\ job'[p].names = job[p].names
         /\ OthersKeep(p)
BY DEF Goto, Job, OthersKeep

\* A job that goes on with another one.
LEMMA GoOnJob ==
  ASSUME job \in [Who -> Job], NEW p \in Who, NEW next \in Job, GoOn(p, next)
  PROVE  /\ job' \in [Who -> Job]
         /\ job'[p] = next
         /\ OthersKeep(p)
BY IdleType DEF GoOn, OthersKeep

\* Idle fits whatever is on disk.
LEMMA IdleFits ==
  ASSUME NEW p \in Who, job'[p] = Idle, p \notin temp',
         \A r \in Runs : listing'[p].found[r] # "none" => life'[r] \in Known
  PROVE  Fits(p)'
BY DEF Fits, JobFits, LifeFits, VersionFits, HandoffsFit, SaveFits, Idle, Saves

\* What a job relies on while others go on: nobody lists for it or makes or links
\* its temporary file; a run that was created stays created and keeps its
\* handoffs until it is doomed; what it loaded stays, or is deleted.
Spares(p) ==
  /\ \A r \in Runs : life[r] \in Known => life'[r] \in Known
  /\ \A r \in Runs : life[r] = "doomed" => life'[r] = "doomed"
  /\ p = "mutex" /\ job[p].at \in {"load", "link"} => life'[job[p].run] = life[job[p].run]
  /\ \A r \in Runs : life'[r] # "doomed" => files[r] \subseteq files'[r]
  /\ job[p].at \in Saves /\ job[p].run \notin aside' =>
       json'[job[p].run] \in {json[job[p].run], NoFile}
  /\ listing'[p] = listing[p] /\ aside \subseteq aside'
  /\ p \in temp' => p \in temp
  /\ job[p].at = "link" => (p \in temp' <=> p \in temp)

LEMMA SparedFits ==
  ASSUME NEW p \in Who, Fits(p), job'[p] = job[p], Spares(p),
         p = "boot" /\ job["mutex"].at = "lent" => job'["mutex"].at = "lent"
  PROVE  Fits(p)'
<1>1. JobFits(p)'
  BY DEF Fits, JobFits, Spares
<1>2. LifeFits(p)'
  BY DEF Fits, JobFits, LifeFits, Spares
<1>3. VersionFits(p)'
  BY DEF Fits, VersionFits
<1>4. HandoffsFit(p)'
  <2>1. job[p].at \in Saves =>
          job[p].run \in Runs
          /\ (life'[job[p].run] # "doomed" =>
                life[job[p].run] # "doomed" /\ files[job[p].run] \subseteq files'[job[p].run])
    BY DEF Fits, JobFits, Spares
  <2> QED
    BY <2>1 DEF Fits, HandoffsFit, Saves
<1>5. SaveFits(p)'
  BY DEF Fits, SaveFits, Present, Spares
<1> QED
  BY <1>1, <1>2, <1>3, <1>4, <1>5 DEF Fits

\* The others fit if they are spared.
LEMMA OthersFit ==
  ASSUME StoreInv, NEW p \in Who, OthersKeep(p), p = "mutex" => job[p].at # "lent",
         NEW q \in Who \ {p}, Spares(q)
  PROVE  Fits(q)'
<1>1. Fits(q)
  BY DEF StoreInv
<1>2. CASE job'[q] = Idle /\ job[q].at = "lent"
  <2>1. q \notin temp'
    BY <1>1, <1>2 DEF Spares, Fits, JobFits
  <2>2. \A r \in Runs : listing'[q].found[r] # "none" => life'[r] \in Known
    BY <1>1 DEF Spares, Fits, LifeFits
  <2> QED
    BY <1>2, <2>1, <2>2, IdleFits
<1>3. CASE job'[q] = job[q]
  <2>1. q = "boot" /\ job["mutex"].at = "lent" => job'["mutex"].at = "lent"
    BY DEF OthersKeep, Who
  <2> QED
    BY <1>1, <1>3, <2>1, SparedFits
<1> QED
  BY <1>2, <1>3 DEF OthersKeep

\* What is on disk stays right if no file but the temporary ones changes, these
\* are in directories, and only empty directories vanish.
LEMMA SameDisk ==
  ASSUME StoreInv, temp' \subseteq Who, UNCHANGED <<json, files, life>>,
         \A q \in temp' : (q \in temp /\ job'[q].run = job[q].run) \/ job'[q].run \in dir',
         \A r \in dir \ dir' : Contents(r) = {}
  PROVE  Disk'
<1>1. PresentWereCreated' /\ CreatedRunsStay' /\ HandoffsOnDisk'
  BY DEF StoreInv, Disk, PresentWereCreated, CreatedRunsStay, HandoffsOnDisk, Present
<1>2. \A r \in Runs : Contents(r) # {} => r \in dir'
  BY DEF StoreInv, Disk, Directories
<1>3. ASSUME NEW r \in Runs, NEW q \in Who, q \in temp', job'[q].run = r
      PROVE  r \in dir'
  BY <1>2, <1>3 DEF Contents
<1>4. ASSUME NEW r \in Runs, files'[r] # {} \/ Present(r)'
      PROVE  r \in dir'
  BY <1>2, <1>4 DEF Contents, Present
<1>5. Directories'
  BY <1>3, <1>4 DEF Directories, Contents
<1> QED
  BY <1>1, <1>5 DEF Disk

\* What one does that leaves the files alone disturbs nobody else.
Quiet(p) ==
  /\ UNCHANGED <<json, files, life>> /\ aside \subseteq aside'
  /\ OthersKeep(p)
  /\ \A q \in Who \ {p} : listing'[q] = listing[q] /\ (q \in temp' <=> q \in temp)
  /\ p = "mutex" => job[p].at # "lent"
  /\ boot' \in {"off", "ready"} => boot' = boot /\ (p = "boot" => job[p].at # "idle")
  /\ p \in temp' => job'[p].run \in dir'
  /\ \A r \in dir \ dir' : Contents(r) = {}

LEMMA QuietFits ==
  ASSUME StoreInv, NEW p \in Who, Quiet(p), NEW q \in Who \ {p}
  PROVE  Fits(q)'
<1>1. Spares(q)
  BY DEF Spares, Quiet
<1> QED
  BY <1>1, OthersFit DEF Quiet

\* So such a step keeps the invariant if it keeps the types and p fits.
LEMMA QuietStep ==
  ASSUME StoreInv, NEW p \in Who, Quiet(p), StoreType', Fits(p)'
  PROVE  StoreInv'
<1>1. ASSUME NEW q \in temp' PROVE (q \in temp /\ job'[q].run = job[q].run) \/ job'[q].run \in dir'
  <2>1. q \in Who
    BY DEF StoreType
  <2>2. q # p /\ q \in temp => job'[q] = job[q]
    BY <2>1 DEF StoreInv, Fits, JobFits, Quiet, OthersKeep
  <2> QED
    BY <1>1, <2>1, <2>2 DEF Quiet
<1>2. Disk'
  BY <1>1, SameDisk DEF Quiet, StoreType
<1>3. Asleep'
  BY DEF Quiet, OthersKeep, StoreInv, Asleep, Who
<1> QED
  BY <1>2, <1>3, QuietFits DEF StoreInv

\* A save is a job, and fits what it was computed from.
LEMMA SavingType ==
  ASSUME StoreType, NEW r \in Runs, Present(r), NEW status \in Status,
         NEW hands \in SUBSET Handoffs
  PROVE  /\ Saving(r, status, hands) \in Job
         /\ json[r] \in Version
<1>1. json[r] \in Version
  BY DEF StoreType, Present
<1>2. [rev |-> json[r].rev + 1, status |-> status, hands |-> json[r].hands \cup hands] \in Version
  BY <1>1 DEF Version
<1>3. FirstWrite(hands) \in Step
  BY DEF FirstWrite, Step
<1> QED
  BY <1>1, <1>2, <1>3 DEF Saving, Job

LEMMA SavingFits ==
  ASSUME StoreInv, NEW p \in {"mutex", "boot"}, NEW r \in Runs, Present(r),
         NEW status \in Status, NEW hands \in SUBSET Handoffs,
         status = "starting" => json[r].status = "starting",
         job'[p] = Saving(r, status, hands), p \notin temp',
         UNCHANGED <<json, files, life>>,
         p = "boot" => r \in aside' \/ job'["mutex"].at = "lent",
         \A s \in Runs : listing'[p].found[s] # "none" => life[s] \in Known
  PROVE  Fits(p)'
<1>1. job'[p].at = FirstWrite(hands) /\ job'[p].run = r /\ job'[p].old = json[r]
      /\ job'[p].names = hands /\ job'[p].new.rev = json[r].rev + 1
      /\ job'[p].new.status = status
      /\ job'[p].new.hands = json[r].hands \cup hands
  BY DEF Saving
<1>2. FirstWrite(hands) = IF hands = {} THEN "check" ELSE "handoff"
  BY DEF FirstWrite
<1>3. job'[p].new \in Version /\ json[r] \in Version
  BY SavingType DEF StoreInv, Job, Saving, Version
<1>4. life[r] \in Known
  BY DEF StoreInv, Disk, PresentWereCreated
<1>5. JobFits(p)'
  BY <1>1, <1>2 DEF JobFits, Saves
<1>6. LifeFits(p)'
  BY <1>1, <1>2, <1>4 DEF LifeFits, Saves
<1>7. VersionFits(p)'
  BY <1>1, <1>2, <1>3 DEF VersionFits
<1>8. HandoffsFit(p)'
  <2>1. life[r] # "doomed" => json[r].hands \subseteq files[r]
    BY DEF StoreInv, Disk, HandoffsOnDisk
  <2> QED
    BY <1>1, <1>2, <2>1 DEF HandoffsFit
<1>9. SaveFits(p)'
  BY <1>1, <1>2 DEF SaveFits, Present
<1> QED
  BY <1>5, <1>6, <1>7, <1>8, <1>9 DEF Fits

-----------------------------------------------------------------------------
(* Steps that leave the files alone *)

\* A directory is read into a listing.
LEMMA ReadDirType == ASSUME StoreType PROVE ReadDir \in Listing /\ ReadDir.found = NoListing.found
BY IdleType DEF StoreType, ReadDir, NoListing, Listing

\* Whoever ends its work fits.
LEMMA ReturnKeeps ==
  ASSUME StoreInv, NEW p \in Who, Return(p), job[p].at \notin {"lent", "idle"},
         UNCHANGED <<json, files, life, again, aside, owed, crashes>>,
         listing' = listing \/ listing' = [listing EXCEPT ![p] = NoListing],
         temp' = temp \ {p}, dir' \subseteq dir, \A r \in dir \ dir' : Contents(r) = {},
         boot' \in {boot, "failed", "recovering"}
  PROVE  StoreInv'
<1>1. job' \in [Who -> Job] /\ job'[p] = Idle /\ OthersKeep(p)
  BY IdleType, GoOnJob DEF Return, StoreInv, StoreType
<1>2. StoreType'
  <2>1. listing' \in [Who -> Listing]
    BY IdleType DEF StoreInv, StoreType
  <2> QED
    BY <1>1, <2>1 DEF StoreInv, StoreType
<1>3. Quiet(p)
  BY <1>1 DEF Quiet, StoreInv, StoreType
<1>4. Fits(p)'
  <2>1. \A r \in Runs : listing'[p].found[r] # "none" => life'[r] \in Known
    <3>1. CASE listing' = listing
      BY <3>1 DEF StoreInv, Fits, LifeFits
    <3>2. CASE listing' = [listing EXCEPT ![p] = NoListing]
      BY <3>2 DEF StoreInv, StoreType, NoListing
    <3> QED
      BY <3>1, <3>2
  <2> QED
    BY <1>1, <2>1, IdleFits
<1> QED
  BY <1>2, <1>3, <1>4, QuietStep

\* A run that is loaded is no longer to be loaded, and found.
LEMMA LoadedEntry ==
  ASSUME StoreType, NEW p \in Who, NEW r \in Runs, Present(r),
         listing' = [listing EXCEPT ![p].left = @ \ {r}, ![p].found[r] = json[r].status]
  PROVE  /\ listing' \in [Who -> Listing]
         /\ \A q \in Who \ {p} : listing'[q] = listing[q]
         /\ listing'[p].left = listing[p].left \ {r}
         /\ listing'[p].found[r] = json[r].status
         /\ \A s \in Runs \ {r} : listing'[p].found[s] = listing[p].found[s]
<1> DEFINE found == [listing[p].found EXCEPT ![r] = json[r].status]
           shorter == [listing EXCEPT ![p].left = @ \ {r}]
           entry == [shorter[p] EXCEPT !.found = found]
<1>1. listing[p] \in Listing /\ json[r].status \in Status
  BY DEF StoreType, Present, Version
<1>2. /\ shorter \in [Who -> Listing] /\ shorter[p].found = listing[p].found
      /\ shorter[p].left = listing[p].left \ {r}
      /\ \A q \in Who \ {p} : shorter[q] = listing[q]
  BY DEF StoreType, Listing
<1>3. /\ found \in [Runs -> Status \cup {"none"}] /\ found[r] = json[r].status
      /\ \A s \in Runs \ {r} : found[s] = listing[p].found[s]
  BY <1>1 DEF Listing
<1>4. listing' = [shorter EXCEPT ![p] = entry]
  BY <1>2
<1> HIDE DEF found, shorter
<1>5. entry \in Listing /\ entry.found = found /\ entry.left = shorter[p].left
  BY <1>2, <1>3 DEF Listing
<1> HIDE DEF entry
<1> QED
  BY <1>2, <1>3, <1>4, <1>5

LEMMA LoadEntryKeeps ==
  ASSUME StoreInv, NEW p \in Who, LoadEntry(p)
  PROVE  StoreInv'
<1>1. PICK r \in Runs :
        /\ Present(r)
        /\ listing' = [listing EXCEPT ![p].left = @ \ {r}, ![p].found[r] = json[r].status]
  BY DEF LoadEntry, StoreInv, StoreType, Listing
<1>2. job' = job /\ job[p].at = "load" /\ UNCHANGED <<fileVars, boot, ghostVars, crashes>>
  BY DEF LoadEntry
<1>3. json[r].status \in Status /\ life[r] \in Known
  BY <1>1 DEF StoreInv, StoreType, Present, Version, Disk, PresentWereCreated
<1>4. /\ listing' \in [Who -> Listing]
      /\ \A q \in Who \ {p} : listing'[q] = listing[q]
      /\ \A s \in Runs \ {r} : listing'[p].found[s] = listing[p].found[s]
  BY <1>1, LoadedEntry DEF StoreInv
<1>5. StoreType'
  BY <1>2, <1>4 DEF StoreInv, StoreType, fileVars, ghostVars
<1>6. Quiet(p)
  BY <1>2, <1>4 DEF Quiet, fileVars, ghostVars, OthersKeep, StoreInv, Fits, JobFits
<1>7. Fits(p)'
  <2>1. Fits(p) /\ p \notin temp
    BY <1>2 DEF StoreInv, Fits, JobFits
  <2>2. JobFits(p)'
    BY <1>2, <2>1 DEF Fits, JobFits, fileVars
  <2>3. LifeFits(p)'
    BY <1>2, <1>3, <1>4, <2>1 DEF Fits, LifeFits, fileVars, ghostVars
  <2>4. VersionFits(p)' /\ HandoffsFit(p)' /\ SaveFits(p)'
    BY <1>2, <2>1 DEF Fits, VersionFits, HandoffsFit, SaveFits, fileVars, ghostVars, Saves
  <2> QED
    BY <2>2, <2>3, <2>4 DEF Fits
<1> QED
  BY <1>5, <1>6, <1>7, QuietStep

LEMMA ListFailsKeeps ==
  ASSUME StoreInv, NEW p \in Who, ListFails(p)
  PROVE  StoreInv'
<1>1. p \notin temp
  BY DEF ListFails, StoreInv, Fits, JobFits
<1> QED
  BY <1>1, ReturnKeeps DEF ListFails, fileVars, ghostVars

LEMMA StartRunKeeps ==
  ASSUME StoreInv, NEW r \in Runs, StartRun(r)
  PROVE  StoreInv'
<1> DEFINE new == [rev |-> 1, status |-> "starting", hands |-> {}]
           next == [Idle EXCEPT !.at = "load", !.run = r, !.new = new]
<1>1. new \in Version
  BY DEF Version, Status
<1>2. next \in Job /\ next.at = "load" /\ next.run = r /\ next.new = new
  BY <1>1 DEF Idle, Job, Step
<1>3. /\ job["mutex"].at = "idle" /\ life[r] = "unused"
      /\ listing' = [listing EXCEPT !["mutex"] = ReadDir]
      /\ job' = [job EXCEPT !["mutex"] = next]
      /\ UNCHANGED <<fileVars, boot, ghostVars, crashes>>
  BY DEF StartRun
<1> HIDE DEF next
<1>4. "mutex" \in Who /\ "mutex" \notin temp
  BY <1>3 DEF Who, StoreInv, Fits, JobFits
<1>5. StoreType'
  BY <1>2, <1>3, ReadDirType DEF StoreInv, StoreType, fileVars, ghostVars
<1>6. Quiet("mutex")
  BY <1>3, <1>4 DEF Quiet, fileVars, ghostVars, OthersKeep, StoreInv, StoreType
<1>7. job'["mutex"] = next /\ listing'["mutex"] = ReadDir
  BY <1>3, <1>4 DEF StoreInv, StoreType
<1>8. Fits("mutex")'
  <2>1. JobFits("mutex")'
    BY <1>2, <1>3, <1>4, <1>7 DEF JobFits, Saves, fileVars
  <2>2. LifeFits("mutex")'
    BY <1>2, <1>3, <1>7, ReadDirType DEF LifeFits, Saves, ghostVars, NoListing, StoreInv
  <2>3. VersionFits("mutex")'
    BY <1>1, <1>2, <1>7 DEF VersionFits, Saves
  <2>4. HandoffsFit("mutex")' /\ SaveFits("mutex")'
    BY <1>2, <1>7 DEF HandoffsFit, SaveFits, Saves
  <2> QED
    BY <2>1, <2>2, <2>3, <2>4 DEF Fits
<1> QED
  BY <1>4, <1>5, <1>6, <1>8, QuietStep

\* What is left of a command: a status and further handoffs.
LEMMA CommandSaves ==
  ASSUME StoreInv, NEW r \in Runs, Command(r)
  PROVE  \E status \in Status, hands \in SUBSET Handoffs :
           /\ GoOn("mutex", Saving(r, status, hands))
           /\ status = "starting" => json[r].status = "starting"
<1>1. CASE \E status \in NextStatus(json[r].status) : GoOn("mutex", Saving(r, status, {}))
  <2>1. PICK status \in NextStatus(json[r].status) : GoOn("mutex", Saving(r, status, {}))
    BY <1>1
  <2>2. json[r].status \in Status
    BY DEF Command, StoreInv, StoreType, Present, Version
  <2>3. status \in Status /\ (status = "starting" => json[r].status = "starting")
    BY <2>2, <2>1 DEF NextStatus, Status
  <2> QED
    BY <2>1, <2>3
<1>2. CASE \E h \in Handoffs \ files[r] :
             json[r].status = "busy" /\ GoOn("mutex", Saving(r, "busy", {h}))
  BY <1>2 DEF Status
<1> QED
  BY <1>1, <1>2 DEF Command

LEMMA CommandKeeps ==
  ASSUME StoreInv, NEW r \in Runs, Command(r)
  PROVE  StoreInv'
<1>1. PICK status \in Status, hands \in SUBSET Handoffs :
        /\ GoOn("mutex", Saving(r, status, hands))
        /\ status = "starting" => json[r].status = "starting"
  BY CommandSaves
<1>2. job["mutex"].at = "idle" /\ Present(r) /\ UNCHANGED <<fileVars, listing, boot, ghostVars, crashes>>
  BY DEF Command
<1>3. "mutex" \in Who /\ "mutex" \notin temp
  BY <1>2 DEF Who, StoreInv, Fits, JobFits
<1>4. job' \in [Who -> Job] /\ job'["mutex"] = Saving(r, status, hands) /\ OthersKeep("mutex")
  BY <1>1, <1>2, <1>3, SavingType, GoOnJob DEF StoreInv, StoreType
<1>5. StoreType'
  BY <1>2, <1>4 DEF StoreInv, StoreType, fileVars, ghostVars
<1>6. Quiet("mutex")
  BY <1>2, <1>3, <1>4 DEF Quiet, fileVars, ghostVars
<1>7. \A s \in Runs : listing'["mutex"].found[s] # "none" => life[s] \in Known
  BY <1>2, <1>3 DEF StoreInv, Fits, LifeFits
<1>8. Fits("mutex")'
  BY <1>1, <1>2, <1>3, <1>4, <1>7, SavingFits DEF fileVars, ghostVars
<1> QED
  BY <1>3, <1>5, <1>6, <1>8, QuietStep

LEMMA WriteTemporaryKeeps ==
  ASSUME StoreInv, NEW p \in Who, NEW here, NEW next, WriteTemporary(p, here, next),
         <<here, next>> \in {<<"handoff", "linkHandoff">>, <<"replace", "rename">>}
  PROVE  StoreInv'
<1>1. /\ job[p].at = here /\ Goto(p, next)
      /\ dir' = dir \cup {job[p].run} /\ temp' = temp \cup {p}
      /\ UNCHANGED <<json, files, listing, boot, ghostVars, crashes>>
  BY DEF WriteTemporary
<1>2. Fits(p) /\ job[p].run \in Runs
  BY <1>1 DEF StoreInv, Fits, JobFits, Saves
<1>3. next \in Step
  BY DEF Step
<1>4. /\ job' \in [Who -> Job]
      /\ job'[p].at = next /\ job'[p].run = job[p].run
      /\ job'[p].old = job[p].old /\ job'[p].new = job[p].new /\ job'[p].names = job[p].names
      /\ OthersKeep(p)
  BY <1>1, <1>3, GotoJob DEF StoreInv, StoreType
<1>5. StoreType'
  BY <1>1, <1>2, <1>4 DEF StoreInv, StoreType, ghostVars
<1>6. Quiet(p)
  BY <1>1, <1>2, <1>4 DEF Quiet, ghostVars
<1>7. p = "boot" => job'["mutex"].at = job["mutex"].at
  BY <1>1 DEF Goto, Who, StoreInv, StoreType
<1>8. Fits(p)'
  <2>1. JobFits(p)'
    BY <1>1, <1>2, <1>4 DEF Fits, JobFits, Saves
  <2>2. LifeFits(p)'
    BY <1>1, <1>2, <1>4 DEF Fits, LifeFits, Saves, ghostVars
  <2>3. VersionFits(p)'
    BY <1>1, <1>2, <1>4 DEF Fits, VersionFits, Saves
  <2>4. HandoffsFit(p)'
    BY <1>1, <1>2, <1>4 DEF Fits, HandoffsFit, ghostVars
  <2>5. SaveFits(p)'
    BY <1>1, <1>2, <1>4, <1>7 DEF Fits, SaveFits, Saves, ghostVars, Present
  <2> QED
    BY <2>1, <2>2, <2>3, <2>4, <2>5 DEF Fits
<1> QED
  BY <1>5, <1>6, <1>8, QuietStep

LEMMA CheckRevisionKeeps ==
  ASSUME StoreInv, NEW p \in Who, CheckRevision(p)
  PROVE  StoreInv'
<1>1. job[p].at = "check" /\ UNCHANGED <<fileVars, listing, boot, ghostVars, crashes>>
  BY DEF CheckRevision
<1>2. Fits(p) /\ p \notin temp
  BY <1>1 DEF StoreInv, Fits, JobFits
<1>3. CASE Return(p)
  BY <1>1, <1>2, <1>3, ReturnKeeps DEF fileVars, ghostVars
<1>4. CASE Goto(p, "replace")
  <2>1. /\ job' \in [Who -> Job]
        /\ job'[p].at = "replace" /\ job'[p].run = job[p].run
        /\ job'[p].old = job[p].old /\ job'[p].new = job[p].new /\ job'[p].names = job[p].names
        /\ OthersKeep(p)
    BY <1>4, GotoJob DEF StoreInv, StoreType, Step
  <2>2. StoreType'
    BY <1>1, <2>1 DEF StoreInv, StoreType, fileVars, ghostVars
  <2>3. Quiet(p)
    BY <1>1, <1>2, <2>1 DEF Quiet, fileVars, ghostVars
  <2>4. p = "boot" => job'["mutex"].at = job["mutex"].at
    BY <1>4 DEF Goto, Who, StoreInv, StoreType
  <2>5. JobFits(p)'
    BY <1>1, <1>2, <2>1 DEF Fits, JobFits, Saves, fileVars
  <2>6. LifeFits(p)'
    BY <1>1, <1>2, <2>1 DEF Fits, LifeFits, Saves, ghostVars
  <2>7. VersionFits(p)' /\ HandoffsFit(p)'
    BY <1>1, <1>2, <2>1 DEF Fits, VersionFits, HandoffsFit, Saves, fileVars, ghostVars
  <2>8. SaveFits(p)'
    BY <1>1, <1>2, <2>1, <2>4 DEF Fits, SaveFits, Saves, fileVars, ghostVars, Present
  <2>9. Fits(p)'
    BY <2>5, <2>6, <2>7, <2>8 DEF Fits
  <2> QED
    BY <2>2, <2>3, <2>9, QuietStep
<1> QED
  BY <1>3, <1>4 DEF CheckRevision

LEMMA WriteFailsKeeps ==
  ASSUME StoreInv, NEW p \in Who, WriteFails(p)
  PROVE  StoreInv'
BY ReturnKeeps DEF WriteFails, ghostVars

LEMMA RemoveDirectoryKeeps ==
  ASSUME StoreInv, NEW p \in Who, RemoveDirectory(p)
  PROVE  StoreInv'
<1>1. p \notin temp
  BY DEF RemoveDirectory, StoreInv, Fits, JobFits
<1>2. dir' \subseteq dir /\ \A r \in dir \ dir' : Contents(r) = {}
  BY DEF RemoveDirectory, Removable
<1> QED
  BY <1>1, <1>2, ReturnKeeps DEF RemoveDirectory, ghostVars

\* http or the recovery, idle, turns to the removal of a run that was created.
LEMMA RemoveFits ==
  ASSUME NEW p \in Who, NEW r \in Runs, job'[p] = [Idle EXCEPT !.at = "remove", !.run = r],
         p \notin temp', life'[r] \in Known,
         \A s \in Runs : listing'[p].found[s] # "none" => life'[s] \in Known
  PROVE  Fits(p)'
<1>1. job'[p].at = "remove" /\ job'[p].run = r
  BY DEF Idle
<1> QED
  BY <1>1 DEF Fits, JobFits, LifeFits, VersionFits, HandoffsFit, SaveFits, Saves

\* A removal is a job.
LEMMA RemoveType ==
  ASSUME NEW r \in Runs
  PROVE  /\ [Idle EXCEPT !.at = "remove", !.run = r] \in Job
         /\ [Idle EXCEPT !.at = "remove", !.run = r].at = "remove"
BY DEF Idle, Job, Step

LEMMA DeleteRequestKeeps ==
  ASSUME StoreInv, NEW r \in Runs, DeleteRequest(r)
  PROVE  StoreInv'
<1> DEFINE next == [Idle EXCEPT !.at = "remove", !.run = r]
<1>1. /\ job["http"].at = "idle" /\ Present(r)
      /\ job' = [job EXCEPT !["http"] = next]
      /\ UNCHANGED <<fileVars, listing, boot, ghostVars, crashes>>
  BY DEF DeleteRequest, HasStatus
<1>2. next \in Job
  BY RemoveType
<1> HIDE DEF next
<1>3. "http" \in Who /\ "http" \notin temp
  BY <1>1 DEF Who, StoreInv, Fits, JobFits
<1>4. StoreType'
  BY <1>1, <1>2 DEF StoreInv, StoreType, fileVars, ghostVars
<1>5. Quiet("http")
  BY <1>1, <1>3 DEF Quiet, fileVars, ghostVars, OthersKeep, StoreInv, StoreType
<1>6. life[r] \in Known
  BY <1>1 DEF StoreInv, Disk, PresentWereCreated
<1>7. \A s \in Runs : listing["http"].found[s] # "none" => life[s] \in Known
  BY <1>3 DEF StoreInv, Fits, LifeFits
<1>8. job'["http"] = next
  BY <1>1, <1>3 DEF StoreInv, StoreType
<1>9. Fits("http")'
  BY <1>1, <1>3, <1>6, <1>7, <1>8, RemoveFits DEF next, fileVars, ghostVars
<1> QED
  BY <1>3, <1>4, <1>5, <1>9, QuietStep

LEMMA BootListKeeps ==
  ASSUME StoreInv, BootList
  PROVE  StoreInv'
<1>1. /\ boot = "ready" /\ boot' = "listing"
      /\ listing' = [listing EXCEPT !["boot"] = ReadDir]
      /\ job' = [job EXCEPT !["boot"].at = "load"]
      /\ owed' \subseteq Runs
      /\ UNCHANGED <<fileVars, life, again, aside, crashes>>
  BY DEF BootList
<1>2. "boot" \in Who /\ "boot" \notin temp
  BY <1>1 DEF Who, StoreInv, Asleep, Fits, JobFits
<1>3. job' \in [Who -> Job] /\ job'["boot"].at = "load" /\ OthersKeep("boot")
  BY <1>1, <1>2, GotoJob DEF StoreInv, StoreType, Step, Goto
<1>4. StoreType'
  BY <1>1, <1>3, ReadDirType DEF StoreInv, StoreType, fileVars
<1>5. Quiet("boot")
  BY <1>1, <1>2, <1>3 DEF Quiet, fileVars, StoreInv, StoreType
<1>6. listing'["boot"].found = NoListing.found
  BY <1>1, <1>2, ReadDirType DEF StoreInv, StoreType
<1>7. Fits("boot")'
  <2>1. JobFits("boot")'
    BY <1>1, <1>2, <1>3 DEF JobFits, Saves, fileVars
  <2>2. LifeFits("boot")'
    BY <1>3, <1>6 DEF LifeFits, Saves, NoListing
  <2>3. VersionFits("boot")' /\ HandoffsFit("boot")' /\ SaveFits("boot")'
    BY <1>3 DEF VersionFits, HandoffsFit, SaveFits, Saves
  <2> QED
    BY <2>1, <2>2, <2>3 DEF Fits
<1> QED
  BY <1>2, <1>4, <1>5, <1>7, QuietStep

LEMMA ListedKeeps ==
  ASSUME StoreInv, Listed
  PROVE  StoreInv'
<1>1. "boot" \in Who /\ "boot" \notin temp
  BY DEF Listed, Who, StoreInv, Fits, JobFits
<1> QED
  BY <1>1, ReturnKeeps DEF Listed, fileVars, ghostVars

\* The loop of the recovery takes up a run it found.
LEMMA AtRunFacts ==
  ASSUME StoreInv, NEW r \in Runs, NEW set, AtRun(r, set), "none" \notin set
  PROVE  /\ boot = "recovering" /\ job["boot"].at = "idle" /\ "boot" \in Who /\ "boot" \notin temp
         /\ listing' \in [Who -> Listing]
         /\ \A q \in Who \ {"boot"} : listing'[q] = listing[q]
         /\ \A s \in Runs \ {r} : listing'["boot"].found[s] = listing["boot"].found[s]
         /\ \A s \in Runs : listing'["boot"].found[s] # "none" => life[s] \in Known
         /\ owed' \subseteq Runs /\ life[r] \in Known
<1>1. /\ boot = "recovering" /\ job["boot"].at = "idle" /\ Found[r] \in set
      /\ listing' = [listing EXCEPT !["boot"].found[r] = "none"]
      /\ owed' = owed \ {r}
  BY DEF AtRun
<1>2. "boot" \in Who /\ "boot" \notin temp
  BY <1>1 DEF Who, StoreInv, Fits, JobFits
<1>3. listing \in [Who -> Listing]
  BY DEF StoreInv, StoreType
<1>4. /\ listing' \in [Who -> Listing]
      /\ \A q \in Who \ {"boot"} : listing'[q] = listing[q]
      /\ listing'["boot"].found[r] = "none"
      /\ \A s \in Runs \ {r} : listing'["boot"].found[s] = listing["boot"].found[s]
  <2> DEFINE found == [listing["boot"].found EXCEPT ![r] = "none"]
             entry == [listing["boot"] EXCEPT !.found = found]
  <2>1. listing["boot"] \in Listing
    BY <1>2, <1>3
  <2>2. /\ found \in [Runs -> Status \cup {"none"}] /\ found[r] = "none"
        /\ \A s \in Runs \ {r} : found[s] = listing["boot"].found[s]
    BY <2>1 DEF Listing
  <2>3. listing' = [listing EXCEPT !["boot"] = entry]
    BY <1>1
  <2> HIDE DEF found
  <2>4. entry \in Listing /\ entry.found = found
    BY <2>1, <2>2 DEF Listing
  <2> HIDE DEF entry
  <2> QED
    BY <1>2, <1>3, <2>2, <2>3, <2>4
<1>5. \A s \in Runs : listing["boot"].found[s] # "none" => life[s] \in Known
  BY <1>2 DEF StoreInv, Fits, LifeFits
<1> QED
  <2>1. life[r] \in Known
    BY <1>1, <1>5 DEF Found
  <2> QED
    BY <1>1, <1>2, <1>4, <1>5, <2>1 DEF StoreInv, StoreType

LEMMA BootRemoveKeeps ==
  ASSUME StoreInv, NEW r \in Runs, BootRemove(r)
  PROVE  StoreInv'
<1> DEFINE remove == [Idle EXCEPT !.at = "remove", !.run = r]
<1>1. PICK next \in {Idle, remove} : job' = [job EXCEPT !["boot"] = next]
  BY DEF BootRemove
<1>2. AtRun(r, {"completed"}) /\ UNCHANGED <<fileVars, boot, life, again, aside, crashes>>
  BY DEF BootRemove
<1>3. /\ boot = "recovering" /\ job["boot"].at = "idle" /\ "boot" \in Who /\ "boot" \notin temp
      /\ listing' \in [Who -> Listing]
      /\ \A q \in Who \ {"boot"} : listing'[q] = listing[q]
      /\ \A s \in Runs : listing'["boot"].found[s] # "none" => life[s] \in Known
      /\ owed' \subseteq Runs /\ life[r] \in Known
  BY <1>2, AtRunFacts
<1>4. next \in Job
  BY IdleType, RemoveType
<1>5. job'["boot"] = next /\ job' \in [Who -> Job] /\ OthersKeep("boot")
  BY <1>1, <1>3, <1>4 DEF StoreInv, StoreType, OthersKeep
<1>6. StoreType'
  BY <1>2, <1>3, <1>5 DEF StoreInv, StoreType, fileVars
<1>7. Quiet("boot")
  BY <1>2, <1>3, <1>5 DEF Quiet, fileVars
<1>8. Fits("boot")'
  BY <1>2, <1>3, <1>5, IdleFits, RemoveFits DEF fileVars
<1> QED
  BY <1>3, <1>6, <1>7, <1>8, QuietStep

LEMMA BootBlockKeeps ==
  ASSUME StoreInv, NEW r \in Runs, BootBlock(r)
  PROVE  StoreInv'
<1>1. /\ AtRun(r, {"starting"}) /\ aside' = aside \cup {r}
      /\ UNCHANGED <<fileVars, boot, life, again, crashes>>
  BY DEF BootBlock
<1>2. /\ boot = "recovering" /\ job["boot"].at = "idle" /\ "boot" \in Who /\ "boot" \notin temp
      /\ listing' \in [Who -> Listing]
      /\ \A q \in Who \ {"boot"} : listing'[q] = listing[q]
      /\ \A s \in Runs : listing'["boot"].found[s] # "none" => life[s] \in Known
      /\ owed' \subseteq Runs /\ life[r] \in Known
  BY <1>1, AtRunFacts
<1>3. CASE ~Present(r)
  <2>1. UNCHANGED job
    BY <1>3 DEF BootBlock
  <2>2. Fits("boot")
    BY <1>2 DEF StoreInv
  <2>3. StoreType'
    BY <1>1, <1>2, <2>1 DEF StoreInv, StoreType, fileVars
  <2>4. Quiet("boot")
    BY <1>1, <1>2, <2>1 DEF Quiet, fileVars, OthersKeep
  <2>5. JobFits("boot")' /\ VersionFits("boot")' /\ HandoffsFit("boot")' /\ SaveFits("boot")'
    BY <1>2, <2>1, <1>1 DEF fileVars, JobFits, VersionFits, HandoffsFit, SaveFits, Saves
  <2>6. LifeFits("boot")'
    BY <1>1, <1>2, <2>1 DEF LifeFits, Saves
  <2> QED
    BY <1>2, <2>3, <2>4, <2>5, <2>6, QuietStep DEF Fits
<1>4. CASE Present(r)
  <2>1. GoOn("boot", Saving(r, "blocked", {}))
    BY <1>4 DEF BootBlock
  <2>2. "blocked" \in Status /\ {} \in SUBSET Handoffs
    BY DEF Status
  <2>3. job' \in [Who -> Job] /\ job'["boot"] = Saving(r, "blocked", {}) /\ OthersKeep("boot")
    BY <1>2, <1>4, <2>1, <2>2, SavingType, GoOnJob DEF StoreInv, StoreType
  <2>4. StoreType'
    BY <1>1, <1>2, <2>3 DEF StoreInv, StoreType, fileVars
  <2>5. Quiet("boot")
    BY <1>1, <1>2, <2>3 DEF Quiet, fileVars
  <2>6. Fits("boot")'
    BY <1>1, <1>2, <1>4, <2>2, <2>3, SavingFits DEF fileVars
  <2> QED
    BY <1>2, <2>4, <2>5, <2>6, QuietStep
<1> QED
  BY <1>3, <1>4

LEMMA BootRecoverKeeps ==
  ASSUME StoreInv, NEW r \in Runs, BootRecover(r)
  PROVE  StoreInv'
<1>1. /\ AtRun(r, {"busy", "blocked"}) /\ job["mutex"].at = "idle"
      /\ UNCHANGED <<fileVars, boot, life, again, aside, crashes>>
  BY DEF BootRecover
<1>2. /\ boot = "recovering" /\ job["boot"].at = "idle" /\ "boot" \in Who /\ "boot" \notin temp
      /\ listing' \in [Who -> Listing]
      /\ \A q \in Who \ {"boot"} : listing'[q] = listing[q]
      /\ \A s \in Runs : listing'["boot"].found[s] # "none" => life[s] \in Known
      /\ owed' \subseteq Runs /\ life[r] \in Known
  BY <1>1, AtRunFacts
<1>3. CASE UNCHANGED job
  <2>1. StoreType'
    BY <1>1, <1>2, <1>3 DEF StoreInv, StoreType, fileVars
  <2>2. Quiet("boot")
    BY <1>1, <1>2, <1>3 DEF Quiet, fileVars, OthersKeep
  <2>3. JobFits("boot")' /\ VersionFits("boot")' /\ HandoffsFit("boot")' /\ SaveFits("boot")'
    BY <1>2, <1>3, <1>1 DEF fileVars, JobFits, VersionFits, HandoffsFit, SaveFits, Saves
  <2>4. LifeFits("boot")'
    BY <1>1, <1>2, <1>3 DEF LifeFits, Saves
  <2> QED
    BY <1>2, <2>1, <2>2, <2>3, <2>4, QuietStep DEF Fits
<1>4. ASSUME NEW status \in {"busy", "blocked"}, Present(r),
             job' = [job EXCEPT !["boot"] = Saving(r, status, {}), !["mutex"] = Lent]
      PROVE  StoreInv'
  <2>1. status \in Status /\ {} \in SUBSET Handoffs
    BY DEF Status
  <2>2. Saving(r, status, {}) \in Job
    BY <1>4, <2>1, SavingType DEF StoreInv
  <2>3. Lent \in Job /\ Lent.at = "lent"
    BY DEF Lent, Idle, Job, Step
  <2>4. "mutex" \in Who /\ "http" \in Who /\ "mutex" \notin temp
    BY <1>1 DEF Who, StoreInv, Fits, JobFits
  <2>5. /\ job' \in [Who -> Job]
        /\ job'["boot"] = Saving(r, status, {}) /\ job'["mutex"] = Lent
        /\ job'["http"] = job["http"]
    BY <1>2, <1>4, <2>2, <2>3, <2>4 DEF StoreInv, StoreType
  <2>6. StoreType'
    BY <1>1, <1>2, <2>5 DEF StoreInv, StoreType, fileVars
  <2>7. Fits("boot")'
    BY <1>1, <1>2, <1>4, <2>1, <2>3, <2>5, SavingFits DEF fileVars
  <2>8. Fits("mutex")'
    <3>1. \A s \in Runs : listing["mutex"].found[s] # "none" => life[s] \in Known
      BY <2>4 DEF StoreInv, Fits, LifeFits
    <3> QED
      BY <1>1, <1>2, <2>3, <2>4, <2>5, <3>1
         DEF Fits, JobFits, LifeFits, VersionFits, HandoffsFit, SaveFits, Saves, fileVars
  <2>9. Fits("http")'
    BY <1>1, <1>2, <2>4, <2>5, SparedFits DEF StoreInv, fileVars, Spares
  <2>10. ASSUME NEW q \in temp' PROVE q \in temp /\ job'[q].run = job[q].run
    BY <1>1, <1>2, <2>4, <2>5, <2>6 DEF fileVars, StoreType, Who
  <2>11. Disk'
    BY <1>1, <2>6, <2>10, SameDisk DEF StoreType, fileVars
  <2> QED
    BY <1>1, <1>2, <2>6, <2>7, <2>8, <2>9, <2>11 DEF StoreInv, Asleep, Who
<1> QED
  BY <1>3, <1>4 DEF BootRecover

LEMMA BootEndsKeeps ==
  ASSUME StoreInv, BootEnds
  PROVE  StoreInv'
<1>1. /\ job["boot"].at = "idle" /\ boot' = "done"
      /\ listing' = [listing EXCEPT !["boot"] = NoListing]
      /\ UNCHANGED <<fileVars, job, ghostVars, crashes>>
  BY DEF BootEnds
<1>2. "boot" \in Who /\ "boot" \notin temp
  BY <1>1 DEF Who, StoreInv, Fits, JobFits
<1>3. StoreType'
  BY <1>1, IdleType DEF StoreInv, StoreType, fileVars, ghostVars
<1>4. Quiet("boot")
  BY <1>1, <1>2 DEF Quiet, fileVars, ghostVars, OthersKeep, StoreInv, StoreType
<1>5. \A s \in Runs : listing'["boot"].found[s] = "none"
  BY <1>1, <1>2 DEF StoreInv, StoreType, NoListing
<1>6. Fits("boot")'
  BY <1>1, <1>2, <1>5
     DEF Fits, JobFits, LifeFits, VersionFits, HandoffsFit, SaveFits, Saves, fileVars
<1> QED
  BY <1>2, <1>3, <1>4, <1>6, QuietStep

\* A crash leaves the files, and nobody who works on them.
LEMMA CrashKeeps ==
  ASSUME StoreInv, Crash
  PROVE  StoreInv'
<1>1. /\ crashes < MaxCrashes /\ crashes' = crashes + 1 /\ boot' = "off"
      /\ temp' = {} /\ owed' = {} /\ aside' = {}
      /\ job' = [p \in Who |-> Idle] /\ listing' = [p \in Who |-> NoListing]
      /\ UNCHANGED <<dir, json, files, life, again>>
  BY DEF Crash
<1>2. StoreType'
  BY <1>1, IdleType, StoreAssumption DEF StoreInv, StoreType
<1>3. ASSUME NEW p \in Who PROVE Fits(p)'
  BY <1>1, IdleFits DEF NoListing
<1>4. Disk'
  BY <1>1, SameDisk
<1>5. Asleep'
  BY <1>1 DEF Asleep, Idle, Who
<1> QED
  BY <1>2, <1>3, <1>4, <1>5 DEF StoreInv

\* Nothing is done and nothing changes.
LEMMA NothingDone ==
  ASSUME StoreInv, UNCHANGED <<fileVars, job, listing, life, again, aside, crashes>>,
         owed' \subseteq Runs, boot' = boot \/ (boot = "off" /\ boot' = "ready")
  PROVE  StoreInv'
<1>1. StoreType'
  BY DEF StoreInv, StoreType, fileVars
<1>2. ASSUME NEW p \in Who PROVE Fits(p)'
  BY SparedFits DEF StoreInv, fileVars, Spares
<1>3. Disk'
  BY <1>1, SameDisk DEF StoreType, fileVars
<1>4. Asleep'
  BY DEF StoreInv, Asleep
<1> QED
  BY <1>1, <1>2, <1>3, <1>4 DEF StoreInv

-----------------------------------------------------------------------------
(* Steps that change the files or how far a run got *)

\* The run whose creation begins was unknown to everyone.
LEMMA CreateKeeps ==
  ASSUME StoreInv, Create
  PROVE  StoreInv'
<1> DEFINE r == job["mutex"].run
<1>1. /\ job["mutex"].at = "load" /\ listing' = [listing EXCEPT !["mutex"] = NoListing]
      /\ UNCHANGED <<json, files, boot, again, aside, owed, crashes>>
  BY DEF Create
<1>2. "mutex" \in Who /\ r \in Runs /\ "mutex" \notin temp /\ life[r] = "unused"
      /\ Fits("mutex")
  BY <1>1 DEF Who, StoreInv, Fits, JobFits, LifeFits
<1>3. CASE Return("mutex") /\ UNCHANGED <<dir, temp, life>>
  BY <1>1, <1>2, <1>3, ReturnKeeps
<1>4. CASE /\ dir' = dir \cup {r} /\ temp' = temp \cup {"mutex"}
           /\ life' = [life EXCEPT ![r] = "creating"] /\ Goto("mutex", "link")
  <2>1. /\ job' \in [Who -> Job]
        /\ job'["mutex"].at = "link" /\ job'["mutex"].run = r
        /\ job'["mutex"].new = job["mutex"].new
        /\ OthersKeep("mutex")
    BY <1>2, <1>4, GotoJob DEF StoreInv, StoreType, Step
  <2>2. listing' \in [Who -> Listing] /\ listing'["mutex"] = NoListing
        /\ \A q \in Who \ {"mutex"} : listing'[q] = listing[q]
    BY <1>1, <1>2, IdleType DEF StoreInv, StoreType
  <2>3. life'[r] = "creating" /\ \A s \in Runs \ {r} : life'[s] = life[s]
    BY <1>2, <1>4 DEF StoreInv, StoreType
  <2>4. StoreType'
    BY <1>1, <1>2, <1>4, <2>1, <2>2 DEF StoreInv, StoreType
  <2>5. ASSUME NEW q \in Who \ {"mutex"} PROVE Fits(q)'
    <3>1. Spares(q)
      BY <1>1, <1>2, <1>4, <2>2, <2>3 DEF Spares, Known, Saves, StoreInv, Fits, JobFits
    <3> QED
      BY <1>1, <1>2, <2>1, <3>1, OthersFit
  <2>6. JobFits("mutex")'
    BY <1>2, <1>4, <2>1 DEF JobFits, Saves
  <2>7. LifeFits("mutex")'
    BY <2>1, <2>2, <2>3 DEF LifeFits, Saves, NoListing
  <2>8. VersionFits("mutex")'
    BY <1>1, <1>2, <2>1 DEF Fits, VersionFits, Saves
  <2>9. HandoffsFit("mutex")' /\ SaveFits("mutex")'
    BY <2>1 DEF HandoffsFit, SaveFits, Saves
  <2>10. PresentWereCreated' /\ CreatedRunsStay' /\ HandoffsOnDisk'
    BY <1>1, <1>2, <2>3
       DEF StoreInv, Disk, PresentWereCreated, CreatedRunsStay, HandoffsOnDisk, Present, Known
  <2>11. Directories'
    <3>1. ASSUME NEW s \in Runs, NEW q \in temp', job'[q].run = s PROVE s \in dir'
      <4>1. CASE q = "mutex"
        BY <1>4, <2>1, <3>1, <4>1
      <4>2. CASE q # "mutex"
        <5>1. q \in Who /\ q \in temp
          BY <1>4, <3>1, <4>2, <2>4 DEF StoreType
        <5>2. job'[q] = job[q]
          BY <4>2, <5>1, <2>1 DEF OthersKeep
        <5> QED
          BY <1>4, <3>1, <5>1, <5>2 DEF StoreInv, Disk, Directories, Contents
      <4> QED
        BY <4>1, <4>2
    <3>2. ASSUME NEW s \in Runs, files'[s] # {} \/ Present(s)' PROVE s \in dir'
      BY <1>1, <1>4, <3>2 DEF StoreInv, Disk, Directories, Contents, Present
    <3> QED
      BY <3>1, <3>2 DEF Directories, Contents
  <2>12. Asleep'
    BY <1>1, <2>1 DEF StoreInv, Asleep, OthersKeep, Who
  <2> QED
    BY <2>4, <2>5, <2>6, <2>7, <2>8, <2>9, <2>10, <2>11, <2>12 DEF StoreInv, Disk, Fits
<1> QED
  BY <1>3, <1>4 DEF Create

\* A step that removes p's temporary file, at most, leaves files in directories
\* if it adds files only where there was one.
LEMMA DirectoriesStay ==
  ASSUME StoreInv, StoreType', NEW p \in Who, OthersKeep(p), temp' \subseteq temp, p \notin temp',
         UNCHANGED dir, \A s \in Runs : files'[s] # {} \/ Present(s)' => Contents(s) # {}
  PROVE  Directories'
<1>1. ASSUME NEW s \in Runs, NEW q \in temp', job'[q].run = s PROVE s \in dir'
  <2>1. q \in Who \ {p} /\ q \in temp
    BY DEF StoreType
  <2>2. job[q].at # "lent"
    BY <2>1 DEF StoreInv, Fits, JobFits
  <2>3. job'[q] = job[q]
    BY <2>1, <2>2 DEF OthersKeep
  <2> QED
    BY <1>1, <2>1, <2>3 DEF StoreInv, Disk, Directories, Contents
<1>2. ASSUME NEW s \in Runs, files'[s] # {} \/ Present(s)' PROVE s \in dir'
  BY <1>2 DEF StoreInv, Disk, Directories
<1> QED
  BY <1>1, <1>2 DEF Directories, Contents

LEMMA LinkRunKeeps ==
  ASSUME StoreInv, LinkRun
  PROVE  StoreInv'
<1> DEFINE r == job["mutex"].run
<1>1. /\ job["mutex"].at = "link" /\ json' = [json EXCEPT ![r] = job["mutex"].new]
      /\ temp' = temp \ {"mutex"} /\ life' = [life EXCEPT ![r] = "born"] /\ Return("mutex")
      /\ UNCHANGED <<dir, files, listing, boot, again, aside, owed, crashes>>
  BY DEF LinkRun
<1>2. /\ "mutex" \in Who /\ Fits("mutex") /\ r \in Runs /\ "mutex" \in temp
      /\ life[r] = "creating" /\ job["mutex"].new \in Version /\ job["mutex"].new.hands = {}
  BY <1>1 DEF Who, StoreInv, Fits, JobFits, LifeFits, VersionFits
<1>3. job' \in [Who -> Job] /\ job'["mutex"] = Idle /\ OthersKeep("mutex")
  BY <1>1, <1>2, IdleType, GoOnJob DEF Return, StoreInv, StoreType
<1>4. /\ life'[r] = "born" /\ \A s \in Runs \ {r} : life'[s] = life[s]
      /\ json'[r] = job["mutex"].new /\ \A s \in Runs \ {r} : json'[s] = json[s]
  BY <1>1, <1>2 DEF StoreInv, StoreType
<1>5. StoreType'
  BY <1>1, <1>2, <1>3 DEF StoreInv, StoreType
<1>6. ASSUME NEW q \in Who \ {"mutex"} PROVE Fits(q)'
  <2>1. Spares(q)
    <3>1. q \in temp' <=> q \in temp
      BY <1>1
    <3>2. job[q].at \in Saves => job[q].run # r /\ job[q].run \in Runs
      BY <1>2 DEF StoreInv, Fits, JobFits, LifeFits, Known
    <3> QED
      BY <1>1, <1>2, <1>4, <3>1, <3>2 DEF Spares, Known
  <2> QED
    BY <1>1, <1>2, <1>3, <2>1, OthersFit
<1>7. Fits("mutex")'
  <2>1. \A s \in Runs : listing["mutex"].found[s] # "none" => life[s] \in Known
    BY <1>2 DEF Fits, LifeFits
  <2> QED
    BY <1>1, <1>2, <1>3, <1>4, <2>1, IdleFits DEF Known
<1>8. json'[r] # NoFile
  BY <1>2, <1>4, StoreAssumption
<1>9. PresentWereCreated' /\ CreatedRunsStay' /\ HandoffsOnDisk'
  BY <1>1, <1>2, <1>4, <1>8
     DEF StoreInv, Disk, PresentWereCreated, CreatedRunsStay, HandoffsOnDisk, Present, Known
<1>10. Directories'
  <2>1. ASSUME NEW s \in Runs, files'[s] # {} \/ Present(s)' PROVE Contents(s) # {}
    BY <1>1, <1>2, <1>4, <2>1 DEF Contents, Present
  <2> QED
    BY <1>1, <1>2, <1>3, <1>5, <2>1, DirectoriesStay
<1>11. Asleep'
  BY <1>1, <1>3 DEF StoreInv, Asleep, OthersKeep, Who
<1> QED
  BY <1>5, <1>6, <1>7, <1>9, <1>10, <1>11 DEF StoreInv, Disk

LEMMA LinkHandoffKeeps ==
  ASSUME StoreInv, NEW p \in Who, LinkHandoff(p)
  PROVE  StoreInv'
<1> DEFINE r == job[p].run
<1>1. /\ job[p].at = "linkHandoff" /\ temp' = temp \ {p}
      /\ UNCHANGED <<dir, json, listing, boot, ghostVars, crashes>>
  BY DEF LinkHandoff
<1>2. Fits(p) /\ r \in Runs /\ job[p].names \subseteq Handoffs
  BY <1>1 DEF StoreInv, Fits, JobFits, HandoffsFit, Saves
<1>3. CASE UNCHANGED files /\ Return(p)
  BY <1>1, <1>3, ReturnKeeps DEF ghostVars
<1>4. CASE /\ p \in temp /\ files' = [files EXCEPT ![r] = @ \cup job[p].names]
           /\ Goto(p, "check")
  <2>1. /\ job' \in [Who -> Job]
        /\ job'[p].at = "check" /\ job'[p].run = r
        /\ job'[p].old = job[p].old /\ job'[p].new = job[p].new /\ job'[p].names = job[p].names
        /\ OthersKeep(p)
    BY <1>4, GotoJob DEF StoreInv, StoreType, Step
  <2>2. files'[r] = files[r] \cup job[p].names /\ \A s \in Runs \ {r} : files'[s] = files[s]
    BY <1>2, <1>4 DEF StoreInv, StoreType
  <2>3. StoreType'
    BY <1>1, <1>2, <1>4, <2>1 DEF StoreInv, StoreType, ghostVars
  <2>4. ASSUME NEW q \in Who \ {p} PROVE Fits(q)'
    <3>1. Spares(q)
      BY <1>1, <2>2 DEF Spares, ghostVars
    <3> QED
      BY <1>1, <2>1, <3>1, OthersFit
  <2>5. p = "boot" => job'["mutex"].at = job["mutex"].at
    BY <1>4 DEF Goto, Who, StoreInv, StoreType
  <2>6. JobFits(p)'
    BY <1>1, <1>2, <2>1 DEF Fits, JobFits, Saves
  <2>7. LifeFits(p)'
    BY <1>1, <1>2, <2>1 DEF Fits, LifeFits, Saves, ghostVars
  <2>8. VersionFits(p)'
    BY <1>1, <1>2, <2>1 DEF Fits, VersionFits, Saves
  <2>9. HandoffsFit(p)'
    BY <1>1, <1>2, <2>1, <2>2 DEF Fits, HandoffsFit, ghostVars
  <2>10. SaveFits(p)'
    BY <1>1, <1>2, <2>1, <2>5 DEF Fits, SaveFits, Saves, ghostVars, Present
  <2>11. PresentWereCreated' /\ CreatedRunsStay' /\ HandoffsOnDisk'
    BY <1>1, <2>2 DEF StoreInv, Disk, PresentWereCreated, CreatedRunsStay, HandoffsOnDisk,
                      Present, ghostVars
  <2>12. Directories'
    <3>1. ASSUME NEW s \in Runs, files'[s] # {} \/ Present(s)' PROVE Contents(s) # {}
      BY <1>1, <1>4, <2>2, <3>1 DEF Contents, Present
    <3> QED
      BY <1>1, <2>1, <2>3, <3>1, DirectoriesStay
  <2>13. Asleep'
    BY <1>1, <2>1 DEF StoreInv, Asleep, OthersKeep, Who
  <2> QED
    BY <2>3, <2>4, <2>6, <2>7, <2>8, <2>9, <2>10, <2>11, <2>12, <2>13 DEF StoreInv, Disk, Fits
<1> QED
  BY <1>3, <1>4 DEF LinkHandoff

\* Nobody else saves the same run, but for the runs blocked beside the mutex.
LEMMA OneSaves ==
  ASSUME StoreInv, NEW p \in Who, NEW q \in Who \ {p}, job[p].at \in Saves, job[q].at \in Saves,
         job[p].run = job[q].run
  PROVE  job[q].run \in aside
<1>1. {p, q} = {"mutex", "boot"}
  BY DEF Who, StoreInv, Fits, JobFits, Saves
<1> QED
  BY <1>1 DEF StoreInv, Fits, SaveFits, Saves, Who

LEMMA RenameKeeps ==
  ASSUME StoreInv, NEW p \in Who, Rename(p)
  PROVE  StoreInv'
<1> DEFINE r == job[p].run
<1>1. /\ job[p].at = "rename" /\ temp' = temp \ {p}
      /\ UNCHANGED <<dir, files, listing, boot, life, aside, crashes>>
  BY DEF Rename
<1>2. Fits(p) /\ r \in Runs /\ job[p].new \in Version /\ life[r] \in Known
  BY <1>1 DEF StoreInv, Fits, JobFits, LifeFits, VersionFits, Saves
<1>3. CASE UNCHANGED <<json, again, owed>> /\ Return(p)
  BY <1>1, <1>3, ReturnKeeps
<1>4. ASSUME p \in temp, json' = [json EXCEPT ![r] = Replaced(p)],
             again' \subseteq again \cup {r}, owed' \subseteq owed,
             NEW next \in AfterSave(p), GoOn(p, next)
      PROVE  StoreInv'
  <2>1. next \in Job /\ (next = Idle \/ next = [Idle EXCEPT !.at = "remove", !.run = r])
    BY <1>2, <1>4, IdleType, RemoveType DEF AfterSave
  <2>2. job' \in [Who -> Job] /\ job'[p] = next /\ OthersKeep(p)
    BY <1>4, <2>1, GoOnJob DEF StoreInv, StoreType
  <2>3. json'[r] = job[p].new /\ \A s \in Runs \ {r} : json'[s] = json[s]
    BY <1>2, <1>4 DEF Replaced, StoreInv, StoreType
  <2>4. StoreType'
    BY <1>1, <1>2, <1>4, <2>2 DEF Replaced, StoreInv, StoreType
  <2>5. ASSUME NEW q \in Who \ {p} PROVE Fits(q)'
    <3>1. job[q].at \in Saves => job[q].run \in Runs /\ (job[q].run = r => r \in aside)
      BY <1>1, OneSaves DEF Saves, StoreInv, Fits, JobFits
    <3>2. Spares(q)
      BY <1>1, <2>3, <3>1 DEF Spares
    <3> QED
      BY <1>1, <2>2, <3>2, OthersFit
  <2>6. Fits(p)'
    <3>1. \A s \in Runs : listing[p].found[s] # "none" => life[s] \in Known
      BY <1>2 DEF Fits, LifeFits
    <3> QED
      BY <1>1, <1>2, <2>1, <2>2, <3>1, IdleFits, RemoveFits
  <2>7. json'[r] # NoFile
    BY <1>2, <2>3, StoreAssumption
  <2>8. life[r] # "doomed" => json'[r].hands \subseteq files[r]
    BY <1>1, <1>2, <2>3 DEF Fits, HandoffsFit
  <2>9. PresentWereCreated' /\ CreatedRunsStay' /\ HandoffsOnDisk'
    BY <1>1, <1>2, <2>3, <2>7, <2>8
       DEF StoreInv, Disk, PresentWereCreated, CreatedRunsStay, HandoffsOnDisk, Present
  <2>10. Directories'
    <3>1. ASSUME NEW s \in Runs, files'[s] # {} \/ Present(s)' PROVE Contents(s) # {}
      BY <1>1, <1>4, <2>3, <3>1 DEF Contents, Present
    <3> QED
      BY <1>1, <2>2, <2>4, <3>1, DirectoriesStay
  <2>11. Asleep'
    BY <1>1, <2>2 DEF StoreInv, Asleep, OthersKeep, Who
  <2> QED
    BY <2>4, <2>5, <2>6, <2>9, <2>10, <2>11 DEF StoreInv, Disk
<1>5. CASE p \in temp
  <2>1. again' \subseteq again \cup {r} /\ owed' \subseteq owed
        /\ json' = [json EXCEPT ![r] = Replaced(p)]
        /\ \E next \in AfterSave(p) : GoOn(p, next)
    BY <1>5 DEF Rename
  <2> QED
    BY <1>4, <1>5, <2>1
<1> QED
  BY <1>3, <1>5 DEF Rename

LEMMA ListContentsKeeps ==
  ASSUME StoreInv, NEW p \in Who, ListContents(p)
  PROVE  StoreInv'
<1> DEFINE r == job[p].run
<1>1. /\ job[p].at = "remove"
      /\ job' = [job EXCEPT ![p].at = "unlink", ![p].names = Contents(r)]
      /\ life' = [life EXCEPT ![r] = "doomed"]
      /\ UNCHANGED <<fileVars, listing, boot, again, aside, owed, crashes>>
  BY DEF ListContents
<1>2. Fits(p) /\ r \in Runs /\ life[r] \in Known /\ p \notin temp
  BY <1>1 DEF StoreInv, Fits, JobFits, LifeFits
<1>3. Contents(r) \in SUBSET (Handoffs \cup Who \cup {"run.json"})
  BY <1>2 DEF Contents, StoreInv, StoreType
<1>4. job' \in [Who -> Job] /\ job'[p].at = "unlink" /\ job'[p].run = r /\ OthersKeep(p)
  <2> DEFINE going == [job EXCEPT ![p].at = "unlink"]
             names == Contents(r)
  <2>1. going \in [Who -> Job] /\ going[p].at = "unlink" /\ going[p].run = r
        /\ \A q \in Who \ {p} : going[q] = job[q]
    BY DEF StoreInv, StoreType, Job, Step
  <2>2. job' = [going EXCEPT ![p].names = names]
    BY <1>1
  <2>3. names \in SUBSET (Handoffs \cup Who \cup {"run.json"})
    BY <1>3
  <2> HIDE DEF going, names
  <2> QED
    BY <2>1, <2>2, <2>3 DEF Job, OthersKeep
<1>5. life'[r] = "doomed" /\ \A s \in Runs \ {r} : life'[s] = life[s]
  BY <1>1, <1>2 DEF StoreInv, StoreType
<1>6. StoreType'
  BY <1>1, <1>4 DEF StoreInv, StoreType, fileVars
<1>7. ASSUME NEW q \in Who \ {p} PROVE Fits(q)'
  <2>1. q = "mutex" /\ job[q].at \in {"load", "link"} => job[q].run \in Runs \ {r}
    BY <1>2 DEF StoreInv, Fits, JobFits, LifeFits, Known
  <2>2. Spares(q)
    BY <1>1, <1>5, <2>1 DEF Spares, fileVars, Known
  <2> QED
    BY <1>1, <1>4, <2>2, OthersFit
<1>8. Fits(p)'
  <2>1. JobFits(p)'
    BY <1>1, <1>2, <1>4 DEF JobFits, Saves, fileVars
  <2>2. LifeFits(p)'
    BY <1>1, <1>2, <1>4, <1>5 DEF Fits, LifeFits, Saves, Known
  <2>3. VersionFits(p)' /\ HandoffsFit(p)' /\ SaveFits(p)'
    BY <1>4 DEF VersionFits, HandoffsFit, SaveFits, Saves
  <2> QED
    BY <2>1, <2>2, <2>3 DEF Fits
<1>9. PresentWereCreated' /\ CreatedRunsStay' /\ HandoffsOnDisk'
  BY <1>1, <1>5 DEF StoreInv, Disk, PresentWereCreated, CreatedRunsStay, HandoffsOnDisk, Present,
                    fileVars, Known
<1>10. Directories'
  <2>1. ASSUME NEW s \in Runs, files'[s] # {} \/ Present(s)' PROVE Contents(s) # {}
    BY <1>1, <2>1 DEF Contents, Present, fileVars
  <2> QED
    BY <1>1, <1>2, <1>4, <1>6, <2>1, DirectoriesStay DEF fileVars
<1>11. Asleep'
  BY <1>1, <1>4 DEF StoreInv, Asleep, OthersKeep, Who
<1> QED
  BY <1>6, <1>7, <1>8, <1>9, <1>10, <1>11 DEF StoreInv, Disk

LEMMA UnlinkKeeps ==
  ASSUME StoreInv, NEW p \in Who, Unlink(p)
  PROVE  StoreInv'
<1> DEFINE r == job[p].run
<1>1. job[p].at = "unlink" /\ UNCHANGED <<dir, listing, boot, ghostVars, crashes>>
  BY DEF Unlink
<1>2. PICK name \in job[p].names :
        /\ job' = [job EXCEPT ![p].names = @ \ {name}]
        /\ files' = [files EXCEPT ![r] = @ \ {name}]
        /\ temp' = {q \in temp : q = name => job[q].run # r}
        /\ json' = IF name = "run.json" THEN [json EXCEPT ![r] = NoFile] ELSE json
  BY DEF Unlink
<1>3. Fits(p) /\ r \in Runs /\ life[r] = "doomed" /\ p \notin temp
  BY <1>1 DEF StoreInv, Fits, JobFits, LifeFits
<1>4. job' \in [Who -> Job] /\ job'[p].at = "unlink" /\ job'[p].run = r /\ OthersKeep(p)
  BY <1>1, <1>2 DEF StoreInv, StoreType, Job, OthersKeep
<1>5. /\ \A s \in Runs : json'[s] \in {json[s], NoFile} /\ files'[s] \subseteq files[s]
      /\ \A s \in Runs \ {r} : json'[s] = json[s] /\ files'[s] = files[s]
  BY <1>2, <1>3 DEF StoreInv, StoreType
<1>6. json' \in [Runs -> Version \cup {NoFile}] /\ files' \in [Runs -> SUBSET Handoffs]
  BY <1>2, <1>3 DEF StoreInv, StoreType
<1>7. StoreType'
  BY <1>1, <1>2, <1>4, <1>6 DEF StoreInv, StoreType, ghostVars
<1>8. ASSUME NEW q \in Who \ {p} PROVE Fits(q)'
  <2>1. job[q].at \in Saves => job[q].run \in Runs
    BY DEF StoreInv, Fits, JobFits
  <2>2. job[q].at = "link" => job[q].run # r
    BY <1>3 DEF StoreInv, Fits, LifeFits
  <2>3. q \in temp' => q \in temp
    BY <1>2
  <2>4. job[q].at = "link" => (q \in temp' <=> q \in temp)
    BY <1>2, <2>2
  <2>5. Spares(q)
    BY <1>1, <1>3, <1>5, <2>1, <2>3, <2>4 DEF Spares, ghostVars
  <2> QED
    BY <1>1, <1>4, <2>5, OthersFit
<1>9. Fits(p)'
  <2>1. JobFits(p)'
    BY <1>2, <1>3, <1>4 DEF JobFits, Saves
  <2>2. LifeFits(p)'
    BY <1>1, <1>3, <1>4 DEF Fits, LifeFits, Saves, ghostVars
  <2>3. VersionFits(p)' /\ HandoffsFit(p)' /\ SaveFits(p)'
    BY <1>4 DEF VersionFits, HandoffsFit, SaveFits, Saves
  <2> QED
    BY <2>1, <2>2, <2>3 DEF Fits
<1>10. PresentWereCreated' /\ CreatedRunsStay' /\ HandoffsOnDisk'
  BY <1>1, <1>3, <1>5
     DEF StoreInv, Disk, PresentWereCreated, CreatedRunsStay, HandoffsOnDisk, Present, ghostVars
<1>11. Directories'
  <2>1. ASSUME NEW s \in Runs, files'[s] # {} \/ Present(s)' PROVE Contents(s) # {}
    BY <1>5, <2>1 DEF Contents, Present
  <2>2. temp' \subseteq temp /\ p \notin temp'
    BY <1>2, <1>3
  <2> QED
    BY <1>1, <1>4, <1>7, <2>1, <2>2, DirectoriesStay
<1>12. Asleep'
  BY <1>1, <1>4 DEF StoreInv, Asleep, OthersKeep, Who
<1> QED
  BY <1>7, <1>8, <1>9, <1>10, <1>11, <1>12 DEF StoreInv, Disk

-----------------------------------------------------------------------------
(* The specification *)

LEMMA StoreInitInv == StoreInit => StoreInv
<1> SUFFICES ASSUME StoreInit PROVE StoreInv
  OBVIOUS
<1>1. StoreType
  BY IdleType, StoreAssumption DEF StoreInit, StoreType
<1>2. ASSUME NEW p \in Who PROVE Fits(p)
  BY DEF StoreInit, Fits, JobFits, LifeFits, VersionFits, HandoffsFit, SaveFits, Saves, Idle,
         NoListing
<1>3. Disk
  BY DEF StoreInit, Disk, PresentWereCreated, Directories, CreatedRunsStay, HandoffsOnDisk,
         Present, Contents
<1>4. Asleep
  BY DEF StoreInit, Asleep
<1> QED
  BY <1>1, <1>2, <1>3, <1>4 DEF StoreInv

LEMMA WorksKeeps ==
  ASSUME StoreInv, NEW p \in Who, Works(p)
  PROVE  StoreInv'
BY LoadEntryKeeps, ListFailsKeeps, WriteTemporaryKeeps, LinkHandoffKeeps, CheckRevisionKeeps,
   RenameKeeps, WriteFailsKeeps, ListContentsKeeps, UnlinkKeeps, RemoveDirectoryKeeps
   DEF Works

LEMMA StoreStep ==
  ASSUME StoreInv, [StoreNext]_storeVars
  PROVE  StoreInv'
<1>1. CASE Creates
  BY <1>1, CreateKeeps, LinkRunKeeps DEF Creates
<1>2. CASE Boots
  BY <1>2, BootListKeeps, ListedKeeps, BootEndsKeeps, BootRemoveKeeps, BootBlockKeeps DEF Boots
<1>3. CASE Recovers
  BY <1>3, BootRecoverKeeps DEF Recovers
<1>4. CASE \E r \in Runs : StartRun(r) \/ Command(r) \/ DeleteRequest(r)
  BY <1>4, StartRunKeeps, CommandKeeps, DeleteRequestKeeps
<1>5. CASE Restart
  BY <1>5, NothingDone DEF Restart, ghostVars, StoreInv, StoreType
<1>6. CASE UNCHANGED storeVars
  BY <1>6, NothingDone DEF storeVars, ghostVars, StoreInv, StoreType
<1> QED
  BY <1>1, <1>2, <1>3, <1>4, <1>5, <1>6, CrashKeeps, WorksKeeps DEF StoreNext

\* Each of the three that work on the files finds what it relies on, after every
\* step of FS, of the engine's commands, of the recovery, and after a crash.
THEOREM StoreInvariance == StoreSpec => []StoreInv
BY StoreInitInv, StoreStep, PTL DEF StoreSpec

\* The types of the store, and files in directories: every create, save and
\* delete of FS, every recovery and every crash keeps them.
THEOREM StoreTypeCorrect == StoreSpec => []StoreTypeOK
<1>1. StoreInv => StoreTypeOK
  BY DEF StoreInv, StoreType, Disk, Directories, StoreTypeOK
<1> QED
  BY <1>1, StoreInvariance, PTL

\* A run that FS.Create has linked can be loaded until FS.Delete lists its
\* directory, for any number of runs, saves and crashes.
THEOREM RunsStay == StoreSpec => []CreatedRunsStay
<1>1. StoreInv => CreatedRunsStay
  BY DEF StoreInv, Disk
<1> QED
  BY <1>1, StoreInvariance, PTL

\* The handoffs a run on disk refers to are on disk, because recordHandoff
\* writes them before the run.
THEOREM HandoffsSurvive == StoreSpec => []HandoffsOnDisk
<1>1. StoreInv => HandoffsOnDisk
  BY DEF StoreInv, Disk
<1> QED
  BY <1>1, StoreInvariance, PTL

\* Only Create, Save and Delete write run.json; what Save puts in its place was
\* computed from it.
LEMMA NextVersionOnly ==
  ASSUME StoreInv, [StoreNext]_storeVars, NEW r \in Runs, Present(r),
         json'[r] \notin {NoFile, json[r]}, r \notin aside
  PROVE  json'[r].rev = json[r].rev + 1 /\ json[r].hands \subseteq json'[r].hands
<1>1. ASSUME NEW p \in Who, Rename(p)
      PROVE  json'[r].rev = json[r].rev + 1 /\ json[r].hands \subseteq json'[r].hands
  <2>1. job[p].at = "rename" /\ Fits(p) /\ job[p].run \in Runs
    BY <1>1 DEF Rename, StoreInv, Fits, JobFits, Saves
  <2>2. json' = [json EXCEPT ![job[p].run] = job[p].new]
    BY <1>1 DEF Rename, Replaced
  <2>3. job[p].run = r /\ json'[r] = job[p].new
    BY <2>1, <2>2 DEF StoreInv, StoreType
  <2>4. json[r] = job[p].old
    BY <2>1, <2>3 DEF Fits, SaveFits, Saves
  <2> QED
    BY <2>1, <2>3, <2>4 DEF Fits, VersionFits, Saves
<1>2. ASSUME NEW p \in Who, Unlink(p) PROVE FALSE
  <2>1. json' = json \/ json' = [json EXCEPT ![job[p].run] = NoFile]
    BY <1>2 DEF Unlink
  <2> QED
    BY <2>1 DEF StoreInv, StoreType
<1>3. CASE LinkRun
  <2>1. job["mutex"].at = "link" /\ json' = [json EXCEPT ![job["mutex"].run] = job["mutex"].new]
    BY <1>3 DEF LinkRun
  <2>2. life[job["mutex"].run] = "creating"
    BY <2>1 DEF StoreInv, Fits, LifeFits, Who
  <2>3. life[r] \in Known
    BY DEF StoreInv, Disk, PresentWereCreated
  <2> QED
    BY <2>1, <2>2, <2>3 DEF Known, StoreInv, StoreType
<1>4. CASE UNCHANGED json
  BY <1>4
<1>5. ASSUME NEW p \in Who, Works(p)
      PROVE  Rename(p) \/ Unlink(p) \/ UNCHANGED json
  BY <1>5 DEF Works, fileVars, LoadEntry, ListFails, WriteTemporary, LinkHandoff, CheckRevision,
              WriteFails, ListContents, RemoveDirectory
<1>6. CASE Boots \/ Recovers \/ (\E s \in Runs : StartRun(s) \/ Command(s) \/ DeleteRequest(s))
           \/ Crash \/ Restart \/ Create \/ UNCHANGED storeVars
  <2>1. UNCHANGED json
    BY <1>6 DEF Boots, Recovers, fileVars, storeVars, BootList, Listed, BootEnds, BootRemove,
                BootBlock, BootRecover, StartRun, Command, DeleteRequest, Crash, Restart, Create
  <2> QED
    BY <1>4, <2>1
<1> QED
  BY <1>1, <1>2, <1>3, <1>4, <1>5, <1>6 DEF StoreNext, Creates

\* No save of FS goes back behind what another has saved, for the runs that this
\* daemon did not block beside the mutex.
THEOREM NoUpdateIsLost == StoreSpec => NoLostUpdate
<1>1. StoreInv /\ [StoreNext]_storeVars =>
        [\A r \in Runs :
           Present(r) /\ json'[r] \notin {NoFile, json[r]} /\ r \notin aside =>
             json'[r].rev = json[r].rev + 1 /\ json[r].hands \subseteq json'[r].hands]_storeVars
  BY NextVersionOnly
<1> QED
  BY <1>1, StoreInvariance, PTL DEF StoreSpec, NoLostUpdate

-----------------------------------------------------------------------------
(* The recovery passes no run over *)

\* A run that is owed is unfinished on disk, if it is there; the recovery has
\* still to load it or found it unfinished, and has not passed it.
Dealt ==
  /\ \A r \in owed : Present(r) => json[r].status \in Occupies
  /\ boot \in {"off", "ready", "done"} => owed = {}
  /\ job["boot"].at = "load" <=> boot = "listing"
  /\ boot = "listing" => \A r \in owed : r \in listing["boot"].left \/ Found[r] \in Occupies
  /\ boot = "recovering" => \A r \in owed : Found[r] \in Occupies

\* Whoever is not the recovery may end what is owed, and no more.
LEMMA OwedLess ==
  ASSUME Dealt, owed' \subseteq owed, boot' = boot, listing'["boot"] = listing["boot"],
         job'["boot"].at = "load" <=> job["boot"].at = "load",
         \A r \in owed' : json'[r] \in {json[r], NoFile} \/ json'[r].status \in Occupies
  PROVE  Dealt'
BY DEF Dealt, Found, Present

\* No step but BootList and the end of the loading begins or ends it.
LEMMA LoadingStays ==
  ASSUME StoreInv, NEW p \in Who, OthersKeep(p),
         p = "boot" => job[p].at # "load" /\ job'[p].at # "load"
  PROVE  job'["boot"].at = "load" <=> job["boot"].at = "load"
BY DEF OthersKeep, Who

LEMMA WorksDealt ==
  ASSUME StoreInv, Dealt, NEW p \in Who, Works(p)
  PROVE  Dealt'
<1> USE DEF Who
<1>1. CASE LoadEntry(p)
  <2>1. PICK r \in Runs :
          /\ Present(r)
          /\ listing' = [listing EXCEPT ![p].left = @ \ {r}, ![p].found[r] = json[r].status]
    BY <1>1 DEF LoadEntry, StoreInv, StoreType, Listing
  <2>2. job[p].at = "load" /\ UNCHANGED <<json, job, boot, owed>>
    BY <1>1 DEF LoadEntry, fileVars, ghostVars
  <2>3. CASE p # "boot"
    BY <2>1, <2>2, <2>3, OwedLess DEF StoreInv, StoreType
  <2>4. CASE p = "boot"
    <3>1. /\ listing'["boot"].left = listing["boot"].left \ {r}
          /\ listing'["boot"].found[r] = json[r].status
          /\ \A s \in Runs \ {r} : listing'["boot"].found[s] = listing["boot"].found[s]
      BY <2>1, <2>4, LoadedEntry DEF StoreInv
    <3>2. r \in owed => json[r].status \in Occupies
      BY <2>1 DEF Dealt
    <3>3. boot = "listing" /\ owed \subseteq Runs
      BY <2>2, <2>4 DEF Dealt, StoreInv, StoreType
    <3> QED
      BY <2>2, <3>1, <3>2, <3>3 DEF Dealt, Found, Present
  <2> QED
    BY <2>3, <2>4
<1>2. CASE ListFails(p)
  <2>1. /\ job[p].at = "load" /\ UNCHANGED <<json, owed>> /\ Return(p)
        /\ listing' = [listing EXCEPT ![p] = NoListing]
        /\ boot' = IF p = "boot" THEN "failed" ELSE boot
    BY <1>2 DEF ListFails, fileVars, ghostVars
  <2>2. job'[p] = Idle /\ OthersKeep(p)
    BY <2>1, IdleType, GoOnJob DEF Return, StoreInv, StoreType
  <2>3. CASE p # "boot"
    <3>1. job'["boot"].at = "load" <=> job["boot"].at = "load"
      BY <2>2, <2>3, LoadingStays
    <3>2. listing'["boot"] = listing["boot"]
      BY <2>1, <2>3 DEF StoreInv, StoreType
    <3> QED
      BY <2>1, <2>3, <3>1, <3>2, OwedLess
  <2>4. CASE p = "boot"
    BY <2>1, <2>2, <2>4 DEF Dealt, Present, Idle
  <2> QED
    BY <2>3, <2>4
<1>3. ASSUME OthersKeep(p), job[p].at # "load", job'[p].at # "load",
             owed' \subseteq owed, UNCHANGED <<boot, listing>>,
             \A r \in owed' : json'[r] \in {json[r], NoFile} \/ json'[r].status \in Occupies
      PROVE  Dealt'
  BY <1>3, LoadingStays, OwedLess
<1>4. ASSUME Goto(p, "linkHandoff") \/ Goto(p, "check") \/ Goto(p, "replace") \/ Goto(p, "rename")
      PROVE  OthersKeep(p) /\ job'[p].at # "load"
  BY <1>4, GotoJob DEF StoreInv, StoreType, Step
<1>5. ASSUME Return(p) PROVE OthersKeep(p) /\ job'[p].at # "load"
  BY <1>5, IdleType, GoOnJob DEF Return, StoreInv, StoreType, Idle
<1>6. CASE WriteTemporary(p, "handoff", "linkHandoff") \/ WriteTemporary(p, "replace", "rename")
  BY <1>3, <1>4, <1>6 DEF WriteTemporary, ghostVars
<1>7. CASE LinkHandoff(p)
  BY <1>3, <1>4, <1>5, <1>7 DEF LinkHandoff, ghostVars
<1>8. CASE CheckRevision(p)
  BY <1>3, <1>4, <1>5, <1>8 DEF CheckRevision, fileVars, ghostVars
<1>9. CASE Rename(p)
  <2>1. job[p].at = "rename" /\ UNCHANGED <<boot, listing>>
    BY <1>9 DEF Rename
  <2>2. CASE p \notin temp
    BY <1>3, <1>5, <1>9, <2>1, <2>2 DEF Rename
  <2>3. CASE p \in temp
    <3>1. /\ json' = [json EXCEPT ![job[p].run] = job[p].new]
          /\ owed' = IF job[p].new.status \in Occupies THEN owed ELSE owed \ {job[p].run}
      BY <1>9, <2>3 DEF Rename, Replaced
    <3>2. PICK next \in AfterSave(p) : GoOn(p, next)
      BY <1>9, <2>3 DEF Rename
    <3>3. job[p].run \in Runs
      BY <2>1 DEF StoreInv, Fits, JobFits, Saves
    <3>4. next \in Job /\ next.at # "load"
      BY <3>3, IdleType, RemoveType DEF AfterSave
    <3>5. OthersKeep(p) /\ job'[p].at # "load"
      BY <3>2, <3>4, GoOnJob DEF StoreInv, StoreType
    <3>6. \A r \in owed' : json'[r] = json[r] \/ json'[r].status \in Occupies
      BY <3>1, <3>3 DEF StoreInv, StoreType
    <3> QED
      BY <1>3, <2>1, <3>1, <3>5, <3>6
  <2> QED
    BY <2>2, <2>3
<1>10. CASE WriteFails(p)
  BY <1>3, <1>5, <1>10 DEF WriteFails, ghostVars
<1>11. CASE ListContents(p)
  <2>1. /\ job[p].at = "remove" /\ UNCHANGED <<json, boot, listing, owed>>
        /\ \A q \in Who \ {p} : job'[q] = job[q]
        /\ job'[p].at = "unlink"
    BY <1>11 DEF ListContents, fileVars, StoreInv, StoreType, Job
  <2> QED
    BY <1>3, <2>1 DEF OthersKeep
<1>12. CASE Unlink(p)
  <2>1. /\ job[p].at = "unlink" /\ UNCHANGED <<boot, listing, owed>>
        /\ \A q \in Who \ {p} : job'[q] = job[q]
        /\ job'[p].at = "unlink"
    BY <1>12 DEF Unlink, ghostVars, StoreInv, StoreType, Job
  <2>2. json' = json \/ json' = [json EXCEPT ![job[p].run] = NoFile]
    BY <1>12 DEF Unlink
  <2>3. \A r \in owed' : json'[r] \in {json[r], NoFile}
    BY <2>1, <2>2 DEF StoreInv, StoreType
  <2> QED
    BY <1>3, <2>1, <2>3 DEF OthersKeep
<1>13. CASE RemoveDirectory(p)
  BY <1>3, <1>5, <1>13 DEF RemoveDirectory, ghostVars
<1> QED
  BY <1>1, <1>2, <1>6, <1>7, <1>8, <1>9, <1>10, <1>11, <1>12, <1>13 DEF Works

LEMMA BootsDealt ==
  ASSUME StoreInv, Dealt, Boots \/ Recovers
  PROVE  Dealt'
<1>1. CASE BootList
  <2>1. /\ boot' = "listing" /\ listing' = [listing EXCEPT !["boot"] = ReadDir]
        /\ job' = [job EXCEPT !["boot"].at = "load"]
        /\ owed' = {r \in Runs : HasStatus(r, Occupies)} /\ UNCHANGED json
    BY <1>1 DEF BootList, fileVars
  <2>2. job'["boot"].at = "load" /\ listing'["boot"].left = dir
    BY <2>1 DEF StoreInv, StoreType, Who, Job, ReadDir, NoListing
  <2>3. \A r \in Runs : Present(r) => r \in dir
    BY DEF StoreInv, Disk, Directories, Contents
  <2> QED
    BY <2>1, <2>2, <2>3 DEF Dealt, HasStatus, Present
<1>2. CASE Listed
  <2>1. /\ job["boot"].at = "load" /\ listing["boot"].left = {}
        /\ boot' = "recovering" /\ Return("boot") /\ UNCHANGED <<json, listing, owed>>
    BY <1>2 DEF Listed, fileVars, ghostVars
  <2>2. job'["boot"] = Idle
    BY <2>1, IdleType, GoOnJob DEF Return, StoreInv, StoreType, Who
  <2> QED
    BY <2>1, <2>2 DEF Dealt, Present, Found, Idle
<1>3. CASE BootEnds
  <2>1. /\ boot = "recovering" /\ job["boot"].at = "idle" /\ boot' = "done"
        /\ \A r \in Runs : ~RecoverableOnStart(Found[r])
        /\ UNCHANGED <<json, job, owed>>
    BY <1>3 DEF BootEnds, fileVars, ghostVars
  <2>2. owed = {}
    BY <2>1 DEF Dealt, RecoverableOnStart, Occupies, StoreInv, StoreType
  <2> QED
    BY <2>1, <2>2 DEF Dealt
<1>4. ASSUME NEW r \in Runs, NEW set, AtRun(r, set), "none" \notin set,
             UNCHANGED <<json, boot>>, job'["boot"].at # "load"
      PROVE  Dealt'
  <2>1. /\ boot = "recovering" /\ job["boot"].at = "idle" /\ owed' = owed \ {r}
        /\ listing' = [listing EXCEPT !["boot"].found[r] = "none"]
    BY <1>4 DEF AtRun
  <2>2. \A s \in Runs \ {r} : listing'["boot"].found[s] = listing["boot"].found[s]
    BY <1>4, AtRunFacts
  <2>3. owed \subseteq Runs
    BY DEF StoreInv, StoreType
  <2> QED
    BY <1>4, <2>1, <2>2, <2>3 DEF Dealt, Found, Present
<1>5. ASSUME NEW r \in Runs, BootRemove(r) PROVE Dealt'
  <2>1. job["boot"].at = "idle" /\ AtRun(r, {"completed"}) /\ UNCHANGED <<json, boot>>
    BY <1>5 DEF BootRemove, AtRun, fileVars
  <2>2. job'["boot"].at \in {"idle", "remove"}
    BY <1>5, IdleType, RemoveType DEF BootRemove, StoreInv, StoreType, Who
  <2> QED
    BY <1>4, <2>1, <2>2
<1>6. ASSUME NEW r \in Runs, NEW status \in Status, Present(r)
      PROVE  Saving(r, status, {}) \in Job /\ Saving(r, status, {}).at # "load"
  BY <1>6, SavingType DEF Saving, FirstWrite, StoreInv
<1>7. ASSUME NEW r \in Runs, BootBlock(r) PROVE Dealt'
  <2>1. job["boot"].at = "idle" /\ AtRun(r, {"starting"}) /\ UNCHANGED <<json, boot>>
    BY <1>7 DEF BootBlock, AtRun, fileVars
  <2>2. job'["boot"].at # "load"
    <3>1. CASE ~Present(r)
      BY <1>7, <2>1, <3>1 DEF BootBlock
    <3>2. CASE Present(r)
      <4>1. GoOn("boot", Saving(r, "blocked", {})) /\ "blocked" \in Status
        BY <1>7, <3>2 DEF BootBlock, Status
      <4> QED
        BY <1>6, <3>2, <4>1, GoOnJob DEF StoreInv, StoreType, Who
    <3> QED
      BY <3>1, <3>2
  <2> QED
    BY <1>4, <2>1, <2>2
<1>8. ASSUME NEW r \in Runs, BootRecover(r) PROVE Dealt'
  <2>1. job["boot"].at = "idle" /\ AtRun(r, {"busy", "blocked"}) /\ UNCHANGED <<json, boot>>
    BY <1>8 DEF BootRecover, AtRun, fileVars
  <2>2. job'["boot"].at # "load"
    <3>1. CASE UNCHANGED job
      BY <2>1, <3>1
    <3>2. ASSUME NEW status \in {"busy", "blocked"}, Present(r),
                 job' = [job EXCEPT !["boot"] = Saving(r, status, {}), !["mutex"] = Lent]
          PROVE  job'["boot"].at # "load"
      <4>1. job'["boot"] = Saving(r, status, {})
        BY <3>2 DEF StoreInv, StoreType, Who
      <4> QED
        BY <1>6, <3>2, <4>1 DEF Status
    <3> QED
      BY <1>8, <3>1, <3>2 DEF BootRecover
  <2> QED
    BY <1>4, <2>1, <2>2
<1> QED
  BY <1>1, <1>2, <1>3, <1>5, <1>7, <1>8 DEF Boots, Recovers

LEMMA DealtStep ==
  ASSUME StoreInv, Dealt, [StoreNext]_storeVars
  PROVE  Dealt'
<1>1. CASE Creates \/ (\E r \in Runs : StartRun(r) \/ Command(r) \/ DeleteRequest(r))
  <2>1. UNCHANGED <<boot, owed>> /\ listing'["boot"] = listing["boot"]
    BY <1>1 DEF Creates, Create, LinkRun, StartRun, Command, DeleteRequest, ghostVars,
                StoreInv, StoreType, Who
  <2>2. job'["boot"] = job["boot"]
    BY <1>1 DEF Creates, Create, LinkRun, StartRun, Command, DeleteRequest, Return, GoOn, Goto,
                StoreInv, StoreType, Who
  <2>3. CASE LinkRun
    <3>1. job["mutex"].at = "link"
          /\ json' = [json EXCEPT ![job["mutex"].run] = job["mutex"].new]
      BY <2>3 DEF LinkRun
    <3>2. job["mutex"].new.status = "starting"
      BY <3>1 DEF StoreInv, Fits, VersionFits, Who
    <3>3. \A r \in owed' : json'[r] = json[r] \/ json'[r].status \in Occupies
      BY <2>1, <3>1, <3>2 DEF Occupies, StoreInv, StoreType
    <3> QED
      BY <2>1, <2>2, <3>3, OwedLess
  <2>4. CASE UNCHANGED json
    BY <2>1, <2>2, <2>4, OwedLess
  <2>5. LinkRun \/ UNCHANGED json
    BY <1>1 DEF Creates, Create, StartRun, Command, DeleteRequest, fileVars
  <2> QED
    BY <2>3, <2>4, <2>5
<1>2. CASE Crash
  BY <1>2 DEF Crash, Dealt, Idle, Who
<1>3. CASE Restart \/ UNCHANGED storeVars
  BY <1>3 DEF Restart, storeVars, fileVars, ghostVars, Dealt, Found, Present
<1> QED
  BY <1>1, <1>2, <1>3, WorksDealt, BootsDealt DEF StoreNext

\* When RecoverPersistedRuns returns, no run is left that was unfinished when
\* it began and that nobody else has ended, whatever was started, saved or
\* deleted while it listed and recovered.
THEOREM NothingPassedOver == StoreSpec => []NothingOwed
<1>1. StoreInit => Dealt
  BY DEF StoreInit, Dealt, Idle, Who
<1>2. Dealt => NothingOwed
  BY DEF Dealt, NothingOwed
<1> QED
  BY <1>1, <1>2, DealtStep, StoreInvariance, PTL DEF StoreSpec

-----------------------------------------------------------------------------
(* One busy run in the workspace *)

Rivals(r, s) == r # s /\ SameWorkspace(r, s)
Occupied(r) == HasStatus(r, Occupies)

\* The recovery has the mutex, or saves a run as blocked.
LentOrBlocks ==
  job["boot"].at \in Saves => job["boot"].new.status = "blocked" \/ job["mutex"].at = "lent"

\* What stays busy was the only one that nobody revived; the list of a creation
\* will name every rival; a creation goes on if there is none.
Busy ==
  /\ LentOrBlocks
  /\ \A p \in Who, s \in Runs :
       /\ job[p].at \in Saves /\ {job[p].old.status, job[p].new.status} \subseteq Occupies
       /\ Rivals(job[p].run, s) /\ Occupied(s)
       => job[p].run \in again \/ s \in again
  /\ job["mutex"].at = "load" =>
       \A s \in Runs : SameWorkspace(job["mutex"].run, s) /\ Occupied(s) =>
         s \in listing["mutex"].left \/ listing["mutex"].found[s] \in Occupies
  /\ job["mutex"].at = "link" =>
       \A s \in Runs : Rivals(job["mutex"].run, s) => ~Occupied(s)
  /\ OneBusyRun

\* No run becomes busy, no creation begins or lists, and a save that begins is
\* computed from what is on disk.
LEMMA BusyLess ==
  ASSUME StoreInv, Busy, LentOrBlocks', again \subseteq again',
         \A s \in Runs : json'[s] = json[s] \/ ~Occupied(s)',
         \A q \in Who : job'[q].at \in Saves =>
           \/ /\ job[q].at \in Saves /\ job'[q].run = job[q].run
              /\ job'[q].old = job[q].old /\ job'[q].new = job[q].new
           \/ job'[q].run \in Runs /\ Present(job'[q].run) /\ job'[q].old = json[job'[q].run],
         job'["mutex"].at \in {"load", "link"} =>
           job'["mutex"] = job["mutex"] /\ listing'["mutex"] = listing["mutex"]
  PROVE  Busy'
<1>1. \A s \in Runs : Occupied(s)' => Occupied(s)
  BY DEF Occupied, HasStatus, Present
<1>2. OneBusyRun'
  BY <1>1 DEF Busy, OneBusyRun, Occupied, HasStatus, Present
<1>3. ASSUME NEW p \in Who, NEW s \in Runs, job'[p].at \in Saves,
             {job'[p].old.status, job'[p].new.status} \subseteq Occupies,
             Rivals(job'[p].run, s), Occupied(s)'
      PROVE  job'[p].run \in again' \/ s \in again'
  <2>1. CASE /\ job[p].at \in Saves /\ job'[p].run = job[p].run
             /\ job'[p].old = job[p].old /\ job'[p].new = job[p].new
    BY <1>1, <1>3, <2>1 DEF Busy
  <2>2. CASE job'[p].run \in Runs /\ Present(job'[p].run) /\ job'[p].old = json[job'[p].run]
    BY <1>1, <1>3, <2>2 DEF Busy, OneBusyRun, Occupied, HasStatus, Rivals
  <2> QED
    BY <1>3, <2>1, <2>2
<1>4. job'["mutex"].at = "load" =>
        \A s \in Runs : SameWorkspace(job'["mutex"].run, s) /\ Occupied(s)' =>
          s \in listing'["mutex"].left \/ listing'["mutex"].found[s] \in Occupies
  BY <1>1 DEF Busy
<1>5. job'["mutex"].at = "link" =>
        \A s \in Runs : Rivals(job'["mutex"].run, s) => ~Occupied(s)'
  BY <1>1 DEF Busy
<1> QED
  BY <1>2, <1>3, <1>4, <1>5 DEF Busy

\* A step of p that takes a save further, or ends it.
Further(p) ==
  /\ job[p].at # "lent" /\ OthersKeep(p)
  /\ job'[p].at \notin {"load", "link"}
  /\ job'[p].at \in Saves =>
       /\ job[p].at \in Saves /\ job'[p].run = job[p].run
       /\ job'[p].old = job[p].old /\ job'[p].new = job[p].new
       /\ p = "boot" => job'["mutex"] = job["mutex"]
  /\ \A q \in Who \ {p} : listing'[q] = listing[q]

LEMMA FurtherBusy ==
  ASSUME StoreInv, Busy, NEW p \in Who, Further(p), again \subseteq again',
         \A s \in Runs : json'[s] = json[s] \/ ~Occupied(s)'
  PROVE  Busy'
<1>1. LentOrBlocks'
  BY DEF Busy, LentOrBlocks, Further, OthersKeep, Who
<1>2. ASSUME NEW q \in Who, job'[q].at \in Saves
      PROVE  /\ job[q].at \in Saves /\ job'[q].run = job[q].run
             /\ job'[q].old = job[q].old /\ job'[q].new = job[q].new
  BY <1>2, IdleType DEF Further, OthersKeep, Saves
<1>3. job'["mutex"].at \in {"load", "link"} =>
        job'["mutex"] = job["mutex"] /\ listing'["mutex"] = listing["mutex"]
  BY IdleType DEF Further, OthersKeep, Who
<1> QED
  BY <1>1, <1>2, <1>3, BusyLess

LEMMA GoesFurther ==
  ASSUME StoreInv, NEW p \in Who, job[p].at # "lent",
         \/ Return(p)
         \/ job[p].at \in Saves /\ \E step \in Saves : Goto(p, step),
         \A q \in Who \ {p} : listing'[q] = listing[q]
  PROVE  Further(p)
<1>1. CASE Return(p)
  <2>1. job'[p] = Idle /\ OthersKeep(p)
    BY <1>1, IdleType, GoOnJob DEF Return, StoreInv, StoreType
  <2> QED
    BY <2>1, IdleType DEF Further, Saves
<1>2. CASE job[p].at \in Saves /\ \E step \in Saves : Goto(p, step)
  <2>1. PICK step \in Saves : Goto(p, step)
    BY <1>2
  <2>2. step \in Step
    BY DEF Saves, Step
  <2>3. p = "boot" => job'["mutex"] = job["mutex"]
    BY <2>1 DEF Goto, StoreInv, StoreType, Who
  <2> QED
    BY <1>2, <2>1, <2>2, <2>3, GotoJob DEF Further, Saves, StoreInv, StoreType
<1> QED
  BY <1>1, <1>2

\* A save that makes a run busy is alone: the others that save block theirs.
LEMMA RenameBusy ==
  ASSUME StoreInv, Busy, NEW p \in Who, Rename(p)
  PROVE  Busy'
<1> DEFINE r == job[p].run
<1>1. /\ job[p].at = "rename" /\ UNCHANGED listing
      /\ Fits(p) /\ r \in Runs /\ job[p].new \in Version /\ job[p].old \in Version
  BY DEF Rename, StoreInv, Fits, JobFits, VersionFits, Saves
<1>2. CASE p \notin temp
  <2>1. Return(p) /\ UNCHANGED <<json, again>>
    BY <1>2 DEF Rename
  <2> QED
    BY <1>1, <2>1, GoesFurther, FurtherBusy
<1>3. CASE p \in temp
  <2>1. /\ json' = [json EXCEPT ![r] = job[p].new]
        /\ again' = IF job[p].new.status = "busy" /\ job[p].old.status \notin Occupies
                      THEN again \cup {r} ELSE again
    BY <1>3 DEF Rename, Replaced
  <2>2. PICK next \in AfterSave(p) : GoOn(p, next)
    BY <1>3 DEF Rename
  <2>3. next \in Job /\ next.at \in {"idle", "remove"}
    BY <1>1, <2>2, IdleType, RemoveType DEF AfterSave
  <2>4. job'[p] = next /\ OthersKeep(p)
    BY <2>2, <2>3, GoOnJob DEF StoreInv, StoreType
  <2>5. json'[r] = job[p].new /\ \A s \in Runs \ {r} : json'[s] = json[s]
    BY <1>1, <2>1 DEF StoreInv, StoreType
  <2>6. Further(p)
    BY <1>1, <2>3, <2>4 DEF Further, Saves
  <2>7. CASE job[p].new.status \notin Occupies
    BY <2>1, <2>5, <2>6, <2>7, FurtherBusy DEF Occupied, HasStatus
  <2>8. CASE job[p].new.status \in Occupies
    <3>1. \A q \in Who : job'[q].at \in Saves => job'[q].new.status = "blocked"
      <4>1. p # "http" /\ job["http"].at \notin Saves
        BY <1>1 DEF StoreInv, Fits, JobFits, Saves, Who
      <4>2. CASE p = "mutex"
        <5>1. job["boot"].at \in Saves => job["boot"].new.status = "blocked"
          BY <1>1, <4>2 DEF Busy, LentOrBlocks
        <5> QED
          BY <2>3, <2>4, <4>1, <4>2, <5>1 DEF OthersKeep, Saves, Who
      <4>3. CASE p = "boot"
        <5>1. job["mutex"].at = "lent"
          BY <1>1, <2>8, <4>3 DEF Busy, LentOrBlocks, Saves, Occupies
        <5> QED
          BY <2>3, <2>4, <4>1, <4>3, <5>1, IdleType DEF OthersKeep, Saves, Who
      <4> QED
        BY <4>1, <4>2, <4>3 DEF Who
    <3>2. job'["mutex"].at \notin {"load", "link"}
      <4>1. CASE p = "mutex"
        BY <2>3, <2>4, <4>1
      <4>2. CASE p = "boot"
        <5>1. job["mutex"].at = "lent"
          BY <1>1, <2>8, <4>2 DEF Busy, LentOrBlocks, Saves, Occupies
        <5> QED
          BY <2>4, <4>2, <5>1, IdleType DEF OthersKeep, Who
      <4> QED
        BY <1>1, <4>1, <4>2 DEF Who, Fits, JobFits
    <3>3. ASSUME NEW s \in Runs, Rivals(r, s), Occupied(s)
          PROVE  r \in again' \/ s \in again'
      <4>1. CASE job[p].old.status \in Occupies
        BY <1>1, <2>1, <2>8, <3>3, <4>1 DEF Busy, Saves
      <4>2. CASE job[p].old.status \notin Occupies
        <5>1. CASE job[p].new.status = "busy"
          BY <2>1, <4>2, <5>1
        <5>2. CASE job[p].new.status = "starting"
          BY <1>1, <4>2, <5>2 DEF Fits, VersionFits, Saves, Occupies
        <5> QED
          BY <2>8, <5>1, <5>2 DEF Occupies
      <4> QED
        BY <4>1, <4>2
    <3>4. again \subseteq again'
      BY <2>1
    <3>5. OneBusyRun'
      BY <2>5, <3>3, <3>4
         DEF Busy, OneBusyRun, Rivals, Occupied, HasStatus, Present, SameWorkspace
    <3> QED
      BY <3>1, <3>2, <3>5 DEF Busy, LentOrBlocks, Saves, Who, Occupies
  <2> QED
    BY <2>7, <2>8
<1> QED
  BY <1>2, <1>3

LEMMA WorksBusy ==
  ASSUME StoreInv, Busy, NEW p \in Who, Works(p)
  PROVE  Busy'
<1>1. CASE LoadEntry(p)
  <2>1. PICK r \in Runs :
          /\ Present(r)
          /\ listing' = [listing EXCEPT ![p].left = @ \ {r}, ![p].found[r] = json[r].status]
    BY <1>1 DEF LoadEntry, StoreInv, StoreType, Listing
  <2>2. job[p].at = "load" /\ UNCHANGED <<json, job, again>>
    BY <1>1 DEF LoadEntry, fileVars, ghostVars
  <2>3. /\ \A q \in Who \ {p} : listing'[q] = listing[q]
        /\ listing'[p].left = listing[p].left \ {r}
        /\ listing'[p].found[r] = json[r].status
        /\ \A s \in Runs \ {r} : listing'[p].found[s] = listing[p].found[s]
    BY <2>1, LoadedEntry DEF StoreInv
  <2>4. CASE p = "mutex"
    BY <2>2, <2>3, <2>4
       DEF Busy, LentOrBlocks, Occupied, HasStatus, Present, OneBusyRun
  <2>5. CASE p # "mutex"
    BY <2>2, <2>3, <2>5 DEF Busy, LentOrBlocks, Occupied, HasStatus, Present, OneBusyRun, Who
  <2> QED
    BY <2>4, <2>5
<1>2. CASE ListFails(p)
  <2>1. /\ job[p].at = "load" /\ Return(p) /\ UNCHANGED <<json, again>>
        /\ listing' = [listing EXCEPT ![p] = NoListing]
    BY <1>2 DEF ListFails, fileVars, ghostVars
  <2>2. \A q \in Who \ {p} : listing'[q] = listing[q]
    BY <2>1 DEF StoreInv, StoreType
  <2> QED
    BY <2>1, <2>2, GoesFurther, FurtherBusy
<1>3. ASSUME job[p].at # "lent", UNCHANGED <<json, listing, again>>,
             Return(p) \/ (job[p].at \in Saves /\ \E step \in Saves : Goto(p, step))
      PROVE  Busy'
  BY <1>3, GoesFurther, FurtherBusy
<1>4. CASE WriteTemporary(p, "handoff", "linkHandoff") \/ WriteTemporary(p, "replace", "rename")
  BY <1>3, <1>4 DEF WriteTemporary, ghostVars, Saves
<1>5. CASE LinkHandoff(p)
  BY <1>3, <1>5 DEF LinkHandoff, ghostVars, Saves
<1>6. CASE CheckRevision(p)
  BY <1>3, <1>6 DEF CheckRevision, fileVars, ghostVars, Saves
<1>7. CASE WriteFails(p)
  BY <1>3, <1>7 DEF WriteFails, ghostVars
<1>8. CASE RemoveDirectory(p)
  BY <1>3, <1>8 DEF RemoveDirectory, ghostVars
<1>9. CASE ListContents(p)
  <2>1. /\ job[p].at = "remove" /\ UNCHANGED <<json, listing, again>>
        /\ \A q \in Who \ {p} : job'[q] = job[q]
        /\ job'[p].at = "unlink"
    BY <1>9 DEF ListContents, fileVars, StoreInv, StoreType, Job
  <2> QED
    BY <2>1, FurtherBusy DEF Further, OthersKeep, Saves
<1>10. CASE Unlink(p)
  <2>1. /\ job[p].at = "unlink" /\ UNCHANGED <<listing, again>>
        /\ \A q \in Who \ {p} : job'[q] = job[q]
        /\ job'[p].at = "unlink"
    BY <1>10 DEF Unlink, ghostVars, StoreInv, StoreType, Job
  <2>2. json' = json \/ json' = [json EXCEPT ![job[p].run] = NoFile]
    BY <1>10 DEF Unlink
  <2>3. \A r \in Runs : json'[r] = json[r] \/ ~Occupied(r)'
    BY <2>2 DEF Occupied, HasStatus, Present, StoreInv, StoreType
  <2> QED
    BY <2>1, <2>3, FurtherBusy DEF Further, OthersKeep, Saves
<1> QED
  BY <1>1, <1>2, <1>4, <1>5, <1>6, <1>7, <1>8, <1>9, <1>10, RenameBusy DEF Works

\* startRun lists before it looks, and holds the mutex until the run is there.
LEMMA CreationBusy ==
  ASSUME StoreInv, Busy, Creates \/ \E r \in Runs : StartRun(r)
  PROVE  Busy'
<1> DEFINE m == job["mutex"]
<1> USE DEF Who
<1>1. ASSUME NEW r \in Runs, StartRun(r) PROVE Busy'
  <2>1. /\ m.at = "idle" /\ UNCHANGED <<json, again>>
        /\ listing' = [listing EXCEPT !["mutex"] = ReadDir]
        /\ \A q \in Who \ {"mutex"} : job'[q] = job[q]
        /\ job'["mutex"].at = "load"
    BY <1>1 DEF StartRun, fileVars, ghostVars, StoreInv, StoreType, Idle
  <2>2. listing'["mutex"].left = dir
    BY <2>1 DEF ReadDir, NoListing, StoreInv, StoreType
  <2>3. \A s \in Runs : Occupied(s) => s \in dir
    BY DEF Occupied, HasStatus, StoreInv, Disk, Directories, Contents
  <2>4. LentOrBlocks'
    BY <2>1 DEF Busy, LentOrBlocks
  <2> QED
    BY <2>1, <2>2, <2>3, <2>4 DEF Busy, Saves, Occupied, HasStatus, Present, OneBusyRun
<1>2. CASE Create
  <2>1. /\ m.at = "load" /\ listing["mutex"].left = {} /\ UNCHANGED <<json, again>>
        /\ listing' = [listing EXCEPT !["mutex"] = NoListing]
    BY <1>2 DEF Create
  <2>2. CASE Return("mutex")
    <3>1. \A q \in Who \ {"mutex"} : listing'[q] = listing[q]
      BY <2>1 DEF StoreInv, StoreType
    <3> QED
      BY <2>1, <2>2, <3>1, GoesFurther, FurtherBusy
  <2>3. CASE /\ ~\E s \in Runs : /\ SameWorkspace(m.run, s)
                                 /\ RunOccupiesWorkspace(listing["mutex"].found[s])
             /\ Goto("mutex", "link")
    <3>1. /\ \A q \in Who \ {"mutex"} : job'[q] = job[q]
          /\ job'["mutex"].at = "link" /\ job'["mutex"].run = m.run
      BY <2>3 DEF Goto, StoreInv, StoreType, Job
    <3>2. \A s \in Runs : Rivals(m.run, s) => ~Occupied(s)
      BY <2>1, <2>3 DEF Busy, Rivals, RunOccupiesWorkspace
    <3>3. LentOrBlocks'
      BY <2>1, <3>1 DEF Busy, LentOrBlocks
    <3> QED
      BY <2>1, <3>1, <3>2, <3>3 DEF Busy, Saves, Occupied, HasStatus, Present, OneBusyRun
  <2> QED
    BY <1>2, <2>2, <2>3 DEF Create
<1>3. CASE LinkRun
  <2>1. /\ m.at = "link" /\ m.run \in Runs /\ Return("mutex") /\ UNCHANGED <<listing, again>>
        /\ json' = [json EXCEPT ![m.run] = m.new]
    BY <1>3 DEF LinkRun, StoreInv, Fits, JobFits
  <2>2. \A s \in Runs \ {m.run} : json'[s] = json[s]
    BY <2>1 DEF StoreInv, StoreType
  <2>3. \A q \in Who \ {"mutex"} : job'[q] = job[q]
    BY <2>1, IdleType, GoOnJob DEF Return, OthersKeep, StoreInv, StoreType
  <2>4. job'["mutex"] = Idle
    BY <2>1, IdleType, GoOnJob DEF Return, StoreInv, StoreType
  <2>5. \A q \in Who : job'[q].at \in Saves => job'[q].new.status = "blocked"
    BY <2>1, <2>3, <2>4, IdleType DEF Busy, LentOrBlocks, StoreInv, Fits, JobFits, Saves
  <2>6. OneBusyRun'
    BY <2>1, <2>2
       DEF Busy, OneBusyRun, Rivals, Occupied, HasStatus, Present, SameWorkspace
  <2> QED
    BY <2>4, <2>5, <2>6, IdleType DEF Busy, LentOrBlocks, Occupies
<1> QED
  BY <1>1, <1>2, <1>3 DEF Creates

\* A save that begins is computed from what is on disk.
LEMMA SavingBegins ==
  ASSUME StoreInv, Busy, NEW p \in {"mutex", "boot"}, NEW r \in Runs, NEW status, NEW hands,
         job'[p] = Saving(r, status, hands), Present(r),
         p = "mutex" => job["mutex"].at # "lent",
         p = "boot" => status = "blocked" \/ job'["mutex"].at = "lent",
         \A q \in Who \ {p} : job'[q] = job[q] \/ job'[q].at \in {"idle", "lent"},
         UNCHANGED <<json, again>>, listing'["mutex"] = listing["mutex"]
  PROVE  Busy'
<1>1. /\ job'[p].at \in {"check", "handoff"} /\ job'[p].run = r /\ job'[p].old = json[r]
      /\ job'[p].new.status = status
  BY DEF Saving, FirstWrite
<1>2. LentOrBlocks'
  BY <1>1 DEF Busy, LentOrBlocks, Who, Saves
<1> QED
  BY <1>1, <1>2, BusyLess DEF Who, Saves

LEMMA CommandBusy ==
  ASSUME StoreInv, Busy, NEW r \in Runs, Command(r)
  PROVE  Busy'
<1>1. PICK status \in Status, hands \in SUBSET Handoffs : GoOn("mutex", Saving(r, status, hands))
  BY CommandSaves
<1>2. job["mutex"].at = "idle" /\ Present(r) /\ UNCHANGED <<json, listing, again>>
  BY DEF Command, fileVars, ghostVars
<1>3. job'["mutex"] = Saving(r, status, hands) /\ \A q \in Who \ {"mutex"} : job'[q] = job[q]
  BY <1>1, <1>2, SavingType, GoOnJob DEF StoreInv, StoreType, OthersKeep, Who
<1> QED
  BY <1>2, <1>3, SavingBegins

LEMMA BootsBusy ==
  ASSUME StoreInv, Busy, Boots \/ Recovers
  PROVE  Busy'
<1> USE DEF Who
<1>1. ASSUME UNCHANGED <<json, again>>, listing'["mutex"] = listing["mutex"],
             \A q \in Who \ {"boot"} :
               job'[q] = job[q] \/ (job'[q] = Idle /\ job'["boot"].at \notin Saves),
             job'["boot"] = job["boot"] \/ job'["boot"].at \notin Saves
      PROVE  Busy'
  <2>1. LentOrBlocks'
    BY <1>1 DEF Busy, LentOrBlocks
  <2> QED
    BY <1>1, <2>1, IdleType, BusyLess DEF Saves
<1>2. CASE BootList
  <2>1. /\ UNCHANGED <<json, again>> /\ listing'["mutex"] = listing["mutex"]
        /\ \A q \in Who \ {"boot"} : job'[q] = job[q]
        /\ job'["boot"].at = "load"
    BY <1>2 DEF BootList, fileVars, StoreInv, StoreType, Job
  <2> QED
    BY <1>1, <2>1 DEF Saves
<1>3. CASE Listed
  BY <1>3, GoesFurther, FurtherBusy DEF Listed, fileVars, ghostVars
<1>4. CASE BootEnds
  BY <1>1, <1>4 DEF BootEnds, fileVars, ghostVars, StoreInv, StoreType
<1>5. ASSUME NEW r \in Runs, BootRemove(r) PROVE Busy'
  <2>1. AtRun(r, {"completed"}) /\ UNCHANGED <<json, again>>
    BY <1>5 DEF BootRemove, fileVars
  <2>2. listing'["mutex"] = listing["mutex"]
    BY <2>1, AtRunFacts
  <2>3. PICK next \in {Idle, [Idle EXCEPT !.at = "remove", !.run = r]} :
               job' = [job EXCEPT !["boot"] = next]
    BY <1>5 DEF BootRemove
  <2>4. next.at \in {"idle", "remove"}
    BY <2>3, IdleType, RemoveType
  <2>5. job'["boot"] = next /\ \A q \in Who \ {"boot"} : job'[q] = job[q]
    BY <2>3 DEF StoreInv, StoreType
  <2> QED
    BY <1>1, <2>1, <2>2, <2>4, <2>5 DEF Saves
<1>6. ASSUME NEW r \in Runs, BootBlock(r) PROVE Busy'
  <2>1. AtRun(r, {"starting"}) /\ UNCHANGED <<json, again>>
    BY <1>6 DEF BootBlock, fileVars
  <2>2. listing'["mutex"] = listing["mutex"] /\ job["boot"].at = "idle"
    BY <2>1, AtRunFacts
  <2>3. CASE ~Present(r)
    BY <1>1, <1>6, <2>1, <2>2, <2>3 DEF BootBlock
  <2>4. CASE Present(r)
    <3>1. GoOn("boot", Saving(r, "blocked", {}))
      BY <1>6, <2>4 DEF BootBlock
    <3>2. job'["boot"] = Saving(r, "blocked", {})
          /\ \A q \in Who \ {"boot"} : job'[q] = job[q] \/ job'[q].at = "idle"
      BY <3>1, IdleType DEF GoOn
    <3> QED
      BY <2>1, <2>2, <2>4, <3>2, SavingBegins
  <2> QED
    BY <2>3, <2>4
<1>7. ASSUME NEW r \in Runs, BootRecover(r) PROVE Busy'
  <2>1. AtRun(r, {"busy", "blocked"}) /\ UNCHANGED <<json, again>>
    BY <1>7 DEF BootRecover, fileVars
  <2>2. listing'["mutex"] = listing["mutex"]
    BY <2>1, AtRunFacts
  <2>3. CASE UNCHANGED job
    BY <1>1, <2>1, <2>2, <2>3
  <2>4. ASSUME NEW status \in {"busy", "blocked"}, Present(r),
               job' = [job EXCEPT !["boot"] = Saving(r, status, {}), !["mutex"] = Lent]
        PROVE  Busy'
    <3>1. job'["boot"] = Saving(r, status, {}) /\ job'["mutex"] = Lent /\ job'["http"] = job["http"]
      BY <2>4 DEF StoreInv, StoreType
    <3>2. Lent.at = "lent"
      BY DEF Lent, Idle
    <3> QED
      BY <2>1, <2>2, <2>4, <3>1, <3>2, SavingBegins
  <2> QED
    BY <1>7, <2>3, <2>4 DEF BootRecover
<1> QED
  BY <1>2, <1>3, <1>4, <1>5, <1>6, <1>7 DEF Boots, Recovers

LEMMA BusyStep ==
  ASSUME StoreInv, Busy, [StoreNext]_storeVars
  PROVE  Busy'
<1>1. ASSUME NEW r \in Runs, DeleteRequest(r) PROVE Busy'
  <2>1. /\ job["http"].at = "idle" /\ UNCHANGED <<json, listing, again>>
        /\ \A q \in Who \ {"http"} : job'[q] = job[q]
        /\ job'["http"].at = "remove"
    BY <1>1 DEF DeleteRequest, fileVars, ghostVars, StoreInv, StoreType, Who, Idle
  <2> QED
    BY <2>1, FurtherBusy DEF Further, OthersKeep, Saves, Who
<1>2. CASE Crash
  <2>1. UNCHANGED <<json, again>> /\ \A q \in Who : job'[q].at = "idle"
    BY <1>2, IdleType DEF Crash
  <2>2. LentOrBlocks'
    BY <2>1 DEF LentOrBlocks, Saves, Who
  <2> QED
    BY <2>1, <2>2, BusyLess DEF Saves, Who
<1>3. CASE Restart \/ UNCHANGED storeVars
  <2>1. UNCHANGED <<json, again, job, listing>>
    BY <1>3 DEF Restart, storeVars, fileVars, ghostVars
  <2>2. LentOrBlocks'
    BY <2>1 DEF Busy, LentOrBlocks
  <2> QED
    BY <2>1, <2>2, BusyLess
<1> QED
  BY <1>1, <1>2, <1>3, WorksBusy, CreationBusy, CommandBusy, BootsBusy DEF StoreNext, Creates

\* Of two busy runs in a workspace one was busy again after it had been
\* blocked, stopped or completed: startRun never lets the second one in.
THEOREM OneRunAtATime == StoreSpec => []OneBusyRun
<1>1. StoreInit => Busy
  BY IdleType
     DEF StoreInit, Busy, LentOrBlocks, Saves, Occupied, HasStatus, Present, OneBusyRun, Who
<1>2. Busy => OneBusyRun
  BY DEF Busy
<1> QED
  BY <1>1, <1>2, BusyStep, StoreInvariance, PTL DEF StoreSpec

=============================================================================
