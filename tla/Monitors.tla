------------------------------ MODULE Monitors ------------------------------
(***************************************************************************)
(* What the Python agent remembers of files and of removable media:        *)
(* FileIntegrityMonitor with its baseline file, and USBMonitor             *)
(* (src/agent/monitors).  A check runs to its end before another task of   *)
(* the agent does; a crash may cut it.  What a check returns goes into the *)
(* memory of the telemetry sender, and leaves the host with a later flush. *)
(***************************************************************************)
EXTENDS Integers, FiniteSets

CONSTANTS
  Paths,        \* the monitored paths
  Contents,     \* what a file may hold
  Devices,      \* device names of partitions
  Media,        \* removable media
  None,         \* no content that can be read, no medium
  MaxRuns       \* bound: starts of the agent

ASSUME MonitorsAssumption == None \notin Contents \cup Media /\ MaxRuns \in Nat \ {0}

VARIABLES
  files,        \* what is at each path, None if it is gone or unreadable
  baseline,     \* self.baseline; None where the dictionary has no entry
  saved,        \* fim_baseline.json; no entries if it is missing or torn
  unsent,       \* paths with an event in the sender's memory
  told,         \* history: what the agent last said of each path, or first recorded
  observed,     \* history: what its last check found there
  lostEvents,   \* history: paths whose last event died with the process
  baselineLost, \* history: a baseline was not saved in full
  plugged,      \* the medium at each device
  known,        \* self._known_devices
  toldMedium,   \* history: the medium last reported at each device
  seenMedium,   \* history: the medium there at the last check
  unnoticed,    \* history: media that came, went or were swapped between two looks
  runs          \* starts of the agent

fileVars == <<files, baseline, saved, unsent, told, observed, lostEvents, baselineLost>>
usbVars  == <<plugged, known, toldMedium, seenMedium, unnoticed>>
monitorVars == <<fileVars, usbVars, runs>>

Empty == [p \in Paths |-> None]

-----------------------------------------------------------------------------
(* The host.                                                                *)

FileChanges(p) ==
  /\ \E c \in Contents \cup {None} : c # files[p] /\ files' = [files EXCEPT ![p] = c]
  /\ UNCHANGED <<baseline, saved, unsent, told, observed, lostEvents, baselineLost, usbVars, runs>>

Plug(d) ==
  /\ \E m \in Media \cup {None} :
       /\ m # plugged[d] /\ m # None => \A e \in Devices : plugged[e] # m
       /\ plugged' = [plugged EXCEPT ![d] = m]
  /\ UNCHANGED <<fileVars, known, toldMedium, seenMedium, unnoticed, runs>>

-----------------------------------------------------------------------------
(* FileIntegrityMonitor.                                                    *)

\* check's comparison at p.
Change(p) ==
  IF files[p] = baseline[p] THEN "none"
  ELSE IF files[p] = None THEN "deleted"
  ELSE IF baseline[p] = None THEN "new"
  ELSE "modified"

Changes == {p \in Paths : Change(p) # "none"}

\* A deleted file keeps its entry, and is reported at each check.
Compared == [p \in Paths |-> IF Change(p) \in {"new", "modified"} THEN files[p] ELSE baseline[p]]

\* write_text truncates, then writes: an error is logged only, and leaves the
\* file as it was or torn.
Save(b) ==
  \/ saved' = b /\ UNCHANGED baselineLost
  \/ saved' \in {saved, Empty} /\ baselineLost' = TRUE

\* A change of SaveChanges: only a modification is saved.
SaveModified ==
  IF \E p \in Paths : Change(p) = "modified" THEN Save(Compared)
  ELSE UNCHANGED <<saved, baselineLost>>

SaveChanges ==
  IF Changes # {} THEN Save(Compared) ELSE UNCHANGED <<saved, baselineLost>>

\* Without a baseline one is made and nothing is reported.
InitializeBaseline ==
  /\ baseline = Empty
  /\ baseline' = files /\ Save(files) /\ observed' = files
  /\ told' = IF told = Empty THEN files ELSE told
  /\ UNCHANGED <<files, unsent, lostEvents, usbVars, runs>>

CheckFiles ==
  /\ baseline # Empty
  /\ baseline' = Compared /\ SaveChanges /\ observed' = files
  /\ told' = [p \in Paths |-> IF p \in Changes THEN files[p] ELSE told[p]]
  /\ unsent' = unsent \cup Changes
  /\ UNCHANGED <<files, lostEvents, usbVars, runs>>

\* telemetry_sender.flush, where it succeeds.
FlushEvents ==
  /\ unsent # {} /\ unsent' = {} /\ lostEvents' = lostEvents \ unsent
  /\ UNCHANGED <<files, baseline, saved, told, observed, baselineLost, usbVars, runs>>

-----------------------------------------------------------------------------
(* USBMonitor: devices are told apart by their names.                       *)

Present == {d \in Devices : plugged[d] # None}
Came == Present \ known
Went == known \ Present

CheckUsb ==
  /\ known' = Present /\ seenMedium' = plugged
  /\ toldMedium' = [d \in Devices |-> IF d \in Came \cup Went THEN plugged[d] ELSE toldMedium[d]]
  /\ unnoticed' = (unnoticed \ (Came \cup Went))
                  \cup {d \in Present \cap known : plugged[d] # seenMedium[d]}
  /\ UNCHANGED <<fileVars, plugged, runs>>

-----------------------------------------------------------------------------
(* The agent ends and starts, between two checks or in the middle of one:   *)
(* what it kept in memory is gone.                                          *)

\* __init__ of the two monitors, with the baseline file as it is then.
Starts(file) ==
  /\ runs < MaxRuns /\ runs' = runs + 1
  /\ baseline' = file /\ saved' = file /\ unsent' = {}
  /\ known' = Present /\ seenMedium' = plugged
  /\ unnoticed' = unnoticed \cup {d \in Devices : plugged[d] # seenMedium[d]}
  /\ UNCHANGED <<files, told, observed, plugged, toldMedium>>

Restart ==
  /\ Starts(saved)
  /\ lostEvents' = lostEvents \cup unsent /\ UNCHANGED baselineLost

\* The comparison is done, the file is being written or is new, and the sender
\* has not been given the events.
CheckCut ==
  /\ baseline # Empty /\ Changes # {}
  /\ \E file \in {Empty, Compared} :
       Starts(file) /\ baselineLost' = (baselineLost \/ file = Empty)
  /\ lostEvents' = lostEvents \cup unsent \cup Changes

MonitorsInit ==
  /\ files \in [Paths -> Contents \cup {None}]
  /\ baseline = Empty /\ saved = Empty /\ unsent = {}
  /\ told = Empty /\ observed = Empty /\ lostEvents = {} /\ baselineLost = FALSE
  /\ plugged = [d \in Devices |-> None] /\ known = {}
  /\ toldMedium = plugged /\ seenMedium = plugged /\ unnoticed = {}
  /\ runs = 1

\* The two monitors do not read each other's state.
FilesNext ==
  \/ \E p \in Paths : FileChanges(p)
  \/ InitializeBaseline \/ CheckFiles \/ FlushEvents \/ Restart \/ CheckCut

MediaNext ==
  \/ \E d \in Devices : Plug(d)
  \/ CheckUsb \/ Restart

-----------------------------------------------------------------------------
MonitorsTypeOK ==
  /\ {files, baseline, saved, told, observed} \subseteq [Paths -> Contents \cup {None}]
  /\ unsent \subseteq Paths /\ lostEvents \subseteq Paths /\ baselineLost \in BOOLEAN
  /\ {plugged, toldMedium, seenMedium} \subseteq [Devices -> Media \cup {None}]
  /\ known \subseteq Devices /\ unnoticed \subseteq Devices /\ runs \in 1 .. MaxRuns

\* What the last check found at a path is what the agent last said of it,
\* unless a baseline was lost, the event died with the process, or the file
\* came back as it was: a deletion is repeated at each check, and its end is
\* never told.
ChangesReported ==
  \A p \in Paths : observed[p] # told[p] =>
    \/ told[p] = None /\ observed[p] = baseline[p]
    \/ p \in lostEvents
    \/ baselineLost

\* The medium found at a device is the one last reported there, unless it came
\* or went while no agent ran or was swapped between two checks.
MediaReported ==
  \A d \in Devices : seenMedium[d] # toldMedium[d] => d \in unnoticed
=============================================================================
