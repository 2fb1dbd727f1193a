------------------------------ MODULE LibraryScan ------------------------------
(***************************************************************************)
(* How the index of the local library follows the files (internal/api:     *)
(* tater_local_library_auto_scan.go, tater_local_library_monitor.go and    *)
(* tater_local_library_index.go).  A monitor collects the categories that  *)
(* file system events name and wakes the scanner; the scanner also looks   *)
(* by itself, when the index is old or the configuration has changed.      *)
(* Administrators and the planner of Tube TV scan too, one scan at a time; *)
(* a request for artwork reads the index and writes it back.               *)
(*                                                                         *)
(* What is in a category is a number that grows when its files change; a   *)
(* category that cannot be read is 0 in the index.                         *)
(***************************************************************************)
EXTENDS Integers

CONSTANTS
    Categories,
    Settings,      \* configurations: enabled categories, auto, realtime
    Scenes,        \* sets of what happens, to look at
    MaxChanges, MaxSettings, MaxFailures   \* bounds

AllScenes == {"settings", "others", "failure", "unavailable", "artwork", "restart"}

ASSUME ScanAssumption ==
    /\ {MaxChanges, MaxSettings, MaxFailures} \subseteq Nat
    /\ \A g \in Settings : g.enabled \subseteq Categories /\ {g.auto, g.realtime} \subseteq BOOLEAN
    /\ \A S \in Scenes : S \subseteq AllScenes

VARIABLES
    scene,
    files,         \* what is on disk, by category
    setting,       \* the configuration
    settings,      \* how often it has changed
    library,       \* the index: the categories it is of, what it has of each, old
    scanner,       \* runLocalLibraryScanner and its scan
    other,         \* a scan by an administrator or the planner
    watcher,       \* runLocalLibraryMonitor: watched, events to come, pending, retry
    realtime,      \* localLibraryRealtimeCategories
    wakes,         \* the wake-up channels with something in them
    artwork,       \* the index as a request for artwork has read it
    failures,
    noticed        \* history: what the monitor has last been told of each category

scanVars == <<scene, files, setting, settings, library, scanner, other, watcher, realtime, wakes, artwork,
              failures, noticed>>

Empty == [c \in Categories |-> 0]
NoLibrary == [of |-> {}, seen |-> Empty, old |-> TRUE, missing |-> TRUE]
NoScan == [at |-> "waits", of |-> {}, chosen |-> {}, seen |-> Empty]

Watch == IF setting.realtime THEN setting.enabled ELSE {}

ScanInit ==
    /\ scene \in Scenes /\ setting \in Settings /\ settings = 0
    /\ files = [c \in Categories |-> 1] /\ library = NoLibrary
    /\ scanner = [scan |-> NoScan, initial |-> TRUE, pending |-> FALSE]
    /\ other = NoScan
    /\ watcher = [on |-> Watch, events |-> {}, pending |-> {}, retry |-> FALSE]
    /\ realtime = {} /\ wakes = {} /\ artwork = NoLibrary
    /\ failures = 0 /\ noticed = Empty

-----------------------------------------------------------------------------
(* Files, events and the monitor.                                          *)

FilesChange(c) ==
    /\ files[c] <= MaxChanges
    /\ files' = [files EXCEPT ![c] = @ + 1]
    /\ watcher' = [watcher EXCEPT !.events = @ \cup ({c} \cap watcher.on)]
    /\ UNCHANGED <<scene, setting, settings, library, scanner, other, realtime, wakes, artwork, failures, noticed>>

NoticeEvent(c) ==
    /\ c \in watcher.events
    /\ watcher' = [watcher EXCEPT !.events = @ \ {c}, !.pending = @ \cup {c}]
    /\ noticed' = [noticed EXCEPT ![c] = files[c]]
    /\ UNCHANGED <<scene, files, setting, settings, library, scanner, other, realtime, wakes, artwork, failures>>

(* Five seconds after the last event.                                      *)
QueueChanges ==
    /\ watcher.pending # {}
    /\ realtime' = realtime \cup watcher.pending
    /\ watcher' = [watcher EXCEPT !.pending = {}]
    /\ wakes' = wakes \cup {"realtime"}
    /\ UNCHANGED <<scene, files, setting, settings, library, scanner, other, artwork, failures, noticed>>

(* The watcher is made anew; not every folder may be there.  What the old  *)
(* one has not delivered is lost.                                          *)
Rebuild(pending) ==
    \E on \in IF "unavailable" \in scene THEN SUBSET Watch ELSE {Watch} :
        watcher' = [on |-> on, events |-> {}, pending |-> pending, retry |-> on # Watch]

MonitorWakes ==
    /\ "monitor" \in wakes
    /\ Rebuild({})
    /\ wakes' = wakes \ {"monitor"}
    /\ UNCHANGED <<scene, files, setting, settings, library, scanner, other, realtime, artwork, failures, noticed>>

MonitorRetries ==
    /\ watcher.retry
    /\ Rebuild(watcher.pending)
    /\ UNCHANGED <<scene, files, setting, settings, library, scanner, other, realtime, wakes, artwork, failures,
                   noticed>>

(* A folder goes away: its events end, and the watcher tries again.        *)
FolderGoes(c) ==
    /\ "unavailable" \in scene /\ failures < MaxFailures /\ c \in watcher.on
    /\ failures' = failures + 1
    /\ watcher' = [watcher EXCEPT !.on = @ \ {c}, !.pending = @ \cup {c}, !.retry = TRUE]
    /\ UNCHANGED <<scene, files, setting, settings, library, scanner, other, realtime, wakes, artwork, noticed>>

SettingChanges ==
    /\ "settings" \in scene /\ settings < MaxSettings
    /\ setting' \in Settings \ {setting}
    /\ settings' = settings + 1
    /\ wakes' = wakes \cup {"scan", "monitor"}
    /\ UNCHANGED <<scene, files, library, scanner, other, watcher, realtime, artwork, failures, noticed>>

-----------------------------------------------------------------------------
(* The scanner decides.                                                    *)

(* Faulty variant: an index never gets old.                                *)
CurrentForGood == ~library.missing /\ library.of = setting.enabled
(* The index is of this configuration, complete and not yet old.           *)
Current == ~library.missing /\ library.of = setting.enabled /\ ~library.old

(* One turn of its loop, with changes pending or not; check: it has been   *)
(* woken for the configuration, or this is its first look.                 *)
Decide(pending, check, initial) ==
    LET now == pending /\ setting.realtime
        looks == now \/ setting.auto \/ (check /\ setting.realtime) IN
    /\ scanner' = [scan |-> [NoScan EXCEPT !.at = IF looks /\ (now \/ ~Current) THEN "begins" ELSE "waits",
                                           !.of = IF looks /\ (now \/ ~Current) THEN setting.enabled ELSE {}],
                   initial |-> initial, pending |-> now]
    /\ realtime' = IF pending /\ ~now THEN {} ELSE realtime
    /\ UNCHANGED <<scene, files, setting, settings, library, other, watcher, artwork, failures, noticed>>

Waits == scanner.scan.at = "waits"

TimerFires == Waits /\ Decide(scanner.pending, scanner.initial, FALSE) /\ UNCHANGED wakes
WakesForSetting ==
    Waits /\ "scan" \in wakes /\ Decide(scanner.pending, TRUE, scanner.initial) /\ wakes' = wakes \ {"scan"}
WakesForChanges ==
    Waits /\ "realtime" \in wakes /\ Decide(TRUE, FALSE, scanner.initial) /\ wakes' = wakes \ {"realtime"}

-----------------------------------------------------------------------------
(* A scan.                                                                 *)

Running == \E s \in {scanner.scan, other} : s.at \in {"walks", "writes"}

(* beginTaterLocalLibraryScan fails while one runs: the scanner waits, and *)
(* what is pending stays so.  Otherwise a scan for changes takes their     *)
(* categories.                                                             *)
ScannerBegins ==
    /\ scanner.scan.at = "begins"
    /\ IF Running
       THEN scanner' = [scanner EXCEPT !.scan = NoScan] /\ UNCHANGED realtime
       ELSE /\ scanner' = [scanner EXCEPT !.scan.at = "walks", !.scan.chosen = IF scanner.pending THEN realtime ELSE {}]
            /\ realtime' = IF scanner.pending THEN {} ELSE realtime
    /\ UNCHANGED <<scene, files, setting, settings, library, other, watcher, wakes, artwork, failures, noticed>>

OtherBegins ==
    /\ "others" \in scene /\ other = NoScan /\ ~Running
    /\ other' = [NoScan EXCEPT !.at = "walks", !.of = setting.enabled]
    /\ UNCHANGED <<scene, files, setting, settings, library, scanner, watcher, realtime, wakes, artwork, failures,
                   noticed>>

(* Categories that are not chosen stay as they were; no choice is all.     *)
(* Folders in gone cannot be read.                                         *)
Walked(run, gone) ==
    [c \in Categories |-> CASE c \notin run.of -> 0
                            [] c \in run.of /\ run.chosen # {} /\ c \notin run.chosen -> library.seen[c]
                            [] OTHER -> IF c \in gone THEN 0 ELSE files[c]]

Gone == IF "unavailable" \in scene /\ failures < MaxFailures THEN {{}} \cup {{c} : c \in Categories} ELSE {{}}

ScannerWalks(gone) ==
    /\ scanner.scan.at = "walks" /\ gone \in Gone
    /\ scanner' = [scanner EXCEPT !.scan.at = "writes", !.scan.seen = Walked(scanner.scan, gone)]
    /\ failures' = IF gone = {} THEN failures ELSE failures + 1
    /\ UNCHANGED <<scene, files, setting, settings, library, other, watcher, realtime, wakes, artwork, noticed>>

OtherWalks(gone) ==
    /\ other.at = "walks" /\ gone \in Gone
    /\ other' = [other EXCEPT !.at = "writes", !.seen = Walked(other, gone)]
    /\ failures' = IF gone = {} THEN failures ELSE failures + 1
    /\ UNCHANGED <<scene, files, setting, settings, library, scanner, watcher, realtime, wakes, artwork, noticed>>

Written(run) == [of |-> run.of, seen |-> run.seen, old |-> FALSE, missing |-> FALSE]

ScannerWrites ==
    /\ scanner.scan.at = "writes"
    /\ library' = Written(scanner.scan)
    /\ scanner' = [scanner EXCEPT !.scan = NoScan, !.pending = FALSE]
    /\ UNCHANGED <<scene, files, setting, settings, other, watcher, realtime, wakes, artwork, failures, noticed>>

(* Faulty variant: what a scan for changes had taken is lost.              *)
ScannerFailsForGood ==
    /\ "failure" \in scene /\ failures < MaxFailures /\ scanner.scan.at = "writes"
    /\ failures' = failures + 1
    /\ scanner' = [scanner EXCEPT !.scan = NoScan]
    /\ UNCHANGED <<scene, files, setting, settings, library, other, watcher, realtime, wakes, artwork, noticed>>

(* What a scan for changes had taken is put back, and is still pending.    *)
ScannerFails ==
    /\ "failure" \in scene /\ failures < MaxFailures /\ scanner.scan.at = "writes"
    /\ failures' = failures + 1
    /\ realtime' = realtime \cup scanner.scan.chosen
    /\ scanner' = [scanner EXCEPT !.scan = NoScan]
    /\ UNCHANGED <<scene, files, setting, settings, library, other, watcher, wakes, artwork, noticed>>

OtherWrites ==
    /\ other.at = "writes"
    /\ library' = Written(other) /\ other' = NoScan
    /\ UNCHANGED <<scene, files, setting, settings, scanner, watcher, realtime, wakes, artwork, failures, noticed>>

IndexAges ==
    /\ ~library.old
    /\ library' = [library EXCEPT !.old = TRUE]
    /\ artwork' = [artwork EXCEPT !.old = TRUE]
    /\ UNCHANGED <<scene, files, setting, settings, scanner, other, watcher, realtime, wakes, failures, noticed>>

(* Artwork is looked for between the two, on the network.                  *)
ArtworkReads ==
    /\ "artwork" \in scene /\ artwork.missing /\ ~library.missing
    /\ artwork' = library
    /\ UNCHANGED <<scene, files, setting, settings, library, scanner, other, watcher, realtime, wakes, failures,
                   noticed>>

ArtworkWrites ==
    /\ ~artwork.missing
    /\ library' = artwork /\ artwork' = NoLibrary
    /\ UNCHANGED <<scene, files, setting, settings, scanner, other, watcher, realtime, wakes, failures, noticed>>

(* The server ends and starts: the index stays.                            *)
Restart ==
    /\ "restart" \in scene /\ failures < MaxFailures
    /\ failures' = failures + 1
    /\ scanner' = [scan |-> NoScan, initial |-> TRUE, pending |-> FALSE]
    /\ other' = NoScan /\ realtime' = {} /\ wakes' = {} /\ artwork' = NoLibrary /\ noticed' = Empty
    /\ watcher' = [on |-> Watch, events |-> {}, pending |-> {}, retry |-> FALSE]
    /\ UNCHANGED <<scene, files, setting, settings, library>>

-----------------------------------------------------------------------------
MonitorNext == QueueChanges \/ MonitorWakes \/ MonitorRetries \/ \E c \in Categories : NoticeEvent(c)
ScannerStarts == TimerFires \/ WakesForSetting \/ WakesForChanges
ScannerGoesOn == ScannerBegins \/ ScannerWrites \/ \E gone \in SUBSET Categories : ScannerWalks(gone)
OtherGoesOn == OtherWrites \/ \E gone \in SUBSET Categories : OtherWalks(gone)

ScanNext ==
    \/ \E c \in Categories : FilesChange(c) \/ FolderGoes(c)
    \/ MonitorNext \/ ScannerStarts \/ ScannerGoesOn \/ OtherGoesOn
    \/ ScannerFails \/ OtherBegins \/ SettingChanges \/ IndexAges
    \/ ArtworkReads \/ ArtworkWrites \/ Restart

ScanSpec == ScanInit /\ [][ScanNext]_scanVars

-----------------------------------------------------------------------------
(* Every variable has a value of its type.                                 *)
IndexType == [of : SUBSET Categories, seen : [Categories -> Nat], old : BOOLEAN, missing : BOOLEAN]
ScanType == [at : {"waits", "begins", "walks", "writes"}, of : SUBSET Categories, chosen : SUBSET Categories,
             seen : [Categories -> Nat]]
ScanTypeOK ==
    /\ files \in [Categories -> Nat] /\ noticed \in [Categories -> Nat] /\ setting \in Settings
    /\ library \in IndexType /\ artwork \in IndexType /\ scene \subseteq AllScenes
    /\ scanner \in [scan : ScanType, initial : BOOLEAN, pending : BOOLEAN] /\ other \in ScanType
    /\ watcher \in [on : SUBSET Categories, events : SUBSET Categories, pending : SUBSET Categories,
                    retry : BOOLEAN]
    /\ realtime \subseteq Categories
    /\ wakes \subseteq {"scan", "monitor", "realtime"} /\ settings \in Nat /\ failures \in Nat

(* A change the monitor has been told of is in the index or on its way     *)
(* there: it waits for the debounce, or with a wake-up or a scanner that   *)
(* has it pending, or the scan that has taken its category has not walked  *)
(* yet or has found it (queueTaterLocalLibraryRealtimeScan, take, restore, *)
(* and runLocalLibraryScanner).  Changes of the configuration drop it, and *)
(* requests for artwork put an older index back; folders that are gone     *)
(* have nothing to find.                                                   *)
NoticedChangesAreDue ==
    scene \cap {"settings", "artwork", "unavailable"} = {} =>
        \A c \in setting.enabled : noticed[c] > library.seen[c] =>
            \/ c \in watcher.pending
            \/ c \in realtime /\ ("realtime" \in wakes \/ scanner.pending)
            \/ /\ c \in scanner.scan.chosen \/ scanner.scan.chosen = {}
               /\ scanner.scan.at = "walks" \/ (scanner.scan.at = "writes" /\ scanner.scan.seen[c] >= noticed[c])

(* With scheduled scans on, the index comes to have what is on disk, for   *)
(* every enabled category, whatever changes of configuration, failures,    *)
(* other scans, requests for artwork and restarts there were               *)
(* (runLocalLibraryScanner: "scheduled scans cover missed changes").       *)
InStep == \A c \in setting.enabled : library.seen[c] = files[c]
ChangesAreScanned == (setting.auto /\ ~InStep) ~> (InStep \/ ~setting.auto)

(* An index that bears the fingerprint of the configuration has every      *)
(* enabled category as some scan has found it (what                        *)
(* taterLocalLibraryIndexNeedsMaintenance takes it for).                   *)
FingerprintCovers ==
    scene \cap {"unavailable"} = {} /\ ~library.missing => \A c \in library.of : library.seen[c] > 0
===============================================================================
