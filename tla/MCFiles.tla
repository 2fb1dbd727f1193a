-------------------------------- MODULE MCFiles --------------------------------
(* Small instances of FileCursor, ReaderHandover, LibraryScan and            *)
(* AdaptiveSemaphore for TLC: files that are read, files that are watched,   *)
(* and the connections that imports may use.  They share no state, and a     *)
(* behaviour is one of the module that focus names.                          *)
EXTENDS FileCursor, ReaderHandover, LibraryScan, AdaptiveSemaphore

CONSTANTS x, y

Whole == Client("stream", <<>>, 0, FileSize - 1, FileSize)
From(s) == Client("stream", <<s, -1>>, s, FileSize - 1, FileSize)
Within(s, e) == Client("stream", <<s, e>>, s, e, FileSize)
Handle == Client("handle", <<>>, 0, FileSize - 1, FileSize)

(* The last segment holds a byte less than the NZB declares, and the request *)
(* names the last byte.                                                      *)
ShortButNamed == Client("stream", <<2, FileSize - 1>>, 2, FileSize - 1, FileSize - 1)

PlainClients ==
    {Whole, From(0), From(2), Within(0, 0), Within(0, 2), Within(2, 3), Handle, ShortButNamed}

(* The theorem about the bytes that clients get covers these clients.        *)
ASSUME PlainClientsAreServed == \A c \in PlainClients : Honoured(c)

(* bytes=0-FileSize, which ServeContent cuts to the file.                    *)
PastTheEnd == {Client("stream", <<0, FileSize>>, 0, FileSize - 1, FileSize)}

(* A caller that uses both Read and ReadAt.                                  *)
MixedUse == {Client("mixed", <<>>, 0, FileSize - 1, FileSize)}

(* A range that an If-Range condition turns into the whole file.             *)
RangeNotHonoured == {Client("stream", <<2, 3>>, 0, FileSize - 1, FileSize)}

(* As short a segment, and a request without a range.                        *)
ShortSegment == {Client("stream", <<>>, 0, FileSize - 1, FileSize - 1)}

SettingOf(enabled, auto, instant) == [enabled |-> enabled, auto |-> auto, realtime |-> instant]
SmallSettings ==
    {SettingOf({x, y}, TRUE, TRUE), SettingOf({x, y}, TRUE, FALSE), SettingOf({x}, TRUE, TRUE), SettingOf({x}, FALSE, TRUE)}
SmallScenes == {{"settings"}, {"others", "failure"}, {"unavailable"}, {"artwork"}, {"restart"}}

VARIABLE focus

Init ==
    /\ focus \in {"cursor", "handover", "scan", "budget"}
    /\ CursorInit /\ HandoverInit /\ ScanInit /\ SemaphoreInit
    /\ focus # "handover" => wrapped = FALSE
    /\ focus # "cursor" => client = CHOOSE c \in Clients : TRUE
    /\ focus # "scan" => scene = {"artwork"} /\ setting = CHOOSE g \in Settings : TRUE

Next ==
    /\ UNCHANGED focus
    /\ \/ focus = "cursor" /\ CursorNext /\ UNCHANGED <<handoverVars, scanVars, semaphoreVars>>
       \/ focus = "handover" /\ HandoverNext /\ UNCHANGED <<cursorVars, scanVars, semaphoreVars>>
       \/ focus = "scan" /\ ScanNext /\ UNCHANGED <<cursorVars, handoverVars, semaphoreVars>>
       \/ focus = "budget" /\ SemaphoreNext /\ UNCHANGED <<cursorVars, handoverVars, scanVars>>

vars == <<focus, cursorVars, handoverVars, scanVars, semaphoreVars>>

(* A call of the file is finitely many reads of its reader.  The scanner's   *)
(* timer fires, time passes, and a scan that has begun goes on.              *)
Fairness ==
    /\ WF_cursorVars(CallStep) /\ HandoverFairness
    /\ WF_scanVars(focus = "scan" /\ TimerFires) /\ WF_scanVars(focus = "scan" /\ IndexAges)
    /\ WF_scanVars(focus = "scan" /\ ScannerGoesOn) /\ WF_scanVars(focus = "scan" /\ OtherGoesOn)
    /\ SemaphoreFairness

Spec == Init /\ [][Next]_vars
FairSpec == Spec /\ Fairness

(* Every variable of the modules has a value of its type.                    *)
FilesTypeOK == CursorTypeOK /\ HandoverTypeOK /\ ScanTypeOK /\ SemaphoreTypeOK
===============================================================================
