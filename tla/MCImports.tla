------------------------------ MODULE MCImports ------------------------------
(* Small instances of ImportQueue, ReacquireLoop and ImportProcessing for    *)
(* TLC: the queue of imports, what follows an import that fails, and what an *)
(* import does with its NZB and its files.  They share no state, and a       *)
(* behaviour is one of the module that focus names.                          *)
EXTENDS ImportQueue, ReacquireLoop, ImportProcessing, TLC

CONSTANTS n1, n2, h1, h2, f1, f2, p1, p2   \* NZBs, hands, folders and parts

VARIABLE focus

(* The import of two releases.                                               *)
Imports(kind1, kind2, folder2, hands, obfuscated, events) ==
    [kind |-> n1 :> kind1 @@ n2 :> kind2, folder |-> n1 :> f1 @@ n2 :> folder2,
     hands |-> hands, obfuscated |-> obfuscated, events |-> events]

(* Files of two releases that meet in one folder, an archive in the folder   *)
(* of an earlier release, of another archive and of a second hand, two hands *)
(* at files of one folder, failures and crashes of archives, two hands with  *)
(* folders of their own, and a stop of the server.                           *)
SoundCases ==
    { Imports("single", "single", f1, {h1}, FALSE, {"retry", "failures", "corrupt", "cancel"}),
      Imports("multi", "multi", f1, {h1}, TRUE, {"failures", "cancel"}),
      Imports("archive", "archive", f2, {h1}, FALSE, {"crash", "failures"}),
      Imports("single", "archive", f2, {h1, h2}, FALSE, {"retry", "hasty", "failures"}),
      Imports("single", "archive", f2, {h1, h2}, FALSE, {"cancel"}),
      Imports("archive", "single", f2, {h1}, FALSE, {"stop", "relink", "cancel"}),
      Imports("multi", "archive", f1, {h1}, FALSE, {"failures", "cancel"}),
      Imports("archive", "archive", f1, {h1}, FALSE, {"failures", "retry"}),
      Imports("single", "archive", f1, {h1, h2}, FALSE, {"failures"}),
      Imports("multi", "single", f1, {h1, h2}, FALSE, {"failures"}) }

StoppedCases == { Imports("single", "archive", f2, {h1}, FALSE, {"stop"}) }

ImportsInit ==
    /\ focus \in {"queue", "loop", "process"}
    /\ Init /\ ReacquireInit /\ ProcessingInit
    /\ focus # "queue" => status = [i \in Items |-> "absent"]
                            /\ live = CHOOSE W \in SUBSET Workers : Cardinality(W) = PoolSize
    /\ focus # "loop" => dead = {}
    /\ focus # "process" => /\ setting = CHOOSE c \in Cases : TRUE
                            /\ damaged = [n \in Nzbs |-> {}]

(* Every import is over, and nobody asks for another one.                    *)
AllProcessed ==
    /\ server = "up" /\ \A n \in Nzbs : row[n] \in {"completed", "failed"} /\ ~ Attended(n)
    /\ UNCHANGED processingVars

ImportsNext ==
    /\ UNCHANGED focus
    /\ \/ focus = "queue" /\ Next /\ UNCHANGED <<reacquireVars, processingVars>>
       \/ focus = "loop" /\ ReacquireNext /\ UNCHANGED <<vars, processingVars>>
       \/ focus = "process" /\ (ProcessingNext \/ AllProcessed) /\ UNCHANGED <<vars, reacquireVars>>

(* What the modules state of fairness, where the focus is on them.           *)
ImportsFairness ==
    /\ \A b \in Backgrounds : WF_vars(focus = "queue" /\ BackgroundStep(b))
    /\ \A r \in Runners : WF_vars(focus = "queue" /\ RunStep(r))
    /\ WF_vars(focus = "queue" /\ phase = "stopping" /\ Exit)
    /\ WF_vars(focus = "queue" /\ Start)
    /\ WF_reacquireVars(focus = "loop" /\ ImporterStep)
    /\ WF_reacquireVars(focus = "loop" /\ PassStep)

ImportsSpec ==
    ImportsInit /\ [][ImportsNext]_<<focus, vars, reacquireVars, processingVars>> /\ ImportsFairness
==============================================================================
