------------------------------- MODULE TubeGuide -------------------------------
(***************************************************************************)
(* The guide of Tube TV (internal/api/tater_tv_handlers.go): channels are  *)
(* made of the library's sources, numbered, and planned ahead of the       *)
(* clock.  The guide is extended when it runs short or the library has     *)
(* changed; it is kept in memory and on disk, under a fingerprint of the   *)
(* configuration.  A custom channel plays all its programs in turn, and    *)
(* finds out from the schedule itself where it was.                        *)
(*                                                                         *)
(* Everything under taterTVGuideMu is one step.                            *)
(***************************************************************************)
EXTENDS Integers, Sequences, FiniteSets, SequencesExt

CONSTANTS
    Custom, Movies, Series,  \* titles of sources, by their kind
    SourceOrder,   \* all of them, as the configuration and the themes list them
    Reserved,      \* custom sources with a channel number of their own |-> number
    Libraries,     \* what the index may hold: source |-> programs
    Length(_),     \* duration of a program
    Long,          \* programs that have a break in the middle have at least this
    Break,         \* duration of a break
    Horizon, Threshold, Retry, Tolerance,   \* taterTVGuideHorizon, ...
    Occasions,     \* sets of what happens, to look at
    MaxTime, MaxVersions   \* bounds on the clock and on configurations

AllOccasions == {"library", "restart", "rebuild", "config", "slow", "clock", "home"}

ASSUME GuideAssumption ==
    /\ {Horizon, Threshold, Retry, Tolerance, Break, MaxTime, MaxVersions} \subseteq Nat
    /\ Retry <= Threshold /\ Threshold < Horizon
    /\ Long \in Nat /\ Long >= 2
    /\ Custom \cap (Movies \cup Series) = {} /\ Movies \cap Series = {}
    /\ \A L \in Libraries, s \in Custom \cup Movies \cup Series : \A p \in L[s] :
          p # "break" /\ Length(p) \in Nat \ {0}
    /\ \A S \in Occasions : S \subseteq AllOccasions

VARIABLES
    occasion,
    clock,
    version,       \* fingerprint of the configuration
    index,         \* the library: source |-> programs
    scan,          \* the scanner: "idle", or it has a new index to tell of
    guide,         \* taterTVGuideCache
    disk,          \* the file of taterTVSaveGuideCache
    reset,         \* steps of taterTVResetGuideForConfig to come
    held,          \* a request's configuration, or 0
    due,           \* history: a rebuild was asked for and none was made since
    starved        \* history: the last refresh found nothing to play

guideVars == <<occasion, clock, version, index, scan, guide, disk, reset, held, due, starved>>

Sources == Custom \cup Movies \cup Series
NoTime == -1
NoGuide == [version |-> 0, start |-> NoTime, planned |-> NoTime, updated |-> NoTime, channels |-> {}]

GuideInit ==
    /\ occasion \in Occasions
    /\ clock = 0 /\ version = 1 /\ index \in Libraries /\ scan = "idle"
    /\ guide = NoGuide /\ disk = NoGuide
    /\ reset = <<>> /\ held = 0 /\ due = FALSE /\ starved = FALSE

-----------------------------------------------------------------------------
(* The line-up, of a library.                                              *)

OnAir(lib) == {s \in Sources : lib[s] # {}}
Present(lib) == SelectSeq(SourceOrder, LAMBDA s : s \in OnAir(lib))

(* Custom sources, then films and series in turn, as long as there are     *)
(* both (taterTVInterleaveAutoSources).                                    *)
Interleaved(lib) ==
    LET Of(K) == SelectSeq(Present(lib), LAMBDA s : s \in K)
        films == Of(Movies)
        shows == Of(Series)
        auto == SelectSeq(Present(lib), LAMBDA s : s \notin Custom)
        one == IF auto[1] \in Movies THEN films ELSE shows
        two == IF auto[1] \in Movies THEN shows ELSE films
        mixed[n \in Nat] ==
            IF n > Len(one) /\ n > Len(two) THEN <<>>
            ELSE (IF n <= Len(one) THEN <<one[n]>> ELSE <<>>)
                   \o (IF n <= Len(two) THEN <<two[n]>> ELSE <<>>) \o mixed[n + 1] IN
    IF films = <<>> \/ shows = <<>> THEN Present(lib) ELSE Of(Custom) \o mixed[1]

(* A source keeps its reserved number unless an earlier one has it; the    *)
(* others take the free numbers from 2 on.                                 *)
Keeps(order, s) ==
    /\ s \in DOMAIN Reserved
    /\ \A i, j \in DOMAIN order :
          (order[i] \in DOMAIN Reserved /\ order[j] = s /\ i < j) => Reserved[order[i]] # Reserved[s]

Numbered(lib) ==
    LET order == Interleaved(lib)
        kept == {Reserved[s] : s \in {t \in OnAir(lib) : Keeps(order, t)}}
        others == SelectSeq(order, LAMBDA s : ~Keeps(order, s))
        free == SetToSortSeq(2..(1 + Len(others) + Cardinality(kept)) \ kept, LAMBDA a, b : a < b) IN
    [s \in OnAir(lib) |-> IF Keeps(order, s) THEN Reserved[s]
                          ELSE free[CHOOSE i \in DOMAIN others : others[i] = s]]

-----------------------------------------------------------------------------
(* A channel's schedule: rows of programs, their second halves and breaks. *)

Row(k, o, l) == [program |-> k, offset |-> o, length |-> l]
BreakRow == Row("break", 0, Break)
Breaks == IF Break = 0 THEN <<>> ELSE <<BreakRow>>

(* taterTVAppendProgram and the break behind it.                           *)
ProgramRows(p) ==
    LET half == Length(p) \div 2 IN
    (IF Length(p) < Long \/ Break = 0 THEN <<Row(p, 0, Length(p))>>
     ELSE <<Row(p, 0, half)>> \o Breaks \o <<Row(p, half, Length(p) - half)>>) \o Breaks

Total(rows) == FoldSeq(LAMBDA r, t : r.length + t, 0, rows)

(* A deck: the programs that the cycle in progress has played, and the     *)
(* last one.                                                               *)
NewDeck == [used |-> {}, last |-> "none"]

(* Later parts of a program do not count.                                  *)
Starts(r, pool) == r.program \in pool /\ r.offset = 0

Heard(r, pool, d) ==
    LET used == IF r.program \in d.used THEN {r.program} ELSE d.used \cup {r.program} IN
    IF Starts(r, pool) THEN [used |-> IF used = pool THEN {} ELSE used, last |-> r.program] ELSE d

(* taterTVNewProgramDeck replays the schedule.  Faulty variant: without    *)
(* the history.                                                            *)
Unheard(rows, pool) == NewDeck
Replayed(rows, pool) ==
    LET deck[n \in 0..Len(rows)] == IF n = 0 THEN NewDeck ELSE Heard(rows[n], pool, deck[n - 1]) IN
    deck[Len(rows)]

(* What is left in the cycle; when nothing is, all of the next one.        *)
Left(pool, d) == IF pool \ d.used = {} THEN pool ELSE pool \ d.used
Played(pool, d, p) == [used |-> (pool \ Left(pool, d)) \cup {p}, last |-> p]

(* What may come next; the order is drawn by lot (prepareCycle and next).  *)
(* A custom channel keeps two plays of a program apart, films are shuffled *)
(* again and again, of series, here of one episode each, any may come.     *)
CustomNexts(pool, d) == IF Left(pool, d) = {d.last} THEN {d.last} ELSE Left(pool, d) \ {d.last}
MovieNexts(pool, d) == Left(pool, d)
EpisodeNexts(pool, d) == pool

Nexts(s, d) ==
    CASE s \in Custom -> CustomNexts(index[s], d)
      [] s \in Movies -> MovieNexts(index[s], d)
      [] s \in Series -> EpisodeNexts(index[s], d)

(* The schedules that go on with rows and reach end: program by program,   *)
(* from the deck that the schedule itself tells of.                        *)
Extensions(s, rows, end) ==
    LET first == [rows |-> rows, deck |-> IF s \in Custom THEN Replayed(rows, index[s]) ELSE NewDeck]
        More(d) == IF Total(d.rows) >= end THEN {d}
                   ELSE {[rows |-> d.rows \o ProgramRows(p), deck |-> Played(index[s], d.deck, p)] : p \in Nexts(s, d.deck)}
        drafts[n \in 0..end] == IF n = 0 THEN {first} ELSE UNION {More(d) : d \in drafts[n - 1]} IN
    {d.rows : d \in drafts[end]}

(* taterBuildTVLineupUntil: a channel goes on with its schedule when it is *)
(* found under its number and has the same title.                          *)
Established(c, number) == c.number = number

Lineups(channels, end) ==
    LET number == Numbered(index)
        Before(s) == {c \in channels : c.title = s /\ Established(c, number[s])}
        Made(s) == {[title |-> s, number |-> number[s], rows |-> rows] :
                       rows \in Extensions(s, IF Before(s) = {} THEN <<>> ELSE (CHOOSE c \in Before(s) : TRUE).rows, end)}
        made == [s \in OnAir(index) |-> Made(s)]
        lineups == {f \in [OnAir(index) -> UNION Range(made)] : \A s \in OnAir(index) : f[s] \in made[s]} IN
    {Range(f) : f \in lineups}

-----------------------------------------------------------------------------
(* The guide.                                                              *)

Smallest(S) == CHOOSE x \in S : \A y \in S : x <= y

InFuture(g) == g.start # NoTime /\ g.start > clock + Tolerance

NeedsRefresh(g) ==
    \/ g.start = NoTime
    \/ /\ ~(g.updated # NoTime /\ clock < g.updated + Retry)
       /\ g.channels = {} \/ clock > g.planned - Threshold

(* What is in memory, or on disk, for the configuration v.                 *)
Loaded(v) ==
    IF guide # NoGuide /\ guide.version = v THEN guide
    ELSE IF disk.version = v THEN disk ELSE NoGuide

(* Faulty variant: the guide is planned from its beginning.                *)
EndFromStart(start) == Horizon
End(start) == (IF clock > start THEN clock - start ELSE 0) + Horizon

(* taterTVEnsureGuide.                                                     *)
Ensure(v) ==
    LET found == Loaded(v)
        g == IF InFuture(found) THEN NoGuide ELSE found
        usable == g.start # NoTime /\ g.channels # {}
        start == IF usable THEN g.start ELSE clock IN
    IF ~NeedsRefresh(g)
    THEN /\ guide' = g
         /\ UNCHANGED <<disk, due, starved>>
    ELSE \E channels \in Lineups(IF usable THEN g.channels ELSE {}, End(start)) :
         LET made == IF channels = {} /\ usable
                     THEN [g EXCEPT !.updated = clock]
                     ELSE [version |-> v, start |-> start, updated |-> clock, channels |-> channels,
                           planned |-> IF channels = {} THEN start
                                       ELSE start + Smallest({Total(c.rows) : c \in channels})] IN
         /\ guide' = made /\ disk' = made
         /\ due' = (due /\ usable)
         /\ starved' = (channels = {})

(* The planner, a request; a request with a configuration that it has had  *)
(* for a while.                                                            *)
EnsureGuide ==
    /\ Ensure(version)
    /\ UNCHANGED <<occasion, clock, version, index, scan, reset, held>>

HoldConfig ==
    /\ "slow" \in occasion /\ held = 0
    /\ held' = version
    /\ UNCHANGED <<occasion, clock, version, index, scan, guide, disk, reset, due, starved>>

EnsureHeld ==
    /\ held # 0
    /\ Ensure(held)
    /\ held' = 0
    /\ UNCHANGED <<occasion, clock, version, index, scan, reset>>

(* taterTVCachedGuide, for the home page.                                  *)
CachedGuide ==
    /\ "home" \in occasion
    /\ guide = NoGuide \/ guide.version = version
    /\ LET g == Loaded(version) IN
       /\ guide' = IF InFuture(g) THEN NoGuide ELSE g
       /\ disk' = IF InFuture(g) THEN NoGuide ELSE disk
    /\ UNCHANGED <<occasion, clock, version, index, scan, reset, held, due, starved>>

(* A scan has changed the index; then it tells the guide.                  *)
IndexChanges ==
    /\ "library" \in occasion /\ scan = "idle"
    /\ index' \in Libraries \ {index}
    /\ scan' = "scanned"
    /\ UNCHANGED <<occasion, clock, version, guide, disk, reset, held, due, starved>>

(* taterTVMarkGuideForLibraryRefresh.  Faulty variant: the guide begins    *)
(* again.                                                                  *)
MarkedAnew(g) == NoGuide
Marked(g) == [version |-> g.version, start |-> g.start, planned |-> clock, updated |-> NoTime, channels |-> g.channels]

MarkForRefresh ==
    /\ scan = "scanned"
    /\ LET g == IF guide = NoGuide THEN Loaded(version) ELSE guide IN
       IF g.version # version \/ g.channels = {}
       THEN guide' = g /\ UNCHANGED disk
       ELSE guide' = Marked(g) /\ disk' = Marked(g)
    /\ scan' = "marked"
    /\ UNCHANGED <<occasion, clock, version, index, reset, held, due, starved>>

RefreshAfterScan ==
    /\ scan = "marked"
    /\ Ensure(version)
    /\ scan' = "idle"
    /\ UNCHANGED <<occasion, clock, version, index, reset, held>>

(* taterTVResetGuideForConfig: the memory under the lock, then the file;   *)
(* once for a rebuild, twice when the configuration changes.               *)
ResetSteps == <<"memory", "disk">>

AskRebuild ==
    /\ "rebuild" \in occasion /\ reset = <<>>
    /\ reset' = ResetSteps /\ due' = TRUE
    /\ UNCHANGED <<occasion, clock, version, index, scan, guide, disk, held, starved>>

ConfigChanges ==
    /\ "config" \in occasion /\ reset = <<>> /\ version < MaxVersions
    /\ version' = version + 1
    /\ reset' = ResetSteps \o ResetSteps
    /\ UNCHANGED <<occasion, clock, index, scan, guide, disk, held, due, starved>>

ResetGuide ==
    /\ reset # <<>> /\ Head(reset) = "memory"
    /\ guide' = NoGuide /\ reset' = Tail(reset)
    /\ UNCHANGED <<occasion, clock, version, index, scan, disk, held, due, starved>>

DeleteFile ==
    /\ reset # <<>> /\ Head(reset) = "disk"
    /\ disk' = NoGuide /\ reset' = Tail(reset)
    /\ UNCHANGED <<occasion, clock, version, index, scan, guide, held, due, starved>>

GuideRestart ==
    /\ "restart" \in occasion
    /\ guide' = NoGuide /\ scan' = "idle" /\ reset' = <<>> /\ held' = 0 /\ due' = FALSE
    /\ UNCHANGED <<occasion, clock, version, index, disk, starved>>

Tick ==
    /\ clock < MaxTime
    /\ clock' = clock + 1
    /\ UNCHANGED <<occasion, version, index, scan, guide, disk, reset, held, due, starved>>

(* The server's clock is corrected.                                        *)
ClockIsCorrected ==
    /\ "clock" \in occasion
    /\ clock' \in 0..MaxTime
    /\ UNCHANGED <<occasion, version, index, scan, guide, disk, reset, held, due, starved>>

GuideNext ==
    \/ EnsureGuide \/ HoldConfig \/ EnsureHeld \/ CachedGuide
    \/ IndexChanges \/ MarkForRefresh \/ RefreshAfterScan
    \/ AskRebuild \/ ConfigChanges \/ ResetGuide \/ DeleteFile
    \/ GuideRestart \/ Tick \/ ClockIsCorrected

GuideSpec == GuideInit /\ [][GuideNext]_guideVars

-----------------------------------------------------------------------------
(* Properties.                                                             *)

(* Every variable has a value of its type.  A planned guide has channels   *)
(* with numbers of their own, and no file is ahead of the memory for the   *)
(* same configuration.                                                     *)
GuideTypeOK ==
    /\ occasion \in Occasions /\ clock \in 0..MaxTime /\ version \in 1..MaxVersions
    /\ index \in Libraries /\ scan \in {"idle", "scanned", "marked"}
    /\ held \in 0..MaxVersions /\ Len(reset) <= 2 * Len(ResetSteps)
    /\ \A g \in {guide, disk} :
          /\ g.version \in 0..MaxVersions
          /\ Cardinality({c.number : c \in g.channels}) = Cardinality(g.channels)
          /\ \A c \in g.channels : c.title \in Sources /\ c.number \in 1..99 /\ c.rows # <<>>

GuideInUse == Loaded(version)

(* "A local-library scan must not randomize the live channel underneath    *)
(* viewers": while the configuration stays and nobody asks for another     *)
(* guide, a channel whose source is there keeps every scheduled item; a    *)
(* restart, a refresh or an extension adds behind them.                    *)
EstablishedLineupStays ==
    [][(/\ version' = version /\ held \in {0, version} /\ reset = <<>> /\ reset' = <<>> /\ ~InFuture(GuideInUse))
       => \A c \in GuideInUse.channels :
             index[c.title] # {} => \E d \in GuideInUse'.channels : /\ d.title = c.title
                                                                /\ GuideInUse'.start = GuideInUse.start
                                                                /\ IsPrefix(c.rows, d.rows)]_guideVars

(* What these two promise depends on: a source has the same number in each *)
(* library that has it, and the server does not restart while the guide is *)
(* being reset; of two libraries one has all the programs of a custom      *)
(* channel that the other has.                                             *)
LineupIsSteady ==
    \A L, M \in Libraries : \A s \in OnAir(L) \cap OnAir(M) : Numbered(L)[s] = Numbered(M)[s]
RestartsAlone == \A S \in Occasions : "restart" \in S => S \cap {"rebuild", "config"} = {}
Nested(s) == \A L, M \in Libraries : L[s] \subseteq M[s] \/ M[s] \subseteq L[s]

Always(s) == {p \in index[s] : \A L \in Libraries : p \in L[s]}
Plays(rows, i, p) == rows[i].program = p /\ rows[i].offset = 0

(* When q, planned at i and at j, comes for the third time, all the others  *)
(* that were never missing have come since i; and if there are two of      *)
(* these, something else came between i and j.                             *)
OthersBetween(rows, s, i, j, q) ==
    (i < j /\ q # "break" /\ Plays(rows, i, q) /\ Plays(rows, j, q)) =>
        /\ \A k \in DOMAIN rows, p \in Always(s) \ {q} :
              (j < k /\ Plays(rows, k, q) /\ q \in Always(s)) => \E m \in i..k : Plays(rows, m, p)
        /\ (\E p, r \in Always(s) : p # r) => \E m \in i..j : rows[m].program \notin {"break", q}

(* A custom channel plays its programs in turn, while the library gains    *)
(* and loses some between, though not one for another (Nested): none comes *)
(* for the third time before all the others that were never missing have   *)
(* come, and none twice in a row.                                          *)
ProgramsTakeTurns ==
    \A c \in {d \in GuideInUse.channels : d.title \in Custom} : \A i, j \in DOMAIN c.rows :
        OthersBetween(c.rows, c.title, i, j, c.rows[i].program)

(* A guide that a request is given reaches beyond the present time on      *)
(* every channel, so that nothing is played from the beginning again;      *)
(* unless the last refresh found nothing to play.                          *)
ServedGuideReachesNow ==
    [][(\E c \in guide'.channels : guide'.start + Total(c.rows) <= clock)
       => starved' \/ \A v \in {version, held} \ {0} : ~Ensure(v)]_guideVars

(* A rebuild that was asked for makes another guide.                       *)
RebuildTakesEffect == (reset = <<>> /\ GuideInUse # NoGuide) => ~due
===============================================================================
