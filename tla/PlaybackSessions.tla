--------------------------- MODULE PlaybackSessions ---------------------------
(***************************************************************************)
(* The HLS sessions of players and who owns them (internal/api:            *)
(* tater_tv_hls.go, tater_local_hls.go, tater_stream_hls.go,               *)
(* tater_bumper_hls.go, tater_playback_ownership.go and                    *)
(* tater_tv_hls_cleanup.go).  A Tube TV channel has one encoder that all   *)
(* players on the channel share; a title that is converted has an encoder  *)
(* per player.  A player that asks for something else gives up what it     *)
(* had; what nobody asks for any more goes after a time.                   *)
(*                                                                         *)
(* Requests are goroutines; a section under a manager's lock, with the     *)
(* stops that follow it, is one step.                                      *)
(***************************************************************************)
EXTENDS Integers, FiniteSets

CONSTANTS
    Players, Channels,
    Titles,        \* what a player may have converted
    MaxRequests,   \* bound on the requests that are handled at a time
    Happenings,    \* sets of what happens, to look at
    MaxEncoders    \* bound on the encoders that are started

(* overlap: requests of one player at the same time; idle: players that   *)
(* stop asking; later: a title is asked for again after two minutes.       *)
AllHappenings == {"channels", "titles", "stop", "overlap", "idle", "later", "kill", "failure", "reset",
                  "maintenance"}

ASSUME SessionsAssumption ==
    /\ MaxRequests \in Nat /\ MaxEncoders \in Nat
    /\ \A S \in Happenings : S \subseteq AllHappenings
    /\ Channels \cap Titles = {}
    /\ {"none", "stop"} \cap (Channels \cup Titles) = {} /\ "none" \notin Players

VARIABLES
    happening,     \* what happens
    tv,            \* globalTaterTVHLS.sessions: channel |-> encoder, or 0
    channelOf,     \* playerSessions: player |-> channel, or NoChannel
    local,         \* globalTaterLocalHLS.sessions: player, title |-> encoder, or 0
    superseded,    \* players and titles whose generation is over
    encoder,       \* the sessions, numbered by their starts
    request        \* what each goroutine does

sessionVars == <<happening, tv, channelOf, local, superseded, encoder, request>>

NoChannel == "none"
Encoders == 1..MaxEncoders
Requests == 1..MaxRequests
Owned == Players \X Titles

(* at: unborn, made (in the map), running, done or failed; old: nothing    *)
(* was written to its directory for an hour; tracked: the stream tracker   *)
(* lists it; stopped: stop or stopAndCleanup was called.                   *)
NoEncoder == [of |-> "none", player |-> "none", at |-> "unborn", cancelled |-> FALSE, stopped |-> FALSE,
              tracked |-> FALSE, idle |-> FALSE, old |-> FALSE, root |-> FALSE]
NoRequest == [at |-> "idle", for |-> "none", player |-> "none", seen |-> 0]

SessionsInit ==
    /\ happening \in Happenings
    /\ tv = [c \in Channels |-> 0] /\ channelOf = [p \in Players |-> NoChannel]
    /\ local = [k \in Owned |-> 0] /\ superseded = {}
    /\ encoder = [i \in Encoders |-> NoEncoder]
    /\ request = [r \in Requests |-> NoRequest]

-----------------------------------------------------------------------------
Finished(i) == encoder[i].at \in {"done", "failed"}
IsTV(i) == encoder[i].of \in Channels
OnTV == {tv[c] : c \in Channels} \ {0}
Local == {local[k] : k \in Owned} \ {0}
Alive(i) == encoder[i].at \in {"made", "running"} /\ ~encoder[i].cancelled
Unborn == {i \in Encoders : encoder[i].at = "unborn"}

(* Faulty variant: sessions take the first number, in use or not.          *)
FollowingFirst == 1
Following == CHOOSE i \in Unborn : \A j \in Unborn : i <= j

(* A stopped channel keeps its directory until its encoder is done; with a *)
(* title the directory and the stream go at once (stopAndCleanup).         *)
StopOf(e) == [e EXCEPT !.cancelled = TRUE, !.stopped = TRUE, !.tracked = FALSE,
                       !.root = @ /\ e.of \in Channels /\ e.at \in {"made", "running"}]
DoneOf(e) == [e EXCEPT !.at = "done", !.root = @ /\ ~e.stopped]

With(X, Change(_)) == [i \in Encoders |-> IF i \in X THEN Change(encoder[i]) ELSE encoder[i]]
StopAll(X) == With(X, StopOf)

TouchOf(e) == [e EXCEPT !.idle = FALSE]
StartOf(what, p) == [NoEncoder EXCEPT !.of = what, !.player = p, !.at = "made", !.root = p # "none"]

Player(r) == request[r].player
For(r) == request[r].for
Goto(r, at) == request' = [request EXCEPT ![r].at = at]
Found(r, i, at) == request' = [request EXCEPT ![r].at = at, ![r].seen = i]
Leaves(r) == request' = [request EXCEPT ![r] = NoRequest]

Asks(r, p, what, at) ==
    /\ request[r].at = "idle" /\ \A q \in 1..(r - 1) : request[q].at # "idle"
    /\ "overlap" \in happening \/ \A q \in Requests : Player(q) # p
    /\ request' = [request EXCEPT ![r] = [at |-> at, for |-> what, player |-> p, seen |-> 0]]

-----------------------------------------------------------------------------
(* A playlist of a channel.                                                *)

(* A player that is on the channel already gets its session.               *)
AskChannel(r, p, c) ==
    LET i == IF channelOf[p] = c THEN tv[c] ELSE 0 IN
    /\ "channels" \in happening
    /\ IF i # 0 /\ ~Finished(i)
       THEN /\ Asks(r, p, c, "watch")
            /\ encoder' = With({i}, TouchOf)
       ELSE /\ Asks(r, p, c, "release")
            /\ UNCHANGED encoder
    /\ UNCHANGED <<happening, tv, channelOf, local, superseded>>

UntrackOf(e) == [e EXCEPT !.cancelled = TRUE, !.tracked = FALSE]

(* stopTaterFilePlaybackForPlayer: the player's titles, and whatever the   *)
(* tracker lists for the player.  A finished session of the channel is to  *)
(* be removed.                                                             *)
ReleaseTitles(r) ==
    /\ request[r].at = "release"
    /\ LET mine == {k \in Owned : k[1] = Player(r) /\ local[k] # 0}
           others == {i \in Encoders : encoder[i].tracked /\ encoder[i].player = Player(r)} IN
       /\ local' = [k \in Owned |-> IF k \in mine THEN 0 ELSE local[k]]
       /\ superseded' = superseded \cup mine
       /\ encoder' = [i \in Encoders |-> IF i \in {local[k] : k \in mine} THEN StopOf(encoder[i])
                                         ELSE IF i \in others THEN UntrackOf(encoder[i]) ELSE encoder[i]]
    /\ IF For(r) = "stop" THEN Goto(r, "unbind")
       ELSE LET i == tv[For(r)] IN
            IF i # 0 /\ Finished(i) THEN Found(r, i, "remove") ELSE Goto(r, "bind")
    /\ UNCHANGED <<happening, tv, channelOf>>

WithoutPlayersOf(C) == [p \in Players |-> IF channelOf[p] \in C THEN NoChannel ELSE channelOf[p]]

(* Faulty variant: what is in the map now is removed, finished or not.     *)
StillThereAny(r) == tv[For(r)] # 0
StillThere(r) == tv[For(r)] = request[r].seen

(* removeIfSame takes the bindings of all players along.                   *)
RemoveChannel(r) ==
    /\ request[r].at = "remove" /\ For(r) \in Channels
    /\ IF StillThere(r)
       THEN /\ tv' = [tv EXCEPT ![For(r)] = 0]
            /\ channelOf' = WithoutPlayersOf({For(r)})
            /\ encoder' = StopAll({tv[For(r)]})
       ELSE UNCHANGED <<tv, channelOf, encoder>>
    /\ Goto(r, "bind")
    /\ UNCHANGED <<happening, local, superseded>>

(* The player leaves a channel for another or for none: its encoder stops  *)
(* unless somebody else is on it.  Faulty variant: it stops anyway.        *)
NotInUse(c, p) == FALSE
InUse(c, p) == \E q \in Players \ {p} : channelOf[q] = c

Bind(p, c) ==
    LET was == channelOf[p]
        leaves == was # NoChannel /\ was # c /\ ~InUse(was, p) IN
    /\ channelOf' = [channelOf EXCEPT ![p] = c]
    /\ tv' = IF leaves THEN [tv EXCEPT ![was] = 0] ELSE tv
    /\ encoder' = IF leaves /\ tv[was] # 0 THEN StopAll({tv[was]}) ELSE encoder

BindPlayer(r) ==
    /\ request[r].at = "bind"
    /\ Bind(Player(r), For(r))
    /\ Goto(r, "get")
    /\ UNCHANGED <<happening, local, superseded>>

GetChannel(r) ==
    /\ request[r].at = "get"
    /\ LET i == tv[For(r)] IN
       IF i = 0 THEN Goto(r, "add") /\ UNCHANGED encoder
                ELSE Goto(r, "watch") /\ encoder' = With({i}, TouchOf)
    /\ UNCHANGED <<happening, tv, channelOf, local, superseded>>

(* pruneLocked: nobody asked for 90 seconds.                               *)
Pruned == {c \in Channels : tv[c] # 0 /\ encoder[tv[c]].idle}

(* Faulty variant: the session is forgotten and not stopped.               *)
PruneForgets == encoder
Prune == StopAll({tv[c] : c \in Pruned})

(* addOrGet; the encoder runs in a goroutine of its own.                   *)
AddChannel(r) ==
    /\ request[r].at = "add" /\ For(r) \in Channels
    /\ LET c == For(r)
           there == tv[c] # 0 /\ c \notin Pruned IN
       /\ there \/ Unborn # {}
       /\ tv' = [d \in Channels |-> IF d = c /\ ~there THEN Following
                                    ELSE IF d \in Pruned THEN 0 ELSE tv[d]]
       /\ channelOf' = WithoutPlayersOf(Pruned)
       /\ encoder' = IF there THEN Prune
                     ELSE [Prune EXCEPT ![Following] = StartOf(c, "none")]
    /\ Goto(r, "watch")
    /\ UNCHANGED <<happening, local, superseded>>

(* The wait for the first segments is over.  A segment of a channel is     *)
(* served to the players that are bound to it.                             *)
PlaylistServed(r) ==
    /\ request[r].at = "watch"
    /\ Leaves(r)
    /\ UNCHANGED <<happening, tv, channelOf, local, superseded, encoder>>

SegmentServed(p, i) ==
    /\ encoder[i].root /\ encoder[i].idle
    /\ \/ \E c \in Channels : channelOf[p] = c /\ tv[c] = i
       \/ \E t \in Titles : local[<<p, t>>] = i
    /\ encoder' = With({i}, TouchOf)
    /\ UNCHANGED <<happening, tv, channelOf, local, superseded, request>>

-----------------------------------------------------------------------------
(* A playlist of a title, and the end of playback.                         *)

AskTitle(r, p, t) ==
    /\ "titles" \in happening /\ <<p, t>> \notin superseded
    /\ Asks(r, p, t, "unbind")
    /\ UNCHANGED <<happening, tv, channelOf, local, superseded, encoder>>

(* A new plan, or the player has stopped: everything is given up.          *)
AskStop(r, p) ==
    /\ "stop" \in happening
    /\ Asks(r, p, "stop", "release")
    /\ UNCHANGED <<happening, tv, channelOf, local, superseded, encoder>>

(* unbindPlayer.  Faulty variant: a title leaves the channel running.      *)
UnboundToStay(r) == IF For(r) = "stop" THEN NoChannel ELSE channelOf[Player(r)]
UnboundTo(r) == NoChannel

UnbindPlayer(r) ==
    /\ request[r].at = "unbind"
    /\ Bind(Player(r), UnboundTo(r))
    /\ IF For(r) = "stop" THEN Leaves(r) ELSE Goto(r, "look")
    /\ UNCHANGED <<happening, local, superseded>>

Key(r) == <<Player(r), For(r)>>

(* A finished session is good when its playlist is there.                  *)
LookForTitle(r) ==
    /\ request[r].at = "look" /\ For(r) \in Titles
    /\ LET i == local[Key(r)] IN
       \/ i = 0 /\ Goto(r, "add") /\ UNCHANGED encoder
       \/ i # 0 /\ encoder[i].at # "failed" /\ Goto(r, "watch") /\ encoder' = With({i}, TouchOf)
       \/ i # 0 /\ Finished(i) /\ Found(r, i, "remove") /\ UNCHANGED encoder
    /\ UNCHANGED <<happening, tv, channelOf, local, superseded>>

RemoveTitle(r) ==
    /\ request[r].at = "remove" /\ For(r) \in Titles
    /\ local' = IF local[Key(r)] = request[r].seen THEN [local EXCEPT ![Key(r)] = 0] ELSE local
    /\ encoder' = StopAll({request[r].seen})
    /\ Goto(r, "add")
    /\ UNCHANGED <<happening, tv, channelOf, superseded>>

Replaced(r) == {k \in Owned : k[1] = Player(r) /\ local[k] # 0}

AddTitle(r) ==
    /\ request[r].at = "add" /\ For(r) \in Titles
    /\ IF local[Key(r)] # 0
       THEN /\ Goto(r, "watch")
            /\ encoder' = With({local[Key(r)]}, TouchOf)
            /\ UNCHANGED <<local, superseded>>
       ELSE /\ Unborn # {}
            /\ local' = [k \in Owned |-> IF k = Key(r) THEN Following
                                         ELSE IF k \in Replaced(r) THEN 0 ELSE local[k]]
            /\ superseded' = superseded \cup Replaced(r)
            /\ encoder' = [StopAll({local[k] : k \in Replaced(r)})
                              EXCEPT ![Following] = StartOf(For(r), Player(r))]
            /\ Found(r, Following, "track")
    /\ UNCHANGED <<happening, tv, channelOf>>

(* AddStream, SetPlayerID and SetCancelFunc; then the goroutines.          *)
TrackTitle(r) ==
    /\ request[r].at = "track"
    /\ encoder' = [encoder EXCEPT ![request[r].seen].tracked = TRUE]
    /\ Goto(r, "go")
    /\ UNCHANGED <<happening, tv, channelOf, local, superseded>>

GoTitle(r) ==
    /\ request[r].at = "go"
    /\ encoder' = [encoder EXCEPT ![request[r].seen].at = IF encoder[request[r].seen].cancelled
                                                          THEN "done" ELSE "running"]
    /\ Goto(r, "watch")
    /\ UNCHANGED <<happening, tv, channelOf, local, superseded>>

(* A generation may come back after two minutes.                           *)
Forget(k) ==
    /\ "later" \in happening /\ k \in superseded
    /\ superseded' = superseded \ {k}
    /\ UNCHANGED <<happening, tv, channelOf, local, encoder, request>>

-----------------------------------------------------------------------------
(* Encoders.                                                               *)

RunBegins(i) ==
    /\ encoder[i].at = "made" /\ IsTV(i)
    /\ encoder' = [encoder EXCEPT ![i].at = "running", ![i].root = TRUE]
    /\ UNCHANGED <<happening, tv, channelOf, local, superseded, request>>

(* The end of the program, or nothing to play.                             *)
RunEnds(i) ==
    /\ encoder[i].at = "running"
    /\ encoder' = With({i}, DoneOf)
    /\ UNCHANGED <<happening, tv, channelOf, local, superseded, request>>

RunIsCancelled(i) == encoder[i].cancelled /\ RunEnds(i)

LocalWithout(i) == [k \in Owned |-> IF local[k] = i THEN 0 ELSE local[k]]

(* A title whose encoder fails is removed at once.                         *)
RunFails(i) ==
    /\ "failure" \in happening
    /\ encoder[i].at = "running" /\ ~IsTV(i) /\ ~encoder[i].cancelled
    /\ local' = LocalWithout(i)
    /\ encoder' = [encoder EXCEPT ![i] = [StopOf(@) EXCEPT !.at = "failed"]]
    /\ UNCHANGED <<happening, tv, channelOf, superseded, request>>

(* Faulty variant: the encoder of a channel that somebody is on is kept.   *)
ExpiresUnbound(i) == encoder[i].idle /\ \A p \in Players : channelOf[p] # encoder[i].of
Expires(i) == encoder[i].idle

(* monitorHLSItem kills the encoder of a channel; expireWhenIdle, which    *)
(* ends when the session is cancelled, removes a title.                    *)
IdleEnds(i) ==
    /\ Expires(i)
    /\ IF IsTV(i)
       THEN /\ encoder[i].at = "running"
            /\ encoder' = With({i}, DoneOf)
            /\ UNCHANGED local
       ELSE /\ ~encoder[i].cancelled /\ encoder[i].at \in {"running", "done"}
            /\ local' = LocalWithout(i)
            /\ encoder' = StopAll({i})
    /\ UNCHANGED <<happening, tv, channelOf, superseded, request>>

Watched(i) == IsTV(i) /\ \E r \in Requests : request[r].at = "watch" /\ tv[encoder[i].of] = i
                                                /\ For(r) = encoder[i].of

GoesIdle(i) ==
    /\ "idle" \in happening /\ i \in OnTV \cup Local
    /\ encoder[i].at \in {"running", "done"} /\ ~encoder[i].idle /\ ~Watched(i)
    /\ encoder' = [encoder EXCEPT ![i].idle = TRUE]
    /\ UNCHANGED <<happening, tv, channelOf, local, superseded, request>>

(* Titles that are converted ahead are suspended, or done.                 *)
GoesOld(i) ==
    /\ "maintenance" \in happening
    /\ i \in Local /\ encoder[i].root /\ ~encoder[i].old
    /\ encoder' = [encoder EXCEPT ![i].old = TRUE]
    /\ UNCHANGED <<happening, tv, channelOf, local, superseded, request>>

(* maintainTaterTVHLS prunes, and removes the old directories, in which    *)
(* those of titles are too, that no channel's session has.                 *)
Maintenance ==
    /\ "maintenance" \in happening
    /\ tv' = [c \in Channels |-> IF c \in Pruned THEN 0 ELSE tv[c]]
    /\ channelOf' = WithoutPlayersOf(Pruned)
    /\ encoder' = [i \in Encoders |-> [Prune[i] EXCEPT !.root = @ /\ (i \in OnTV \ {tv[c] : c \in Pruned}
                                                                    \/ ~encoder[i].old)]]
    /\ UNCHANGED <<happening, local, superseded, request>>

(* An administrator, or the tracker's sweep after four hours.              *)
StreamIsKilled(i) ==
    /\ "kill" \in happening
    /\ encoder[i].tracked
    /\ \/ encoder' = With({i}, UntrackOf)
       \/ encoder' = [encoder EXCEPT ![i].cancelled = TRUE]
    /\ UNCHANGED <<happening, tv, channelOf, local, superseded, request>>

(* taterTVResetHLS, when the guide's configuration changes.                *)
Reset ==
    /\ "reset" \in happening
    /\ OnTV # {}
    /\ encoder' = StopAll(OnTV)
    /\ tv' = [c \in Channels |-> 0] /\ channelOf' = [p \in Players |-> NoChannel]
    /\ UNCHANGED <<happening, local, superseded, request>>

RequestStep(r) ==
    \/ ReleaseTitles(r) \/ RemoveChannel(r)
    \/ BindPlayer(r) \/ GetChannel(r) \/ AddChannel(r) \/ PlaylistServed(r)
    \/ UnbindPlayer(r) \/ LookForTitle(r) \/ RemoveTitle(r) \/ AddTitle(r) \/ TrackTitle(r) \/ GoTitle(r)

EncoderStep(i) ==
    \/ RunBegins(i) \/ RunEnds(i) \/ RunFails(i) \/ IdleEnds(i)
    \/ GoesIdle(i) \/ GoesOld(i) \/ StreamIsKilled(i)

SessionsNext ==
    \/ \E r \in Requests, p \in Players :
          \/ \E c \in Channels : AskChannel(r, p, c)
          \/ \E t \in Titles : AskTitle(r, p, t)
          \/ AskStop(r, p)
    \/ \E r \in Requests : RequestStep(r)
    \/ \E i \in Encoders : EncoderStep(i) \/ \E p \in Players : SegmentServed(p, i)
    \/ \E k \in Owned : Forget(k)
    \/ Maintenance \/ Reset

SessionsSpec == SessionsInit /\ [][SessionsNext]_sessionVars

(* Goroutines of sessions go on: a cancelled process dies, timers tick.    *)
SessionsFairness ==
    \A i \in Encoders : /\ WF_sessionVars(RunBegins(i)) /\ WF_sessionVars(RunIsCancelled(i))
                        /\ WF_sessionVars(IdleEnds(i))

-----------------------------------------------------------------------------
(* Properties.                                                             *)

(* Every variable has a value of its type.                                 *)
SessionsTypeOK ==
    /\ happening \in Happenings
    /\ tv \in [Channels -> 0..MaxEncoders] /\ channelOf \in [Players -> Channels \cup {NoChannel}]
    /\ local \in [Owned -> 0..MaxEncoders] /\ superseded \subseteq Owned
    /\ \A i \in Encoders : encoder[i].at \in {"unborn", "made", "running", "done", "failed"}
    /\ \A r \in Requests : request[r].seen \in 0..MaxEncoders
    /\ \A i \in OnTV : IsTV(i)
    /\ \A i \in Local : encoder[i].of \in Titles

(* "A player can consume only one playback at a time": of its channel's    *)
(* encoder and the encoders of its titles at most one runs, while requests *)
(* are handled too, when a player's requests come one after the other.     *)
Consumes(p) == {i \in Encoders : /\ Alive(i)
                                 /\ \/ encoder[i].player = p
                                    \/ channelOf[p] # NoChannel /\ tv[channelOf[p]] = i}
OnePlaybackPerPlayer ==
    "overlap" \notin happening =>
    \A p \in Players : Cardinality(Consumes(p)) <= 1

(* "retain a shared channel encoder when another paired player is still    *)
(* watching it": what one player does stops no encoder of a channel that   *)
(* another is on and that was asked for lately; a reset of the guide may.  *)
SharedChannelsPlayOn ==
    [][\A i \in Encoders, p \in Players :
          /\ channelOf[p] # NoChannel /\ tv[channelOf[p]] = i
          /\ encoder[i].at = "running" /\ ~encoder[i].cancelled /\ ~encoder[i].idle
          /\ encoder'[i].cancelled
          => \/ UNCHANGED request
             \/ \E r \in Requests : request'[r] # request[r] /\ p \in {Player(r), request'[r].player}]_sessionVars

(* No encoder runs that its manager does not know: there is one for each   *)
(* channel, and one for each title of a player.                            *)
EncodersAreKnown == \A i \in Encoders : Alive(i) => i \in OnTV \cup Local

(* "Player ownership still stops a session immediately when the user       *)
(* changes channels or ends playback": somebody is on every channel with   *)
(* an encoder, or about to be.                                             *)
ChannelsAreWatched ==
    \A c \in Channels : tv[c] # 0 /\ Alive(tv[c]) =>
        \/ \E p \in Players : channelOf[p] = c
        \/ \E r \in Requests : For(r) = c

(* Maintenance removes "abandoned working directories left behind by an    *)
(* earlier crash or unclean shutdown": the directory of a session that is  *)
(* still asked for is there.                                               *)
LiveRootsAreKept == \A i \in Local : ~encoder[i].idle => encoder[i].root

(* The tracker lists no stream of a session that was stopped.              *)
StoppedAreUntracked == \A i \in Encoders : encoder[i].stopped => ~encoder[i].tracked

(* A title that is not asked for any more leaves its manager.              *)
IdleTitlesGo == \A i \in Encoders : (i \in Local /\ encoder[i].idle) ~> (i \notin Local \/ ~encoder[i].idle)

(* An encoder that nobody asks anything of ends.                           *)
IdleEncodersEnd ==
    \A i \in Encoders : (encoder[i].at = "running" /\ encoder[i].idle)
                            ~> (encoder[i].at # "running" \/ ~encoder[i].idle)
===============================================================================
