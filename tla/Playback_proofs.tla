--------------------------- MODULE Playback_proofs ----------------------------
(***************************************************************************)
(* Proofs about PlaybackSessions, PlaybackAdmission, PlaybackPlan and      *)
(* TubeGuide: one playback a player, shared channels that play on, no      *)
(* import that waits for headroom nobody uses, plans that suit the player, *)
(* pictures that are what they say, and channels that keep what they have  *)
(* scheduled and play their programs in turn.                              *)
(*                                                                         *)
(* The composition of the tracker and the connection budget keeps the      *)
(* invariants of both parts, which their own modules prove: a step of the  *)
(* composition is one of the tracker, of the budget or of both.            *)
(*                                                                         *)
(* A schedule is drawn by decks that the code fills anew from the rows at  *)
(* each extension: Fair says of the rows alone what every deck, of any     *)
(* library's programs, would make of them, and a draw keeps it.            *)
(***************************************************************************)
EXTENDS PlaybackSessions, PlaybackAdmission, StreamTracker_proofs, PlaybackPlan, TubeGuide, FiniteSetTheorems, SequenceTheorems,
        NaturalsInduction, WellFoundedInduction, TLAPS

-----------------------------------------------------------------------------
(* PlaybackSessions.                                                       *)

Things == Channels \cup Titles

EncoderStates ==
    [of : Things \cup {"none"}, player : Players \cup {"none"}, at : {"unborn", "made", "running", "done", "failed"},
     cancelled : BOOLEAN, stopped : BOOLEAN, tracked : BOOLEAN, idle : BOOLEAN, old : BOOLEAN, root : BOOLEAN]

RequestStates ==
    [at : {"idle", "release", "remove", "bind", "get", "add", "watch", "unbind", "look", "track", "go"},
     for : Things \cup {"none", "stop"}, player : Players \cup {"none"}, seen : 0..MaxEncoders]

SessionsTyped ==
    /\ happening \in Happenings
    /\ tv \in [Channels -> 0..MaxEncoders]
    /\ channelOf \in [Players -> Channels \cup {NoChannel}]
    /\ local \in [Owned -> 0..MaxEncoders]
    /\ superseded \subseteq Owned
    /\ encoder \in [Encoders -> EncoderStates]
    /\ request \in [Requests -> RequestStates]

(* What a change leaves of a session: whose it is and how far it runs.     *)
Stays(e, f) ==
    /\ f \in EncoderStates
    /\ f.of = e.of /\ f.player = e.player /\ f.at = e.at

(* Stopping, untracking and touching a session leave whose it is and how   *)
(* far it runs; the first two cancel it, the last does not.                *)
LEMMA Changes ==
    ASSUME NEW e \in EncoderStates
    PROVE  /\ Stays(e, StopOf(e)) /\ StopOf(e).cancelled
           /\ Stays(e, UntrackOf(e)) /\ UntrackOf(e).cancelled
           /\ Stays(e, TouchOf(e)) /\ TouchOf(e).cancelled = e.cancelled
           /\ Stays(e, e)
  BY DEF EncoderStates, Stays, StopOf, UntrackOf, TouchOf

(* A session that is done keeps its owner, and is cancelled if it was.     *)
LEMMA DoneChange ==
    ASSUME NEW e \in EncoderStates
    PROVE  /\ DoneOf(e) \in EncoderStates /\ DoneOf(e).of = e.of /\ DoneOf(e).player = e.player
           /\ DoneOf(e).at = "done" /\ DoneOf(e).cancelled = e.cancelled
  BY DEF EncoderStates, DoneOf

(* A session that starts is for what was asked and for its player.         *)
LEMMA StartChange ==
    ASSUME NEW what \in Things, NEW p \in Players \cup {"none"}
    PROVE  /\ StartOf(what, p) \in EncoderStates /\ StartOf(what, p).of = what /\ StartOf(what, p).player = p
           /\ StartOf(what, p).at = "made" /\ StartOf(what, p).cancelled = FALSE
  BY DEF EncoderStates, StartOf, NoEncoder

(* The flags of the tracker, of age, of idling and of the directory say    *)
(* nothing about whose a session is and how far it runs.                   *)
LEMMA FlagChanges ==
    ASSUME NEW e \in EncoderStates
    PROVE  /\ Stays(e, [e EXCEPT !.tracked = TRUE]) /\ [e EXCEPT !.tracked = TRUE].cancelled = e.cancelled
           /\ Stays(e, [e EXCEPT !.old = TRUE]) /\ [e EXCEPT !.old = TRUE].cancelled = e.cancelled
           /\ Stays(e, [e EXCEPT !.idle = TRUE]) /\ [e EXCEPT !.idle = TRUE].cancelled = e.cancelled
           /\ Stays(e, [e EXCEPT !.cancelled = TRUE]) /\ [e EXCEPT !.cancelled = TRUE].cancelled
           /\ \A b \in BOOLEAN : Stays(e, [e EXCEPT !.root = b]) /\ [e EXCEPT !.root = b].cancelled = e.cancelled
  BY DEF EncoderStates, Stays

(* A session that starts takes a number no session has had.                *)
LEMMA FollowingIsUnborn == Unborn # {} => Following \in Unborn
<1> SUFFICES ASSUME Unborn # {}
             PROVE  Following \in Unborn
  OBVIOUS
<1>1. Unborn \subseteq Nat
  BY SessionsAssumption DEF Unborn, Encoders
<1>2. PICK i \in Unborn : \A j \in Unborn : ~ (<<j, i>> \in OpToRel(<, Nat))
  BY <1>1, WFMin, NatLessThanWellFounded
<1>3. \A j \in Unborn : i <= j
  <2>1. OpToRel(<, Nat) = {m \in Nat \X Nat : m[1] < m[2]}
    BY DEF OpToRel
  <2> SUFFICES ASSUME NEW j \in Unborn, ~ (i <= j)
               PROVE  FALSE
    OBVIOUS
  <2>2. j \in Nat /\ i \in Nat /\ j < i
    BY <1>1
  <2> DEFINE pair == <<j, i>>
  <2>3. pair \in Nat \X Nat /\ pair[1] = j /\ pair[2] = i
    BY <2>2
  <2>4. pair \notin OpToRel(<, Nat)
    BY <1>2
  <2> HIDE DEF pair
  <2> QED
    BY <2>1, <2>2, <2>3, <2>4
<1>4. \E k \in Unborn : \A j \in Unborn : k <= j
  BY <1>3
<1> QED
  BY <1>4 DEF Following

(* What the invariant says of the two maps and the encoders in them.       *)
MapsAreTrue ==
    /\ \A c \in Channels : tv[c] # 0 => encoder[tv[c]].of = c /\ encoder[tv[c]].player = "none"
    /\ \A p \in Players, t \in Titles : local[<<p, t>>] # 0 =>
          encoder[local[<<p, t>>]].of = t /\ encoder[local[<<p, t>>]].player = p
    /\ \A i \in Encoders : encoder[i].at = "unborn" => encoder[i].of = "none" /\ encoder[i].player = "none"

(* No encoder runs that its manager does not know.                         *)
AliveAreKnown ==
    \A i \in Encoders : Alive(i) =>
        \/ encoder[i].of \in Channels /\ tv[encoder[i].of] = i
        \/ /\ encoder[i].of \in Titles /\ encoder[i].player \in Players
           /\ local[<<encoder[i].player, encoder[i].of>>] = i

OneTitleEach ==
    \A p \in Players, t \in Titles, u \in Titles : local[<<p, t>>] # 0 /\ local[<<p, u>>] # 0 => t = u

MapsInv == SessionsTyped /\ MapsAreTrue /\ AliveAreKnown /\ OneTitleEach

(* What a request is for, and what it knows of the session it has seen.    *)
RequestKnows(r) ==
    /\ request[r].at = "idle" <=> request[r].player = "none"
    /\ request[r].at = "release" => request[r].for \in Channels \cup {"stop"}
    /\ request[r].at \in {"bind", "get"} => request[r].for \in Channels
    /\ request[r].at = "unbind" => request[r].for \in Titles \cup {"stop"}
    /\ request[r].at = "look" => request[r].for \in Titles
    /\ request[r].at = "add" => request[r].for \in Things
    /\ request[r].at = "remove" =>
          /\ request[r].for \in Things /\ request[r].seen # 0
          /\ request[r].for \in Channels => Finished(request[r].seen)
          /\ request[r].for \in Titles => encoder[request[r].seen].of \in Titles
    /\ request[r].at \in {"track", "go"} =>
          /\ request[r].for \in Titles /\ request[r].seen # 0
          /\ encoder[request[r].seen].at = "made" /\ encoder[request[r].seen].of \in Titles

SeenApart ==
    \A q \in Requests, r \in Requests :
        request[q].at \in {"track", "go"} /\ request[r].at \in {"track", "go"} /\ request[q].seen = request[r].seen
            => q = r

RequestsInv == (\A r \in Requests : RequestKnows(r)) /\ SeenApart

(* Requests of a player that come one after the other.                     *)
OneAtATime ==
    "overlap" \notin happening =>
    /\ \A q \in Requests, r \in Requests : Player(q) = Player(r) /\ Player(r) # "none" => q = r
    /\ \A p \in Players, t \in Titles : channelOf[p] # NoChannel => local[<<p, t>>] = 0
    /\ \A r \in Requests : request[r].at \in {"remove", "bind"} /\ For(r) \in Channels =>
          \A t \in Titles : local[<<Player(r), t>>] = 0
    /\ \A r \in Requests : request[r].at \in {"look", "remove", "add"} /\ For(r) \in Titles =>
          channelOf[Player(r)] = NoChannel

SessInv == MapsInv /\ RequestsInv /\ OneAtATime

(* The server starts with no session, no request and nobody on a channel.  *)
LEMMA SessInit == SessionsInit => SessInv
<1> SUFFICES ASSUME SessionsInit
             PROVE  SessInv
  OBVIOUS
<1>1. NoEncoder \in EncoderStates /\ NoRequest \in RequestStates /\ 0 \in 0..MaxEncoders
  BY SessionsAssumption DEF NoEncoder, NoRequest, EncoderStates, RequestStates
<1>2. SessionsTyped
  BY <1>1 DEF SessionsInit, SessionsTyped
<1>3. MapsAreTrue /\ AliveAreKnown /\ OneTitleEach
  BY DEF SessionsInit, MapsAreTrue, AliveAreKnown, OneTitleEach, NoEncoder, Alive, Owned
<1>4. RequestsInv
  BY DEF SessionsInit, RequestsInv, RequestKnows, SeenApart, NoRequest
<1>5. OneAtATime
  BY DEF SessionsInit, OneAtATime, NoRequest, Player, For
<1> QED
  BY <1>2, <1>3, <1>4, <1>5 DEF SessInv, MapsInv

(* A request starts the encoder of its title.                              *)
Going(i) == \E r \in Requests : request[r].at = "go" /\ request[r].seen = i /\ request'[r].at # "go"

(* The encoders go on, and none begins.                                    *)
Evolves(X) ==
    /\ encoder' \in [Encoders -> EncoderStates]
    /\ \A i \in Encoders \ X :
          /\ encoder'[i].of = encoder[i].of /\ encoder'[i].player = encoder[i].player
          /\ encoder'[i].at = "unborn" <=> encoder[i].at = "unborn"
          /\ Finished(i) => Finished(i)'
          /\ encoder[i].at = "made" /\ encoder[i].of \in Titles => encoder'[i].at = "made" \/ Going(i)
          /\ Alive(i)' => Alive(i)

EndsAs(e) == e.at \notin {"made", "running"} \/ e.cancelled

(* Sessions leave the maps, and their encoders end.                        *)
Shrinks ==
    /\ \A c \in Channels : tv'[c] = tv[c] \/ (tv'[c] = 0 /\ EndsAs(encoder'[tv[c]]))
    /\ \A k \in Owned : local'[k] = local[k] \/ (local'[k] = 0 /\ EndsAs(encoder'[local[k]]))

(* When sessions leave the maps only with their encoders ended, the maps   *)
(* stay true and no running encoder is forgotten.                          *)
LEMMA ShrinkingKeeps ==
    ASSUME MapsInv, SessionsTyped', Evolves({}), Shrinks
    PROVE  MapsInv'
<1>0. \A p \in Players, t \in Titles : <<p, t>> \in Owned
  BY DEF Owned
<1>1. (\A c \in Channels : tv[c] # 0 => tv[c] \in Encoders) /\ \A k \in Owned : local[k] # 0 => local[k] \in Encoders
  BY SessionsAssumption DEF MapsInv, SessionsTyped, Encoders
<1>2. MapsAreTrue'
  BY <1>0, <1>1 DEF MapsInv, MapsAreTrue, Evolves, Shrinks
<1>3. AliveAreKnown'
  <2> SUFFICES ASSUME NEW i \in Encoders, Alive(i)'
               PROVE  \/ encoder'[i].of \in Channels /\ tv'[encoder'[i].of] = i
                      \/ /\ encoder'[i].of \in Titles /\ encoder'[i].player \in Players
                         /\ local'[<<encoder'[i].player, encoder'[i].of>>] = i
    BY DEF AliveAreKnown
  <2>1. Alive(i) /\ encoder'[i].of = encoder[i].of /\ encoder'[i].player = encoder[i].player
    BY DEF Evolves
  <2> QED
    BY <1>0, <2>1 DEF MapsInv, AliveAreKnown, Shrinks, EndsAs, Alive
<1>4. OneTitleEach'
  BY <1>0 DEF MapsInv, OneTitleEach, Shrinks
<1> QED
  BY <1>2, <1>3, <1>4 DEF MapsInv

(* A request goes on, and the others wait.                                 *)
OthersWait(r) == \A q \in Requests : q # r => request'[q] = request[q]

(* A step of one request that starts at most the sessions X leaves what    *)
(* the requests know true: a session that has finished stays finished, and *)
(* one that a request is about to start is started by that request alone.  *)
LEMMA RequestGoesOn ==
    ASSUME MapsInv, RequestsInv, NEW r \in Requests, OthersWait(r), RequestKnows(r)',
           NEW X, Evolves(X), \A i \in X : i \in Encoders /\ encoder[i].at = "unborn",
           request'[r].at \in {"track", "go"} =>
               request'[r].seen \in X \/ (request[r].at \in {"track", "go"} /\ request'[r].seen = request[r].seen)
    PROVE  RequestsInv'
<1>1. \A q \in Requests : request[q].seen # 0 => request[q].seen \in Encoders
  BY SessionsAssumption DEF MapsInv, SessionsTyped, RequestStates, Encoders
<1>2. ASSUME NEW q \in Requests, q # r
      PROVE  RequestKnows(q)'
  <2>1. request'[q] = request[q] /\ RequestKnows(q)
    BY <1>2 DEF OthersWait, RequestsInv
  <2>2. CASE request[q].at \in {"remove", "track", "go"}
    <3>1. PICK i : i = request[q].seen
      OBVIOUS
    <3>2. i \in Encoders
      BY <1>1, <2>1, <2>2, <3>1 DEF RequestKnows
    <3>3. encoder[i].at # "unborn"
      BY <2>1, <2>2, <3>1, <3>2, SessionsAssumption DEF RequestKnows, MapsInv, MapsAreTrue, Finished, Things
    <3>4. i \notin X
      BY <3>3
    <3>5. /\ encoder'[i].of = encoder[i].of
          /\ encoder[i].at \in {"done", "failed"} => encoder'[i].at \in {"done", "failed"}
          /\ encoder[i].at = "made" /\ encoder[i].of \in Titles => encoder'[i].at = "made" \/ Going(i)
      BY <3>2, <3>4 DEF Evolves, Finished
    <3>6. request[q].at \in {"track", "go"} => ~ Going(i)
      BY <2>1, <3>1 DEF Going, RequestsInv, SeenApart
    <3> QED
      BY <2>1, <3>1, <3>5, <3>6 DEF RequestKnows, Finished
  <2>3. CASE request[q].at \notin {"remove", "track", "go"}
    BY <2>1, <2>3 DEF RequestKnows
  <2> QED
    BY <2>2, <2>3
<1>3. SeenApart'
  <2>1. \A q \in Requests : request[q].at \in {"track", "go"} => request[q].seen \notin X
    BY <1>1 DEF RequestsInv, RequestKnows
  <2> QED
    BY <2>1 DEF SeenApart, RequestsInv, OthersWait
<1> QED
  BY <1>2, <1>3 DEF RequestsInv

(* The same for steps of no request.                                       *)
LEMMA RequestsWait ==
    ASSUME MapsInv, RequestsInv, UNCHANGED request, Evolves({})
    PROVE  RequestsInv'
<1>1. ASSUME NEW q \in Requests
      PROVE  RequestKnows(q)'
  <2>1. PICK i : i = request[q].seen
    OBVIOUS
  <2>2. i # 0 => i \in Encoders
    BY <2>1, SessionsAssumption DEF MapsInv, SessionsTyped, RequestStates, Encoders
  <2>3. i # 0 => /\ encoder'[i].of = encoder[i].of
                 /\ encoder[i].at \in {"done", "failed"} => encoder'[i].at \in {"done", "failed"}
                 /\ encoder[i].at = "made" /\ encoder[i].of \in Titles => encoder'[i].at = "made"
    BY <2>2 DEF Evolves, Finished, Going
  <2> QED
    BY <2>1, <2>3 DEF RequestsInv, RequestKnows, Finished
<1>2. SeenApart'
  BY DEF RequestsInv, SeenApart
<1> QED
  BY <1>1, <1>2 DEF RequestsInv

(* What a step does to the player of a request, with the others untouched. *)
LEMMA PlayersApart ==
    ASSUME OneAtATime, UNCHANGED happening, NEW r \in Requests, OthersWait(r),
           \/ request'[r].player \in {request[r].player, "none"}
           \/ "overlap" \notin happening => \A q \in Requests : q # r => request[q].player # request'[r].player,
           \A p \in Players : p # request'[r].player =>
               /\ channelOf'[p] \in {channelOf[p], NoChannel}
               /\ \A t \in Titles : local'[<<p, t>>] \in {local[<<p, t>>], 0},
           \A q \in Requests : request[q].at # "idle" => request[q].player \in Players,
           "overlap" \notin happening =>
               /\ request'[r].player \in Players /\ channelOf'[request'[r].player] # NoChannel =>
                     \A t \in Titles : local'[<<request'[r].player, t>>] = 0
               /\ request'[r].at \in {"remove", "bind"} /\ request'[r].for \in Channels =>
                     \A t \in Titles : local'[<<request'[r].player, t>>] = 0
               /\ request'[r].at \in {"look", "remove", "add"} /\ request'[r].for \in Titles =>
                     channelOf'[request'[r].player] = NoChannel
    PROVE  OneAtATime'
<1> SUFFICES ASSUME "overlap" \notin happening
             PROVE  OneAtATime'
  BY DEF OneAtATime
<1>1. \A q \in Requests : q # r /\ request[q].player # "none" => request[q].player # request'[r].player
  BY DEF OneAtATime, Player
<1>2. \A q \in Requests, s \in Requests :
          request'[q].player = request'[s].player /\ request'[s].player # "none" => q = s
  BY <1>1 DEF OneAtATime, Player, OthersWait
<1>3. \A p \in Players, t \in Titles : channelOf'[p] # NoChannel => local'[<<p, t>>] = 0
  BY DEF OneAtATime
<1>4. \A q \in Requests : q # r /\ request[q].at # "idle" =>
          request[q].player \in Players /\ request[q].player # request'[r].player
  BY <1>1, SessionsAssumption
<1>5. \A q \in Requests : request'[q].at \in {"remove", "bind"} /\ request'[q].for \in Channels =>
          \A t \in Titles : local'[<<request'[q].player, t>>] = 0
  BY <1>4 DEF OneAtATime, Player, For, OthersWait
<1>6. \A q \in Requests : request'[q].at \in {"look", "remove", "add"} /\ request'[q].for \in Titles =>
          channelOf'[request'[q].player] = NoChannel
  BY <1>4 DEF OneAtATime, Player, For, OthersWait
<1> QED
  BY <1>2, <1>3, <1>5, <1>6 DEF OneAtATime, Player, For

(* Steps of no request, that only take something out of the maps.          *)
LEMMA PlayersWait ==
    ASSUME SessInv, UNCHANGED <<happening, request>>,
           \A p \in Players : channelOf'[p] \in {channelOf[p], NoChannel},
           \A k \in Owned : local'[k] \in {local[k], 0}
    PROVE  OneAtATime'
<1>1. OneAtATime /\ \A p \in Players, t \in Titles : <<p, t>> \in Owned
  BY DEF SessInv, Owned
<1>2. \A r \in Requests : request[r].at # "idle" => request[r].player \in Players
  BY DEF SessInv, MapsInv, SessionsTyped, RequestsInv, RequestKnows, RequestStates
<1> QED
  BY <1>1, <1>2 DEF OneAtATime, Player, For

(* Steps of no request that only take sessions out of the maps keep the    *)
(* invariant.                                                              *)
LEMMA BackgroundKeeps ==
    ASSUME SessInv, UNCHANGED <<happening, request>>, SessionsTyped', Evolves({}), Shrinks,
           \A p \in Players : channelOf'[p] \in {channelOf[p], NoChannel}
    PROVE  SessInv'
<1>1. MapsInv' /\ RequestsInv'
  BY ShrinkingKeeps, RequestsWait DEF SessInv
<1>2. OneAtATime'
  BY PlayersWait DEF Shrinks
<1> QED
  BY <1>1, <1>2 DEF SessInv

(* Stopping sessions starts none, and ends those that are stopped.         *)
LEMMA StopsEvolve ==
    ASSUME SessionsTyped, NEW X, encoder' = StopAll(X)
    PROVE  Evolves({}) /\ \A i \in Encoders : i \in X => EndsAs(encoder'[i])
<1>1. \A i \in Encoders : encoder'[i] = IF i \in X THEN StopOf(encoder[i]) ELSE encoder[i]
  BY DEF StopAll, With
<1>2. \A i \in Encoders : encoder[i] \in EncoderStates
  BY DEF SessionsTyped
<1>3. \A i \in Encoders : Stays(encoder[i], encoder'[i]) /\ (encoder'[i].cancelled \/ encoder'[i] = encoder[i])
                           /\ (i \in X => encoder'[i].cancelled)
  BY <1>1, <1>2, Changes
<1>4. encoder' = [i \in Encoders |-> encoder'[i]]
  BY DEF StopAll, With
<1> QED
  BY <1>3, <1>4 DEF Evolves, Stays, EndsAs, Alive, Finished

(* Touching sessions starts none and ends none.                            *)
LEMMA TouchesEvolve ==
    ASSUME SessionsTyped, NEW X, encoder' = With(X, TouchOf)
    PROVE  Evolves({}) /\ \A i \in Encoders : encoder'[i].cancelled = encoder[i].cancelled
<1>1. \A i \in Encoders : encoder'[i] = IF i \in X THEN TouchOf(encoder[i]) ELSE encoder[i]
  BY DEF With
<1>2. \A i \in Encoders : encoder[i] \in EncoderStates
  BY DEF SessionsTyped
<1>3. \A i \in Encoders : Stays(encoder[i], encoder'[i]) /\ encoder'[i].cancelled = encoder[i].cancelled
  BY <1>1, <1>2, Changes
<1>4. encoder' = [i \in Encoders |-> encoder'[i]]
  BY DEF With
<1> QED
  BY <1>3, <1>4 DEF Evolves, Stays, EndsAs, Alive, Finished

(* A step that leaves the sessions alone.                                  *)
LEMMA SameEvolves ==
    ASSUME SessionsTyped, UNCHANGED encoder
    PROVE  Evolves({})
  BY DEF SessionsTyped, Evolves, Alive, Finished

RequestAts == {"idle", "release", "remove", "bind", "get", "add", "watch", "unbind", "look", "track", "go"}

(* A request that goes on keeps its player and what it is for.             *)
LEMMA GotoRequest ==
    ASSUME SessionsTyped, NEW r \in Requests, NEW at \in RequestAts, Goto(r, at)
    PROVE  /\ request' \in [Requests -> RequestStates] /\ OthersWait(r)
           /\ request'[r].at = at /\ request'[r].for = request[r].for
           /\ request'[r].player = request[r].player /\ request'[r].seen = request[r].seen
  BY DEF SessionsTyped, Goto, OthersWait, RequestStates, RequestAts

(* A request that goes on with a session it has seen.                      *)
LEMMA FoundRequest ==
    ASSUME SessionsTyped, NEW r \in Requests, NEW at \in RequestAts, NEW i \in 0..MaxEncoders, Found(r, i, at)
    PROVE  /\ request' \in [Requests -> RequestStates] /\ OthersWait(r)
           /\ request'[r].at = at /\ request'[r].for = request[r].for
           /\ request'[r].player = request[r].player /\ request'[r].seen = i
  BY DEF SessionsTyped, Found, OthersWait, RequestStates, RequestAts

(* A request that is answered is nobody's.                                 *)
LEMMA LeavingRequest ==
    ASSUME SessionsTyped, NEW r \in Requests, Leaves(r)
    PROVE  /\ request' \in [Requests -> RequestStates] /\ OthersWait(r)
           /\ request'[r].at = "idle" /\ request'[r].for = "none" /\ request'[r].player = "none"
  BY SessionsAssumption DEF SessionsTyped, Leaves, OthersWait, RequestStates, RequestAts, NoRequest

(* A request that begins is the only one of its player, unless requests    *)
(* overlap.                                                                *)
LEMMA AskingRequest ==
    ASSUME SessionsTyped, NEW r \in Requests, NEW p \in Players, NEW what \in Things \cup {"stop"},
           NEW at \in RequestAts, Asks(r, p, what, at)
    PROVE  /\ request' \in [Requests -> RequestStates] /\ OthersWait(r)
           /\ request'[r].at = at /\ request'[r].for = what /\ request'[r].player = p
           /\ "overlap" \notin happening => \A q \in Requests : q # r => request[q].player # p
  BY SessionsAssumption DEF SessionsTyped, Asks, OthersWait, RequestStates, RequestAts, Player

(* A step of a request that starts nothing keeps the invariant when it     *)
(* leaves the others' channels and titles alone and the order of its own:  *)
(* titles are given up before a channel is taken, and a channel before a   *)
(* title is.                                                               *)
LEMMA RequestShrinks ==
    ASSUME SessInv, NEW r \in Requests, OthersWait(r), UNCHANGED happening, SessionsTyped', Evolves({}), Shrinks,
           RequestKnows(r)',
           request'[r].at \in {"track", "go"} =>
               request[r].at \in {"track", "go"} /\ request'[r].seen = request[r].seen,
           \/ request'[r].player \in {request[r].player, "none"}
           \/ "overlap" \notin happening => \A q \in Requests : q # r => request[q].player # request'[r].player,
           \A p \in Players : p # request'[r].player => channelOf'[p] \in {channelOf[p], NoChannel},
           "overlap" \notin happening =>
               /\ request'[r].player \in Players /\ channelOf'[request'[r].player] # NoChannel =>
                     \A t \in Titles : local'[<<request'[r].player, t>>] = 0
               /\ request'[r].at \in {"remove", "bind"} /\ request'[r].for \in Channels =>
                     \A t \in Titles : local'[<<request'[r].player, t>>] = 0
               /\ request'[r].at \in {"look", "remove", "add"} /\ request'[r].for \in Titles =>
                     channelOf'[request'[r].player] = NoChannel
    PROVE  SessInv'
<1>1. MapsInv'
  BY ShrinkingKeeps DEF SessInv
<1>2. RequestsInv'
  BY RequestGoesOn DEF SessInv
<1>3. \A q \in Requests : request[q].at # "idle" => request[q].player \in Players
  BY DEF SessInv, MapsInv, SessionsTyped, RequestsInv, RequestKnows, RequestStates
<1>4. \A p \in Players, t \in Titles : local'[<<p, t>>] \in {local[<<p, t>>], 0}
  BY DEF Shrinks, Owned
<1>5. OneAtATime'
  BY <1>3, <1>4, PlayersApart DEF SessInv
<1> QED
  BY <1>1, <1>2, <1>5 DEF SessInv

(* The requests begin.                                                     *)
LEMMA AsksKeep ==
    ASSUME SessInv, NEW r \in Requests, NEW p \in Players,
           \/ \E c \in Channels : AskChannel(r, p, c)
           \/ \E t \in Titles : AskTitle(r, p, t)
           \/ AskStop(r, p)
    PROVE  SessInv'
<1>1. SessionsTyped
  BY DEF SessInv, MapsInv
<1>2. PICK what \in Things \cup {"stop"}, at \in {"watch", "release", "unbind"} :
        /\ Asks(r, p, what, at)
        /\ at = "release" => what \in Channels \cup {"stop"}
        /\ at = "unbind" => what \in Titles
        /\ UNCHANGED <<happening, tv, channelOf, local, superseded>>
        /\ UNCHANGED encoder \/ \E i \in 0..MaxEncoders : encoder' = With({i}, TouchOf)
  <2>1. ASSUME NEW c \in Channels, AskChannel(r, p, c)
        PROVE  \E at \in {"watch", "release"} :
                  /\ Asks(r, p, c, at)
                  /\ UNCHANGED <<happening, tv, channelOf, local, superseded>>
                  /\ UNCHANGED encoder \/ \E i \in 0..MaxEncoders : encoder' = With({i}, TouchOf)
    <3>1. tv[c] \in 0..MaxEncoders /\ 0 \in 0..MaxEncoders
      BY <1>1, SessionsAssumption DEF SessionsTyped
    <3> QED
      BY <2>1, <3>1 DEF AskChannel
  <2>2. ASSUME NEW t \in Titles, AskTitle(r, p, t)
        PROVE  Asks(r, p, t, "unbind") /\ UNCHANGED <<happening, tv, channelOf, local, superseded, encoder>>
    BY <2>2 DEF AskTitle
  <2>3. ASSUME AskStop(r, p)
        PROVE  Asks(r, p, "stop", "release") /\ UNCHANGED <<happening, tv, channelOf, local, superseded, encoder>>
    BY <2>3 DEF AskStop
  <2> QED
    BY <2>1, <2>2, <2>3 DEF Things
<1>3. Evolves({})
  BY <1>1, <1>2, SameEvolves, TouchesEvolve
<1>4. /\ request' \in [Requests -> RequestStates] /\ OthersWait(r)
      /\ request'[r].at = at /\ request'[r].for = what /\ request'[r].player = p
      /\ "overlap" \notin happening => \A q \in Requests : q # r => request[q].player # p
  BY <1>1, <1>2, AskingRequest DEF RequestAts
<1>5. SessionsTyped' /\ Shrinks
  BY <1>1, <1>2, <1>3, <1>4 DEF SessionsTyped, Evolves, Shrinks
<1>6. RequestKnows(r)'
  BY <1>2, <1>4, SessionsAssumption DEF RequestKnows
<1>7. "overlap" \notin happening /\ channelOf'[p] # NoChannel => \A t \in Titles : local'[<<p, t>>] = 0
  BY <1>2 DEF SessInv, OneAtATime
<1> QED
  BY <1>2, <1>3, <1>4, <1>5, <1>6, <1>7, RequestShrinks

(* The facts that the steps of a request start from.                       *)
RequestFacts(r) ==
    /\ SessionsTyped /\ RequestKnows(r)
    /\ request[r].at # "idle" => Player(r) \in Players
    /\ request[r].seen \in 0..MaxEncoders
    /\ \A c \in Channels : tv[c] \in 0..MaxEncoders
    /\ \A k \in Owned : local[k] \in 0..MaxEncoders
    /\ \A c \in Channels : tv[c] # 0 => tv[c] \in Encoders
    /\ \A k \in Owned : local[k] # 0 => local[k] \in Encoders
    /\ \A p \in Players, t \in Titles : <<p, t>> \in Owned

(* The invariant gives those facts.                                        *)
LEMMA RequestFactsHold ==
    ASSUME SessInv, NEW r \in Requests
    PROVE  RequestFacts(r)
<1>1. SessionsTyped /\ RequestKnows(r)
  BY DEF SessInv, MapsInv, RequestsInv
<1>2. request[r] \in RequestStates
  BY <1>1 DEF SessionsTyped
<1>3. (request[r].at # "idle" => Player(r) \in Players) /\ request[r].seen \in 0..MaxEncoders
  BY <1>1, <1>2 DEF RequestKnows, RequestStates, Player
<1>4. /\ \A c \in Channels : tv[c] \in 0..MaxEncoders
      /\ \A k \in Owned : local[k] \in 0..MaxEncoders
  BY <1>1 DEF SessionsTyped
<1>5. \A n \in 0..MaxEncoders : n # 0 => n \in Encoders
  BY SessionsAssumption DEF Encoders
<1> QED
  BY <1>1, <1>3, <1>4, <1>5 DEF RequestFacts, Owned

(* stopTaterFilePlaybackForPlayer takes all titles of the player out of    *)
(* the map and stops them: the player may go on to a channel.              *)
LEMMA ReleaseKeeps ==
    ASSUME SessInv, NEW r \in Requests, ReleaseTitles(r)
    PROVE  SessInv'
<1>0. RequestFacts(r)
  BY RequestFactsHold
<1> DEFINE p == Player(r)
           mine == {k \in Owned : k[1] = p /\ local[k] # 0}
<1>1. /\ request[r].at = "release" /\ UNCHANGED <<happening, tv, channelOf>>
      /\ local' = [k \in Owned |-> IF k \in mine THEN 0 ELSE local[k]]
      /\ superseded' = superseded \cup mine
  BY DEF ReleaseTitles
<1>2. p \in Players /\ For(r) \in Channels \cup {"stop"}
  BY <1>0, <1>1 DEF RequestFacts, RequestKnows, For
<1>3. \A i \in Encoders :
        /\ encoder[i] \in EncoderStates
        /\ encoder'[i] \in {StopOf(encoder[i]), UntrackOf(encoder[i]), encoder[i]}
        /\ i \in {local[k] : k \in mine} => encoder'[i] = StopOf(encoder[i])
  BY <1>0 DEF ReleaseTitles, RequestFacts, SessionsTyped
<1>4. encoder' = [i \in Encoders |-> encoder'[i]]
  BY DEF ReleaseTitles
<1>5. \A i \in Encoders : Stays(encoder[i], encoder'[i]) /\ (encoder'[i].cancelled \/ encoder'[i] = encoder[i])
  BY <1>3, Changes
<1>5a. \A k \in mine : local[k] \in Encoders => encoder'[local[k]].cancelled
  BY <1>3, Changes
<1>6. Evolves({})
  BY <1>4, <1>5 DEF Evolves, Stays, Alive, Finished
<1>7. Shrinks
  BY <1>0, <1>1, <1>5a DEF Shrinks, RequestFacts, EndsAs
<1>8. \A t \in Titles : local'[<<p, t>>] = 0
  BY <1>0, <1>1, <1>2 DEF RequestFacts
<1>9. PICK at \in {"unbind", "remove", "bind"} :
        /\ request' \in [Requests -> RequestStates] /\ OthersWait(r)
        /\ request'[r].at = at /\ request'[r].for = For(r) /\ request'[r].player = p
        /\ at = "unbind" => For(r) = "stop"
        /\ at \in {"remove", "bind"} => For(r) \in Channels
        /\ at = "remove" => request'[r].seen # 0 /\ request'[r].seen \in Encoders /\ Finished(request'[r].seen)
  <2>1. CASE For(r) = "stop"
    BY <1>0, <2>1, GotoRequest DEF ReleaseTitles, RequestFacts, RequestAts, For, Player
  <2>2. CASE For(r) # "stop" /\ tv[For(r)] # 0 /\ Finished(tv[For(r)])
    <3>1. tv[For(r)] \in 0..MaxEncoders /\ tv[For(r)] \in Encoders
      BY <1>0, <1>2, <2>2 DEF RequestFacts
    <3>2. Found(r, tv[For(r)], "remove")
      BY <2>2 DEF ReleaseTitles
    <3> QED
      BY <1>0, <1>2, <2>2, <3>1, <3>2, FoundRequest DEF RequestFacts, RequestAts, For, Player
  <2>3. CASE For(r) # "stop" /\ ~ (tv[For(r)] # 0 /\ Finished(tv[For(r)]))
    BY <1>0, <1>2, <2>3, GotoRequest DEF ReleaseTitles, RequestFacts, RequestAts, For, Player
  <2> QED
    BY <2>1, <2>2, <2>3
<1>10. SessionsTyped'
  BY <1>0, <1>1, <1>6, <1>9, SessionsAssumption DEF SessionsTyped, Evolves, RequestFacts
<1>11. at = "remove" => encoder'[request'[r].seen].at \in {"done", "failed"}
  BY <1>5, <1>9 DEF Stays, Finished
<1>12. RequestKnows(r)'
  BY <1>2, <1>9, <1>11, SessionsAssumption DEF RequestKnows, Finished, Things
<1> HIDE DEF mine
<1> QED
  BY <1>1, <1>2, <1>6, <1>7, <1>8, <1>9, <1>10, <1>12, RequestShrinks, SessionsAssumption DEF Player

(* removeIfSame stops the session it removes, if it is still the same.     *)
LEMMA RemoveChannelKeeps ==
    ASSUME SessInv, NEW r \in Requests, RemoveChannel(r)
    PROVE  SessInv'
<1>0. RequestFacts(r)
  BY RequestFactsHold
<1> DEFINE c == For(r)
<1>1. request[r].at = "remove" /\ c \in Channels /\ Goto(r, "bind") /\ UNCHANGED <<happening, local, superseded>>
  BY DEF RemoveChannel
<1>2. /\ request' \in [Requests -> RequestStates] /\ OthersWait(r)
      /\ request'[r].at = "bind" /\ request'[r].for = c /\ request'[r].player = Player(r)
  BY <1>0, <1>1, GotoRequest DEF RequestFacts, RequestAts, For, Player
<1>3. \/ UNCHANGED <<tv, channelOf, encoder>>
      \/ /\ tv' = [tv EXCEPT ![c] = 0] /\ channelOf' = WithoutPlayersOf({c})
         /\ encoder' = StopAll({tv[c]})
  BY DEF RemoveChannel
<1>4. Evolves({}) /\ Shrinks
  <2>1. CASE UNCHANGED <<tv, channelOf, encoder>>
    BY <1>0, <1>1, <2>1, SameEvolves DEF RequestFacts, Shrinks
  <2>2. CASE tv' = [tv EXCEPT ![c] = 0] /\ encoder' = StopAll({tv[c]})
    <3>1. Evolves({}) /\ \A i \in Encoders : i = tv[c] => EndsAs(encoder'[i])
      BY <1>0, <2>2, StopsEvolve DEF RequestFacts
    <3> QED
      BY <1>0, <1>1, <2>2, <3>1 DEF RequestFacts, Shrinks, SessionsTyped
  <2> QED
    BY <1>3, <2>1, <2>2
<1>5. /\ channelOf' \in [Players -> Channels \cup {NoChannel}]
      /\ \A p \in Players : channelOf'[p] \in {channelOf[p], NoChannel}
  BY <1>0, <1>3 DEF RequestFacts, SessionsTyped, WithoutPlayersOf
<1>6. SessionsTyped'
  BY <1>0, <1>1, <1>2, <1>3, <1>4, <1>5, SessionsAssumption DEF RequestFacts, SessionsTyped, Evolves
<1>7. RequestKnows(r)'
  BY <1>0, <1>1, <1>2 DEF RequestFacts, RequestKnows, Player
<1>8. "overlap" \notin happening => \A t \in Titles : local'[<<Player(r), t>>] = 0
  BY <1>1 DEF SessInv, OneAtATime
<1> QED
  BY <1>1, <1>2, <1>4, <1>5, <1>6, <1>7, <1>8, RequestShrinks, SessionsAssumption DEF Player

(* bindPlayer and unbindPlayer.                                            *)
LEMMA BindShrinks ==
    ASSUME SessionsTyped, NEW p \in Players, NEW c \in Channels \cup {NoChannel}, Bind(p, c),
           UNCHANGED local, \A d \in Channels : tv[d] # 0 => tv[d] \in Encoders
    PROVE  /\ Evolves({}) /\ Shrinks
           /\ channelOf' \in [Players -> Channels \cup {NoChannel}] /\ channelOf'[p] = c
           /\ \A q \in Players : q # p => channelOf'[q] = channelOf[q]
           /\ tv' \in [Channels -> 0..MaxEncoders]
<1> DEFINE was == channelOf[p]
<1>1. channelOf' = [channelOf EXCEPT ![p] = c]
  BY DEF Bind
<1>2. \/ UNCHANGED <<tv, encoder>>
      \/ was \in Channels /\ tv' = [tv EXCEPT ![was] = 0] /\ tv[was] # 0 /\ encoder' = StopAll({tv[was]})
      \/ was \in Channels /\ tv' = [tv EXCEPT ![was] = 0] /\ tv[was] = 0 /\ UNCHANGED encoder
  BY DEF Bind, SessionsTyped
<1>3. /\ channelOf' \in [Players -> Channels \cup {NoChannel}] /\ channelOf'[p] = c
      /\ \A q \in Players : q # p => channelOf'[q] = channelOf[q]
  BY <1>1 DEF SessionsTyped
<1>4. tv' \in [Channels -> 0..MaxEncoders]
  BY <1>2, SessionsAssumption DEF SessionsTyped
<1>5. Evolves({}) /\ Shrinks
  <2>1. CASE UNCHANGED <<tv, encoder>>
    BY <2>1, SameEvolves DEF Shrinks
  <2>2. CASE was \in Channels /\ tv' = [tv EXCEPT ![was] = 0] /\ tv[was] # 0 /\ encoder' = StopAll({tv[was]})
    <3>1. Evolves({}) /\ \A i \in Encoders : i = tv[was] => EndsAs(encoder'[i])
      BY <2>2, StopsEvolve
    <3> HIDE DEF was
    <3> QED
      BY <2>2, <3>1 DEF Shrinks, SessionsTyped
  <2>3. CASE was \in Channels /\ tv' = [tv EXCEPT ![was] = 0] /\ tv[was] = 0 /\ UNCHANGED encoder
    BY <2>3, SameEvolves DEF Shrinks, SessionsTyped
  <2> QED
    BY <1>2, <2>1, <2>2, <2>3
<1> QED
  BY <1>3, <1>4, <1>5

(* A player gets a channel after its titles were given up.                 *)
LEMMA BindKeeps ==
    ASSUME SessInv, NEW r \in Requests, BindPlayer(r)
    PROVE  SessInv'
<1>0. RequestFacts(r)
  BY RequestFactsHold
<1> DEFINE p == Player(r)
           c == For(r)
<1>1. request[r].at = "bind" /\ Bind(p, c) /\ Goto(r, "get") /\ UNCHANGED <<happening, local, superseded>>
  BY DEF BindPlayer
<1>2. p \in Players /\ c \in Channels
  BY <1>0, <1>1 DEF RequestFacts, RequestKnows, For
<1>3. /\ request' \in [Requests -> RequestStates] /\ OthersWait(r)
      /\ request'[r].at = "get" /\ request'[r].for = c /\ request'[r].player = p
  BY <1>0, <1>1, GotoRequest DEF RequestFacts, RequestAts, For, Player
<1>4. /\ Evolves({}) /\ Shrinks
      /\ channelOf' \in [Players -> Channels \cup {NoChannel}]
      /\ \A q \in Players : q # p => channelOf'[q] = channelOf[q]
      /\ tv' \in [Channels -> 0..MaxEncoders]
  BY <1>0, <1>1, <1>2, BindShrinks DEF RequestFacts
<1>5. SessionsTyped'
  BY <1>0, <1>1, <1>3, <1>4 DEF RequestFacts, SessionsTyped, Evolves
<1>6. RequestKnows(r)'
  BY <1>2, <1>3, SessionsAssumption DEF RequestKnows
<1>7. "overlap" \notin happening => \A t \in Titles : local'[<<p, t>>] = 0
  BY <1>1, <1>2 DEF SessInv, OneAtATime
<1> QED
  BY <1>1, <1>3, <1>4, <1>5, <1>6, <1>7, RequestShrinks DEF Player

(* A player that is to get a title has no channel.                         *)
LEMMA UnbindKeeps ==
    ASSUME SessInv, NEW r \in Requests, UnbindPlayer(r)
    PROVE  SessInv'
<1>0. RequestFacts(r)
  BY RequestFactsHold
<1> DEFINE p == Player(r)
<1>1. /\ request[r].at = "unbind" /\ Bind(p, NoChannel) /\ UNCHANGED <<happening, local, superseded>>
      /\ IF For(r) = "stop" THEN Leaves(r) ELSE Goto(r, "look")
  BY DEF UnbindPlayer, UnboundTo
<1>2. p \in Players /\ For(r) \in Titles \cup {"stop"}
  BY <1>0, <1>1 DEF RequestFacts, RequestKnows, For
<1>3. /\ request' \in [Requests -> RequestStates] /\ OthersWait(r)
      /\ \/ request'[r].at = "idle" /\ request'[r].player = "none"
         \/ request'[r].at = "look" /\ request'[r].player = p /\ request'[r].for \in Titles
  <2>1. CASE For(r) = "stop"
    BY <1>0, <1>1, <2>1, LeavingRequest DEF RequestFacts
  <2>2. CASE For(r) # "stop"
    BY <1>0, <1>1, <1>2, <2>2, GotoRequest DEF RequestFacts, RequestAts, For, Player
  <2> QED
    BY <2>1, <2>2
<1>4. /\ Evolves({}) /\ Shrinks
      /\ channelOf' \in [Players -> Channels \cup {NoChannel}] /\ channelOf'[p] = NoChannel
      /\ \A q \in Players : q # p => channelOf'[q] = channelOf[q]
      /\ tv' \in [Channels -> 0..MaxEncoders]
  BY <1>0, <1>1, <1>2, BindShrinks DEF RequestFacts
<1>5. SessionsTyped'
  BY <1>0, <1>1, <1>3, <1>4 DEF RequestFacts, SessionsTyped, Evolves
<1>6. RequestKnows(r)'
  BY <1>2, <1>3, SessionsAssumption DEF RequestKnows
<1> QED
  BY <1>1, <1>2, <1>3, <1>4, <1>5, <1>6, RequestShrinks, SessionsAssumption DEF Player

(* The steps that look at the maps and touch a session.                    *)
LEMMA LooksKeep ==
    ASSUME SessInv, NEW r \in Requests, GetChannel(r) \/ PlaylistServed(r) \/ LookForTitle(r)
    PROVE  SessInv'
<1>0. RequestFacts(r)
  BY RequestFactsHold
<1> DEFINE p == Player(r)
<1>1. UNCHANGED <<happening, tv, channelOf, local, superseded>>
  BY DEF GetChannel, PlaylistServed, LookForTitle
<1>2. UNCHANGED encoder \/ \E i \in 0..MaxEncoders : encoder' = With({i}, TouchOf)
  <2>1. CASE GetChannel(r)
    <3>1. tv[For(r)] \in 0..MaxEncoders
      BY <1>0, <2>1 DEF GetChannel, RequestFacts, RequestKnows, For
    <3> QED
      BY <2>1, <3>1 DEF GetChannel
  <2>2. CASE PlaylistServed(r)
    BY <2>2 DEF PlaylistServed
  <2>3. CASE LookForTitle(r)
    <3>1. local[Key(r)] \in 0..MaxEncoders
      BY <1>0, <2>3 DEF LookForTitle, RequestFacts, Key
    <3> QED
      BY <2>3, <3>1 DEF LookForTitle
  <2> QED
    BY <2>1, <2>2, <2>3
<1>3. Evolves({})
  BY <1>0, <1>2, SameEvolves, TouchesEvolve DEF RequestFacts
<1>4. request[r].at # "idle"
  BY DEF GetChannel, PlaylistServed, LookForTitle
<1>5. /\ request' \in [Requests -> RequestStates] /\ OthersWait(r)
      /\ \/ request'[r].at = "idle" /\ request'[r].player = "none"
         \/ request'[r].at = "watch" /\ request'[r].player = p
         \/ request'[r].at = "add" /\ request'[r].player = p /\ request'[r].for = For(r) /\ For(r) \in Channels
         \/ /\ request'[r].at = "add" /\ request'[r].player = p /\ request'[r].for = For(r) /\ For(r) \in Titles
            /\ request[r].at = "look"
         \/ /\ request'[r].at = "remove" /\ request'[r].player = p /\ request'[r].for = For(r) /\ For(r) \in Titles
            /\ request[r].at = "look" /\ request'[r].seen = local[Key(r)] /\ local[Key(r)] # 0
  <2>1. CASE GetChannel(r)
    <3>1. For(r) \in Channels
      BY <1>0, <2>1 DEF GetChannel, RequestFacts, RequestKnows, For
    <3>2. Goto(r, "add") \/ Goto(r, "watch")
      BY <2>1 DEF GetChannel
    <3> QED
      BY <1>0, <3>1, <3>2, GotoRequest DEF RequestFacts, RequestAts, For, Player
  <2>2. CASE PlaylistServed(r)
    BY <1>0, <2>2, LeavingRequest DEF PlaylistServed, RequestFacts
  <2>3. CASE LookForTitle(r)
    <3>1. local[Key(r)] \in 0..MaxEncoders /\ For(r) \in Titles /\ request[r].at = "look"
      BY <1>0, <2>3 DEF LookForTitle, RequestFacts, Key
    <3>2. Goto(r, "add") \/ Goto(r, "watch") \/ (local[Key(r)] # 0 /\ Found(r, local[Key(r)], "remove"))
      BY <2>3 DEF LookForTitle
    <3> QED
      BY <1>0, <3>1, <3>2, GotoRequest, FoundRequest DEF RequestFacts, RequestAts, For, Player
  <2> QED
    BY <2>1, <2>2, <2>3
<1>6. SessionsTyped' /\ Shrinks
  BY <1>0, <1>1, <1>3, <1>5 DEF RequestFacts, SessionsTyped, Evolves, Shrinks
<1>7. request'[r].at = "remove" => encoder'[request'[r].seen].of \in Titles
  <2> SUFFICES ASSUME request'[r].at = "remove"
               PROVE  encoder'[request'[r].seen].of \in Titles
    OBVIOUS
  <2>1. p \in Players /\ For(r) \in Titles /\ request'[r].seen = local[<<p, For(r)>>] /\ local[<<p, For(r)>>] # 0
    BY <1>0, <1>4, <1>5 DEF RequestFacts, Key
  <2>2. encoder[request'[r].seen].of = For(r) /\ request'[r].seen \in Encoders
    BY <1>0, <2>1 DEF SessInv, MapsInv, MapsAreTrue, RequestFacts
  <2> QED
    BY <1>3, <2>1, <2>2 DEF Evolves
<1>8. RequestKnows(r)'
  BY <1>0, <1>4, <1>5, <1>7, SessionsAssumption DEF RequestKnows, RequestFacts, Things
<1>9. "overlap" \notin happening =>
        /\ p \in Players /\ channelOf'[p] # NoChannel => \A t \in Titles : local'[<<p, t>>] = 0
        /\ request[r].at = "look" /\ For(r) \in Titles => channelOf'[p] = NoChannel
  BY <1>1 DEF SessInv, OneAtATime
<1>10. "none" \notin Players /\ Channels \cap Titles = {}
  BY SessionsAssumption
<1> QED
  BY <1>1, <1>3, <1>5, <1>6, <1>8, <1>9, <1>10, RequestShrinks DEF Player

(* A title's finished session leaves the map before it is started again.   *)
LEMMA RemoveTitleKeeps ==
    ASSUME SessInv, NEW r \in Requests, RemoveTitle(r)
    PROVE  SessInv'
<1>0. RequestFacts(r)
  BY RequestFactsHold
<1> DEFINE i == request[r].seen
<1>1. /\ request[r].at = "remove" /\ For(r) \in Titles /\ Goto(r, "add")
      /\ encoder' = StopAll({i}) /\ UNCHANGED <<happening, tv, channelOf, superseded>>
  BY DEF RemoveTitle
<1>2. /\ request' \in [Requests -> RequestStates] /\ OthersWait(r)
      /\ request'[r].at = "add" /\ request'[r].for = For(r) /\ request'[r].player = Player(r)
  BY <1>0, <1>1, GotoRequest DEF RequestFacts, RequestAts, For, Player
<1>3. Evolves({}) /\ \A j \in Encoders : j = i => EndsAs(encoder'[j])
  BY <1>0, <1>1, StopsEvolve DEF RequestFacts
<1>4. /\ local' \in [Owned -> 0..MaxEncoders]
      /\ \A k \in Owned : local'[k] = local[k] \/ (local'[k] = 0 /\ local[k] = i)
  <2>1. local \in [Owned -> 0..MaxEncoders] /\ 0 \in 0..MaxEncoders
    BY <1>0, SessionsAssumption DEF RequestFacts, SessionsTyped
  <2>2. CASE local[Key(r)] = i
    <3>1. local' = [local EXCEPT ![Key(r)] = 0]
      BY <2>2 DEF RemoveTitle
    <3> QED
      BY <2>1, <2>2, <3>1
  <2>3. CASE local[Key(r)] # i
    BY <2>1, <2>3 DEF RemoveTitle
  <2> QED
    BY <2>2, <2>3
<1>5. Shrinks
  BY <1>0, <1>1, <1>3, <1>4 DEF Shrinks, RequestFacts
<1>6. SessionsTyped'
  BY <1>0, <1>1, <1>2, <1>3, <1>4 DEF RequestFacts, SessionsTyped, Evolves
<1>7. RequestKnows(r)'
  BY <1>0, <1>1, <1>2 DEF RequestFacts, RequestKnows, Player, Things
<1>8. "overlap" \notin happening => channelOf'[Player(r)] = NoChannel
  BY <1>1 DEF SessInv, OneAtATime
<1>9. For(r) \notin Channels
  BY <1>1, SessionsAssumption
<1> QED
  BY <1>1, <1>2, <1>3, <1>5, <1>6, <1>7, <1>8, <1>9, RequestShrinks DEF Player

(* The session that a request has put into the map is tracked and started  *)
(* by that request; a cancelled one is done at once.                       *)
LEMMA TrackKeeps ==
    ASSUME SessInv, NEW r \in Requests, TrackTitle(r) \/ GoTitle(r)
    PROVE  SessInv'
<1>0. RequestFacts(r)
  BY RequestFactsHold
<1> DEFINE i == request[r].seen
           p == Player(r)
<1>1. request[r].at \in {"track", "go"} /\ UNCHANGED <<happening, tv, channelOf, local, superseded>>
  BY DEF TrackTitle, GoTitle
<1>2. p \in Players /\ i \in Encoders /\ encoder[i].at = "made" /\ encoder[i].of \in Titles /\ For(r) \in Titles
  BY <1>0, <1>1, SessionsAssumption DEF RequestFacts, RequestKnows, For, Encoders
<1>3. /\ request' \in [Requests -> RequestStates] /\ OthersWait(r)
      /\ request'[r].for = For(r) /\ request'[r].player = p /\ request'[r].seen = i
      /\ \/ TrackTitle(r) /\ request'[r].at = "go" /\ request[r].at = "track"
         \/ GoTitle(r) /\ request'[r].at = "watch" /\ request[r].at = "go"
  BY <1>0, GotoRequest DEF TrackTitle, GoTitle, RequestFacts, RequestAts, For, Player
<1>4. encoder[i] \in EncoderStates
  BY <1>0, <1>2 DEF RequestFacts, SessionsTyped
<1>5. CASE TrackTitle(r)
  <2>1. encoder' = [encoder EXCEPT ![i] = [encoder[i] EXCEPT !.tracked = TRUE]]
    BY <1>5 DEF TrackTitle
  <2>2. Stays(encoder[i], encoder'[i]) /\ encoder'[i].cancelled = encoder[i].cancelled
    BY <1>0, <1>2, <1>4, <2>1, FlagChanges DEF RequestFacts, SessionsTyped
  <2>3. Evolves({})
    BY <1>0, <2>1, <2>2 DEF RequestFacts, SessionsTyped, Evolves, Stays, Alive, Finished
  <2>4. SessionsTyped' /\ Shrinks
    BY <1>0, <1>1, <1>3, <2>3 DEF RequestFacts, SessionsTyped, Evolves, Shrinks
  <2>5. request'[r].at = "go" /\ request[r].at = "track"
    BY <1>3, <1>5 DEF TrackTitle, GoTitle
  <2>6. RequestKnows(r)'
    BY <1>0, <1>1, <1>2, <1>3, <2>2, <2>5, SessionsAssumption DEF RequestKnows, RequestFacts, Stays
  <2>7. "overlap" \notin happening /\ channelOf'[p] # NoChannel => \A t \in Titles : local'[<<p, t>>] = 0
    BY <1>1, <1>2 DEF SessInv, OneAtATime
  <2> QED
    BY <1>1, <1>3, <2>3, <2>4, <2>5, <2>6, <2>7, RequestShrinks DEF Player
<1>6. CASE GoTitle(r)
  <2>1. PICK at \in {"done", "running"} :
          /\ encoder' = [encoder EXCEPT ![i] = [encoder[i] EXCEPT !.at = at]]
          /\ encoder[i].cancelled => at = "done"
    BY <1>6 DEF GoTitle
  <2>2. /\ encoder'[i] \in EncoderStates /\ encoder'[i].at = at
        /\ encoder'[i].cancelled = encoder[i].cancelled
        /\ encoder'[i].of = encoder[i].of /\ encoder'[i].player = encoder[i].player
        /\ \A j \in Encoders : j # i => encoder'[j] = encoder[j]
    BY <1>0, <1>2, <1>4, <2>1 DEF RequestFacts, SessionsTyped, EncoderStates
  <2>3. request'[r].at = "watch" /\ request[r].at = "go"
    BY <1>3, <1>6 DEF TrackTitle, GoTitle
  <2>4. Going(i)
    BY <2>3 DEF Going
  <2>5. encoder' \in [Encoders -> EncoderStates]
    BY <1>0, <2>1, <2>2 DEF RequestFacts, SessionsTyped
  <2>6. Evolves({})
    BY <1>2, <2>1, <2>2, <2>4, <2>5 DEF Evolves, Alive, Finished
  <2>7. SessionsTyped' /\ Shrinks
    BY <1>0, <1>1, <1>3, <2>6 DEF RequestFacts, SessionsTyped, Evolves, Shrinks
  <2>8. RequestKnows(r)'
    BY <1>2, <1>3, <2>3, SessionsAssumption DEF RequestKnows
  <2>9. "overlap" \notin happening /\ channelOf'[p] # NoChannel => \A t \in Titles : local'[<<p, t>>] = 0
    BY <1>1, <1>2 DEF SessInv, OneAtATime
  <2> QED
    BY <1>1, <1>3, <2>3, <2>6, <2>7, <2>8, <2>9, RequestShrinks DEF Player
<1> QED
  BY <1>5, <1>6

(* The steps of the encoders.                                              *)
LEMMA EncodersKeep ==
    ASSUME SessInv, NEW i \in Encoders, EncoderStep(i)
    PROVE  SessInv'
<1>0. SessionsTyped
  BY DEF SessInv, MapsInv
<1> DEFINE e == encoder[i]
<1>1. e \in EncoderStates /\ Channels \cap Titles = {}
  BY <1>0, SessionsAssumption DEF SessionsTyped
<1>2. UNCHANGED <<happening, tv, channelOf, superseded, request>>
  BY DEF EncoderStep, RunBegins, RunEnds, RunFails, IdleEnds, GoesIdle, GoesOld, StreamIsKilled
<1> DEFINE after(f) ==
             /\ f \in EncoderStates /\ f.of = e.of /\ f.player = e.player
             /\ f.at = "unborn" <=> e.at = "unborn"
             /\ e.at \in {"done", "failed"} => f.at \in {"done", "failed"}
             /\ e.at = "made" => f.at = "made" \/ e.of \in Channels
             /\ EndsAs(f) \/ ~ EndsAs(e)
<1>3. ASSUME NEW f, after(f), encoder' = [encoder EXCEPT ![i] = f],
             UNCHANGED local \/ (local' = LocalWithout(i) /\ EndsAs(f))
      PROVE  SessInv'
  <2>1. encoder'[i] = f /\ \A j \in Encoders : j # i => encoder'[j] = encoder[j]
    BY <1>0, <1>3 DEF SessionsTyped
  <2>2. encoder' \in [Encoders -> EncoderStates]
    BY <1>0, <1>3 DEF SessionsTyped
  <2>3. Evolves({})
    BY <1>1, <1>3, <2>1, <2>2 DEF Evolves, Alive, Finished, EndsAs
  <2>4. /\ local' \in [Owned -> 0..MaxEncoders]
        /\ \A k \in Owned : local'[k] = local[k] \/ (local'[k] = 0 /\ local[k] = i /\ EndsAs(f))
    BY <1>0, <1>3, SessionsAssumption DEF SessionsTyped, LocalWithout
  <2>5. Shrinks
    BY <1>2, <2>1, <2>4 DEF Shrinks
  <2>6. SessionsTyped'
    BY <1>0, <1>2, <2>2, <2>4 DEF SessionsTyped
  <2>7. \A p \in Players : channelOf'[p] = channelOf[p]
    BY <1>2
  <2> QED
    BY <1>2, <2>3, <2>5, <2>6, <2>7, BackgroundKeeps
<1>4. encoder = [j \in Encoders |-> encoder[j]]
  BY <1>0 DEF SessionsTyped
<1>5. /\ With({i}, DoneOf) = [encoder EXCEPT ![i] = DoneOf(e)]
      /\ With({i}, StopOf) = [encoder EXCEPT ![i] = StopOf(e)]
      /\ With({i}, UntrackOf) = [encoder EXCEPT ![i] = UntrackOf(e)]
  BY <1>4 DEF With
<1>6. CASE RunBegins(i)
  <2> DEFINE f == [e EXCEPT !.at = "running", !.root = TRUE]
  <2>1. encoder' = [encoder EXCEPT ![i] = f] /\ UNCHANGED local /\ e.at = "made" /\ e.of \in Channels
    BY <1>6 DEF RunBegins, IsTV
  <2>2. after(f)
    BY <1>1, <2>1 DEF EncoderStates, EndsAs
  <2> QED
    BY <1>3, <2>1, <2>2
<1>7. CASE RunEnds(i)
  <2>1. encoder' = [encoder EXCEPT ![i] = DoneOf(e)] /\ UNCHANGED local /\ e.at = "running"
    BY <1>5, <1>7 DEF RunEnds
  <2>2. after(DoneOf(e))
    BY <1>1, <2>1, DoneChange DEF EndsAs
  <2> QED
    BY <1>3, <2>1, <2>2
<1>8. CASE RunFails(i)
  <2> DEFINE f == [StopOf(e) EXCEPT !.at = "failed"]
  <2>1. encoder' = [encoder EXCEPT ![i] = f] /\ local' = LocalWithout(i) /\ e.at = "running"
    BY <1>8 DEF RunFails
  <2>2. StopOf(e) \in EncoderStates /\ StopOf(e).of = e.of /\ StopOf(e).player = e.player
    BY <1>1, Changes DEF Stays
  <2>3. f \in EncoderStates /\ f.of = e.of /\ f.player = e.player /\ f.at = "failed"
    BY <2>2 DEF EncoderStates
  <2>4. after(f) /\ EndsAs(f)
    BY <2>1, <2>3 DEF EndsAs
  <2> QED
    BY <1>3, <2>1, <2>4
<1>9. CASE IdleEnds(i)
  <2>1. \/ e.at = "running" /\ encoder' = [encoder EXCEPT ![i] = DoneOf(e)] /\ UNCHANGED local
        \/ encoder' = [encoder EXCEPT ![i] = StopOf(e)] /\ local' = LocalWithout(i)
    BY <1>5, <1>9 DEF IdleEnds, StopAll
  <2>2. e.at = "running" => after(DoneOf(e))
    BY <1>1, DoneChange DEF EndsAs
  <2>3. after(StopOf(e)) /\ EndsAs(StopOf(e))
    BY <1>1, Changes DEF EndsAs, Stays
  <2> QED
    BY <1>3, <2>1, <2>2, <2>3
<1>10. CASE GoesIdle(i) \/ GoesOld(i) \/ StreamIsKilled(i)
  <2>1. PICK f : f \in {[e EXCEPT !.idle = TRUE], [e EXCEPT !.old = TRUE], UntrackOf(e), [e EXCEPT !.cancelled = TRUE]}
                 /\ encoder' = [encoder EXCEPT ![i] = f]
    BY <1>5, <1>10 DEF GoesIdle, GoesOld, StreamIsKilled
  <2>2. Stays(e, f) /\ (f.cancelled = e.cancelled \/ f.cancelled)
    BY <1>1, <2>1, Changes, FlagChanges
  <2>3. after(f)
    BY <2>2 DEF Stays, EndsAs
  <2>4. UNCHANGED local
    BY <1>10 DEF GoesIdle, GoesOld, StreamIsKilled
  <2> QED
    BY <1>3, <2>1, <2>3, <2>4
<1> QED
  BY <1>6, <1>7, <1>8, <1>9, <1>10 DEF EncoderStep

(* Segments, forgotten generations, maintenance and a reset of the guide:  *)
(* what they stop leaves the maps.                                         *)
LEMMA OtherBackgroundKeeps ==
    ASSUME SessInv,
           \/ \E i \in Encoders, p \in Players : SegmentServed(p, i)
           \/ \E k \in Owned : Forget(k)
           \/ Maintenance \/ Reset
    PROVE  SessInv'
<1>0. SessionsTyped /\ \A c \in Channels : tv[c] # 0 => tv[c] \in Encoders
  BY SessionsAssumption DEF SessInv, MapsInv, SessionsTyped, Encoders
<1>1. ASSUME NEW i \in Encoders, NEW p \in Players, SegmentServed(p, i)
      PROVE  SessInv'
  <2>1. encoder' = With({i}, TouchOf) /\ UNCHANGED <<happening, tv, channelOf, local, superseded, request>>
    BY <1>1 DEF SegmentServed
  <2>2. Evolves({})
    BY <1>0, <2>1, TouchesEvolve
  <2>3. SessionsTyped' /\ Shrinks
    BY <1>0, <2>1, <2>2 DEF SessionsTyped, Evolves, Shrinks
  <2> QED
    BY <2>1, <2>2, <2>3, BackgroundKeeps
<1>2. ASSUME NEW k \in Owned, Forget(k)
      PROVE  SessInv'
  <2>1. superseded' \subseteq superseded /\ UNCHANGED <<happening, tv, channelOf, local, encoder, request>>
    BY <1>2 DEF Forget
  <2>2. Evolves({})
    BY <1>0, <2>1, SameEvolves
  <2>3. SessionsTyped' /\ Shrinks
    BY <1>0, <2>1, <2>2 DEF SessionsTyped, Evolves, Shrinks
  <2> QED
    BY <2>1, <2>2, <2>3, BackgroundKeeps
<1>3. CASE Maintenance
  <2> DEFINE X == {tv[c] : c \in Pruned}
             kept(i) == i \in OnTV \ {tv[c] : c \in Pruned} \/ ~ encoder[i].old
  <2>1. /\ tv' = [c \in Channels |-> IF c \in Pruned THEN 0 ELSE tv[c]]
        /\ channelOf' = WithoutPlayersOf(Pruned)
        /\ encoder' = [i \in Encoders |-> [Prune[i] EXCEPT !.root = @ /\ kept(i)]]
        /\ UNCHANGED <<happening, local, superseded, request>>
    BY <1>3 DEF Maintenance
  <2>2. \A i \in Encoders : /\ encoder[i] \in EncoderStates
                             /\ Prune[i] = IF i \in X THEN StopOf(encoder[i]) ELSE encoder[i]
    BY <1>0 DEF Prune, StopAll, With, SessionsTyped
  <2>3. \A i \in Encoders : /\ Stays(encoder[i], Prune[i]) /\ Prune[i] \in EncoderStates
                             /\ (Prune[i].cancelled \/ Prune[i] = encoder[i])
                             /\ (i \in X => Prune[i].cancelled)
    BY <2>2, Changes DEF Stays
  <2> HIDE DEF X, kept
  <2>4. ASSUME NEW i \in Encoders
        PROVE  /\ Stays(encoder[i], encoder'[i]) /\ (encoder'[i].cancelled \/ encoder'[i].cancelled = encoder[i].cancelled)
               /\ (i \in X => encoder'[i].cancelled)
    <3>1. PICK e : e = Prune[i]
      OBVIOUS
    <3>2. e \in EncoderStates
      BY <2>3, <3>1
    <3>3. encoder'[i] = [e EXCEPT !.root = e.root /\ kept(i)]
      BY <2>1, <3>1
    <3>4. PICK b \in BOOLEAN : encoder'[i] = [e EXCEPT !.root = b]
      BY <3>3
    <3>5. Stays(e, [e EXCEPT !.root = b]) /\ [e EXCEPT !.root = b].cancelled = e.cancelled
      BY <3>2, FlagChanges
    <3>6. Stays(e, encoder'[i]) /\ encoder'[i].cancelled = e.cancelled
      BY <3>4, <3>5
    <3> QED
      BY <2>3, <3>1, <3>6 DEF Stays
  <2>5. encoder' = [i \in Encoders |-> encoder'[i]]
    BY <2>1
  <2>6. Evolves({})
    BY <2>4, <2>5 DEF Evolves, Stays, Alive, Finished
  <2>7. \A c \in Pruned : tv[c] \in X
    BY DEF X
  <2>8. Shrinks
    BY <1>0, <2>1, <2>4, <2>7 DEF Shrinks, EndsAs
  <2>9. /\ channelOf' \in [Players -> Channels \cup {NoChannel}]
        /\ \A p \in Players : channelOf'[p] \in {channelOf[p], NoChannel}
    BY <1>0, <2>1 DEF SessionsTyped, WithoutPlayersOf
  <2>10. tv' \in [Channels -> 0..MaxEncoders]
    <3>1. 0 \in 0..MaxEncoders /\ \A c \in Channels : tv[c] \in 0..MaxEncoders
      BY <1>0, SessionsAssumption DEF SessionsTyped
    <3> QED
      BY <2>1, <3>1
  <2>11. SessionsTyped'
    BY <1>0, <2>1, <2>6, <2>9, <2>10 DEF SessionsTyped, Evolves
  <2> QED
    BY <2>1, <2>6, <2>8, <2>9, <2>11, BackgroundKeeps
<1>4. CASE Reset
  <2>1. /\ encoder' = StopAll(OnTV) /\ UNCHANGED <<happening, local, superseded, request>>
        /\ tv' = [c \in Channels |-> 0] /\ channelOf' = [p \in Players |-> NoChannel]
    BY <1>4 DEF Reset
  <2>2. Evolves({}) /\ \A i \in Encoders : i \in OnTV => EndsAs(encoder'[i])
    BY <1>0, <2>1, StopsEvolve
  <2>3. \A c \in Channels : tv[c] # 0 => tv[c] \in OnTV
    BY DEF OnTV
  <2>4. Shrinks
    BY <1>0, <2>1, <2>2, <2>3 DEF Shrinks
  <2>5. /\ channelOf' \in [Players -> Channels \cup {NoChannel}]
        /\ \A p \in Players : channelOf'[p] \in {channelOf[p], NoChannel}
    BY <2>1
  <2>6. SessionsTyped'
    BY <1>0, <2>1, <2>2, <2>5, SessionsAssumption DEF SessionsTyped, Evolves
  <2> QED
    BY <2>1, <2>2, <2>4, <2>5, <2>6, BackgroundKeeps
<1> QED
  BY <1>1, <1>2, <1>3, <1>4

(* addOrGet of a channel: a new encoder is the channel's, and the pruned   *)
(* ones end.                                                               *)
LEMMA AddChannelKeeps ==
    ASSUME SessInv, NEW r \in Requests, AddChannel(r)
    PROVE  SessInv'
<1>0. RequestFacts(r)
  BY RequestFactsHold
<1>00. MapsInv /\ RequestsInv /\ OneAtATime
  BY DEF SessInv
<1> DEFINE c == For(r)
           there == tv[c] # 0 /\ c \notin Pruned
           n == Following
<1>1. /\ request[r].at = "add" /\ c \in Channels /\ Goto(r, "watch") /\ UNCHANGED <<happening, local, superseded>>
      /\ there \/ Unborn # {}
      /\ tv' = [d \in Channels |-> IF d = c /\ ~there THEN n ELSE IF d \in Pruned THEN 0 ELSE tv[d]]
      /\ channelOf' = WithoutPlayersOf(Pruned)
      /\ encoder' = IF there THEN Prune ELSE [Prune EXCEPT ![n] = StartOf(c, "none")]
  BY DEF AddChannel
<1>2. /\ request' \in [Requests -> RequestStates] /\ OthersWait(r)
      /\ request'[r].at = "watch" /\ request'[r].for = c /\ request'[r].player = Player(r)
  BY <1>0, <1>1, GotoRequest DEF RequestFacts, RequestAts, For, Player
<1>3. /\ channelOf' \in [Players -> Channels \cup {NoChannel}]
      /\ \A p \in Players : channelOf'[p] \in {channelOf[p], NoChannel}
  BY <1>0, <1>1 DEF RequestFacts, SessionsTyped, WithoutPlayersOf
<1>4. RequestKnows(r)'
  BY <1>0, <1>1, <1>2, SessionsAssumption DEF RequestFacts, RequestKnows, Player
<1>5. Pruned \subseteq Channels /\ \A d \in Pruned : tv[d] # 0 /\ tv[d] \in Encoders
  BY <1>0 DEF Pruned, RequestFacts
<1> DEFINE X == {tv[d] : d \in Pruned}
<1>6. \A i \in Encoders : /\ encoder[i] \in EncoderStates
                           /\ Prune[i] = IF i \in X THEN StopOf(encoder[i]) ELSE encoder[i]
  BY <1>0 DEF Prune, StopAll, With, RequestFacts, SessionsTyped
<1>7. /\ Prune = [i \in Encoders |-> Prune[i]]
      /\ \A i \in Encoders : /\ Stays(encoder[i], Prune[i]) /\ (Prune[i].cancelled \/ Prune[i] = encoder[i])
                             /\ (i \in X => Prune[i].cancelled)
  BY <1>6, Changes DEF Prune, StopAll, With
<1>8. \A d \in Pruned : tv[d] \in X
  OBVIOUS
<1>9. "overlap" \notin happening /\ Player(r) \in Players /\ channelOf'[Player(r)] # NoChannel =>
        \A t \in Titles : local'[<<Player(r), t>>] = 0
  BY <1>1, <1>3 DEF SessInv, OneAtATime
<1> HIDE DEF X, n
<1>10. CASE there
  <2>1. Evolves({})
    BY <1>1, <1>7, <1>10 DEF Evolves, Stays, Alive, Finished
  <2>2. Shrinks
    BY <1>1, <1>5, <1>7, <1>8, <1>10 DEF Shrinks, EndsAs
  <2>3. SessionsTyped'
    BY <1>0, <1>1, <1>2, <1>3, <1>10, <2>1, SessionsAssumption DEF RequestFacts, SessionsTyped, Evolves
  <2> QED
    BY <1>1, <1>2, <1>3, <1>4, <1>9, <2>1, <2>2, <2>3, RequestShrinks DEF Player
<1>11. CASE ~ there
  <2>0. n \in Encoders /\ n # 0 /\ n \in 0..MaxEncoders /\ encoder[n].at = "unborn"
    BY <1>1, <1>11, FollowingIsUnborn, SessionsAssumption DEF Unborn, n, Encoders
  <2>1. /\ StartOf(c, "none") \in EncoderStates /\ StartOf(c, "none").of = c /\ StartOf(c, "none").player = "none"
        /\ StartOf(c, "none").at = "made" /\ StartOf(c, "none").cancelled = FALSE
    <3>1. c \in Things /\ "none" \in Players \cup {"none"}
      BY <1>1 DEF Things
    <3> HIDE DEF c
    <3> QED
      BY <3>1, StartChange
  <2>2. /\ encoder'[n] = StartOf(c, "none") /\ \A i \in Encoders : i # n => encoder'[i] = Prune[i]
        /\ encoder' = [i \in Encoders |-> encoder'[i]]
    BY <1>1, <1>7, <1>11, <2>0
  <2>3. encoder' \in [Encoders -> EncoderStates]
    BY <1>7, <2>1, <2>2 DEF Stays
  <2>4. Evolves({n})
    BY <1>7, <2>2, <2>3 DEF Evolves, Stays, Alive, Finished
  <2>5. tv' \in [Channels -> 0..MaxEncoders] /\ tv'[c] = n
    BY <1>0, <1>1, <1>11, <2>0, SessionsAssumption DEF RequestFacts
  <2>6. SessionsTyped'
    BY <1>0, <1>1, <1>2, <1>3, <2>3, <2>5 DEF RequestFacts, SessionsTyped
  <2>7. \A d \in Channels : d # c => tv'[d] = tv[d] \/ (tv'[d] = 0 /\ encoder'[tv[d]].cancelled /\ tv[d] # n)
    <3> SUFFICES ASSUME NEW d \in Channels, d # c, tv'[d] # tv[d]
                 PROVE  tv'[d] = 0 /\ encoder'[tv[d]].cancelled /\ tv[d] # n
      OBVIOUS
    <3>1. d \in Pruned /\ tv'[d] = 0
      BY <1>1
    <3>2. encoder[tv[d]].of = d /\ encoder[n].of = "none" /\ d # "none"
      BY <1>00, <1>5, <2>0, <3>1, SessionsAssumption DEF MapsInv, MapsAreTrue
    <3> QED
      BY <1>5, <1>7, <1>8, <2>2, <3>1, <3>2
  <2>8. \A d \in Channels : tv[d] # 0 => tv[d] # n
    BY <1>00, <2>0, SessionsAssumption DEF MapsInv, MapsAreTrue
  <2>9. \A k \in Owned : local[k] # 0 => local[k] # n
    BY <1>00, <2>0, SessionsAssumption DEF MapsInv, MapsAreTrue, Owned
  <2>10. \A i \in Encoders : i # n => encoder'[i].of = encoder[i].of /\ encoder'[i].player = encoder[i].player
                                     /\ encoder'[i].at = encoder[i].at
    BY <1>7, <2>2 DEF Stays
  <2>11. tv[c] = 0 \/ EndsAs(encoder'[tv[c]])
    BY <1>1, <1>5, <1>7, <1>8, <1>11, <2>2, <2>8 DEF EndsAs
  <2>12. MapsAreTrue'
    <3>1. ASSUME NEW d \in Channels, tv'[d] # 0
          PROVE  encoder'[tv'[d]].of = d /\ encoder'[tv'[d]].player = "none"
      <4>1. CASE d = c
        BY <2>1, <2>2, <2>5, <4>1
      <4>2. CASE d # c
        <5>1. tv'[d] = tv[d] /\ tv[d] \in Encoders /\ tv[d] # n
          BY <1>0, <2>7, <2>8, <3>1, <4>2 DEF RequestFacts
        <5> QED
          BY <1>00, <2>10, <3>1, <5>1 DEF MapsInv, MapsAreTrue
      <4> QED
        BY <4>1, <4>2
    <3>2. ASSUME NEW p \in Players, NEW t \in Titles, local'[<<p, t>>] # 0
          PROVE  encoder'[local'[<<p, t>>]].of = t /\ encoder'[local'[<<p, t>>]].player = p
      <4>1. local'[<<p, t>>] = local[<<p, t>>] /\ local[<<p, t>>] \in Encoders /\ local[<<p, t>>] # n
        BY <1>0, <1>1, <2>9, <3>2 DEF RequestFacts
      <4> QED
        BY <1>00, <2>10, <3>2, <4>1 DEF MapsInv, MapsAreTrue
    <3>3. \A i \in Encoders : encoder'[i].at = "unborn" => encoder'[i].of = "none" /\ encoder'[i].player = "none"
      <4>1. encoder'[n].at = "made"
        BY <2>1, <2>2
      <4> QED
        BY <1>00, <2>10, <4>1 DEF MapsInv, MapsAreTrue
    <3> QED
      BY <3>1, <3>2, <3>3 DEF MapsAreTrue
  <2>13. AliveAreKnown'
    <3> SUFFICES ASSUME NEW i \in Encoders, Alive(i)'
                 PROVE  \/ encoder'[i].of \in Channels /\ tv'[encoder'[i].of] = i
                        \/ /\ encoder'[i].of \in Titles /\ encoder'[i].player \in Players
                           /\ local'[<<encoder'[i].player, encoder'[i].of>>] = i
      BY DEF AliveAreKnown
    <3>1. CASE i = n
      BY <1>1, <2>1, <2>2, <2>5, <3>1
    <3>2. CASE i # n
      <4>1. Alive(i) /\ encoder'[i].of = encoder[i].of /\ encoder'[i].player = encoder[i].player
        BY <2>4, <3>2 DEF Evolves
      <4>2. ASSUME encoder[i].of \in Channels, tv[encoder[i].of] = i
            PROVE  tv'[encoder[i].of] = i
        <5>1. PICK d \in Channels : d = encoder[i].of /\ tv[d] = i
          BY <4>2
        <5>2. i # 0 /\ ~ EndsAs(encoder'[i])
          BY SessionsAssumption DEF Encoders, Alive, EndsAs
        <5>3. d # c
          BY <2>11, <5>1, <5>2
        <5>4. tv'[d] = tv[d]
          BY <2>7, <5>1, <5>2, <5>3 DEF EndsAs
        <5> QED
          BY <5>1, <5>4
      <4> QED
        BY <1>00, <1>1, <4>1, <4>2 DEF MapsInv, AliveAreKnown
    <3> QED
      BY <3>1, <3>2
  <2>14. MapsInv'
    BY <1>00, <1>1, <2>6, <2>12, <2>13 DEF MapsInv, OneTitleEach
  <2>15. RequestsInv'
    BY <1>00, <1>2, <1>4, <2>0, <2>4, RequestGoesOn
  <2>16. \A q \in Requests : request[q].at # "idle" => request[q].player \in Players
    BY RequestFactsHold DEF RequestFacts, Player
  <2>17. OneAtATime'
    BY <1>00, <1>1, <1>2, <1>3, <1>9, <2>16, PlayersApart DEF Player
  <2> QED
    BY <2>14, <2>15, <2>17 DEF SessInv
<1> QED
  BY <1>10, <1>11

(* AddTitle: the player's other titles end, and a new encoder is the       *)
(* title's.                                                                *)
LEMMA AddTitleKeeps ==
    ASSUME SessInv, NEW r \in Requests, AddTitle(r)
    PROVE  SessInv'
<1>0. RequestFacts(r)
  BY RequestFactsHold
<1>00. MapsInv /\ RequestsInv /\ OneAtATime
  BY DEF SessInv
<1> DEFINE t == For(r)
           p == Player(r)
           key == <<p, t>>
           n == Following
<1>1. request[r].at = "add" /\ t \in Titles /\ UNCHANGED <<happening, tv, channelOf>>
  BY DEF AddTitle
<1>2. p \in Players /\ key \in Owned /\ Key(r) = key
  BY <1>0, <1>1 DEF RequestFacts, Key
<1>3. "overlap" \notin happening => channelOf'[p] = NoChannel
  BY <1>1, <1>00 DEF OneAtATime
<1>4. t \notin Channels
  BY <1>1, SessionsAssumption
<1>5. CASE local[key] # 0
  <2>1. Goto(r, "watch") /\ encoder' = With({local[key]}, TouchOf) /\ UNCHANGED <<local, superseded>>
    BY <1>2, <1>5 DEF AddTitle
  <2>2. /\ request' \in [Requests -> RequestStates] /\ OthersWait(r)
        /\ request'[r].at = "watch" /\ request'[r].player = p
    BY <1>0, <2>1, GotoRequest DEF RequestFacts, RequestAts, Player
  <2>3. Evolves({})
    BY <1>0, <2>1, TouchesEvolve DEF RequestFacts
  <2>4. SessionsTyped' /\ Shrinks
    BY <1>0, <1>1, <2>1, <2>2, <2>3 DEF RequestFacts, SessionsTyped, Evolves, Shrinks
  <2>5. RequestKnows(r)'
    BY <1>2, <2>2, SessionsAssumption DEF RequestKnows
  <2> QED
    BY <1>1, <1>3, <2>2, <2>3, <2>4, <2>5, RequestShrinks DEF Player
<1>6. CASE local[key] = 0
  <2> DEFINE X == {local[k] : k \in Replaced(r)}
  <2>1. /\ Unborn # {}
        /\ local' = [k \in Owned |-> IF k = key THEN n ELSE IF k \in Replaced(r) THEN 0 ELSE local[k]]
        /\ superseded' = superseded \cup Replaced(r)
        /\ encoder' = [StopAll(X) EXCEPT ![n] = StartOf(t, p)]
        /\ Found(r, n, "track")
    BY <1>2, <1>6 DEF AddTitle
  <2>2. n \in Encoders /\ n # 0 /\ n \in 0..MaxEncoders /\ encoder[n].at = "unborn"
    BY <2>1, FollowingIsUnborn, SessionsAssumption DEF Unborn, Encoders
  <2>3. /\ request' \in [Requests -> RequestStates] /\ OthersWait(r)
        /\ request'[r].at = "track" /\ request'[r].for = t /\ request'[r].player = p /\ request'[r].seen = n
    <3>1. "track" \in RequestAts
      BY DEF RequestAts
    <3> HIDE DEF n
    <3> QED
      BY <1>0, <2>1, <2>2, <3>1, FoundRequest DEF RequestFacts, For, Player
  <2>4. /\ StartOf(t, p) \in EncoderStates /\ StartOf(t, p).of = t /\ StartOf(t, p).player = p
        /\ StartOf(t, p).at = "made" /\ StartOf(t, p).cancelled = FALSE
    <3>1. t \in Things /\ p \in Players \cup {"none"}
      BY <1>1, <1>2 DEF Things
    <3> HIDE DEF t, p
    <3> QED
      BY <3>1, StartChange
  <2>5. \A i \in Encoders : /\ encoder[i] \in EncoderStates
                             /\ StopAll(X)[i] = IF i \in X THEN StopOf(encoder[i]) ELSE encoder[i]
    BY <1>0 DEF StopAll, With, RequestFacts, SessionsTyped
  <2>6. \A k \in Replaced(r) : local[k] \in X /\ k \in Owned /\ k[1] = p /\ local[k] # 0
    BY DEF Replaced
  <2> HIDE DEF X, n
  <2>7. /\ encoder'[n] = StartOf(t, p)
        /\ \A i \in Encoders : i # n => encoder'[i] = IF i \in X THEN StopOf(encoder[i]) ELSE encoder[i]
        /\ encoder' = [i \in Encoders |-> encoder'[i]]
    BY <2>1, <2>2, <2>5 DEF StopAll, With
  <2>8. \A i \in Encoders : i # n => /\ Stays(encoder[i], encoder'[i])
                                     /\ encoder'[i].cancelled \/ encoder'[i] = encoder[i]
                                     /\ i \in X => encoder'[i].cancelled
    BY <2>5, <2>7, Changes
  <2>9. encoder' \in [Encoders -> EncoderStates]
    BY <2>4, <2>7, <2>8 DEF Stays
  <2>10. Evolves({n})
    BY <2>8, <2>9 DEF Evolves, Stays, Alive, Finished
  <2>11. Replaced(r) = {k \in Owned : k[1] = p /\ local[k] # 0}
    BY DEF Replaced
  <2>12. local' \in [Owned -> 0..MaxEncoders]
    BY <1>0, <2>1, <2>2, SessionsAssumption DEF RequestFacts
  <2>13. SessionsTyped'
    BY <1>0, <1>1, <2>1, <2>3, <2>9, <2>11, <2>12 DEF RequestFacts, SessionsTyped
  <2>14. /\ local'[key] = n
         /\ \A u \in Titles : u # t => local'[<<p, u>>] = 0
         /\ \A q \in Players, u \in Titles : q # p => local'[<<q, u>>] = local[<<q, u>>]
    <3>1. \A q \in Players, u \in Titles : /\ <<q, u>> \in Owned /\ <<q, u>>[1] = q
                                           /\ <<q, u>> = key => q = p /\ u = t
      BY DEF Owned
    <3> HIDE DEF key
    <3> QED
      BY <1>2, <2>1, <2>11, <3>1
  <2>15. \A q \in Players, u \in Titles : local'[<<q, u>>] # 0 =>
            (q = p /\ u = t) \/ (local'[<<q, u>>] = local[<<q, u>>] /\ local[<<q, u>>] \in Encoders)
    BY <1>0, <2>14 DEF RequestFacts
  <2>16. \A q \in Players, u \in Titles : local[<<q, u>>] # 0 => local[<<q, u>>] # n
    BY <1>00, <2>2, SessionsAssumption DEF MapsInv, MapsAreTrue
  <2>17. \A d \in Channels : tv[d] # 0 => tv[d] # n /\ tv[d] \in Encoders
    BY <1>0, <1>00, <2>2, SessionsAssumption DEF MapsInv, MapsAreTrue, RequestFacts
  <2>18. MapsAreTrue'
    <3>1. ASSUME NEW d \in Channels, tv'[d] # 0
          PROVE  encoder'[tv'[d]].of = d /\ encoder'[tv'[d]].player = "none"
      <4>1. tv'[d] = tv[d] /\ tv[d] \in Encoders /\ tv[d] # n
        BY <1>1, <2>17, <3>1
      <4> QED
        BY <1>00, <2>8, <3>1, <4>1 DEF MapsInv, MapsAreTrue, Stays
    <3>2. ASSUME NEW q \in Players, NEW u \in Titles, local'[<<q, u>>] # 0
          PROVE  encoder'[local'[<<q, u>>]].of = u /\ encoder'[local'[<<q, u>>]].player = q
      <4>1. CASE q = p /\ u = t
        BY <2>4, <2>7, <2>14, <4>1
      <4>2. CASE ~ (q = p /\ u = t)
        <5>1. PICK i \in Encoders : local'[<<q, u>>] = i /\ local[<<q, u>>] = i /\ i # n
          BY <2>15, <2>16, <3>2, <4>2
        <5> QED
          BY <1>00, <2>8, <3>2, <5>1 DEF MapsInv, MapsAreTrue, Stays
      <4> QED
        BY <4>1, <4>2
    <3>3. \A i \in Encoders : encoder'[i].at = "unborn" => encoder'[i].of = "none" /\ encoder'[i].player = "none"
      <4>1. encoder'[n].at = "made"
        BY <2>4, <2>7
      <4> QED
        BY <1>00, <2>8, <4>1 DEF MapsInv, MapsAreTrue, Stays
    <3> QED
      BY <3>1, <3>2, <3>3 DEF MapsAreTrue
  <2>19. AliveAreKnown'
    <3> SUFFICES ASSUME NEW i \in Encoders, Alive(i)'
                 PROVE  \/ encoder'[i].of \in Channels /\ tv'[encoder'[i].of] = i
                        \/ /\ encoder'[i].of \in Titles /\ encoder'[i].player \in Players
                           /\ local'[<<encoder'[i].player, encoder'[i].of>>] = i
      BY DEF AliveAreKnown
    <3>1. CASE i = n
      BY <1>1, <1>2, <2>4, <2>7, <2>14, <3>1
    <3>2. CASE i # n
      <4>1. Alive(i) /\ encoder'[i].of = encoder[i].of /\ encoder'[i].player = encoder[i].player
        BY <2>8, <2>10, <3>2 DEF Evolves
      <4>2. ASSUME encoder[i].of \in Titles, encoder[i].player \in Players,
                   local[<<encoder[i].player, encoder[i].of>>] = i
            PROVE  local'[<<encoder[i].player, encoder[i].of>>] = i
        <5>1. PICK q \in Players, u \in Titles : q = encoder[i].player /\ u = encoder[i].of /\ local[<<q, u>>] = i
          BY <4>2
        <5>2. i # 0 /\ i \notin X
          BY <2>8, <3>2, SessionsAssumption DEF Encoders, Alive
        <5>3. <<q, u>> \notin Replaced(r)
          BY <2>6, <5>1, <5>2
        <5>4. q # p
          BY <1>0, <2>11, <5>1, <5>2, <5>3 DEF RequestFacts
        <5> QED
          BY <2>14, <5>1, <5>4
      <4> QED
        BY <1>00, <1>1, <4>1, <4>2 DEF MapsInv, AliveAreKnown
    <3> QED
      BY <3>1, <3>2
  <2>20. OneTitleEach'
    <3> SUFFICES ASSUME NEW q \in Players, NEW u \in Titles, NEW w \in Titles,
                        local'[<<q, u>>] # 0, local'[<<q, w>>] # 0
                 PROVE  u = w
      BY DEF OneTitleEach
    <3> QED
      BY <1>00, <2>14 DEF MapsInv, OneTitleEach
  <2>21. RequestKnows(r)'
    BY <1>1, <1>2, <2>2, <2>3, <2>4, <2>7, SessionsAssumption DEF RequestKnows
  <2>22. RequestsInv'
    BY <1>00, <2>2, <2>3, <2>10, <2>21, RequestGoesOn
  <2>23. \A q \in Requests : request[q].at # "idle" => request[q].player \in Players
    BY RequestFactsHold DEF RequestFacts, Player
  <2>24. OneAtATime'
    BY <1>00, <1>1, <1>3, <2>3, <2>14, <2>23, PlayersApart DEF Player
  <2> QED
    BY <2>13, <2>18, <2>19, <2>20, <2>22, <2>24 DEF SessInv, MapsInv
<1> QED
  BY <1>5, <1>6

(* Every step keeps the invariant.                                         *)
LEMMA SessNextKeeps == SessInv /\ [SessionsNext]_sessionVars => SessInv'
<1> SUFFICES ASSUME SessInv, [SessionsNext]_sessionVars
             PROVE  SessInv'
  OBVIOUS
<1>1. ASSUME NEW r \in Requests, RequestStep(r)
      PROVE  SessInv'
  <2>1. CASE ReleaseTitles(r)
    BY <2>1, ReleaseKeeps
  <2>2. CASE RemoveChannel(r)
    BY <2>2, RemoveChannelKeeps
  <2>3. CASE BindPlayer(r)
    BY <2>3, BindKeeps
  <2>4. CASE UnbindPlayer(r)
    BY <2>4, UnbindKeeps
  <2>5. CASE GetChannel(r) \/ PlaylistServed(r) \/ LookForTitle(r)
    BY <2>5, LooksKeep
  <2>6. CASE AddChannel(r)
    BY <2>6, AddChannelKeeps
  <2>7. CASE RemoveTitle(r)
    BY <2>7, RemoveTitleKeeps
  <2>8. CASE AddTitle(r)
    BY <2>8, AddTitleKeeps
  <2>9. CASE TrackTitle(r) \/ GoTitle(r)
    BY <2>9, TrackKeeps
  <2> QED
    BY <1>1, <2>1, <2>2, <2>3, <2>4, <2>5, <2>6, <2>7, <2>8, <2>9 DEF RequestStep
<1>2. ASSUME NEW r \in Requests, NEW p \in Players,
             (\E c \in Channels : AskChannel(r, p, c)) \/ (\E t \in Titles : AskTitle(r, p, t)) \/ AskStop(r, p)
      PROVE  SessInv'
  BY <1>2, AsksKeep
<1>3. ASSUME NEW i \in Encoders, EncoderStep(i)
      PROVE  SessInv'
  BY <1>3, EncodersKeep
<1>4. CASE \/ \E i \in Encoders, p \in Players : SegmentServed(p, i)
           \/ \E k \in Owned : Forget(k)
           \/ Maintenance \/ Reset
  BY <1>4, OtherBackgroundKeeps
<1>5. CASE UNCHANGED sessionVars
  BY <1>5 DEF sessionVars, SessInv, MapsInv, SessionsTyped, MapsAreTrue, AliveAreKnown, OneTitleEach, Alive, RequestsInv,
              RequestKnows, Finished, SeenApart, OneAtATime, Player, For
<1> QED
  BY <1>1, <1>2, <1>3, <1>4, <1>5 DEF SessionsNext

(* A set of which all elements are equal has at most one.                  *)
LEMMA AtMostOne ==
    ASSUME NEW S, \A x \in S, y \in S : x = y
    PROVE  Cardinality(S) <= 1
<1>1. CASE S = {}
  BY <1>1, FS_EmptySet
<1>2. CASE S # {}
  <2>1. PICK x : S = {x}
    BY <1>2
  <2> QED
    BY <2>1, FS_Singleton
<1> QED
  BY <1>1, <1>2

(* What the invariant says about the properties.                           *)
LEMMA InvariantImplies ==
    ASSUME SessInv
    PROVE  SessionsTypeOK /\ OnePlaybackPerPlayer /\ EncodersAreKnown
<1>1. /\ SessionsTyped /\ MapsAreTrue /\ AliveAreKnown /\ OneTitleEach /\ OneAtATime
      /\ \A n \in 0..MaxEncoders : n # 0 => n \in Encoders
  BY SessionsAssumption DEF SessInv, MapsInv, Encoders
<1>2. SessionsTypeOK
  <2>1. \A i \in Encoders : encoder[i].at \in {"unborn", "made", "running", "done", "failed"}
    BY <1>1 DEF SessionsTyped, EncoderStates
  <2>2. \A r \in Requests : request[r].seen \in 0..MaxEncoders
    BY <1>1 DEF SessionsTyped, RequestStates
  <2>3. \A i \in OnTV : IsTV(i)
    BY <1>1 DEF OnTV, IsTV, MapsAreTrue
  <2>4. \A i \in Local : encoder[i].of \in Titles
    BY <1>1 DEF Local, Owned, MapsAreTrue
  <2> QED
    BY <1>1, <2>1, <2>2, <2>3, <2>4 DEF SessionsTyped, SessionsTypeOK
<1>3. OnePlaybackPerPlayer
  <2> SUFFICES ASSUME "overlap" \notin happening, NEW p \in Players
               PROVE  Cardinality(Consumes(p)) <= 1
    BY DEF OnePlaybackPerPlayer
  <2>1. ASSUME NEW i \in Consumes(p)
        PROVE  \/ channelOf[p] # NoChannel /\ tv[channelOf[p]] = i
               \/ \E t \in Titles : local[<<p, t>>] = i /\ i # 0
    <3>1. i \in Encoders /\ Alive(i) /\ i # 0
      BY SessionsAssumption DEF Consumes, Encoders
    <3>2. ASSUME encoder[i].player = p
          PROVE  \E t \in Titles : local[<<p, t>>] = i /\ i # 0
      <4>1. encoder[i].player # "none"
        BY <3>2, SessionsAssumption
      <4>2. CASE encoder[i].of \in Channels /\ tv[encoder[i].of] = i
        <5>1. encoder[tv[encoder[i].of]].player = "none"
          BY <1>1, <3>1, <4>2 DEF MapsAreTrue
        <5> QED
          BY <4>1, <4>2, <5>1
      <4>3. CASE /\ encoder[i].of \in Titles /\ encoder[i].player \in Players
                 /\ local[<<encoder[i].player, encoder[i].of>>] = i
        BY <3>1, <3>2, <4>3
      <4> QED
        BY <1>1, <3>1, <4>2, <4>3 DEF AliveAreKnown
    <3> QED
      BY <3>2 DEF Consumes
  <2>2. channelOf[p] # NoChannel => \A t \in Titles : local[<<p, t>>] = 0
    BY <1>1 DEF OneAtATime
  <2>3. \A i \in Consumes(p), j \in Consumes(p) : i = j
    BY <1>1, <2>1, <2>2 DEF OneTitleEach
  <2> QED
    BY <2>3, AtMostOne
<1>4. EncodersAreKnown
  <2> SUFFICES ASSUME NEW i \in Encoders, Alive(i)
               PROVE  i \in OnTV \cup Local
    BY DEF EncodersAreKnown
  <2>1. i # 0
    BY SessionsAssumption DEF Encoders
  <2>2. CASE encoder[i].of \in Channels /\ tv[encoder[i].of] = i
    BY <2>1, <2>2 DEF OnTV
  <2>3. CASE /\ encoder[i].of \in Titles /\ encoder[i].player \in Players
             /\ local[<<encoder[i].player, encoder[i].of>>] = i
    BY <2>1, <2>3 DEF Local, Owned
  <2> QED
    BY <1>1, <2>2, <2>3 DEF AliveAreKnown
<1> QED
  BY <1>2, <1>3, <1>4

(* An encoder of a channel that p is on, and that was asked for lately.    *)
Shared(i, p) ==
    /\ channelOf[p] # NoChannel /\ tv[channelOf[p]] = i
    /\ encoder[i].at = "running" /\ ~encoder[i].cancelled /\ ~encoder[i].idle

(* A step of a request is seen in what the request does.                   *)
LEMMA RequestsMove ==
    ASSUME SessInv, NEW r \in Requests, RequestStep(r)
    PROVE  request'[r] # request[r]
<1>1. request \in [Requests -> RequestStates]
  BY DEF SessInv, MapsInv, SessionsTyped
<1>2. \A at : Goto(r, at) => request'[r].at = at
  BY <1>1 DEF Goto, RequestStates
<1>3. \A at, i : Found(r, i, at) => request'[r].at = at
  BY <1>1 DEF Found, RequestStates
<1>4. Leaves(r) => request'[r].at = "idle"
  BY <1>1 DEF Leaves, NoRequest
<1>5. request'[r].at # request[r].at
  <2>1. CASE ReleaseTitles(r) \/ RemoveChannel(r) \/ BindPlayer(r) \/ GetChannel(r) \/ AddChannel(r)
    BY <1>2, <1>3, <2>1 DEF ReleaseTitles, RemoveChannel, BindPlayer, GetChannel, AddChannel
  <2>2. CASE PlaylistServed(r) \/ UnbindPlayer(r) \/ LookForTitle(r) \/ RemoveTitle(r)
    BY <1>2, <1>3, <1>4, <2>2 DEF PlaylistServed, UnbindPlayer, LookForTitle, RemoveTitle
  <2>3. CASE AddTitle(r) \/ TrackTitle(r) \/ GoTitle(r)
    BY <1>2, <1>3, <2>3 DEF AddTitle, TrackTitle, GoTitle
  <2> QED
    BY <2>1, <2>2, <2>3 DEF RequestStep
<1> QED
  BY <1>5

(* The request of another player stops no shared encoder.                  *)
LEMMA OthersPlayOn ==
    ASSUME SessInv, NEW r \in Requests, RequestStep(r),
           NEW i \in Encoders, NEW p \in Players, p # Player(r), Shared(i, p)
    PROVE  ~encoder'[i].cancelled
<1>0. RequestFacts(r) /\ MapsAreTrue
  BY RequestFactsHold DEF SessInv, MapsInv
<1> DEFINE c == channelOf[p]
<1>1. c \in Channels /\ tv[c] = i /\ i # 0
  BY <1>0, SessionsAssumption DEF RequestFacts, SessionsTyped, Shared, Encoders
<1>2. encoder[i].of = c /\ encoder[i].player = "none" /\ encoder[i] \in EncoderStates
  BY <1>0, <1>1 DEF MapsAreTrue, RequestFacts, SessionsTyped
<1>3. \A d \in Channels : tv[d] = i => d = c
  BY <1>0, <1>1, <1>2 DEF MapsAreTrue
<1>4. \A k \in Owned : local[k] # i
  <2>1. \A q \in Players, t \in Titles : local[<<q, t>>] # i
    <3> SUFFICES ASSUME NEW q \in Players, NEW t \in Titles, local[<<q, t>>] = i
                 PROVE  FALSE
      OBVIOUS
    <3>1. encoder[i].player = q
      BY <1>0, <1>1 DEF MapsAreTrue
    <3> QED
      BY <1>2, <3>1, SessionsAssumption
  <2> QED
    BY <2>1 DEF Owned
<1>5. ASSUME NEW X, encoder' = StopAll(X), i \notin X
      PROVE  ~encoder'[i].cancelled
  BY <1>5 DEF StopAll, With, Shared
<1>6. ASSUME NEW X, encoder' = With(X, TouchOf)
      PROVE  ~encoder'[i].cancelled
  BY <1>0, <1>6, TouchesEvolve DEF RequestFacts, Shared
<1>7. ~encoder[i].cancelled
  BY DEF Shared
<1>8. Unborn # {} => Following # i
  BY FollowingIsUnborn DEF Unborn, Shared
<1>9. CASE ReleaseTitles(r)
  <2>1. Player(r) \in Players
    BY <1>0, <1>9 DEF RequestFacts, ReleaseTitles
  <2>2. encoder'[i] = encoder[i]
    BY <1>2, <1>4, <1>9, <2>1, SessionsAssumption DEF ReleaseTitles
  <2> QED
    BY <1>7, <2>2
<1>10. CASE RemoveChannel(r)
  <2>1. encoder[request[r].seen].at # "running"
    BY <1>0, <1>10 DEF RequestFacts, RequestKnows, Finished, RemoveChannel, For
  <2>2. request[r].seen # i
    BY <2>1 DEF Shared
  <2> QED
    BY <1>5, <1>7, <1>10, <2>2 DEF RemoveChannel, StillThere
<1>11. CASE BindPlayer(r) \/ UnbindPlayer(r)
  <2>1. PICK d : Bind(Player(r), d)
    BY <1>11 DEF BindPlayer, UnbindPlayer
  <2>2. Player(r) \in Players
    BY <1>0, <1>11 DEF RequestFacts, BindPlayer, UnbindPlayer
  <2> DEFINE was == channelOf[Player(r)]
  <2>3. was = c => InUse(was, Player(r))
    BY DEF InUse
  <2>4. was # NoChannel => was \in Channels
    BY <1>0, <2>2 DEF RequestFacts, SessionsTyped
  <2>5. encoder' = encoder \/ (encoder' = StopAll({tv[was]}) /\ was # NoChannel /\ ~ InUse(was, Player(r)))
    BY <2>1 DEF Bind
  <2>6. was # NoChannel /\ ~ InUse(was, Player(r)) => tv[was] # i
    BY <1>3, <2>3, <2>4
  <2> HIDE DEF was
  <2> QED
    BY <1>5, <1>7, <2>5, <2>6
<1>12. CASE GetChannel(r) \/ PlaylistServed(r) \/ LookForTitle(r)
  BY <1>6, <1>7, <1>12 DEF GetChannel, PlaylistServed, LookForTitle
<1>13. CASE AddChannel(r)
  <2> DEFINE X == {tv[d] : d \in Pruned}
  <2>1. i \notin X
    BY DEF Pruned, Shared
  <2>2. Prune = StopAll(X) /\ Prune[i] = encoder[i]
    BY <2>1 DEF Prune, StopAll, With
  <2>3. \/ encoder' = Prune
        \/ Unborn # {} /\ encoder' = [Prune EXCEPT ![Following] = StartOf(For(r), "none")]
    BY <1>13 DEF AddChannel
  <2>4. Unborn # {} /\ encoder' = [Prune EXCEPT ![Following] = StartOf(For(r), "none")] => encoder'[i] = Prune[i]
    BY <1>8 DEF Prune, StopAll, With
  <2> QED
    BY <1>7, <2>2, <2>3, <2>4
<1>14. CASE RemoveTitle(r)
  <2>1. encoder[request[r].seen].of \in Titles
    BY <1>0, <1>14 DEF RequestFacts, RequestKnows, RemoveTitle, For
  <2>2. request[r].seen # i
    BY <1>1, <1>2, <2>1, SessionsAssumption
  <2> QED
    BY <1>5, <1>14, <2>2 DEF RemoveTitle
<1>15. CASE AddTitle(r)
  <2> DEFINE X == {local[k] : k \in Replaced(r)}
             fresh == Unborn # {} /\ encoder' = [StopAll(X) EXCEPT ![Following] = StartOf(For(r), Player(r))]
  <2>1. i \notin X
    BY <1>4 DEF Replaced
  <2>2. StopAll(X)[i] = encoder[i]
    BY <2>1 DEF StopAll, With
  <2>3. encoder' = With({local[Key(r)]}, TouchOf) \/ fresh
    BY <1>15 DEF AddTitle
  <2>4. fresh => encoder'[i] = StopAll(X)[i]
    BY <1>8 DEF StopAll, With
  <2> HIDE DEF X, fresh
  <2> QED
    BY <1>6, <1>7, <2>2, <2>3, <2>4
<1>16. CASE TrackTitle(r) \/ GoTitle(r)
  <2>1. encoder[request[r].seen].at = "made"
    BY <1>0, <1>16 DEF RequestFacts, RequestKnows, TrackTitle, GoTitle
  <2>2. request[r].seen # i
    BY <2>1 DEF Shared
  <2> QED
    BY <1>0, <1>7, <1>16, <2>2 DEF TrackTitle, GoTitle, RequestFacts, SessionsTyped
<1> QED
  BY <1>9, <1>10, <1>11, <1>12, <1>13, <1>14, <1>15, <1>16 DEF RequestStep

(* The step of SharedChannelsPlayOn.                                       *)
PlaysOn ==
    \A i \in Encoders, p \in Players :
        /\ channelOf[p] # NoChannel /\ tv[channelOf[p]] = i
        /\ encoder[i].at = "running" /\ ~encoder[i].cancelled /\ ~encoder[i].idle
        /\ encoder'[i].cancelled
        => \/ UNCHANGED request
           \/ \E r \in Requests : request'[r] # request[r] /\ p \in {Player(r), request'[r].player}

(* Every step lets the shared channels play on.                            *)
LEMMA StepsPlayOn == SessInv /\ [SessionsNext]_sessionVars => PlaysOn
<1> SUFFICES ASSUME SessInv, [SessionsNext]_sessionVars,
                    NEW i \in Encoders, NEW p \in Players, Shared(i, p), encoder'[i].cancelled, ~ UNCHANGED request
             PROVE  \E r \in Requests : request'[r] # request[r] /\ p \in {Player(r), request'[r].player}
  BY DEF PlaysOn, Shared
<1>0. SessionsTyped
  BY DEF SessInv, MapsInv
<1>1. ASSUME NEW r \in Requests, RequestStep(r)
      PROVE  \E q \in Requests : request'[q] # request[q] /\ p \in {Player(q), request'[q].player}
  BY <1>1, RequestsMove, OthersPlayOn
<1>2. ASSUME NEW r \in Requests, NEW q \in Players,
             (\E c \in Channels : AskChannel(r, q, c)) \/ (\E t \in Titles : AskTitle(r, q, t)) \/ AskStop(r, q)
      PROVE  FALSE
  <2>1. UNCHANGED encoder \/ \E n : encoder' = With({n}, TouchOf)
    BY <1>2 DEF AskChannel, AskTitle, AskStop
  <2>2. encoder'[i].cancelled = encoder[i].cancelled
    BY <1>0, <2>1, TouchesEvolve
  <2> QED
    BY <2>2 DEF Shared
<1>3. ASSUME NEW n \in Encoders, EncoderStep(n) \/ \E q \in Players : SegmentServed(q, n)
      PROVE  FALSE
  BY <1>3
     DEF EncoderStep, RunBegins, RunEnds, RunFails, IdleEnds, GoesIdle, GoesOld, StreamIsKilled, SegmentServed
<1>4. ASSUME (\E k \in Owned : Forget(k)) \/ Maintenance \/ Reset \/ UNCHANGED sessionVars
      PROVE  FALSE
  BY <1>4 DEF Forget, Maintenance, Reset, sessionVars
<1> QED
  BY <1>1, <1>2, <1>3, <1>4 DEF SessionsNext

-----------------------------------------------------------------------------
(* The invariant of the sessions.                                          *)
THEOREM SessionsInvariant == SessionsSpec => []SessInv
<1>1. SessionsInit => SessInv
  BY SessInit
<1>2. SessInv /\ [SessionsNext]_sessionVars => SessInv'
  BY SessNextKeeps
<1> QED
  BY <1>1, <1>2, PTL DEF SessionsSpec

(* Every variable keeps its type, and the maps hold sessions of their own  *)
(* kind.                                                                   *)
THEOREM SessionsTypeCorrect == SessionsSpec => []SessionsTypeOK
<1>1. SessInv => SessionsTypeOK
  BY InvariantImplies
<1> QED
  BY <1>1, SessionsInvariant, PTL

(* "A player can consume only one playback at a time": bindPlayer comes    *)
(* after the titles are released and addOrGet of a title after the channel *)
(* is left, so that for any number of players, channels and titles no      *)
(* player has two encoders running, whatever happens between the steps of  *)
(* its request.                                                            *)
THEOREM OnePlaybackAtATime == SessionsSpec => []OnePlaybackPerPlayer
<1>1. SessInv => OnePlaybackPerPlayer
  BY InvariantImplies
<1> QED
  BY <1>1, SessionsInvariant, PTL

(* No encoder runs that has left its manager's map: whoever takes a        *)
(* session out of a map stops it first or finds it finished.               *)
THEOREM RunningEncodersAreKnown == SessionsSpec => []EncodersAreKnown
<1>1. SessInv => EncodersAreKnown
  BY InvariantImplies
<1> QED
  BY <1>1, SessionsInvariant, PTL

(* What one player does stops no channel that another is on and that was   *)
(* asked for lately: bindPlayer looks whether somebody else is on it, and  *)
(* removeIfSame only removes what has finished.                            *)
THEOREM OthersKeepTheirChannel == SessionsSpec => SharedChannelsPlayOn
<1>1. SessInv /\ [SessionsNext]_sessionVars => [PlaysOn]_sessionVars
  BY StepsPlayOn
<1> QED
  BY <1>1, SessionsInvariant, PTL DEF SessionsSpec, SharedChannelsPlayOn, PlaysOn

-----------------------------------------------------------------------------
(* PlaybackAdmission.                                                      *)

(* The budget with what is proved about it.                                *)
BudgetPart == INSTANCE AdaptiveSemaphore_proofs
    WITH streams <- activeCount,
         pendingNotify <- NotificationsDue,
         MaxStreams <- Cardinality(Streams),
         MaxPendingNotify <- Cardinality(Procs)

AdmissionInv == IInv /\ BudgetPart!IInv

Counted == {s \in Streams : life[s] = "counted"}
CountedDown == {p \in Procs : streamAt[p] = "decremented"}

(* The sets of operations that owe the budget a notification are finite.   *)
LEMMA DueFinite ==
    /\ IsFiniteSet(Counted) /\ IsFiniteSet(CountedDown)
    /\ Cardinality(Counted) \in Nat /\ Cardinality(CountedDown) \in Nat
    /\ Cardinality(Streams) \in Nat /\ Cardinality(Procs) \in Nat
<1>1. IsFiniteSet(Procs)
  BY ProcsFinite, FS_Union DEF Procs
<1>2. Counted \subseteq Streams /\ CountedDown \subseteq Procs
  BY DEF Counted, CountedDown
<1> QED
  BY <1>1, <1>2, ProcsFinite, FS_Subset, FS_CardinalityType

(* What the proofs about the budget assume of its constants.               *)
LEMMA BudgetAssumptions == BudgetPart!BoundsNat /\ BudgetPart!AcquirersFinite
<1>1. \A S : BudgetPart!IsFiniteSet(S) <=> IsFiniteSet(S)
  BY DEF BudgetPart!IsFiniteSet, IsFiniteSet
<1> QED
  BY <1>1, DueFinite, AdmissionAssumption DEF BudgetPart!BoundsNat, BudgetPart!AcquirersFinite

(* Notifications are due while an operation of the tracker owes one.       *)
DueIsOwed ==
    /\ NotificationsDue \in Nat
    /\ (\E s \in Streams : life[s] = "counted") => NotificationsDue > 0
    /\ (\E p \in Procs : streamAt[p] = "decremented") => NotificationsDue > 0

(* What the tracker has yet to tell the budget is a set of calls.          *)
LEMMA DueType == DueIsOwed
<1> SUFFICES /\ NotificationsDue \in Nat
             /\ (\E s \in Streams : life[s] = "counted") => NotificationsDue > 0
             /\ (\E p \in Procs : streamAt[p] = "decremented") => NotificationsDue > 0
  BY DEF DueIsOwed
<1>1. NotificationsDue = Cardinality(Counted) + Cardinality(CountedDown)
  BY DEF NotificationsDue, Counted, CountedDown
<1>2. Counted # {} => Cardinality(Counted) # 0
  BY DueFinite, FS_EmptySet
<1>3. CountedDown # {} => Cardinality(CountedDown) # 0
  BY DueFinite, FS_EmptySet
<1> QED
  BY <1>1, <1>2, <1>3, DueFinite DEF Counted, CountedDown

(* The budget's steps, seen as steps of the module of its proofs.          *)
LEMMA SameCapacity ==
    /\ Budget!EffectiveCap = BudgetPart!EffectiveCap
    /\ \A c, watching, n : Budget!EffectiveCapFor(c, watching, n) = BudgetPart!EffectiveCapFor(c, watching, n)
  BY DEF Budget!EffectiveCap, BudgetPart!EffectiveCap, Budget!EffectiveCapFor, BudgetPart!EffectiveCapFor,
         Budget!Lesser, BudgetPart!Lesser, Budget!ReservedSlots, BudgetPart!ReservedSlots

(* The wake-ups of the composed and of the proved budget are the same.     *)
LEMMA SameWake ==
    ASSUME NEW n, NEW ws, NEW sig, NEW c, Budget!Wake(n, ws, sig, c)
    PROVE  BudgetPart!Wake(n, ws, sig, c)
<1>1. Budget!Grants(n, ws, c) = BudgetPart!Grants(n, ws, c)
  BY DEF Budget!Grants, BudgetPart!Grants, Budget!Lesser, BudgetPart!Lesser
<1> QED
  BY <1>1 DEF Budget!Wake, BudgetPart!Wake

(* Tracker steps that do not notify the budget leave its invariant alone:  *)
(* either nothing moves for it, or a notification becomes due.             *)
LEMMA QuietMovesCount ==
    ASSUME IInv, QuietStep
    PROVE  \/ activeCount' = activeCount /\ Counted' = Counted /\ CountedDown' = CountedDown
           \/ \E s \in Streams : life'[s] = "counted"
           \/ \E p \in Procs : streamAt'[p] = "decremented"
<1> USE DEF Move, Advance, mapVars, procVars, persistVars, Counted, CountedDown, Procs
<1> DEFINE Goal == \/ activeCount' = activeCount /\ Counted' = Counted /\ CountedDown' = CountedDown
                   \/ \E s \in Streams : life'[s] = "counted"
                   \/ \E p \in Procs : streamAt'[p] = "decremented"
<1>1. /\ life \in [Streams -> LifeStates]
      /\ streamAt \in [Procs -> RemoveStates]
      /\ \A s \in Streams : life[s] # "closing" => streamAt[s] = "out"
  BY DEF IInv, ShapeOK, TrackerTypeOK, HandlersRemoveLast
<1>2. ASSUME NEW s \in Streams, HandlerStep(s)
      PROVE  Goal
  BY <1>1, <1>2 DEF HandlerStep, AddStore, AddCount, SetCancelFunc,
         HandlerReturns, HandlerDone
<1>3. ASSUME NEW s \in Streams, KillStream(s)
      PROVE  Goal
  BY <1>3 DEF KillStream
<1>4. ASSUME NEW k \in Removers, Collect(k) \/ RemoveNext(k)
      PROVE  Goal
  BY <1>1, <1>4 DEF Collect, RemoveNext
<1>5. ASSUME NEW p \in Procs, RemoveStep(p)
      PROVE  Goal
  BY <1>1, <1>5 DEF RemoveStep, RemoveLoad, RemoveArchive,
         RemoveDelete, RemoveCount
<1>6. ASSUME PersistOne \/ TrackerStop \/ PersistExit
      PROVE  Goal
  BY <1>6 DEF PersistOne, TrackerStop, PersistExit
<1> HIDE DEF Goal
<1>7. Goal
  BY <1>2, <1>3, <1>4, <1>5, <1>6 DEF QuietStep
<1> QED
  BY <1>7 DEF Goal

(* What the budget's invariant says of the tracker's variables.            *)
LEMMA BudgetInvSame ==
    ASSUME BudgetPart!IInv, UNCHANGED budgetVars,
           activeCount' \in Int, NotificationsDue' \in Nat,
           (activeCount' = activeCount /\ NotificationsDue' = NotificationsDue) \/ NotificationsDue' > 0
    PROVE  BudgetPart!IInv'
<1> USE DEF BudgetPart!IInv, budgetVars
<1>1. BudgetPart!SemaphoreTypeOK'
  BY DEF BudgetPart!SemaphoreTypeOK
<1>2. BudgetPart!QueueMatchesCallers'
  BY DEF BudgetPart!QueueMatchesCallers, BudgetPart!NoDuplicates, BudgetPart!Entries, BudgetPart!Blocked
<1>3. BudgetPart!SlotAccounting'
  BY DEF BudgetPart!SlotAccounting, BudgetPart!Holders, BudgetPart!Holding
<1>4. BudgetPart!NoIdleHeadroom'
  <2>1. CASE NotificationsDue' > 0
    BY <2>1 DEF BudgetPart!NoIdleHeadroom
  <2>2. CASE activeCount' = activeCount /\ NotificationsDue' = NotificationsDue
    BY <2>2 DEF BudgetPart!NoIdleHeadroom, BudgetPart!EffectiveCap
  <2> QED
    BY <2>1, <2>2
<1> QED
  BY <1>1, <1>2, <1>3, <1>4

(* The calls of imports are the budget's own.                              *)
LEMMA ImportSteps ==
    ASSUME NEW a \in Acquirers, UNCHANGED trackerVars, Budget!CallerStep(a)
    PROVE  BudgetPart!SemaphoreNext
<1> USE DEF Budget!capVars, Budget!streamVars, BudgetPart!capVars, BudgetPart!streamVars
<1>1. Budget!AcquireDisabled(a) => BudgetPart!AcquireDisabled(a)
  BY SameCapacity DEF Budget!AcquireDisabled, BudgetPart!AcquireDisabled
<1>2. Budget!AcquireSlot(a) => BudgetPart!AcquireSlot(a)
  BY SameCapacity DEF Budget!AcquireSlot, BudgetPart!AcquireSlot
<1>3. Budget!Enqueue(a) => BudgetPart!Enqueue(a)
  BY SameCapacity DEF Budget!Enqueue, BudgetPart!Enqueue
<1>4. Budget!TakeGrant(a) => BudgetPart!TakeGrant(a)
  BY DEF Budget!TakeGrant, BudgetPart!TakeGrant
<1>5. Budget!ContextDone(a) => BudgetPart!ContextDone(a)
  BY DEF Budget!ContextDone, BudgetPart!ContextDone
<1>6. Budget!UndoGrant(a) => BudgetPart!UndoGrant(a)
  BY SameCapacity, SameWake DEF Budget!UndoGrant, BudgetPart!UndoGrant
<1>7. Budget!LeaveQueue(a) => BudgetPart!LeaveQueue(a)
  BY DEF Budget!LeaveQueue, BudgetPart!LeaveQueue, Budget!RemoveWaiter, BudgetPart!RemoveWaiter
<1>8. Budget!Release(a) => BudgetPart!Release(a)
  BY SameCapacity, SameWake DEF Budget!Release, BudgetPart!Release
<1>9. Budget!NoopRelease(a) => BudgetPart!NoopRelease(a)
  BY DEF Budget!NoopRelease, BudgetPart!NoopRelease
<1>10. BudgetPart!CallerStep(a)
  BY <1>1, <1>2, <1>3, <1>4, <1>5, <1>6, <1>7, <1>8, <1>9 DEF Budget!CallerStep, BudgetPart!CallerStep
<1> QED
  BY <1>10 DEF BudgetPart!SemaphoreNext

(* So is a new configuration.                                              *)
LEMMA ReconfigureSteps ==
    ASSUME NEW c \in 0..MaxCapacity, Budget!SetCapacity(c)
    PROVE  BudgetPart!SemaphoreNext
<1>1. BudgetPart!SetCapacity(c)
  BY SameCapacity, SameWake
  DEF Budget!SetCapacity, BudgetPart!SetCapacity, Budget!streamVars, BudgetPart!streamVars
<1> QED
  BY <1>1 DEF BudgetPart!ConfigStep, BudgetPart!SemaphoreNext

(* The server starts in a state of the invariant.                          *)
LEMMA AdmissionInitInv == AdmissionInit => AdmissionInv
<1> SUFFICES ASSUME AdmissionInit
             PROVE  AdmissionInv
  OBVIOUS
<1>1. IInv
  BY InitInvariant DEF AdmissionInit
<1> USE DEF AdmissionInit
<1>2. BudgetPart!SemaphoreTypeOK
  <2>1. waiters \in Seq(Acquirers) /\ capacity \in Nat
    BY AdmissionAssumption
  <2>2. caller \in [Acquirers -> BudgetPart!CallerStates]
    BY Zenon DEF BudgetPart!CallerStates
  <2>3. activeCount \in Int
    BY <1>1 DEF IInv, ShapeOK, TrackerTypeOK
  <2> QED
    BY <2>1, <2>2, <2>3, DueType DEF DueIsOwed, BudgetPart!SemaphoreTypeOK
<1>3. BudgetPart!Blocked = {} /\ BudgetPart!Holders = {}
  BY DEF BudgetPart!Blocked, BudgetPart!Holders, BudgetPart!Holding
<1>4. BudgetPart!QueueMatchesCallers
  BY <1>3 DEF BudgetPart!QueueMatchesCallers, BudgetPart!NoDuplicates, BudgetPart!Entries
<1>5. BudgetPart!SlotAccounting
  <2>1. BudgetPart!Cardinality({}) = Cardinality({})
    BY DEF BudgetPart!Cardinality, Cardinality, BudgetPart!IsFiniteSet, IsFiniteSet
  <2> QED
    BY <1>3, <2>1, FS_EmptySet DEF BudgetPart!SlotAccounting
<1>6. BudgetPart!NoIdleHeadroom
  BY DEF BudgetPart!NoIdleHeadroom
<1> QED
  BY <1>1, <1>2, <1>4, <1>5, <1>6 DEF AdmissionInv, BudgetPart!IInv

(* Every step of the two parts together keeps the invariants of both.      *)
LEMMA AdmissionNextInv == AdmissionInv /\ [AdmissionNext]_admissionVars => AdmissionInv'
<1>0. DueIsOwed'
  BY DueType, PTL
<1> SUFFICES ASSUME AdmissionInv, [AdmissionNext]_admissionVars
             PROVE  AdmissionInv'
  OBVIOUS
<1> USE DEF AdmissionInv
<1>1. ASSUME IInv'
      PROVE  activeCount' \in Int /\ NotificationsDue' \in Nat
  <2>1. NotificationsDue' \in Nat
    BY <1>0 DEF DueIsOwed
  <2> QED
    BY <1>1, <2>1 DEF IInv, ShapeOK, TrackerTypeOK
<1>2. ASSUME UNCHANGED trackerVars
      PROVE  IInv' /\ NotificationsDue' = NotificationsDue
  <2>1. IInv'
    BY <1>2, NextInvariant
  <2>2. UNCHANGED <<life, streamAt>>
    BY <1>2 DEF trackerVars, procVars
  <2> QED
    BY <2>1, <2>2 DEF NotificationsDue
<1>3. CASE TrackerStep
  <2>1. QuietStep /\ UNCHANGED budgetVars
    BY <1>3 DEF TrackerStep
  <2>2. IInv'
    BY <2>1, NextInvariant DEF TrackerNext
  <2>3. (activeCount' = activeCount /\ NotificationsDue' = NotificationsDue) \/ NotificationsDue' > 0
    <3>1. CASE activeCount' = activeCount /\ Counted' = Counted /\ CountedDown' = CountedDown
      BY <3>1 DEF NotificationsDue, Counted, CountedDown
    <3>2. CASE (\E s \in Streams : life'[s] = "counted") \/ (\E p \in Procs : streamAt'[p] = "decremented")
      <4>1. /\ (\E s \in Streams : life'[s] = "counted") => NotificationsDue' > 0
            /\ (\E p \in Procs : streamAt'[p] = "decremented") => NotificationsDue' > 0
        BY <1>0 DEF DueIsOwed
      <4> QED
        BY <3>2, <4>1
    <3> QED
      BY <2>1, <3>1, <3>2, QuietMovesCount
  <2> QED
    BY <1>1, <2>1, <2>2, <2>3, BudgetInvSame
<1>4. CASE Notify
  <2>1. /\ NotifyStep
        /\ BudgetPart!Wake(inFlight, waiters, signalled, BudgetPart!EffectiveCap)
        /\ UNCHANGED <<caller, capacity, sourceSet>>
    BY <1>4, SameCapacity, SameWake DEF Notify
  <2>2. IInv'
    BY <2>1, NextInvariant DEF TrackerNext
  <2>3. activeCount' = activeCount
    BY <2>1 DEF NotifyStep, AddNotify, RemoveNotify, mapVars
  <2>4. BudgetPart!EffectiveCap' = BudgetPart!EffectiveCap
    BY <2>1, <2>3 DEF BudgetPart!EffectiveCap
  <2>5. BudgetPart!EffectiveCap \in Nat
    BY BudgetAssumptions, BudgetPart!EffectiveCapType DEF BudgetPart!IInv
  <2>6. /\ inFlight' \in Nat
        /\ waiters' \in Seq(Acquirers)
        /\ signalled' \subseteq Acquirers
        /\ BudgetPart!QueueMatchesCallers'
        /\ BudgetPart!SlotAccounting'
        /\ BudgetPart!NoIdleHeadroom'
    BY <2>1, <2>4, <2>5, BudgetAssumptions, BudgetPart!PlainWake
  <2>7. BudgetPart!SemaphoreTypeOK'
    BY <1>1, <2>1, <2>2, <2>6 DEF BudgetPart!IInv, BudgetPart!SemaphoreTypeOK
  <2> QED
    BY <2>2, <2>6, <2>7 DEF BudgetPart!IInv
<1>5. CASE ImportStep
  <2>1. BudgetPart!SemaphoreNext
    BY <1>5, ImportSteps DEF ImportStep
  <2>2. BudgetPart!IInv'
    BY <2>1, BudgetAssumptions, BudgetPart!NextInvariant
  <2> QED
    BY <1>2, <1>5, <2>2 DEF ImportStep
<1>6. CASE ReconfigureStep
  <2>1. BudgetPart!SemaphoreNext
    BY <1>6, ReconfigureSteps DEF ReconfigureStep
  <2>2. BudgetPart!IInv'
    BY <2>1, BudgetAssumptions, BudgetPart!NextInvariant
  <2> QED
    BY <1>2, <1>6, <2>2 DEF ReconfigureStep
<1>7. CASE UNCHANGED admissionVars
  <2>1. UNCHANGED trackerVars /\ UNCHANGED budgetVars
    BY <1>7 DEF admissionVars
  <2>2. activeCount' = activeCount
    BY <2>1 DEF trackerVars, mapVars
  <2> QED
    BY <1>1, <1>2, <2>1, <2>2, BudgetInvSame
<1> QED
  BY <1>3, <1>4, <1>5, <1>6, <1>7 DEF AdmissionNext

(* The invariants of the two parts hold of them together.                  *)
THEOREM AdmissionInvariant == AdmissionSpec => []AdmissionInv
  BY AdmissionInitInv, AdmissionNextInv, PTL DEF AdmissionSpec

(* Imports are never left waiting for headroom that a playback that ended  *)
(* gave back.                                                              *)
THEOREM NobodyWaitsForHeadroomGivenBack == AdmissionSpec => []NoIdleHeadroom
<1>1. AdmissionInv => NoIdleHeadroom
  BY SameCapacity
  DEF AdmissionInv, BudgetPart!IInv, BudgetPart!NoIdleHeadroom, NoIdleHeadroom, Budget!NoIdleHeadroom
<1> QED
  BY <1>1, AdmissionInvariant, PTL

(* However the removals of streams interleave, imports have the whole pool *)
(* when nothing is played.                                                 *)
THEOREM IdlePoolIsOpenToImports == AdmissionSpec => []IdlePoolIsOpen
<1>1. AdmissionInv => IdlePoolIsOpen
  <2> SUFFICES ASSUME AdmissionInv, Settled, tracked = {}
               PROVE  Budget!EffectiveCap = capacity
    BY DEF IdlePoolIsOpen
  <2>1. Uncounted = {} /\ Deleting = {}
    BY DEF Settled, Uncounted, Deleting, Procs
  <2>2. Cardinality({}) = 0
    BY FS_EmptySet DEF Cardinality, IsFiniteSet
  <2>3. activeCount \in Int /\ activeCount <= 0
    BY <2>1, <2>2
    DEF AdmissionInv, IInv, ShapeOK, TrackerTypeOK, CountBound
  <2>4. capacity \in Nat
    BY DEF AdmissionInv, BudgetPart!IInv, BudgetPart!SemaphoreTypeOK
  <2> QED
    BY <2>3, <2>4 DEF Budget!EffectiveCap, Budget!EffectiveCapFor, Budget!ReservedSlots, Budget!Lesser
<1> QED
  BY <1>1, AdmissionInvariant, PTL

-----------------------------------------------------------------------------
(* PlaybackPlan.                                                           *)

(* What the theorems assume of a player and of a title: HDR is only claimed  *)
(* by the TV players whose HDR path the server knows, and a Dolby Vision     *)
(* profile goes with the Dolby Vision range.                                 *)
Ordinary(c) == (c.hdr => NativeTV(c)) /\ c.channels \in Nat
Probed(m) == m.dv # 0 <=> m.range = "dolby_vision"

SourceRange(m) == IF m.range = "none" THEN "sdr" ELSE m.range
RangesOf(m) == {"sdr", "hdr10", "hlg", SourceRange(m)}
Treatments(m) ==
    [fits : BOOLEAN, range : RangesOf(m), toneMapped : BOOLEAN, fallback : BOOLEAN, hevc : BOOLEAN]

(* The answers about a player and a title are booleans.                      *)
LEMMA PredicatesAreBoolean ==
    ASSUME NEW c, NEW m, NEW s
    PROVE  /\ PictureFits(c, m, s) \in BOOLEAN /\ Enhanced(c, m, s) \in BOOLEAN
           /\ CanUseHDRHEVC(c) \in BOOLEAN /\ CanOutputRange(c, m) \in BOOLEAN
           /\ NativeTV(c) \in BOOLEAN
  BY DEF PictureFits, Enhanced, CanUseHDRHEVC, CanOutputRange, NativeTV

(* The base picture a player falls back to.                                  *)
LEMMA FallbackIs ==
    ASSUME NEW c, NEW m, Probed(m), HDRFallbackRange(c, m) # "none"
    PROVE  LET base == HDRFallbackRange(c, m)
           IN /\ base \in {"hdr10", "hlg"} /\ base \in c.ranges /\ c.hdr
              /\ base = BaseOf(m) /\ IsHDR(m.range)
  BY DEF HDRFallbackRange, CompatibleBase, Probed, BaseOf, IsHDR

(* What a new picture keeps of a range.                                      *)
LEMMA ReencodedIs ==
    ASSUME NEW c, NEW m, Probed(m), NEW r \in {m.range, BaseOf(m)}, IsHDR(m.range),
           ReencodedHDRRange(c, m, r) # "none"
    PROVE  LET range == ReencodedHDRRange(c, m, r)
           IN range \in {"hdr10", "hlg"} /\ range \in c.ranges /\ range = BaseOf(m)
  BY DEF ReencodedHDRRange, CompatibleBase, Probed, BaseOf, IsHDR

(* What the picture is before the display is asked: as the source has it,  *)
(* or enhanced.                                                            *)
LEMMA ShownIs ==
    ASSUME NEW c, NEW m, NEW s
    PROVE  LET t == Shown(c, m, s)
           IN /\ t \in Treatments(m)
              /\ t.fits => PictureFits(c, m, s) /\ ~Enhanced(c, m, s)
              /\ t.hevc <=> Enhanced(c, m, s)
              /\ t.range = IF Enhanced(c, m, s) THEN "hdr10" ELSE SourceRange(m)
              /\ ~t.toneMapped /\ ~t.fallback
<1>1. Shown(c, m, s) \in Treatments(m)
  BY PredicatesAreBoolean, Zenon DEF Shown, Treatments, RangesOf, SourceRange
<1>2. Shown(c, m, s).fits => PictureFits(c, m, s) /\ ~Enhanced(c, m, s)
  BY Zenon DEF Shown
<1>3. Shown(c, m, s).hevc <=> Enhanced(c, m, s)
  BY Zenon DEF Shown
<1>4. Shown(c, m, s).range = IF Enhanced(c, m, s) THEN "hdr10" ELSE SourceRange(m)
  BY Zenon DEF Shown, SourceRange
<1>5. ~Shown(c, m, s).toneMapped /\ ~Shown(c, m, s).fallback
  BY Zenon DEF Shown
<1> QED
  BY <1>1, <1>2, <1>3, <1>4, <1>5

(* A tone-mapped picture is a converted one, in SDR.                       *)
LEMMA ToneMappedIs ==
    ASSUME NEW m, NEW t \in Treatments(m)
    PROVE  LET u == ToneMapped(t)
           IN /\ u \in Treatments(m)
              /\ ~u.fits /\ u.range = "sdr" /\ u.toneMapped /\ ~u.fallback /\ u.hevc = t.hevc
  BY Zenon DEF ToneMapped, Treatments, RangesOf

(* A picture that falls back keeps its treatment but for the range, and is *)
(* not copied from two layers.                                             *)
LEMMA FellBackIs ==
    ASSUME NEW m, NEW t \in Treatments(m), NEW base \in {"hdr10", "hlg"}
    PROVE  LET u == FellBack(t, base, m)
           IN /\ u \in Treatments(m)
              /\ u.fits => t.fits /\ m.dv # 7
              /\ u.range = base /\ u.toneMapped = t.toneMapped /\ u.fallback /\ u.hevc = t.hevc
  BY Zenon DEF FellBack, Treatments, RangesOf

(* What the display leaves of a picture: its own range, the base picture in*)
(* it, or SDR.                                                             *)
LEMMA DisplayedIs ==
    ASSUME NEW c, NEW m, NEW s, Probed(m)
    PROVE  LET t == Displayed(c, m, s)
           IN /\ t \in Treatments(m)
              /\ t.fits => PictureFits(c, m, s) /\ ~Enhanced(c, m, s) /\ ~t.toneMapped
              /\ t.hevc <=> Enhanced(c, m, s)
              /\ \/ /\ CanOutputRange(c, m) /\ ~t.toneMapped /\ ~t.fallback
                    /\ t.range = IF Enhanced(c, m, s) THEN "hdr10" ELSE SourceRange(m)
                 \/ /\ ~CanOutputRange(c, m) /\ ~t.toneMapped /\ t.fallback /\ (t.fits => m.dv # 7)
                    /\ t.range = HDRFallbackRange(c, m) /\ HDRFallbackRange(c, m) # "none"
                 \/ ~CanOutputRange(c, m) /\ t.toneMapped /\ ~t.fits /\ t.range = "sdr"
<1> DEFINE t == Displayed(c, m, s)
<1>1. CASE CanOutputRange(c, m)
  <2>1. t = Shown(c, m, s)
    BY <1>1, Zenon DEF Displayed
  <2> QED
    BY <1>1, <2>1, ShownIs
<1>2. CASE ~CanOutputRange(c, m) /\ HDRFallbackRange(c, m) # "none"
  <2>1. t = FellBack(Shown(c, m, s), HDRFallbackRange(c, m), m)
    BY <1>2, Zenon DEF Displayed
  <2>2. HDRFallbackRange(c, m) \in {"hdr10", "hlg"}
    BY <1>2, FallbackIs
  <2> QED
    BY <1>2, <2>1, <2>2, ShownIs, FellBackIs
<1>3. CASE ~CanOutputRange(c, m) /\ ~(HDRFallbackRange(c, m) # "none")
  <2>1. t = ToneMapped(Shown(c, m, s))
    BY <1>3, Zenon DEF Displayed
  <2> QED
    BY <1>3, <2>1, ShownIs, ToneMappedIs
<1> QED
  BY <1>1, <1>2, <1>3

(* A range the player and its display can use is one the display shows.      *)
LEMMA OutputIs ==
    ASSUME NEW c, NEW m, Probed(m), CanOutputRange(c, m), IsHDR(m.range)
    PROVE  /\ c.hdr /\ m.range \in c.ranges
           /\ m.range = "dolby_vision" => m.dv \in c.dolby \/ c.dolby = {}
  BY DEF CanOutputRange, Probed

(* What a native TV player leaves of it: a copy, a new HDR picture, or SDR.*)
LEMMA NativeIs ==
    ASSUME NEW c, NEW m, Probed(m), IsHDR(m.range), NEW t \in Treatments(m), t.range \in {"sdr", m.range, BaseOf(m)},
           t.toneMapped <=> t.range = "sdr"
    PROVE  LET u == Native(c, m, t)
           IN /\ u \in Treatments(m)
              /\ \/ u = t /\ (NativeTV(c) => t.fits /\ m.codec = "hevc")
                 \/ /\ NativeTV(c) /\ CanUseHDRHEVC(c) /\ ~u.fits /\ ~u.toneMapped /\ u.hevc
                    /\ u.range \in {"hdr10", "hlg"} /\ u.range \in c.ranges /\ u.range = BaseOf(m)
                 \/ ~u.fits /\ u.toneMapped /\ u.range = "sdr" /\ u.hevc = t.hevc
<1> DEFINE u == Native(c, m, t)
           range == ReencodedHDRRange(c, m, t.range)
<1>1. CASE ~NativeTV(c) \/ (t.fits /\ m.codec = "hevc")
  <2>1. u = t
    BY <1>1, Zenon DEF Native
  <2> QED
    BY <1>1, <2>1
<1>2. CASE /\ NativeTV(c) /\ ~(t.fits /\ m.codec = "hevc") /\ ~t.toneMapped /\ CanUseHDRHEVC(c)
           /\ range # "none"
  <2>1. PICK differs \in BOOLEAN : differs = (range # m.range)
    BY Zenon
  <2>2. u = [t EXCEPT !.fits = FALSE, !.range = range, !.fallback = differs, !.hevc = TRUE]
    BY <1>2, <2>1, Zenon DEF Native
  <2>3. range \in {"hdr10", "hlg"} /\ range \in c.ranges /\ range = BaseOf(m)
    BY <1>2, ReencodedIs
  <2>4. u \in Treatments(m) /\ ~u.fits /\ u.range = range /\ u.toneMapped = t.toneMapped /\ u.hevc
    BY <2>2, <2>3, Zenon DEF Treatments, RangesOf
  <2> QED
    BY <1>2, <2>3, <2>4
<1>3. CASE /\ NativeTV(c) /\ ~(t.fits /\ m.codec = "hevc")
           /\ ~(~t.toneMapped /\ CanUseHDRHEVC(c) /\ range # "none")
  <2>1. u = ToneMapped(t)
    BY <1>3, Zenon DEF Native
  <2> QED
    BY <2>1, ToneMappedIs
<1> QED
  BY <1>1, <1>2, <1>3

TreatmentFacts(c, m, s, t) ==
    /\ t \in Treatments(m)
    /\ t.fits => PictureFits(c, m, s) /\ ~t.toneMapped /\ ~t.hevc
    /\ t.fits /\ IsHDR(m.range) =>
           /\ c.hdr /\ NativeTV(c) /\ m.codec = "hevc" /\ Within(m.depth, c.depth)
           /\ t.range \in c.ranges /\ t.range \in {m.range, BaseOf(m)} /\ (m.dv = 7 => t.range = m.range)
           /\ t.range = "dolby_vision" => m.dv \in c.dolby \/ c.dolby = {}
           /\ t.range # m.range => t.range \in {"hdr10", "hlg"} /\ t.fallback
    /\ ~t.fits /\ IsHDR(t.range) =>
           /\ t.range \in {"hdr10", "hlg"} /\ t.range \in c.ranges /\ t.hevc
           /\ IsHDR(m.range) => t.range = BaseOf(m)
    /\ t.hevc => CanUseHDRHEVC(c)
    /\ t.toneMapped <=> IsHDR(m.range) /\ ~IsHDR(t.range)
    /\ ~IsHDR(m.range) => t.range = IF Enhanced(c, m, s) THEN "hdr10" ELSE "sdr"
    /\ IsHDR(t.range) /\ ~t.fits => NativeTV(c)
    /\ t.range # "none" /\ (~IsHDR(t.range) => t.range = "sdr")

(* What happens to a picture, in all: what is copied and in which range,   *)
(* what is converted and to what.                                          *)
LEMMA TreatmentIs ==
    ASSUME NEW c, NEW m, NEW s, Ordinary(c), Probed(m)
    PROVE  TreatmentFacts(c, m, s, Treatment(c, m, s))
<1> DEFINE shown == Displayed(c, m, s)
           deep == DeepEnough(c, m, shown)
           t == Treatment(c, m, s)
<1>1. /\ shown \in Treatments(m)
      /\ shown.fits => PictureFits(c, m, s) /\ ~Enhanced(c, m, s) /\ ~shown.toneMapped
      /\ shown.hevc <=> Enhanced(c, m, s)
      /\ \/ /\ CanOutputRange(c, m) /\ ~shown.toneMapped /\ ~shown.fallback
            /\ shown.range = IF Enhanced(c, m, s) THEN "hdr10" ELSE SourceRange(m)
         \/ /\ ~CanOutputRange(c, m) /\ ~shown.toneMapped /\ shown.fallback /\ (shown.fits => m.dv # 7)
            /\ shown.range = HDRFallbackRange(c, m) /\ HDRFallbackRange(c, m) # "none"
         \/ ~CanOutputRange(c, m) /\ shown.toneMapped /\ ~shown.fits /\ shown.range = "sdr"
  BY DisplayedIs
<1>2. Enhanced(c, m, s) =>
         m.range = "sdr" /\ CanUseHDRHEVC(c) /\ NativeTV(c) /\ "hdr10" \in c.ranges
  BY DEF Enhanced, CanUseHDRHEVC
<1> HIDE DEF shown
<1>3. CASE ~IsHDR(m.range)
  <2>1. t = shown
    BY <1>3, Zenon DEF Treatment, shown
  <2>2. CanOutputRange(c, m)
    BY <1>3 DEF CanOutputRange
  <2>3. SourceRange(m) = "sdr"
    BY <1>3 DEF IsHDR, SourceRange
  <2>4. ~IsHDR("sdr") /\ IsHDR("hdr10")
    BY DEF IsHDR
  <2> QED
    BY <1>1, <1>2, <1>3, <2>1, <2>2, <2>3, <2>4 DEF TreatmentFacts
<1>4. ASSUME IsHDR(m.range)
      PROVE  TreatmentFacts(c, m, s, t)
  <2>1. t = Native(c, m, deep)
    BY <1>4, Zenon DEF Treatment, shown
  <2>2. ~Enhanced(c, m, s) /\ SourceRange(m) = m.range
    BY <1>2, <1>4 DEF IsHDR, SourceRange
  <2>3. /\ ~shown.toneMapped => c.hdr /\ shown.range \in c.ranges
        /\ shown.range \in {"sdr", m.range, BaseOf(m)} /\ (shown.toneMapped <=> shown.range = "sdr")
        /\ shown.range # "sdr" =>
              /\ shown.range = "dolby_vision" => m.dv \in c.dolby \/ c.dolby = {}
              /\ shown.range # m.range => shown.range \in {"hdr10", "hlg"} /\ shown.fallback
              /\ shown.fits /\ m.dv = 7 => shown.range = m.range
    BY <1>1, <1>4, <2>2, OutputIs, FallbackIs DEF IsHDR
  <2>4. /\ deep \in Treatments(m)
        /\ \/ deep = shown /\ Within(m.depth, c.depth)
           \/ ~deep.fits /\ deep.toneMapped /\ deep.range = "sdr" /\ deep.hevc = shown.hevc
    <3>1. CASE Within(m.depth, c.depth)
      BY <1>1, <3>1 DEF DeepEnough
    <3>2. CASE ~Within(m.depth, c.depth)
      <4>1. deep = ToneMapped(shown)
        BY <3>2, Zenon DEF DeepEnough
      <4> QED
        BY <1>1, <4>1, ToneMappedIs
    <3> QED
      BY <3>1, <3>2
  <2> HIDE DEF deep
  <2>5. deep.range \in {"sdr", m.range, BaseOf(m)} /\ (deep.toneMapped <=> deep.range = "sdr") /\ ~deep.hevc
    BY <1>1, <2>2, <2>3, <2>4
  <2>6. /\ t \in Treatments(m)
        /\ \/ t = deep /\ (NativeTV(c) => deep.fits /\ m.codec = "hevc")
           \/ /\ NativeTV(c) /\ CanUseHDRHEVC(c) /\ ~t.fits /\ ~t.toneMapped /\ t.hevc
              /\ t.range \in {"hdr10", "hlg"} /\ t.range \in c.ranges /\ t.range = BaseOf(m)
           \/ ~t.fits /\ t.toneMapped /\ t.range = "sdr" /\ t.hevc = deep.hevc
    BY <1>4, <2>1, <2>4, <2>5, NativeIs
  <2> HIDE DEF t
  <2>7. CASE t = deep /\ deep = shown /\ Within(m.depth, c.depth) /\ ~shown.toneMapped
    <3>1. NativeTV(c) /\ t.fits /\ m.codec = "hevc"
      BY <2>3, <2>5, <2>6, <2>7 DEF Ordinary
    <3>2. IsHDR(t.range)
      BY <1>4, <2>3, <2>7 DEF IsHDR
    <3>3. t.range # "none" /\ t.range # "sdr"
      BY <3>2 DEF IsHDR
    <3>4. t.fits => PictureFits(c, m, s) /\ ~t.toneMapped /\ ~t.hevc
      BY <1>1, <2>2, <2>7
    <3> QED
      BY <1>4, <2>3, <2>6, <2>7, <3>1, <3>2, <3>3, <3>4 DEF TreatmentFacts
  <2>8. CASE ~t.fits /\ t.toneMapped /\ t.range = "sdr" /\ ~t.hevc
    BY <1>4, <2>6, <2>8 DEF TreatmentFacts, IsHDR
  <2>9. CASE /\ NativeTV(c) /\ CanUseHDRHEVC(c) /\ ~t.fits /\ ~t.toneMapped /\ t.hevc
             /\ t.range \in {"hdr10", "hlg"} /\ t.range \in c.ranges /\ t.range = BaseOf(m)
    BY <1>4, <2>6, <2>9 DEF TreatmentFacts, IsHDR
  <2> QED
    BY <1>1, <2>3, <2>4, <2>5, <2>6, <2>7, <2>8, <2>9
<1> QED
  BY <1>3, <1>4

-----------------------------------------------------------------------------
(* The query of a URL.                                                       *)
Modes == {"direct", "remux", "audio", "video", "full"}

QueryModes == (Modes \ {"direct"}) \cup {"none"}
QueryCodecs == {"none", "h264", "hevc"}
QueryContainers == {"none", "hls", "mpegts"}

Queries(V) ==
    [mode : QueryModes, codec : QueryCodecs, container : QueryContainers,
     track : V, channels : V, source : V, output : V, copied : V,
     toneMap : BOOLEAN, strip : BOOLEAN, enhancement : BOOLEAN, scaler : BOOLEAN]

(* The URL a player was listed is a query.                                 *)
LEMMA BareIs == Bare \in Queries({0, "none"}) /\ Bare.mode = "none"
  BY Zenon DEF Bare, Queries, QueryModes, QueryCodecs, QueryContainers

(* A planned URL names the mode, the codec of a new picture, and the       *)
(* enhancement it had.                                                     *)
LEMMA PlannedIs ==
    ASSUME NEW V, NEW q \in Queries(V), NEW mode \in Modes \ {"direct"}, NEW codec,
           NEW track, NEW container, mode \in {"video", "full"} => codec \in {"h264", "hevc"}
    PROVE  LET u == PlannedURL(q, mode, codec, track, container)
           IN /\ u \in Queries({0, "none", track})
              /\ u.mode = mode /\ u.codec = IF mode \in {"video", "full"} THEN codec ELSE "none"
              /\ u.enhancement = q.enhancement
<1>1. PICK e \in BOOLEAN : e = q.enhancement
  BY DEF Queries
<1>2. PICK n \in QueryContainers : n = Preferred(container)
  BY DEF Preferred, QueryContainers
<1>3. PICK k \in QueryCodecs : k = IF mode \in {"video", "full"} THEN codec ELSE "none"
  BY DEF QueryCodecs
<1>4. PICK W : W = {0, "none", track}
  OBVIOUS
<1>5. mode \in QueryModes /\ track \in W /\ Bare \in Queries(W)
  <2>1. 0 \in W /\ "none" \in W
    BY <1>4
  <2>2. Bare \in Queries(W)
    BY <2>1, Zenon DEF Bare, Queries, QueryModes, QueryCodecs, QueryContainers
  <2> QED
    BY <1>4, <2>2 DEF QueryModes
<1>6. PlannedURL(q, mode, codec, track, container)
         = [Bare EXCEPT !.enhancement = e, !.mode = mode, !.track = track, !.codec = k, !.container = n]
  BY <1>1, <1>2, <1>3, Zenon DEF PlannedURL
<1>7. LET u == PlannedURL(q, mode, codec, track, container)
      IN u \in Queries(W) /\ u.mode = mode /\ u.codec = k /\ u.enhancement = e
  BY <1>5, <1>6, Zenon DEF Queries
<1> QED
  BY <1>1, <1>3, <1>4, <1>7

(* An annotated URL names the source, the output and what is copied.       *)
LEMMA AnnotatedIs ==
    ASSUME NEW V, NEW q, q \in Queries(V), NEW p, NEW container, NEW u,
           p.toneMapped \in BOOLEAN, u = AnnotateURL(q, p, container)
    PROVE  /\ \E W : u \in Queries(W)
           /\ u.mode = q.mode /\ u.codec = q.codec /\ u.enhancement = q.enhancement
           /\ u.copied = p.videoCodec /\ u.source = p.source /\ u.output = p.output
           /\ u.toneMap = p.toneMapped /\ u.container = Preferred(container)
           /\ u.strip <=> p.source = "dolby_vision" /\ p.output # "dolby_vision" /\ ~p.toneMapped
<1> DEFINE W == V \cup {p.videoCodec, p.source, p.output, p.track, p.channels, 0}
<1>1. PICK b \in BOOLEAN : b = (p.source = "dolby_vision" /\ p.output # "dolby_vision" /\ ~p.toneMapped)
  BY Zenon
<1>2. PICK k : k = IF p.audioMode = "transcode" THEN p.channels ELSE 0
  OBVIOUS
<1>3. PICK n \in QueryContainers : n = Preferred(container)
  BY DEF Preferred, QueryContainers
<1>4. u
         = [q EXCEPT !.copied = p.videoCodec, !.source = p.source, !.output = p.output, !.container = n,
                     !.toneMap = p.toneMapped, !.track = p.track, !.strip = b, !.channels = k]
  BY <1>1, <1>2, <1>3, Zenon DEF AnnotateURL
<1>5. q \in Queries(W) /\ {p.videoCodec, p.source, p.output, p.track, k} \subseteq W
  BY <1>2 DEF Queries
<1> HIDE DEF W
<1>6. /\ u \in Queries(W)
      /\ u.mode = q.mode /\ u.codec = q.codec /\ u.enhancement = q.enhancement
      /\ u.copied = p.videoCodec /\ u.source = p.source /\ u.output = p.output
      /\ u.toneMap = p.toneMapped /\ u.container = n /\ u.strip = b
  BY <1>4, <1>5, Zenon DEF Queries
<1> QED
  BY <1>1, <1>3, <1>6

-----------------------------------------------------------------------------
(* The plan for a title.                                                     *)
LEMMA ModeIs ==
    ASSUME NEW fits \in BOOLEAN, NEW copied \in BOOLEAN, NEW repackage \in BOOLEAN
    PROVE  LET mode == ModeOf(fits, copied, repackage)
           IN /\ mode \in IF fits THEN {"direct", "remux", "audio"} ELSE {"video", "full"}
              /\ mode = "video" => copied
<1>1. CASE fits /\ copied /\ repackage
  BY <1>1 DEF ModeOf
<1>2. CASE fits /\ copied /\ ~repackage
  BY <1>2 DEF ModeOf
<1>3. CASE fits /\ ~copied
  BY <1>3 DEF ModeOf
<1>4. CASE ~fits /\ copied
  BY <1>4 DEF ModeOf
<1>5. CASE ~fits /\ ~copied
  BY <1>5 DEF ModeOf
<1> QED
  BY <1>1, <1>2, <1>3, <1>4, <1>5

(* Converted audio has six channels only where the player takes six.       *)
LEMMA ChannelsAre ==
    ASSUME NEW c, NEW n, Ordinary(c)
    PROVE  LET k == TranscodeAudioChannels(c, n)
           IN k \in {0, 2, 6} /\ (k = 6 => c.channels >= 6)
<1>1. CASE c.platform \notin {"tvos", "android_tv"}
  BY <1>1 DEF TranscodeAudioChannels
<1>2. CASE c.platform \in {"tvos", "android_tv"} /\ n >= 6 /\ c.channels >= 6
  BY <1>2 DEF TranscodeAudioChannels
<1>3. CASE c.platform \in {"tvos", "android_tv"} /\ ~(n >= 6 /\ c.channels >= 6)
  BY <1>3 DEF TranscodeAudioChannels
<1> QED
  BY <1>1, <1>2, <1>3

(* What a plan with a picture treated as t is.                               *)
TitleFacts(c, m, t, p) ==
    /\ p.caps = c /\ p.media = m /\ ~p.channel
    /\ p.videoMode = IF t.fits THEN "direct" ELSE "transcode"
    /\ p.videoCodec = IF t.fits THEN m.codec ELSE IF t.hevc THEN "hevc" ELSE "h264"
    /\ p.source = SourceRange(m) /\ p.output = t.range /\ p.toneMapped = t.toneMapped
    /\ p.mode \in IF t.fits THEN {"direct", "remux", "audio"} ELSE {"video", "full"}
    /\ NativeTV(c) => p.mode # "video"
    /\ p.container = IF p.mode = "direct" THEN m.container
                     ELSE IF p.mode = "full" /\ c.container = "none" THEN "mpegts" ELSE c.container
    /\ p.audioMode = "transcode" => p.channels \in {0, 2, 6} /\ (p.channels = 6 => c.channels >= 6)
    /\ p.audioMode # "transcode" /\ p.track # 0 =>
           AudioFits(c, m.tracks[p.track].codec, m.tracks[p.track].channels)

(* A plan for a title says what the treatment of its picture says.         *)
LEMMA TitlePlanIs ==
    ASSUME NEW c, NEW m, NEW s, NEW q, NEW w, Ordinary(c), Probed(m)
    PROVE  LET p == TitlePlan(c, m, s, q, w)
           IN TitleFacts(c, m, Treatment(c, m, s), p) /\ p.query = q
<1> DEFINE p == TitlePlan(c, m, s, q, w)
           track == SelectAudioTrack(c, m, w)
           codec == IF track = 0 THEN "none" ELSE m.tracks[track].codec
           channels == IF track = 0 THEN 0 ELSE m.tracks[track].channels
           t == Treatment(c, m, s)
           copied == AudioIsCopied(c, m, t.fits, codec, channels)
           repackage == (c.container # "none" /\ m.container \notin c.containers \cup {"none"}) \/ t.fallback
           mode == ModeOf(t.fits, copied, repackage)
<1>1. /\ p.caps = c /\ p.media = m /\ p.channel = FALSE
      /\ p.videoMode = IF t.fits THEN "direct" ELSE "transcode"
      /\ p.videoCodec = IF t.fits THEN m.codec ELSE IF t.hevc THEN "hevc" ELSE "h264"
      /\ p.source = SourceRange(m) /\ p.output = t.range /\ p.toneMapped = t.toneMapped
      /\ p.track = track /\ p.query = q
      /\ p.channels = IF copied THEN channels ELSE TranscodeAudioChannels(c, channels)
  BY Zenon DEF TitlePlan, SourceRange
<1>2. p.mode = mode
  BY Zenon DEF TitlePlan
<1>3. p.audioMode = CASE ~copied -> "transcode" [] copied /\ Passes(c, codec) -> "bitstream" [] OTHER -> "direct"
  BY Zenon DEF TitlePlan
<1>4. p.container = CASE mode = "direct" -> m.container
                      [] mode = "full" /\ c.container = "none" -> "mpegts"
                      [] OTHER -> c.container
  BY Zenon DEF TitlePlan
<1>5. t.fits \in BOOLEAN
  BY TreatmentIs DEF TreatmentFacts, Treatments
<1>6. PICK a \in BOOLEAN : a = copied
  BY Zenon DEF AudioIsCopied
<1>7. PICK b \in BOOLEAN : b = repackage
  BY Zenon
<1>8. copied => AudioFits(c, codec, channels) /\ (NativeTV(c) => t.fits)
  BY DEF AudioIsCopied
<1>9. p.mode = ModeOf(t.fits, a, b)
  BY <1>2, <1>6, <1>7, Zenon
<1>a. /\ p.mode \in IF t.fits THEN {"direct", "remux", "audio"} ELSE {"video", "full"}
      /\ NativeTV(c) => p.mode # "video"
  BY <1>5, <1>6, <1>8, <1>9, ModeIs
<1>b. p.container = IF p.mode = "direct" THEN m.container
                    ELSE IF p.mode = "full" /\ c.container = "none" THEN "mpegts" ELSE c.container
  <2>1. CASE mode = "direct"
    BY <1>2, <1>4, <2>1
  <2>2. CASE mode = "full" /\ c.container = "none" /\ ~(mode = "direct")
    BY <1>2, <1>4, <2>2
  <2>3. CASE ~(mode = "direct") /\ ~(mode = "full" /\ c.container = "none")
    BY <1>2, <1>4, <2>3
  <2> QED
    BY <2>1, <2>2, <2>3
<1>c. p.audioMode = "transcode" <=> ~copied
  <2>1. CASE ~copied
    BY <1>3, <2>1
  <2>2. CASE copied /\ Passes(c, codec)
    BY <1>3, <2>2
  <2>3. CASE copied /\ ~Passes(c, codec)
    BY <1>3, <2>3
  <2> QED
    BY <2>1, <2>2, <2>3
<1>d. ~copied => p.channels \in {0, 2, 6} /\ (p.channels = 6 => c.channels >= 6)
  BY <1>1, ChannelsAre
<1>e. copied /\ p.track # 0 => AudioFits(c, m.tracks[p.track].codec, m.tracks[p.track].channels)
  BY <1>1, <1>8
<1> HIDE DEF p, t, mode, copied, repackage
<1> QED
  BY <1>1, <1>a, <1>b, <1>c, <1>d, <1>e DEF TitleFacts, p, t

(* What the URL of a plan carries that was asked for with the query q.       *)
URLFacts(c, m, s, q, p) ==
    /\ p.query.mode = IF p.mode = "direct" THEN q.mode ELSE p.mode
    /\ p.mode # "direct" => p.query.codec = IF p.mode \in {"video", "full"} THEN p.videoCodec ELSE "none"
    /\ p.query.copied = p.videoCodec /\ p.query.source = p.source /\ p.query.output = p.output
    /\ p.query.toneMap = p.toneMapped
    /\ p.query.container = Preferred(IF c.container = "none" THEN "none" ELSE p.container)
    /\ p.query.strip <=> p.source = "dolby_vision" /\ p.output # "dolby_vision" /\ ~p.toneMapped
    /\ Enhanced(c, m, s) => p.query.enhancement

(* The URL of a plan carries what the plan says.                           *)
LEMMA TitleURLIs ==
    ASSUME NEW c, NEW m, NEW s, NEW p, NEW V, p.query \in Queries(V), p.mode \in Modes, p.toneMapped \in BOOLEAN,
           p.mode \in {"video", "full"} => p.videoCodec \in {"h264", "hevc"}
    PROVE  LET u == TitleURL(c, m, s, p)
           IN /\ \E W : u \in Queries(W)
              /\ u.mode = IF p.mode = "direct" THEN p.query.mode ELSE p.mode
              /\ p.mode # "direct" => u.codec = IF p.mode \in {"video", "full"} THEN p.videoCodec ELSE "none"
              /\ u.copied = p.videoCodec /\ u.source = p.source /\ u.output = p.output /\ u.toneMap = p.toneMapped
              /\ u.container = Preferred(IF c.container = "none" THEN "none" ELSE p.container)
              /\ u.strip <=> p.source = "dolby_vision" /\ p.output # "dolby_vision" /\ ~p.toneMapped
              /\ Enhanced(c, m, s) => u.enhancement
<1>1. PICK q0, V0 :
         /\ q0 = IF p.mode = "direct" THEN p.query
                 ELSE PlannedURL(p.query, p.mode, p.videoCodec, p.track, c.container)
         /\ q0 \in Queries(V0)
         /\ q0.mode = IF p.mode = "direct" THEN p.query.mode ELSE p.mode
         /\ p.mode # "direct" => q0.codec = IF p.mode \in {"video", "full"} THEN p.videoCodec ELSE "none"
  <2>1. CASE p.mode = "direct"
    BY <2>1
  <2>2. CASE p.mode # "direct"
    <3>1. LET u == PlannedURL(p.query, p.mode, p.videoCodec, p.track, c.container)
          IN /\ u \in Queries({0, "none", p.track})
             /\ u.mode = p.mode /\ u.codec = IF p.mode \in {"video", "full"} THEN p.videoCodec ELSE "none"
      BY <2>2, PlannedIs
    <3> QED
      BY <2>2, <3>1
  <2> QED
    BY <2>1, <2>2
<1>2. PICK k : k = IF c.container = "none" THEN "none" ELSE p.container
  OBVIOUS
<1>7. PICK url : url = AnnotateURL(q0, p, k)
  OBVIOUS
<1>3. /\ \E W : url \in Queries(W)
      /\ url.mode = q0.mode /\ url.codec = q0.codec /\ url.enhancement = q0.enhancement
      /\ url.copied = p.videoCodec /\ url.source = p.source /\ url.output = p.output
      /\ url.toneMap = p.toneMapped /\ url.container = Preferred(k)
      /\ url.strip <=> p.source = "dolby_vision" /\ p.output # "dolby_vision" /\ ~p.toneMapped
  BY <1>1, <1>7, AnnotatedIs
<1>a. PICK W : url \in Queries(W)
  BY <1>3
<1>4. PICK a \in BOOLEAN, b \in BOOLEAN :
         a = (url.scaler \/ Upscaled(c, m, s)) /\ b = (url.enhancement \/ Enhanced(c, m, s))
  BY Zenon
<1>5. TitleURL(c, m, s, p) = [url EXCEPT !.scaler = a, !.enhancement = b]
  BY <1>1, <1>2, <1>4, <1>7, Zenon DEF TitleURL
<1>6. LET u == TitleURL(c, m, s, p)
      IN /\ u \in Queries(W) /\ u.mode = url.mode /\ u.codec = url.codec
         /\ u.copied = url.copied /\ u.source = url.source /\ u.output = url.output
         /\ u.toneMap = url.toneMap /\ u.container = url.container /\ u.strip = url.strip
         /\ u.enhancement = b
  BY <1>a, <1>5, Zenon DEF Queries
<1>8. PICK u : u = TitleURL(c, m, s, p)
  OBVIOUS
<1>9. /\ u \in Queries(W) /\ (Enhanced(c, m, s) => u.enhancement)
      /\ u.mode = q0.mode /\ u.codec = q0.codec /\ u.copied = p.videoCodec /\ u.source = p.source
      /\ u.output = p.output /\ u.toneMap = p.toneMapped
      /\ u.container = Preferred(IF c.container = "none" THEN "none" ELSE p.container)
      /\ u.strip <=> p.source = "dolby_vision" /\ p.output # "dolby_vision" /\ ~p.toneMapped
  BY <1>2, <1>3, <1>4, <1>6, <1>8
<1> QED
  BY <1>1, <1>8, <1>9

(* A plan for a title, with its URL.                                       *)
LEMMA BuildPlanIs ==
    ASSUME NEW c, NEW m, NEW s, NEW q, NEW w, NEW V, q \in Queries(V), Ordinary(c), Probed(m)
    PROVE  LET p == BuildPlan(c, m, s, q, w)
           IN /\ TitleFacts(c, m, Treatment(c, m, s), p) /\ URLFacts(c, m, s, q, p)
              /\ \E W : p.query \in Queries(W)
<1> DEFINE o == TitlePlan(c, m, s, q, w)
           p == BuildPlan(c, m, s, q, w)
           t == Treatment(c, m, s)
<1>1. TitleFacts(c, m, t, o) /\ o.query = q
  BY TitlePlanIs
<1>2. TreatmentFacts(c, m, s, t)
  BY TreatmentIs
<1>3. /\ p.caps = o.caps /\ p.media = o.media /\ p.channel = o.channel /\ p.videoMode = o.videoMode
      /\ p.videoCodec = o.videoCodec /\ p.source = o.source /\ p.output = o.output /\ p.toneMapped = o.toneMapped
      /\ p.mode = o.mode /\ p.container = o.container /\ p.audioMode = o.audioMode /\ p.channels = o.channels
      /\ p.track = o.track /\ p.query = TitleURL(c, m, s, o)
  <2>1. p = [o EXCEPT !.query = TitleURL(c, m, s, o)]
    BY Zenon DEF BuildPlan
  <2>2. DOMAIN o = {"caps", "media", "channel", "mode", "videoMode", "audioMode", "videoCodec", "container",
                    "source", "output", "toneMapped", "track", "channels", "query"}
    BY Zenon DEF TitlePlan
  <2> HIDE DEF o, p
  <2> QED
    BY <2>1, <2>2
<1> HIDE DEF o, p, t
<1>4. TitleFacts(c, m, t, p)
  BY <1>1, <1>3 DEF TitleFacts
<1>5. /\ o.mode \in Modes /\ o.toneMapped \in BOOLEAN
      /\ o.mode \in {"video", "full"} => o.videoCodec \in {"h264", "hevc"}
  BY <1>1, <1>2 DEF TitleFacts, TreatmentFacts, Treatments, Modes
<1>6. URLFacts(c, m, s, q, p) /\ \E W : p.query \in Queries(W)
  BY <1>1, <1>3, <1>5, TitleURLIs DEF URLFacts
<1> QED
  BY <1>4, <1>6 DEF p, t
-----------------------------------------------------------------------------
(* The plan for a channel.                                                   *)

(* The range of a channel is SDR, or one the display shows and HEVC carries. *)
LEMMA ChannelRangeIs ==
    ASSUME NEW c, NEW m
    PROVE  LET range == ChannelRange(c, m)
           IN \/ range = "sdr"
              \/ range \in {"hdr10", "hlg"} /\ range \in c.ranges /\ c.hdr
  BY DEF ChannelRange, ReencodedHDRRange, CompatibleBase

ChannelFacts(c, m, p) ==
    /\ p.caps = c /\ p.media = m /\ p.channel
    /\ p.mode = "full" /\ p.videoMode = "transcode" /\ p.audioMode = "transcode"
    /\ p.videoCodec = ChannelCodec(c)
    /\ p.source = SourceRange(m) /\ p.channels \in {2, 6} /\ (p.channels = 6 => c.channels >= 6)
    /\ p.toneMapped <=> IsHDR(m.range) /\ p.output = "sdr"
    /\ \/ p.output = "sdr"
       \/ p.output \in {"hdr10", "hlg"} /\ p.output \in c.ranges /\ c.hdr /\ CanUseHDRHEVC(c) /\ p.videoCodec = "hevc"

(* A plan for a channel is a whole conversion the player takes.            *)
LEMMA ChannelPlanIs ==
    ASSUME NEW c, NEW m, NEW q, NEW w, NEW V, q \in Queries(V), Ordinary(c)
    PROVE  LET p == BuildChannelPlan(c, m, q, w)
           IN ChannelFacts(c, m, p) /\ \E W : p.query \in Queries(W)
<1> DEFINE track == SelectAudioTrack(c, m, w)
           channels == IF track = 0 THEN 0 ELSE m.tracks[track].channels
           range == CASE FixedOutput(c) -> FixedRange(c)
                      [] ~FixedOutput(c) /\ ChannelCodec(c) = "hevc" -> ChannelRange(c, m)
                      [] OTHER -> "sdr"
           wide == IF FixedOutput(c) THEN c.channels >= 6 ELSE TranscodeAudioChannels(c, channels) = 6
           o == [caps |-> c, media |-> m, channel |-> TRUE, mode |-> "full",
                 videoMode |-> "transcode", audioMode |-> "transcode", videoCodec |-> ChannelCodec(c),
                 container |-> "hls", source |-> IF m.range = "none" THEN "sdr" ELSE m.range, output |-> range,
                 toneMapped |-> IsHDR(m.range) /\ range = "sdr", track |-> track,
                 channels |-> IF wide THEN 6 ELSE 2, query |-> q]
           planned == PlannedURL(q, "full", ChannelCodec(c), track, "hls")
           p == BuildChannelPlan(c, m, q, w)
<1>1. p = [o EXCEPT !.query = AnnotateURL(planned, o, "hls")]
  BY Zenon DEF BuildChannelPlan
<1>2. /\ o.caps = c /\ o.media = m /\ o.channel = TRUE /\ o.mode = "full" /\ o.videoMode = "transcode"
      /\ o.audioMode = "transcode" /\ o.videoCodec = ChannelCodec(c) /\ o.source = SourceRange(m)
      /\ o.output = range /\ o.channels = (IF wide THEN 6 ELSE 2)
      /\ DOMAIN o = {"caps", "media", "channel", "mode", "videoMode", "audioMode", "videoCodec", "container",
                     "source", "output", "toneMapped", "track", "channels", "query"}
  BY Zenon DEF SourceRange
<1>3. PICK b \in BOOLEAN : b = (IsHDR(m.range) /\ range = "sdr")
  BY Zenon
<1>4. o.toneMapped = b
  BY <1>3, Zenon
<1>5. wide => c.channels >= 6
  BY ChannelsAre
<1>6. ChannelCodec(c) \in {"h264", "hevc"}
  BY DEF ChannelCodec
<1>7. \/ range = "sdr"
      \/ range \in {"hdr10", "hlg"} /\ range \in c.ranges /\ c.hdr /\ CanUseHDRHEVC(c) /\ ChannelCodec(c) = "hevc"
  <2>1. CASE FixedOutput(c)
    <3>1. range = FixedRange(c)
      BY <2>1
    <3> QED
      BY <2>1, <3>1 DEF FixedRange, ChannelCodec, CanUseHDRHEVC
  <2>2. CASE ~FixedOutput(c) /\ ChannelCodec(c) = "hevc"
    <3>1. range = ChannelRange(c, m)
      BY <2>2
    <3>2. CanUseHDRHEVC(c)
      BY <2>2 DEF ChannelCodec
    <3> QED
      BY <2>2, <3>1, <3>2, ChannelRangeIs
  <2>3. CASE ~FixedOutput(c) /\ ~(ChannelCodec(c) = "hevc")
    BY <2>3
  <2> QED
    BY <2>1, <2>2, <2>3
<1>8. \E W : planned \in Queries(W)
  BY <1>6, PlannedIs DEF Modes
<1> HIDE DEF o, planned, range, wide
<1>c. PICK u : u = AnnotateURL(planned, o, "hls")
  OBVIOUS
<1>9. \E W : u \in Queries(W)
  <2>1. o.toneMapped \in BOOLEAN
    BY <1>4
  <2>2. PICK W : planned \in Queries(W)
    BY <1>8
  <2> QED
    BY <1>c, <2>1, <2>2, AnnotatedIs
<1>a. /\ p.caps = o.caps /\ p.media = o.media /\ p.channel = o.channel /\ p.videoMode = o.videoMode
      /\ p.videoCodec = o.videoCodec /\ p.source = o.source /\ p.output = o.output /\ p.toneMapped = o.toneMapped
      /\ p.mode = o.mode /\ p.audioMode = o.audioMode /\ p.channels = o.channels
      /\ p.query = u
  <2> HIDE DEF p
  <2> QED
    BY <1>1, <1>2, <1>c
<1> HIDE DEF p
<1>b. ChannelFacts(c, m, p)
  <2>1. /\ p.caps = c /\ p.media = m /\ p.channel /\ p.mode = "full" /\ p.videoMode = "transcode"
        /\ p.audioMode = "transcode" /\ p.videoCodec = ChannelCodec(c) /\ p.source = SourceRange(m)
    BY <1>2, <1>a
  <2>2. p.channels \in {2, 6} /\ (p.channels = 6 => c.channels >= 6)
    BY <1>2, <1>5, <1>a
  <2>3. p.toneMapped <=> IsHDR(m.range) /\ p.output = "sdr"
    BY <1>2, <1>3, <1>4, <1>a
  <2>4. \/ p.output = "sdr"
        \/ /\ p.output \in {"hdr10", "hlg"} /\ p.output \in c.ranges /\ c.hdr /\ CanUseHDRHEVC(c)
           /\ p.videoCodec = "hevc"
    BY <1>2, <1>7, <1>a
  <2> QED
    BY <2>1, <2>2, <2>3, <2>4 DEF ChannelFacts
<1> QED
  BY <1>9, <1>a, <1>b DEF p

-----------------------------------------------------------------------------
(* What a plan asks of the player.                                           *)
LEMMA TitleSuits ==
    ASSUME NEW c, NEW m, NEW s, NEW p, Ordinary(c), Probed(m),
           TreatmentFacts(c, m, s, Treatment(c, m, s)), TitleFacts(c, m, Treatment(c, m, s), p)
    PROVE  PictureIsPlayable(p) /\ SoundIsPlayable(p)
<1> DEFINE t == Treatment(c, m, s)
<1>1. TreatmentFacts(c, m, s, t) /\ TitleFacts(c, m, t, p)
  OBVIOUS
<1> HIDE DEF t
<1>2. IsHDR(p.source) <=> IsHDR(m.range)
  BY <1>1 DEF TitleFacts, SourceRange, IsHDR
<1>5. t.fits \in BOOLEAN
  BY <1>1 DEF TreatmentFacts, Treatments
<1>6. SoundIsPlayable(p)
  BY <1>1 DEF TitleFacts, SoundIsPlayable, Ordinary
<1>3. CASE t.fits
  <2>1. p.videoMode = "direct"
    BY <1>1, <1>3 DEF TitleFacts
  <2>2. m.codec \in c.codecs \cup {"none"} /\ Within(m.size, c.size) /\ AndroidDecoderSupports(c, m)
    BY <1>1, <1>3 DEF TreatmentFacts, PictureFits
  <2>3. IsHDR(p.source) => /\ p.output \in {p.source, BaseOf(m)} /\ (m.dv = 7 => p.output = p.source)
                           /\ DisplayShows(c, m, p.output) /\ Within(m.depth, c.depth)
    BY <1>1, <1>2, <1>3 DEF TreatmentFacts, TitleFacts, SourceRange, DisplayShows, IsHDR
  <2> QED
    BY <1>1, <1>6, <2>1, <2>2, <2>3 DEF PictureIsPlayable, TitleFacts
<1>4. CASE ~t.fits
  <2>1. p.videoMode = "transcode" /\ p.videoMode # "direct" /\ p.videoCodec = (IF t.hevc THEN "hevc" ELSE "h264")
    BY <1>1, <1>4 DEF TitleFacts
  <2>2. IsHDR(p.output) => /\ p.output \in {"hdr10", "hlg"} /\ p.videoCodec = "hevc"
                           /\ DisplayShows(c, m, p.output) /\ "hevc" \in c.codecs /\ c.depth >= 10
                           /\ IsHDR(p.source) /\ ~p.channel => p.output = BaseOf(m)
    BY <1>1, <1>2, <1>4, <2>1 DEF TreatmentFacts, TitleFacts, DisplayShows, CanUseHDRHEVC
  <2>3. p.videoCodec = "hevc" => "hevc" \in c.codecs
    BY <1>1, <1>4, <2>1 DEF TreatmentFacts, CanUseHDRHEVC
  <2>4. p.toneMapped <=> IsHDR(p.source) /\ ~IsHDR(p.output)
    BY <1>1, <1>2 DEF TreatmentFacts, TitleFacts
  <2> QED
    BY <1>1, <1>6, <2>1, <2>2, <2>3, <2>4 DEF PictureIsPlayable, TitleFacts
<1> QED
  BY <1>3, <1>4, <1>5

(* A plan for a channel asks nothing of a player it did not report.        *)
LEMMA ChannelSuits ==
    ASSUME NEW c, NEW m, NEW p, Ordinary(c), ChannelFacts(c, m, p)
    PROVE  PictureIsPlayable(p) /\ SoundIsPlayable(p)
<1>1. IsHDR(p.source) <=> IsHDR(m.range)
  BY DEF ChannelFacts, SourceRange, IsHDR
<1>2. p.videoCodec = "hevc" => "hevc" \in c.codecs
  BY DEF ChannelFacts, ChannelCodec, FixedRange, CanUseHDRHEVC
<1>3. ~IsHDR("sdr") /\ IsHDR("hdr10") /\ IsHDR("hlg")
  BY DEF IsHDR
<1>4. IsHDR(p.output) => /\ p.output \in {"hdr10", "hlg"} /\ p.videoCodec = "hevc"
                         /\ DisplayShows(c, m, p.output) /\ "hevc" \in c.codecs /\ c.depth >= 10
  BY <1>3 DEF ChannelFacts, DisplayShows, CanUseHDRHEVC
<1>5. p.toneMapped <=> IsHDR(p.source) /\ ~IsHDR(p.output)
  BY <1>1, <1>3 DEF ChannelFacts
<1>6. PictureIsPlayable(p)
  BY <1>1, <1>2, <1>4, <1>5 DEF PictureIsPlayable, ChannelFacts
<1>7. SoundIsPlayable(p)
  BY DEF ChannelFacts, SoundIsPlayable, Ordinary
<1> QED
  BY <1>6, <1>7

-----------------------------------------------------------------------------
(* What the query of a plan says about the picture, whoever reads it.        *)
CopiedMeans(m, q) ==
    /\ q.copied = m.codec
    /\ q.output = "dolby_vision" => m.range = "dolby_vision" /\ ~q.strip
    /\ (IF q.strip THEN BaseOf(m) ELSE m.range) = "dolby_vision" => q.output = "dolby_vision" /\ m.codec = "hevc"

ConvertedMeans(m, q) ==
    \/ /\ q.output = "sdr" /\ (IsHDR(m.range) <=> q.toneMap) /\ (IsHDR(q.source) <=> IsHDR(m.range))
       /\ ~IsHDR(m.range) => BaseOf(m) = "sdr"
    \/ /\ q.mode = "full" /\ q.codec = "hevc" /\ ~q.toneMap /\ q.output \in {"hdr10", "hlg"}
       /\ IF IsHDR(m.range) THEN q.output = BaseOf(m) /\ IsHDR(q.source)
          ELSE q.enhancement /\ q.source = "sdr" /\ q.output = "hdr10" /\ BaseOf(m) = "sdr"

QueryMeans(m, q) ==
    /\ q.mode \in QueryModes
    /\ q.mode \in {"remux", "audio"} => CopiedMeans(m, q)
    /\ q.mode \in {"video", "full"} => ConvertedMeans(m, q)

(* The query of a plan means the same whatever becomes of the server,      *)
(* unless the plan is direct and the query not clean.                      *)
LEMMA PlansMean ==
    ASSUME NEW c, NEW m, NEW s, NEW q, NEW p, Ordinary(c), Probed(m),
           TreatmentFacts(c, m, s, Treatment(c, m, s)), TitleFacts(c, m, Treatment(c, m, s), p), URLFacts(c, m, s, q, p)
    PROVE  (p.mode = "direct" /\ p.query.mode # "none") \/ QueryMeans(m, p.query)
<1> DEFINE t == Treatment(c, m, s)
<1>1. TreatmentFacts(c, m, s, t) /\ TitleFacts(c, m, t, p)
  OBVIOUS
<1> HIDE DEF t
<1>2. IsHDR(p.source) <=> IsHDR(m.range)
  BY <1>1 DEF TitleFacts, SourceRange, IsHDR
<1>3. t.fits \in BOOLEAN
  BY <1>1 DEF TreatmentFacts, Treatments
<1>4. CASE p.mode = "direct" /\ p.query.mode = "none"
  BY <1>4 DEF QueryMeans, QueryModes
<1>5. CASE p.mode \in {"remux", "audio"}
  <2>1. t.fits /\ p.query.mode = p.mode
    BY <1>1, <1>3, <1>5 DEF TitleFacts, URLFacts
  <2>2. /\ p.query.copied = m.codec /\ p.query.output = t.range
        /\ p.query.strip <=> p.source = "dolby_vision" /\ t.range # "dolby_vision"
    BY <1>1, <2>1 DEF TitleFacts, URLFacts, TreatmentFacts
  <2>3. t.range = "dolby_vision" => m.range = "dolby_vision" /\ m.codec = "hevc"
    BY <1>1, <2>1 DEF TreatmentFacts, IsHDR
  <2>4. t.range # "dolby_vision" /\ m.range = "dolby_vision" => BaseOf(m) # "dolby_vision"
    BY <1>1, <2>1 DEF TreatmentFacts, IsHDR
  <2>5. p.source = "dolby_vision" <=> m.range = "dolby_vision"
    BY <1>1 DEF TitleFacts, SourceRange
  <2>6. CopiedMeans(m, p.query)
    BY <2>2, <2>3, <2>4, <2>5 DEF CopiedMeans
  <2> QED
    BY <1>5, <2>1, <2>6 DEF QueryMeans, QueryModes, Modes
<1>6. CASE p.mode \in {"video", "full"}
  <2>1. ~t.fits /\ p.query.mode = p.mode
    BY <1>1, <1>3, <1>6 DEF TitleFacts, URLFacts
  <2>2. /\ p.query.codec = (IF t.hevc THEN "hevc" ELSE "h264") /\ p.query.output = t.range
        /\ p.query.source = SourceRange(m) /\ p.query.toneMap = t.toneMapped
    BY <1>1, <1>6, <2>1 DEF TitleFacts, URLFacts
  <2>3. ~IsHDR(m.range) => BaseOf(m) = "sdr" /\ SourceRange(m) = "sdr"
    BY DEF IsHDR, BaseOf, Probed, SourceRange
  <2>4. IsHDR(SourceRange(m)) <=> IsHDR(m.range)
    BY DEF IsHDR, SourceRange
  <2>5. CASE ~IsHDR(t.range)
    <3>1. t.range = "sdr" /\ (t.toneMapped <=> IsHDR(m.range))
      BY <1>1, <2>5 DEF TreatmentFacts
    <3> QED
      BY <1>6, <2>1, <2>2, <2>3, <2>4, <3>1 DEF QueryMeans, QueryModes, Modes, ConvertedMeans
  <2>6. CASE IsHDR(t.range)
    <3>1. /\ t.range \in {"hdr10", "hlg"} /\ t.hevc /\ ~t.toneMapped /\ NativeTV(c)
          /\ IsHDR(m.range) => t.range = BaseOf(m)
      BY <1>1, <2>1, <2>6 DEF TreatmentFacts
    <3>2. p.mode = "full"
      BY <1>1, <1>6, <3>1 DEF TitleFacts
    <3>3. ~IsHDR(m.range) => t.range = "hdr10" /\ Enhanced(c, m, s)
      BY <1>1, <2>6 DEF TreatmentFacts, IsHDR
    <3>4. ~IsHDR(m.range) => p.query.enhancement
      BY <3>3 DEF URLFacts
    <3> QED
      BY <2>1, <2>2, <2>3, <2>4, <3>1, <3>2, <3>3, <3>4 DEF QueryMeans, QueryModes, Modes, ConvertedMeans
  <2> QED
    BY <2>5, <2>6
<1> QED
  BY <1>1, <1>3, <1>4, <1>5, <1>6 DEF TitleFacts
-----------------------------------------------------------------------------
(* What is served.                                                           *)
LEMMA AnswerIs ==
    ASSUME NEW kind, NEW codec, NEW label, NEW content, NEW a, a = Answer(kind, codec, label, content)
    PROVE  /\ a.kind = kind /\ ~a.hls /\ a.codec = codec /\ a.label = label /\ a.content = content
           /\ a.segments = "none" /\ a.tag = "none"
  BY Zenon DEF Answer

(* What HLS adds to an answer.                                               *)
LEMMA AsHLSIs ==
    ASSUME NEW kind, NEW codec, NEW label, NEW content, NEW u, u = AsHLS(Answer(kind, codec, label, content)),
           kind # "error"
    PROVE  /\ u.kind = kind /\ u.hls /\ u.codec = codec /\ u.label = label /\ u.content = content
           /\ u.segments = IF codec = "hevc" THEN "fmp4" ELSE "mpegts"
           /\ u.tag = "dvh1" <=> codec = "hevc" /\ label = "dolby_vision"
<1>0. PICK a : a = Answer(kind, codec, label, content)
  OBVIOUS
<1>1. /\ a.kind = kind /\ ~a.hls /\ a.codec = codec /\ a.label = label /\ a.content = content
      /\ a.segments = "none" /\ a.tag = "none"
  BY <1>0, AnswerIs
<1>2. PICK tag : tag = CASE codec # "hevc" -> "none"
                         [] codec = "hevc" /\ label = "dolby_vision" -> "dvh1"
                         [] OTHER -> "hvc1"
  OBVIOUS
<1>3. PICK segments : segments = IF codec = "hevc" THEN "fmp4" ELSE "mpegts"
  OBVIOUS
<1>4. DOMAIN a = {"kind", "hls", "codec", "label", "content", "segments", "tag"}
  BY <1>0, Zenon DEF Answer
<1>5. u = [a EXCEPT !.hls = TRUE, !.segments = segments, !.tag = tag]
  BY <1>0, <1>1, <1>2, <1>3, Zenon DEF AsHLS
<1>6. /\ u.kind = kind /\ u.hls /\ u.codec = codec /\ u.label = label /\ u.content = content
      /\ u.segments = segments /\ u.tag = tag
  BY <1>1, <1>4, <1>5
<1>7. tag = "dvh1" <=> codec = "hevc" /\ label = "dolby_vision"
  <2>1. CASE codec # "hevc"
    BY <1>2, <2>1
  <2>2. CASE codec = "hevc" /\ label = "dolby_vision"
    BY <1>2, <2>2
  <2>3. CASE codec = "hevc" /\ ~(label = "dolby_vision")
    BY <1>2, <2>3
  <2> QED
    BY <2>1, <2>2, <2>3
<1> QED
  BY <1>3, <1>6, <1>7

(* An answer that is an error stays one.                                     *)
LEMMA RefusalIs ==
    /\ Refused.kind = "error" /\ ~Refused.hls /\ Refused.segments = "none" /\ Refused.tag = "none"
    /\ AsHLS(Refused) = Refused
<1>1. Refused.kind = "error" /\ ~Refused.hls /\ Refused.segments = "none" /\ Refused.tag = "none"
  <2>1. PICK a : a = Refused
    OBVIOUS
  <2> QED
    BY <2>1, AnswerIs DEF Refused
<1>2. AsHLS(Refused) = Refused
  BY <1>1, Zenon DEF AsHLS
<1> QED
  BY <1>1, <1>2

(* What an answer a to the query q, made by the server s, promises.          *)
Honest(a, q, s) ==
    a.hls \/ s.hevc \/ q.codec # "hevc" =>
        /\ a.kind \in {"video", "full"} =>
               /\ a.content = IF a.label = "none" THEN "sdr" ELSE a.label
               /\ IsHDR(a.content) => a.codec = "hevc"
        /\ a.segments # "none" => (a.segments = "fmp4" <=> a.codec = "hevc")
        /\ a.tag = "dvh1" => a.content = "dolby_vision"
        /\ a.hls /\ a.content = "dolby_vision" => a.tag = "dvh1"

(* That an answer does what its query says.                                  *)
AsAsked(a, q, s) ==
    \/ a.kind = IF q.mode = "none" THEN "raw" ELSE q.mode
    \/ a.kind = "error" /\ ~s.toneMap

(* The content of a new picture.                                             *)
ContentOf(m, toned, enhanced) == IF toned THEN "sdr" ELSE IF enhanced THEN "hdr10" ELSE BaseOf(m)

(* A new picture is refused for want of a tone mapper only.                *)
LEMMA PictureIs ==
    ASSUME NEW m, NEW q, NEW s, NEW toned \in BOOLEAN, NEW label, NEW enhanced \in BOOLEAN
    PROVE  LET a == Picture(m, q, s, toned, label, enhanced)
           IN \/ a = Refused /\ ~s.toneMap
              \/ a = Answer(q.mode, Encoder(q, s), label, ContentOf(m, toned, enhanced))
<1>1. CASE toned /\ ~s.toneMap
  BY <1>1 DEF Picture
<1>2. CASE ~(toned /\ ~s.toneMap)
  <2>1. (CASE toned -> "sdr" [] ~toned /\ enhanced -> "hdr10" [] OTHER -> BaseOf(m)) = ContentOf(m, toned, enhanced)
    <3>1. CASE toned
      BY <3>1 DEF ContentOf
    <3>2. CASE ~toned /\ enhanced
      BY <3>2 DEF ContentOf
    <3>3. CASE ~toned /\ ~enhanced
      BY <3>3 DEF ContentOf
    <3> QED
      BY <3>1, <3>2, <3>3
  <2> QED
    BY <1>2, <2>1, Zenon DEF Picture
<1> QED
  BY <1>1, <1>2

(* A converted picture, over HLS or not, shows what its label says.          *)
LEMMA ConvertedIs ==
    ASSUME NEW m, NEW q, NEW s, NEW toned \in BOOLEAN, NEW enhanced \in BOOLEAN, NEW hls \in BOOLEAN, NEW label,
           ConvertedMeans(m, q), q.mode \in {"video", "full"},
           toned <=> ToneMapRequested(q) \/ (hls /\ IsHDR(q.source) /\ EncodedRange(q, s) = "sdr"),
           enhanced <=> q.mode = "full" /\ Enhances(q, s),
           label = IF hls \/ q.mode = "full" THEN EncodedRange(q, s) ELSE IF toned THEN "sdr" ELSE "none",
           hls \/ s.hevc \/ q.codec # "hevc"
    PROVE  LET content == ContentOf(m, toned, enhanced)
           IN /\ content = IF label = "none" THEN "sdr" ELSE label
              /\ IsHDR(content) => Encoder(q, s) = "hevc"
              /\ label # "dolby_vision" /\ content # "dolby_vision"
<1>1. ~IsHDR("sdr") /\ IsHDR("hdr10") /\ IsHDR("hlg")
  BY DEF IsHDR
<1>2. CASE q.output = "sdr" /\ ~IsHDR(m.range)
  <2>1. EncodedRange(q, s) = "sdr" /\ ~enhanced /\ BaseOf(m) = "sdr"
    BY <1>1, <1>2 DEF ConvertedMeans, EncodedRange, Enhances
  <2> QED
    BY <1>1, <1>2, <2>1 DEF ContentOf
<1>3. CASE q.output = "sdr" /\ IsHDR(m.range)
  <2>1. EncodedRange(q, s) = "sdr"
    BY <1>3 DEF EncodedRange
  <2>2. toned
    BY <1>3 DEF ConvertedMeans, ToneMapRequested
  <2> QED
    BY <1>1, <2>1, <2>2 DEF ContentOf
<1>4. CASE q.output \in {"hdr10", "hlg"}
  <2>1. /\ q.mode = "full" /\ q.codec = "hevc" /\ ~ToneMapRequested(q) /\ IsHDR(q.output)
        /\ IF IsHDR(m.range) THEN q.output = BaseOf(m) /\ IsHDR(q.source)
           ELSE q.enhancement /\ q.source = "sdr" /\ q.output = "hdr10" /\ BaseOf(m) = "sdr"
    BY <1>1, <1>4 DEF ConvertedMeans, ToneMapRequested
  <2>2. label = EncodedRange(q, s) /\ (s.hevc => Encoder(q, s) = "hevc")
    BY <2>1 DEF Encoder
  <2>3. CASE IsHDR(m.range)
    <3>1. ~EnhancementRequested(q) /\ ~enhanced
      BY <1>1, <2>1, <2>3 DEF EnhancementRequested, Enhances
    <3>2. CASE s.hevc
      <4>1. EncodedRange(q, s) = q.output /\ ~toned
        BY <1>4, <2>1, <3>1, <3>2 DEF EncodedRange
      <4> QED
        BY <1>4, <2>1, <2>2, <2>3, <3>1, <3>2, <4>1 DEF ContentOf
    <3>3. CASE ~s.hevc
      <4>1. EncodedRange(q, s) = "sdr" /\ toned
        BY <2>1, <2>3, <3>3 DEF EncodedRange
      <4> QED
        BY <1>1, <2>2, <4>1 DEF ContentOf
    <3> QED
      BY <3>2, <3>3
  <2>4. CASE ~IsHDR(m.range)
    <3>1. EnhancementRequested(q) /\ ~toned /\ BaseOf(m) = "sdr"
      BY <1>1, <2>1, <2>4 DEF EnhancementRequested
    <3>2. CASE s.hevc /\ s.placebo
      <4>1. EncodedRange(q, s) = "hdr10" /\ enhanced
        BY <2>1, <2>4, <3>1, <3>2 DEF EncodedRange, Enhances
      <4> QED
        BY <2>2, <3>1, <3>2, <4>1 DEF ContentOf
    <3>3. CASE ~(s.hevc /\ s.placebo)
      <4>1. EncodedRange(q, s) = "sdr" /\ ~enhanced
        BY <2>1, <2>4, <3>1, <3>3 DEF EncodedRange, Enhances
      <4> QED
        BY <1>1, <2>2, <3>1, <4>1 DEF ContentOf
    <3> QED
      BY <3>2, <3>3
  <2> QED
    BY <2>3, <2>4
<1> QED
  BY <1>2, <1>3, <1>4 DEF ConvertedMeans

(* What the HLS command makes of a query that means what it says.            *)
LEMMA HLSIs ==
    ASSUME NEW m, NEW q, NEW s, QueryMeans(m, q), NEW a, a = AsHLS(HLSCommand(m, q, s))
    PROVE  Honest(a, q, s) /\ (q.mode # "none" => AsAsked(a, q, s))
<1> DEFINE toned == ToneMapRequested(q) \/ (IsHDR(q.source) /\ EncodedRange(q, s) = "sdr")
<1>1. CASE q.mode = "none"
  <2>1. a = Refused
    BY <1>1, RefusalIs, Zenon DEF HLSCommand
  <2> QED
    BY <1>1, <2>1, RefusalIs DEF Honest
<1>2. CASE q.mode \in {"remux", "audio"}
  <2>1. PICK content : content = IF q.strip THEN BaseOf(m) ELSE m.range
    OBVIOUS
  <2>2. q.mode # "none" /\ q.mode # "error" /\ q.mode \notin {"video", "full"}
    BY <1>2
  <2>3. HLSCommand(m, q, s) = Answer(q.mode, q.copied, q.output, content)
    BY <1>2, <2>1, <2>2, Zenon DEF HLSCommand
  <2>4. /\ a.kind = q.mode /\ a.hls /\ a.codec = q.copied /\ a.label = q.output /\ a.content = content
        /\ a.segments = IF q.copied = "hevc" THEN "fmp4" ELSE "mpegts"
        /\ a.tag = "dvh1" <=> q.copied = "hevc" /\ q.output = "dolby_vision"
    BY <2>2, <2>3, AsHLSIs
  <2>5. CopiedMeans(m, q)
    BY <1>2 DEF QueryMeans
  <2>6. (q.output = "dolby_vision" => content = "dolby_vision")
        /\ (content = "dolby_vision" => q.output = "dolby_vision" /\ q.copied = "hevc")
    BY <2>1, <2>5 DEF CopiedMeans
  <2> QED
    BY <2>2, <2>4, <2>6 DEF Honest, AsAsked
<1>3. CASE q.mode \in {"video", "full"}
  <2>1. PICK tm \in BOOLEAN, en \in BOOLEAN : tm = toned /\ en = (q.mode = "full" /\ Enhances(q, s))
    BY Zenon
  <2>2. q.mode # "none" /\ q.mode \notin {"remux", "audio"} /\ q.mode # "error"
    BY <1>3
  <2>3. HLSCommand(m, q, s) = Picture(m, q, s, tm, EncodedRange(q, s), en)
    BY <2>1, <2>2, Zenon DEF HLSCommand
  <2>4. CASE HLSCommand(m, q, s) = Refused /\ ~s.toneMap
    <3>1. a = Refused
      BY <2>4, RefusalIs
    <3> QED
      BY <2>4, <3>1, RefusalIs DEF Honest, AsAsked
  <2>5. CASE HLSCommand(m, q, s) = Answer(q.mode, Encoder(q, s), EncodedRange(q, s), ContentOf(m, tm, en))
    <3>1. /\ a.kind = q.mode /\ a.hls /\ a.codec = Encoder(q, s) /\ a.label = EncodedRange(q, s)
          /\ a.content = ContentOf(m, tm, en)
          /\ a.segments = IF Encoder(q, s) = "hevc" THEN "fmp4" ELSE "mpegts"
          /\ a.tag = "dvh1" <=> Encoder(q, s) = "hevc" /\ EncodedRange(q, s) = "dolby_vision"
      BY <2>2, <2>5, AsHLSIs
    <3>2. ConvertedMeans(m, q)
      BY <1>3 DEF QueryMeans
    <3>3. /\ ContentOf(m, tm, en) = IF EncodedRange(q, s) = "none" THEN "sdr" ELSE EncodedRange(q, s)
          /\ IsHDR(ContentOf(m, tm, en)) => Encoder(q, s) = "hevc"
          /\ EncodedRange(q, s) # "dolby_vision" /\ ContentOf(m, tm, en) # "dolby_vision"
      BY <1>3, <2>1, <3>2, ConvertedIs
    <3> QED
      BY <2>2, <3>1, <3>3 DEF Honest, AsAsked
  <2> QED
    BY <2>3, <2>4, <2>5, PictureIs
<1> QED
  BY <1>1, <1>2, <1>3 DEF QueryMeans, QueryModes, Modes

(* And outside HLS.                                                          *)
LEMMA TranscodedIs ==
    ASSUME NEW m, NEW q, NEW s, QueryMeans(m, q), q.mode # "none", NEW a, a = Transcoded(m, q, s)
    PROVE  Honest(a, q, s) /\ (q.container = "mpegts" => AsAsked(a, q, s))
<1>1. CASE q.mode = "remux"
  <2>1. a = Remuxed(m, q)
    BY <1>1, Zenon DEF Transcoded
  <2>2. CASE q.container = "mpegts"
    BY <1>1, <2>1, <2>2, AnswerIs DEF Remuxed, Honest, AsAsked
  <2>3. CASE q.container # "mpegts"
    BY <2>1, <2>3, RefusalIs DEF Remuxed, Honest
  <2> QED
    BY <2>2, <2>3
<1>2. CASE q.mode = "audio"
  <2>1. a = AudioConverted(m, q)
    BY <1>2, Zenon DEF Transcoded
  <2> QED
    BY <1>2, <2>1, AnswerIs DEF AudioConverted, Honest, AsAsked
<1>3. CASE q.mode \in {"video", "full"}
  <2>1. PICK tm \in BOOLEAN, en \in BOOLEAN : tm = ToneMapRequested(q) /\ en = (q.mode = "full" /\ Enhances(q, s))
    BY Zenon DEF ToneMapRequested
  <2>2. PICK label : label = IF q.mode = "full" THEN EncodedRange(q, s) ELSE IF tm THEN "sdr" ELSE "none"
    OBVIOUS
  <2>3. a = Picture(m, q, s, tm, label, en)
    <3>1. CASE q.mode = "video"
      <4>1. a = VideoConverted(m, q, s)
        BY <3>1, Zenon DEF Transcoded
      <4>2. en = FALSE /\ label = (IF tm THEN "sdr" ELSE "none")
        BY <2>1, <2>2, <3>1
      <4> QED
        BY <2>1, <4>1, <4>2, Zenon DEF VideoConverted
    <3>2. CASE q.mode = "full"
      <4>1. a = WhollyConverted(m, q, s)
        BY <3>2, Zenon DEF Transcoded
      <4>2. en = Enhances(q, s) /\ label = EncodedRange(q, s)
        <5>1. Enhances(q, s) \in BOOLEAN
          BY Zenon DEF Enhances
        <5> QED
          BY <2>1, <2>2, <3>2, <5>1
      <4> QED
        BY <2>1, <4>1, <4>2, Zenon DEF WhollyConverted
    <3> QED
      BY <1>3, <3>1, <3>2
  <2>4. CASE a = Refused /\ ~s.toneMap
    BY <2>4, RefusalIs DEF Honest, AsAsked
  <2>5. CASE a = Answer(q.mode, Encoder(q, s), label, ContentOf(m, tm, en))
    <3>1. /\ a.kind = q.mode /\ ~a.hls /\ a.codec = Encoder(q, s) /\ a.label = label
          /\ a.content = ContentOf(m, tm, en) /\ a.segments = "none" /\ a.tag = "none"
      BY <2>5, AnswerIs
    <3>2. ConvertedMeans(m, q)
      BY <1>3 DEF QueryMeans
    <3>3. s.hevc \/ q.codec # "hevc" =>
              /\ ContentOf(m, tm, en) = IF label = "none" THEN "sdr" ELSE label
              /\ IsHDR(ContentOf(m, tm, en)) => Encoder(q, s) = "hevc"
      BY <1>3, <2>1, <2>2, <3>2, ConvertedIs
    <3> QED
      BY <1>3, <3>1, <3>3 DEF Honest, AsAsked
  <2> QED
    BY <2>3, <2>4, <2>5, PictureIs
<1> QED
  BY <1>1, <1>2, <1>3 DEF QueryMeans, QueryModes, Modes

(* What the handler answers is honest, and what was asked where the        *)
(* container and the title allow it.                                       *)
LEMMA ServedIs ==
    ASSUME NEW m, NEW q, NEW s, QueryMeans(m, q), NEW a, a = Serve(m, q, s)
    PROVE  /\ Honest(a, q, s)
           /\ m.convertible /\ (IF q.mode = "none" THEN q.container # "hls" ELSE q.container \in {"hls", "mpegts"})
                  => AsAsked(a, q, s)
<1>1. CASE OverHLS(m, q)
  <2>1. a = AsHLS(HLSCommand(m, q, s))
    BY <1>1, Zenon DEF Serve
  <2>2. q.container = "hls"
    BY <1>1 DEF OverHLS
  <2> QED
    BY <2>1, <2>2, HLSIs
<1>2. CASE ~OverHLS(m, q) /\ ShouldTranscode(m, q)
  <2>1. a = Transcoded(m, q, s)
    BY <1>2, Zenon DEF Serve
  <2>2. q.mode # "none" /\ q.container # "hls"
    BY <1>2 DEF OverHLS, ShouldTranscode
  <2> QED
    BY <2>1, <2>2, TranscodedIs
<1>3. CASE ~OverHLS(m, q) /\ ~ShouldTranscode(m, q)
  <2>1. a = Raw(m)
    BY <1>3, Zenon DEF Serve
  <2>2. a.kind = "raw" /\ ~a.hls /\ a.segments = "none" /\ a.tag = "none"
    BY <2>1, AnswerIs DEF Raw
  <2>3. m.convertible => q.mode = "none"
    BY <1>3 DEF ShouldTranscode
  <2> QED
    BY <2>2, <2>3 DEF Honest, AsAsked
<1> QED
  BY <1>1, <1>2, <1>3
-----------------------------------------------------------------------------
(* The requests.                                                             *)

(* Players and titles are what the theorems assume.                        *)
Known ==
    /\ \A c \in Devices : Ordinary(c)
    /\ \A m \in Media : Probed(m)

(* The URL of a plan for a title names what the plan decided.                *)
URLNames(p) ==
    /\ p.mode # "direct" => p.query.mode = p.mode
    /\ p.query.container = Preferred(IF p.caps.container = "none" THEN "none" ELSE p.container)
    /\ p.container = IF p.mode = "direct" THEN p.media.container
                     ELSE IF p.mode = "full" /\ p.caps.container = "none" THEN "mpegts" ELSE p.caps.container

(* What a plan promises, and what its query means.                         *)
PlanMeaning ==
    plan # Gone =>
        /\ plan.caps \in Devices /\ plan.media \in Media /\ plan.mode \in Modes
        /\ plan.channel \/ URLNames(plan)
        /\ PictureIsPlayable(plan) /\ SoundIsPlayable(plan)
        /\ \E W : plan.query \in Queries(W)
        /\ plan.channel \/ (plan.mode = "direct" /\ plan.query.mode # "none")
               \/ QueryMeans(plan.media, plan.query)

(* What is served is made of the plan's URL by the server there is.        *)
ServedAsPlanned == served # Gone => plan # Gone /\ ~plan.channel /\ served = Serve(plan.media, plan.query, server)

PlanInv ==
    /\ title \in Media /\ reported \in Devices \cup {Gone} /\ aged \in BOOLEAN /\ server \in Servers
    /\ PlanMeaning /\ ServedAsPlanned

(* The URLs a player may send are queries.                                 *)
LEMMA UrlsAreQueries ==
    ASSUME PlanInv, NEW q \in Urls
    PROVE  \E W : q \in Queries(W)
<1>1. CASE q = Bare
  BY <1>1, BareIs
<1>2. CASE q # Bare
  <2>1. plan # Gone /\ q = plan.query
    BY <1>2 DEF Urls
  <2> QED
    BY <2>1 DEF PlanInv, PlanMeaning
<1> QED
  BY <1>1, <1>2

(* Answering a plan keeps the invariant.                                   *)
LEMMA AnsweredKeeps ==
    ASSUME Known, PlanInv,
           NEW c \in Devices, NEW channel \in BOOLEAN, NEW w, NEW q \in Urls, Answered(c, channel, w, q),
           reported' \in Devices \cup {Gone}, aged' \in BOOLEAN
    PROVE  PlanInv'
<1>1. title' = title /\ title \in Media /\ server' = server /\ server \in Servers /\ served' = Gone
  BY DEF Answered, PlanInv
<1>2. PICK V : q \in Queries(V)
  BY UrlsAreQueries
<1>3. PICK m \in Media : m = title
  BY <1>1
<1>4. PICK s : s = server
  OBVIOUS
<1>5. Ordinary(c) /\ Probed(m)
  BY DEF Known
<1>6. PICK p : p = plan'
  OBVIOUS
<1>7. CASE channel
  <2>1. p = BuildChannelPlan(c, m, q, w)
    BY <1>3, <1>6, <1>7, Zenon DEF Answered
  <2>2. ChannelFacts(c, m, p) /\ \E W : p.query \in Queries(W)
    BY <1>2, <1>5, <2>1, ChannelPlanIs
  <2>3. /\ PictureIsPlayable(p) /\ SoundIsPlayable(p) /\ p.channel
        /\ p.caps = c /\ p.media = m /\ p.mode \in Modes
    BY <1>5, <2>2, ChannelSuits DEF ChannelFacts, Modes
  <2> QED
    BY <1>1, <1>6, <2>2, <2>3 DEF PlanInv, PlanMeaning, ServedAsPlanned
<1>8. CASE ~channel
  <2>1. p = BuildPlan(c, m, s, q, w)
    BY <1>3, <1>4, <1>6, <1>8, Zenon DEF Answered
  <2>2. /\ TitleFacts(c, m, Treatment(c, m, s), p) /\ URLFacts(c, m, s, q, p)
        /\ \E W : p.query \in Queries(W)
    BY <1>2, <1>5, <2>1, BuildPlanIs
  <2>3. TreatmentFacts(c, m, s, Treatment(c, m, s))
    BY <1>5, TreatmentIs
  <2>4. PictureIsPlayable(p) /\ SoundIsPlayable(p)
    BY <1>5, <2>2, <2>3, TitleSuits
  <2>5. (p.mode = "direct" /\ p.query.mode # "none") \/ QueryMeans(m, p.query)
    BY <1>5, <2>2, <2>3, PlansMean
  <2>6. p.caps = c /\ p.media = m /\ p.mode \in Modes
    BY <2>2 DEF TitleFacts, Modes
  <2>7. URLNames(p)
    BY <2>2, <2>6 DEF URLNames, TitleFacts, URLFacts
  <2> QED
    BY <1>1, <1>6, <2>2, <2>4, <2>5, <2>6, <2>7 DEF PlanInv, PlanMeaning, ServedAsPlanned
<1> QED
  BY <1>7, <1>8

(* A step that answers no plan keeps it.                                   *)
LEMMA SamePlanKeeps ==
    ASSUME PlanInv, UNCHANGED <<title, plan>>, reported' \in Devices \cup {Gone},
           aged' \in BOOLEAN, server' \in Servers, ServedAsPlanned'
    PROVE  PlanInv'
  BY DEF PlanInv, PlanMeaning

(* So does every step.                                                     *)
LEMMA PlanNextKeeps ==
    ASSUME Known
    PROVE  PlanInv /\ [PlanNext]_planVars => PlanInv'
<1> SUFFICES ASSUME PlanInv, [PlanNext]_planVars
             PROVE  PlanInv'
  OBVIOUS
<1>1. ASSUME NEW c \in Devices, ReportCapabilities(c)
      PROVE  PlanInv'
  BY <1>1, SamePlanKeeps DEF ReportCapabilities, PlanInv, ServedAsPlanned
<1>2. CASE ReportAges
  BY <1>2, SamePlanKeeps DEF ReportAges, PlanInv, ServedAsPlanned
<1>3. ASSUME NEW s \in Servers, ServerChanges(s)
      PROVE  PlanInv'
  BY <1>3, SamePlanKeeps DEF ServerChanges, PlanInv, ServedAsPlanned
<1>4. ASSUME NEW c \in Devices, NEW channel \in BOOLEAN, NEW w, NEW q \in Urls, PlanWithReport(c, channel, w, q)
      PROVE  PlanInv'
  BY <1>4, AnsweredKeeps DEF PlanWithReport
<1>5. ASSUME NEW channel \in BOOLEAN, NEW w, NEW q \in Urls, PlanFromCache(channel, w, q)
      PROVE  PlanInv'
  <2>1. reported \in Devices /\ reported' = reported /\ aged' \in BOOLEAN /\ Answered(reported, channel, w, q)
    BY <1>5 DEF PlanFromCache, PlanInv
  <2> QED
    BY <2>1, AnsweredKeeps
<1>6. CASE PlanRefused
  BY <1>6, SamePlanKeeps DEF PlanRefused, PlanInv, ServedAsPlanned
<1>7. CASE Play
  BY <1>7, SamePlanKeeps DEF Play, PlanInv, ServedAsPlanned
<1>8. CASE UNCHANGED planVars
  BY <1>8, SamePlanKeeps DEF planVars, PlanInv, ServedAsPlanned
<1> QED
  BY <1>1, <1>2, <1>3, <1>4, <1>5, <1>6, <1>7, <1>8 DEF PlanNext

(* No plan, nothing served: the invariant holds at the start.              *)
LEMMA PlanInitInv == PlanInit => PlanInv
  BY DEF PlanInit, PlanInv, PlanMeaning, ServedAsPlanned

(* Every plan suits its player, its query means what it says, and what is  *)
(* served is made of that query, whatever the reports, the settings and the*)
(* order of requests.                                                      *)
THEOREM PlansInvariant ==
    ASSUME Known
    PROVE  PlanSpec => []PlanInv
<1>1. PlanInit => PlanInv
  BY PlanInitInv
<1>2. PlanInv /\ [PlanNext]_planVars => PlanInv'
  BY PlanNextKeeps
<1> QED
  BY <1>1, <1>2, PTL DEF PlanSpec

(* A plan asks nothing of a player it did not report:                      *)
(* buildTaterPlaybackPlanWithProcessing and the channel plan, for every    *)
(* player that claims HDR only where the server knows it.                  *)
THEOREM EveryPlanSuits ==
    ASSUME Known
    PROVE  PlanSpec => []PlansSuitThePlayer
<1>1. PlanInv => PlansSuitThePlayer
  BY DEF PlanInv, PlanMeaning, PlansSuitThePlayer
<1> QED
  BY <1>1, PlansInvariant, PTL

(* A query that means what it says is answered by an honest picture.       *)
LEMMA HonestInv == PlanInv => PictureIsHonest
<1> SUFFICES ASSUME PlanInv, served # Gone, ~StaleDirect, served.hls \/ server.hevc \/ plan.query.codec # "hevc"
             PROVE  /\ served.kind \in {"video", "full"} =>
                           /\ served.content = IF served.label = "none" THEN "sdr" ELSE served.label
                           /\ IsHDR(served.content) => served.codec = "hevc"
                    /\ served.segments # "none" => (served.segments = "fmp4" <=> served.codec = "hevc")
                    /\ served.tag = "dvh1" => served.content = "dolby_vision"
                    /\ served.hls /\ served.content = "dolby_vision" => served.tag = "dvh1"
  BY DEF PictureIsHonest
<1>1. QueryMeans(plan.media, plan.query) /\ served = Serve(plan.media, plan.query, server)
  BY DEF PlanInv, PlanMeaning, ServedAsPlanned, StaleDirect
<1>2. Honest(served, plan.query, server)
  BY <1>1, ServedIs
<1> QED
  BY <1>2 DEF Honest

(* An encoded stream is labelled with the range its frames have, and the   *)
(* Dolby Vision tag stands on Dolby Vision alone: over HLS whatever became *)
(* of the server between the plan and the stream, and elsewhere unless the *)
(* plan asks for HEVC and the server has no encoder of it, where the       *)
(* handler labels HDR frames as SDR (stream_handler.go:820-823).           *)
THEOREM EveryPictureIsHonest ==
    ASSUME Known
    PROVE  PlanSpec => []PictureIsHonest
  BY HonestInv, PlansInvariant, PTL

(* The containers the server delivers in, and that no title is a playlist.   *)
Contained ==
    /\ \A c \in Devices : c.container \in {"none", "hls", "mpegts"}
    /\ \A m \in Media : m.container # "hls"

(* The invariant leaves the handler nothing to refuse but tone mapping.    *)
LEMMA ServedInv == Contained /\ PlanInv => PlansAreServed
<1> SUFFICES ASSUME Contained, PlanInv, served # Gone, plan.caps.container # "none", ~StaleDirect, plan.media.convertible
             PROVE  \/ served.kind = IF plan.mode = "direct" THEN "raw" ELSE plan.mode
                    \/ served.kind = "error" /\ ~server.toneMap
  BY DEF PlansAreServed
<1> DEFINE c == plan.caps
           m == plan.media
           q == plan.query
<1>1. /\ QueryMeans(m, q) /\ served = Serve(m, q, server) /\ URLNames(plan)
      /\ c \in Devices /\ m \in Media /\ plan.mode \in Modes
  BY DEF PlanInv, PlanMeaning, ServedAsPlanned, StaleDirect
<1>2. CASE plan.mode = "direct"
  <2>1. q.mode = "none"
    BY <1>2 DEF StaleDirect
  <2>2. q.container # "hls"
    BY <1>1, <1>2 DEF URLNames, Preferred, Contained
  <2>3. AsAsked(served, q, server)
    BY <1>1, <2>1, <2>2, ServedIs
  <2> QED
    BY <1>2, <2>1, <2>3 DEF AsAsked
<1>3. CASE plan.mode # "direct"
  <2>1. q.mode = plan.mode /\ q.mode # "none"
    BY <1>1, <1>3 DEF URLNames, Modes
  <2>2. q.container \in {"hls", "mpegts"}
    BY <1>1, <1>3 DEF URLNames, Preferred, Contained
  <2>3. AsAsked(served, q, server)
    BY <1>1, <2>1, <2>2, ServedIs
  <2> QED
    BY <1>3, <2>1, <2>3 DEF AsAsked
<1> QED
  BY <1>2, <1>3

(* What the plan copies is not converted, and nothing is refused that      *)
(* FFmpeg can do, for a player that named a container                      *)
(* (cleanTaterPreferredStreamContainer knows two) and a title that is no   *)
(* playlist.                                                               *)
THEOREM EveryPlanIsServed ==
    ASSUME Known, Contained
    PROVE  PlanSpec => []PlansAreServed
  BY ServedInv, PlansInvariant, PTL

(* The kinds of answers there are.                                           *)
Kinds == {"raw", "error", "remux", "audio", "video", "full"}

(* A new picture is refused or has the mode of its query.                  *)
LEMMA PictureKind ==
    ASSUME NEW m, NEW q, NEW s, NEW toned, NEW label, NEW enhanced, NEW a, a = Picture(m, q, s, toned, label, enhanced)
    PROVE  a = Refused \/ \E codec, content : a = Answer(q.mode, codec, label, content)
  BY DEF Picture

(* Whatever is served is one of the kinds of answers there are.            *)
LEMMA KindIs ==
    ASSUME NEW m, NEW q, NEW s, q.mode \in QueryModes, NEW a, a = Serve(m, q, s)
    PROVE  a.kind \in Kinds
<1>1. CASE OverHLS(m, q)
  <2>1. PICK b : b = HLSCommand(m, q, s)
    OBVIOUS
  <2>2. a = AsHLS(b)
    BY <1>1, <2>1, Zenon DEF Serve
  <2>3. b = Refused \/ \E codec, label, content : b = Answer(q.mode, codec, label, content) /\ q.mode # "none"
    <3>1. CASE q.mode = "none"
      BY <2>1, <3>1, Zenon DEF HLSCommand
    <3>2. CASE q.mode \in {"remux", "audio"}
      <4>1. q.mode # "none"
        BY <3>2
      <4> QED
        BY <2>1, <3>2, <4>1, Zenon DEF HLSCommand
    <3>3. CASE q.mode \notin {"none", "remux", "audio"}
      <4>1. q.mode # "none" /\ q.mode \notin {"remux", "audio"}
        BY <3>3
      <4>2. \E toned, label, enhanced : b = Picture(m, q, s, toned, label, enhanced)
        BY <2>1, <4>1, Zenon DEF HLSCommand
      <4> QED
        BY <4>1, <4>2, PictureKind
    <3> QED
      BY <3>1, <3>2, <3>3
  <2>4. CASE b = Refused
    BY <2>2, <2>4, RefusalIs DEF Kinds
  <2>5. ASSUME NEW codec, NEW label, NEW content, b = Answer(q.mode, codec, label, content), q.mode # "none"
        PROVE  a.kind \in Kinds
    <3>1. q.mode # "error" /\ q.mode \in Kinds
      BY <2>5 DEF QueryModes, Modes, Kinds
    <3> QED
      BY <2>2, <2>5, <3>1, AsHLSIs
  <2> QED
    BY <2>3, <2>4, <2>5
<1>2. CASE ~OverHLS(m, q) /\ ShouldTranscode(m, q)
  <2>1. a = Transcoded(m, q, s) /\ q.mode # "none"
    BY <1>2, Zenon DEF Serve, ShouldTranscode
  <2>2. CASE q.mode = "remux"
    <3>1. a = Remuxed(m, q)
      BY <2>1, <2>2, Zenon DEF Transcoded
    <3> QED
      BY <3>1, AnswerIs, RefusalIs DEF Remuxed, Kinds
  <2>3. CASE q.mode = "audio"
    <3>1. a = AudioConverted(m, q)
      BY <2>1, <2>3, Zenon DEF Transcoded
    <3> QED
      BY <3>1, AnswerIs DEF AudioConverted, Kinds
  <2>4. CASE q.mode \in {"video", "full"}
    <3>1. \E toned, label, enhanced : a = Picture(m, q, s, toned, label, enhanced)
      <4>1. CASE q.mode = "video"
        BY <2>1, <4>1, Zenon DEF Transcoded, VideoConverted
      <4>2. CASE q.mode = "full"
        BY <2>1, <4>2, Zenon DEF Transcoded, WhollyConverted
      <4> QED
        BY <2>4, <4>1, <4>2
    <3>2. a = Refused \/ \E codec, label, content : a = Answer(q.mode, codec, label, content)
      BY <3>1, PictureKind
    <3> QED
      BY <2>4, <3>2, AnswerIs, RefusalIs DEF Kinds
  <2> QED
    BY <2>1, <2>2, <2>3, <2>4 DEF QueryModes, Modes
<1>3. CASE ~OverHLS(m, q) /\ ~ShouldTranscode(m, q)
  <2>1. a = Raw(m)
    BY <1>3, Zenon DEF Serve
  <2> QED
    BY <2>1, AnswerIs DEF Raw, Kinds
<1> QED
  BY <1>1, <1>2, <1>3

(* Every variable of PlaybackPlan has a value of its type.                 *)
THEOREM PlansTypeCorrect == ASSUME Known PROVE PlanSpec => []PlanTypeOK
<1>1. PlanInv => PlanTypeOK
  <2> SUFFICES ASSUME PlanInv
               PROVE  PlanTypeOK
    OBVIOUS
  <2>1. served # Gone => served.kind \in Kinds
    <3>1. plan # Gone => plan.query.mode \in QueryModes
      BY DEF PlanInv, PlanMeaning, Queries
    <3> QED
      BY <3>1, KindIs DEF PlanInv, ServedAsPlanned
  <2> QED
    BY <2>1 DEF PlanInv, PlanMeaning, PlanTypeOK, Kinds, Modes
<1> QED
  BY <1>1, PlansInvariant, PTL

-----------------------------------------------------------------------------
(* TubeGuide.                                                              *)

-----------------------------------------------------------------------------
(* TubeGuide.                                                              *)

(* What holds at first and of the next number when of one holds of all.    *)
LEMMA StepByStep ==
    ASSUME NEW L \in Nat, NEW T, 0 \in T,
           \A n \in 1..L : n - 1 \in T => n \in T
    PROVE  \A n \in 0..L : n \in T
<1> DEFINE missing == {n \in 0..L : n \notin T}
<1> SUFFICES ASSUME missing # {}
             PROVE  FALSE
  OBVIOUS
<1>1. missing \subseteq Nat
  OBVIOUS
<1>2. PICK n \in missing : \A m \in missing : ~ (<<m, n>> \in OpToRel(<, Nat))
  BY <1>1, WFMin, NatLessThanWellFounded
<1>3. n # 0 /\ n - 1 \in missing
  OBVIOUS
<1> DEFINE pair == <<n - 1, n>>
<1>4. pair \in Nat \X Nat /\ pair[1] < pair[2]
  BY <1>1, <1>3
<1>5. OpToRel(<, Nat) = {m \in Nat \X Nat : m[1] < m[2]}
  BY DEF OpToRel
<1>6. pair \in OpToRel(<, Nat)
  <2> HIDE DEF pair
  <2> QED
    BY <1>4, <1>5
<1> QED
  BY <1>2, <1>3, <1>6

(* A function that goes on from what it has been before: there is one.     *)
GoesOn(L, S, e, F, f) ==
    /\ f \in [0..L -> S]
    /\ f[0] = e /\ \A n \in 1..L : f[n] = F[n][f[n - 1]]

LEMMA RecursionExists ==
    ASSUME NEW L \in Nat, NEW S, NEW e \in S, NEW F \in [1..L -> [S -> S]]
    PROVE  \E f : GoesOn(L, S, e, F, f)
<1> DEFINE Upto(m, f) == f[0] = e /\ \A n \in 1..m : f[n] = F[n][f[n - 1]]
<1> DEFINE T == {m \in 0..L : \E f \in [0..m -> S] : Upto(m, f)}
<1>1. 0 \in T
  <2> DEFINE f0 == [n \in 0..0 |-> e]
  <2>1. f0 \in [0..0 -> S] /\ Upto(0, f0)
    OBVIOUS
  <2> HIDE DEF f0, Upto
  <2> QED
    BY <2>1
<1>2. ASSUME NEW n \in 1..L, n - 1 \in T
      PROVE  n \in T
  <2>1. PICK f \in [0..(n - 1) -> S] : Upto(n - 1, f)
    BY <1>2
  <2>2. f[n - 1] \in S /\ F[n][f[n - 1]] \in S
    OBVIOUS
  <2> DEFINE g == [m \in 0..n |-> IF m = n THEN F[n][f[n - 1]] ELSE f[m]]
  <2>3. g \in [0..n -> S]
    BY <2>2
  <2>4. Upto(n, g)
    <3>1. g[0] = e
      BY <2>1
    <3>2. ASSUME NEW m \in 1..n
          PROVE  g[m] = F[m][g[m - 1]]
      <4>1. CASE m = n
        <5>1. g[m] = F[n][f[n - 1]]
          BY <4>1
        <5>2. g[m - 1] = f[n - 1]
          BY <4>1
        <5> HIDE DEF g
        <5> QED
          BY <4>1, <5>1, <5>2
      <4>2. CASE m # n
        <5>1. m \in 1..(n - 1) /\ g[m] = f[m] /\ g[m - 1] = f[m - 1]
          BY <4>2
        <5> HIDE DEF g
        <5> QED
          BY <2>1, <5>1
      <4> QED
        BY <4>1, <4>2
    <3> QED
      BY <3>1, <3>2
  <2> HIDE DEF g, Upto
  <2> QED
    BY <2>3, <2>4
<1>3. L \in T
  <2> HIDE DEF T
  <2>1. \A n \in 1..L : n - 1 \in T => n \in T
    BY <1>2
  <2>2. \A n \in 0..L : n \in T
    BY <1>1, <2>1, StepByStep
  <2> QED
    BY <2>2
<1> QED
  BY <1>3 DEF GoesOn


(* A deck that replays a schedule of rows goes through the rows in turn.   *)
Programs == UNION {UNION {L[s] : s \in Sources} : L \in Libraries}
DeckTypes(pool) == [used : SUBSET pool, last : pool \cup {"none"}]

LEMMA HeardIsADeck ==
    ASSUME NEW pool, NEW d \in DeckTypes(pool), NEW r
    PROVE  Heard(r, pool, d) \in DeckTypes(pool)
  BY DEF DeckTypes, Heard, Starts

(* The decks of a replay, one for each row.                                *)
Replays(rows, pool, f) ==
    /\ f \in [0..Len(rows) -> DeckTypes(pool)]
    /\ f[0] = NewDeck
    /\ \A n \in 1..Len(rows) : f[n] = Heard(rows[n], pool, f[n - 1])

LEMMA ReplayExists ==
    ASSUME NEW pool, NEW X, NEW rows \in Seq(X)
    PROVE  \E f : Replays(rows, pool, f) /\ Replayed(rows, pool) = f[Len(rows)]
<1> DEFINE S == DeckTypes(pool)
<1> DEFINE F == [n \in 1..Len(rows) |-> [d \in S |-> Heard(rows[n], pool, d)]]
<1>1. NewDeck \in S /\ Len(rows) \in Nat
  BY DEF NewDeck, DeckTypes
<1>2. F \in [1..Len(rows) -> [S -> S]]
  <2> HIDE DEF S
  <2> SUFFICES ASSUME NEW n \in 1..Len(rows), NEW d \in S
               PROVE  Heard(rows[n], pool, d) \in S
    OBVIOUS
  <2> QED
    BY HeardIsADeck DEF S
<1>3. PICK f \in [0..Len(rows) -> S] : f[0] = NewDeck /\ \A n \in 1..Len(rows) : f[n] = F[n][f[n - 1]]
  <2> DEFINE L == Len(rows)
  <2>1. L \in Nat /\ NewDeck \in S /\ F \in [1..L -> [S -> S]]
    BY <1>1, <1>2
  <2>2. \E f : GoesOn(L, S, NewDeck, F, f)
    <3> HIDE DEF S, F, L
    <3> QED
      BY <2>1, RecursionExists
  <2> HIDE DEF S, F
  <2> QED
    BY <2>2 DEF GoesOn
<1>4. \A n \in 1..Len(rows) : f[n] = Heard(rows[n], pool, f[n - 1])
  <2> SUFFICES ASSUME NEW n \in 1..Len(rows)
               PROVE  f[n] = Heard(rows[n], pool, f[n - 1])
    OBVIOUS
  <2>1. f[n - 1] \in S
    <3> HIDE DEF S
    <3> QED
      BY <1>1
  <2>2. F[n][f[n - 1]] = Heard(rows[n], pool, f[n - 1])
    <3> HIDE DEF S
    <3> QED
      BY <2>1
  <2> QED
    BY <1>3, <2>2
<1> DEFINE Goes(g) == g = [n \in 0..Len(rows) |-> IF n = 0 THEN NewDeck ELSE Heard(rows[n], pool, g[n - 1])]
<1>5. Goes(f)
  <2> HIDE DEF S
  <2> QED
    BY <1>1, <1>3, <1>4
<1> DEFINE deck == CHOOSE g : Goes(g)
<1>6. Goes(deck)
  <2> HIDE DEF Goes
  <2> QED
    BY <1>5
<1>7. Replayed(rows, pool) = deck[Len(rows)]
  BY DEF Replayed
<1>8. deck = f
  <2> DEFINE T == {n \in 0..Len(rows) : deck[n] = f[n]}
  <2> HIDE DEF S
  <2>1. 0 \in T
    <3> HIDE DEF deck
    <3> QED
      BY <1>6, <1>3, <1>1
  <2>2. \A n \in 1..Len(rows) : n - 1 \in T => n \in T
    <3> HIDE DEF deck
    <3> QED
      BY <1>6, <1>4, <1>1
  <2>3. \A n \in 0..Len(rows) : n \in T
    <3> HIDE DEF T
    <3> QED
      BY <1>1, <2>1, <2>2, StepByStep
  <2>4. \A n \in 0..Len(rows) : deck[n] = f[n]
    BY <2>3
  <2>5. DOMAIN deck = 0..Len(rows) /\ deck = [n \in 0..Len(rows) |-> deck[n]]
    <3> HIDE DEF deck
    <3> QED
      BY <1>6
  <2> HIDE DEF deck
  <2> QED
    BY <2>4, <2>5
<1>9. Replays(rows, pool, f)
  BY <1>1, <1>3, <1>4 DEF Replays
<1> QED
  BY <1>7, <1>8, <1>9


(* A replay hears of one row more by hearing of it.                        *)
LEMMA ReplayOfMore ==
    ASSUME NEW pool, NEW X, NEW rows \in Seq(X), NEW r \in X
    PROVE  Replayed(Append(rows, r), pool) = Heard(r, pool, Replayed(rows, pool))
<1> DEFINE more == Append(rows, r)
<1>1. more \in Seq(X) /\ Len(more) = Len(rows) + 1 /\ more[Len(rows) + 1] = r /\ Len(rows) \in Nat
      /\ \A n \in 1..Len(rows) : more[n] = rows[n]
  OBVIOUS
<1>2. PICK f : Replays(rows, pool, f) /\ Replayed(rows, pool) = f[Len(rows)]
  BY ReplayExists
<1>3. PICK g : Replays(more, pool, g) /\ Replayed(more, pool) = g[Len(more)]
  <2> HIDE DEF more
  <2> QED
    BY <1>1, ReplayExists
<1> HIDE DEF more
<1> DEFINE T == {n \in 0..Len(rows) : g[n] = f[n]}
<1>4. 0 \in T
  BY <1>1, <1>2, <1>3 DEF Replays
<1>5. \A n \in 1..Len(rows) : n - 1 \in T => n \in T
  BY <1>1, <1>2, <1>3 DEF Replays
<1>6. Len(rows) \in T
  <2> DEFINE L == Len(rows)
  <2>1. \A n \in 1..L : n - 1 \in T => n \in T
    BY <1>5
  <2>2. L \in Nat
    BY <1>1
  <2>3. \A n \in 0..L : n \in T
    <3> HIDE DEF T, L
    <3> QED
      BY <2>1, <2>2, <1>4, StepByStep
  <2> QED
    BY <2>2, <2>3
<1>7. g[Len(rows)] = f[Len(rows)]
  BY <1>6
<1>8. g[Len(rows) + 1] = Heard(more[Len(rows) + 1], pool, g[Len(rows)])
  <2>1. Len(rows) + 1 \in 1..Len(more) /\ Len(rows) + 1 - 1 = Len(rows)
    BY <1>1
  <2> QED
    BY <1>3, <2>1 DEF Replays
<1>9. Replayed(more, pool) = Heard(r, pool, Replayed(rows, pool))
  BY <1>1, <1>2, <1>3, <1>7, <1>8
<1> QED
  BY <1>9 DEF more

(* The deck of a schedule: it holds programs of the pool, never all of     *)
(* them, and the last one, unless a cycle has just ended.                  *)
DeckIsSound(d, pool) ==
    /\ d \in DeckTypes(pool)
    /\ d.used = pool => pool = {}
    /\ d.used = {} \/ d.last \in d.used

LEMMA HeardIsSound ==
    ASSUME NEW pool, NEW d, DeckIsSound(d, pool), NEW r
    PROVE  DeckIsSound(Heard(r, pool, d), pool)
  BY DEF DeckIsSound, DeckTypes, Heard, Starts

LEMMA ReplayIsSound ==
    ASSUME NEW pool, NEW X, NEW rows \in Seq(X)
    PROVE  DeckIsSound(Replayed(rows, pool), pool)
<1>1. PICK f : Replays(rows, pool, f) /\ Replayed(rows, pool) = f[Len(rows)]
  BY ReplayExists
<1> DEFINE L == Len(rows)
           T == {n \in 0..L : DeckIsSound(f[n], pool)}
<1>2. L \in Nat
  OBVIOUS
<1>3. 0 \in T
  BY <1>1 DEF Replays, NewDeck, DeckIsSound, DeckTypes
<1>4. \A n \in 1..L : n - 1 \in T => n \in T
  <2> SUFFICES ASSUME NEW n \in 1..L, n - 1 \in T
               PROVE  DeckIsSound(f[n], pool)
    OBVIOUS
  <2>1. f[n] = Heard(rows[n], pool, f[n - 1])
    BY <1>1 DEF Replays
  <2> QED
    BY <2>1, HeardIsSound
<1>5. \A n \in 0..L : n \in T
  <2> HIDE DEF L, T
  <2> QED
    BY <1>2, <1>3, <1>4, StepByStep
<1>6. L \in T
  <2> HIDE DEF T
  <2> QED
    BY <1>2, <1>5
<1> QED
  BY <1>1, <1>6

(* Before the first row, the deck is new.                                  *)
LEMMA ReplayOfNothing ==
    ASSUME NEW pool
    PROVE  Replayed(<<>>, pool) = NewDeck
<1>1. <<>> \in Seq({}) /\ Len(<<>>) = 0
  OBVIOUS
<1>2. PICK f : Replays(<<>>, pool, f) /\ Replayed(<<>>, pool) = f[Len(<<>>)]
  BY <1>1, ReplayExists
<1> QED
  BY <1>1, <1>2 DEF Replays


(* The programs of a source, in each library, and those it never misses.   *)
Pools(s) == {L[s] : L \in Libraries}
Core(s) == {p \in UNION Pools(s) : \A P \in Pools(s) : p \in P}
Shelves(s) == Pools(s) \cup {Core(s)}

RowTypes == [program : Programs \cup {"break"}, offset : Nat, length : Nat]
Quiet(r) == r.program = "break" \/ r.offset # 0

Used(rows, P) == Replayed(rows, P).used
LastOf(rows, P) == Replayed(rows, P).last

(* The cycles of a smaller and of a larger pool go together, but for the   *)
(* time when the larger one has still to play what the smaller has not.    *)
InStep(A, B, rows) ==
    \/ Used(rows, A) = Used(rows, B) \cap A
    \/ Used(rows, A) = {} /\ A \subseteq Used(rows, B)

AllInStep(rows, s) == \A A, B \in Shelves(s) : A \subseteq B => InStep(A, B, rows)

(* What has played since nothing else has is the last one.                 *)
LastIsKnown(rows, s) ==
    \A P \in Pools(s), i \in DOMAIN rows : \A x \in P :
        Plays(rows, i, x) /\ (\A m \in DOMAIN rows : i < m => rows[m].program \in {"break", x}) => LastOf(rows, P) = x

KeptApart(rows, s) ==
    (\E p, r \in Core(s) : p # r) =>
        \A i, j \in DOMAIN rows : LET q == rows[i].program IN
            i < j /\ q # "break" /\ Plays(rows, i, q) /\ Plays(rows, j, q) =>
                \E m \in i..j : rows[m].program \notin {"break", q}

(* When q comes for the third time, p has come since the first; when it    *)
(* has come twice since p, or once in the cycle in progress, it has been   *)
(* played in this cycle.                                                   *)
ThirdTime(rows, p, q) ==
    \A i, j, k \in DOMAIN rows :
        i < j /\ j < k /\ Plays(rows, i, q) /\ Plays(rows, j, q) /\ Plays(rows, k, q) =>
            \E m \in i..k : Plays(rows, m, p)

SinceThen(rows, i, p) == \A m \in DOMAIN rows : i <= m => ~ Plays(rows, m, p)

SecondTime(rows, p, q, used) ==
    \A i, j \in DOMAIN rows :
        i < j /\ Plays(rows, i, q) /\ Plays(rows, j, q) /\ SinceThen(rows, i, p) => q \in used /\ p \notin used

FirstTime(rows, p, q, used) ==
    \A i \in DOMAIN rows : Plays(rows, i, q) /\ SinceThen(rows, i, p) /\ p \in used => q \in used

InTurn(rows, s) ==
    \A p, q \in Core(s) : p # q =>
        /\ ThirdTime(rows, p, q)
        /\ SecondTime(rows, p, q, Used(rows, Core(s)))
        /\ FirstTime(rows, p, q, Used(rows, Core(s)))

Fair(rows, s) ==
    /\ LastIsKnown(rows, s) /\ KeptApart(rows, s)
    /\ Nested(s) => AllInStep(rows, s) /\ InTurn(rows, s)

(* A program that may come next has not been played in the cycle, and is   *)
(* the last one only if there is no other.                                 *)
Drawn(x, P, rows) ==
    /\ x \in P /\ x \notin Used(rows, P)
    /\ LastOf(rows, P) = x => P = {x}

(* A schedule that is longer by one row.                                   *)
Longer(rows, more, r) ==
    /\ rows \in Seq(RowTypes) /\ r \in RowTypes /\ more = Append(rows, r)
    /\ more \in Seq(RowTypes)
    /\ Len(rows) \in Nat /\ DOMAIN rows = 1..Len(rows) /\ DOMAIN more = 1..(Len(rows) + 1)
    /\ \A i \in 1..Len(rows) : more[i] = rows[i]
    /\ more[Len(rows) + 1] = r

LEMMA AppendIsLonger ==
    ASSUME NEW rows \in Seq(RowTypes), NEW r \in RowTypes
    PROVE  Longer(rows, Append(rows, r), r)
  BY DEF Longer

LEMMA ReplayOfLonger ==
    ASSUME NEW P, NEW rows, NEW more, NEW r, Longer(rows, more, r)
    PROVE  /\ Replayed(more, P) = Heard(r, P, Replayed(rows, P))
           /\ DeckIsSound(Replayed(rows, P), P) /\ DeckIsSound(Replayed(more, P), P)
  BY ReplayOfMore, ReplayIsSound DEF Longer

(* No program is called a break.                                           *)
LEMMA BreaksAreNone ==
    ASSUME NEW s \in Custom
    PROVE  /\ \A P \in Shelves(s) : "break" \notin P
           /\ \A P \in Pools(s) : Core(s) \subseteq P
  BY GuideAssumption DEF Pools, Core, Shelves

LEMMA QuietRowsStayFair ==
    ASSUME NEW s \in Custom, NEW rows, NEW more, NEW r, Longer(rows, more, r), Quiet(r), Fair(rows, s)
    PROVE  Fair(more, s) /\ \A P \in Pools(s) : Replayed(more, P) = Replayed(rows, P)
<1>1. ASSUME NEW P \in Shelves(s)
      PROVE  Replayed(more, P) = Replayed(rows, P)
  BY ReplayOfLonger, BreaksAreNone DEF Heard, Starts, Quiet
<1>2. LastIsKnown(more, s)
  <2>1. LastIsKnown(rows, s)
    BY DEF Fair
  <2> SUFFICES ASSUME NEW P \in Pools(s), NEW i \in DOMAIN more, NEW x \in P,
                      Plays(more, i, x), \A m \in DOMAIN more : i < m => more[m].program \in {"break", x}
               PROVE  LastOf(more, P) = x
    BY DEF LastIsKnown
  <2>2. x # "break" /\ P \in Shelves(s)
    BY BreaksAreNone DEF Shelves
  <2>3. i \in 1..Len(rows)
    BY <2>2 DEF Longer, Plays, Quiet
  <2>4. Plays(rows, i, x) /\ \A m \in DOMAIN rows : i < m => rows[m].program \in {"break", x}
    BY <2>3 DEF Longer, Plays
  <2> QED
    BY <1>1, <2>1, <2>2, <2>3, <2>4 DEF LastIsKnown, LastOf, Longer
<1>3. KeptApart(more, s)
  BY DEF Fair, KeptApart, Longer, Plays, Quiet
<1>4. Nested(s) => AllInStep(more, s)
  BY <1>1 DEF Fair, AllInStep, InStep, Used
<1>5. Nested(s) => InTurn(more, s)
  <2> SUFFICES ASSUME Nested(s), NEW p \in Core(s), NEW q \in Core(s), p # q
               PROVE  /\ ThirdTime(more, p, q)
                      /\ SecondTime(more, p, q, Used(more, Core(s)))
                      /\ FirstTime(more, p, q, Used(more, Core(s)))
    BY DEF InTurn
  <2>1. /\ ThirdTime(rows, p, q)
        /\ SecondTime(rows, p, q, Used(rows, Core(s)))
        /\ FirstTime(rows, p, q, Used(rows, Core(s)))
    BY DEF Fair, InTurn
  <2>2. Used(more, Core(s)) = Used(rows, Core(s)) /\ p # "break" /\ q # "break"
    BY <1>1, BreaksAreNone DEF Used, Shelves
  <2>3. \A i \in DOMAIN more : (Plays(more, i, p) \/ Plays(more, i, q)) => i \in DOMAIN rows
    BY <2>2 DEF Longer, Plays, Quiet
  <2>4. \A i \in DOMAIN rows : /\ i \in DOMAIN more /\ i \in Int
                               /\ Plays(more, i, p) <=> Plays(rows, i, p)
                               /\ Plays(more, i, q) <=> Plays(rows, i, q)
    BY DEF Longer, Plays
  <2>5. \A i \in DOMAIN rows : SinceThen(more, i, p) => SinceThen(rows, i, p)
    BY <2>4 DEF SinceThen
  <2>6. ThirdTime(more, p, q)
    <3> SUFFICES ASSUME NEW i \in DOMAIN more, NEW j \in DOMAIN more, NEW k \in DOMAIN more,
                        i < j, j < k, Plays(more, i, q), Plays(more, j, q), Plays(more, k, q)
                 PROVE  \E m \in i..k : Plays(more, m, p)
      BY DEF ThirdTime
    <3>1. PICK m \in i..k : Plays(rows, m, p)
      BY <2>1, <2>3, <2>4 DEF ThirdTime
    <3>2. m \in DOMAIN rows
      BY <2>3 DEF Longer
    <3> QED
      BY <2>4, <3>1, <3>2
  <2>7. SecondTime(more, p, q, Used(more, Core(s)))
    BY <2>1, <2>2, <2>3, <2>4, <2>5 DEF SecondTime
  <2>8. FirstTime(more, p, q, Used(more, Core(s)))
    BY <2>1, <2>2, <2>3, <2>4, <2>5 DEF FirstTime
  <2> QED
    BY <2>6, <2>7, <2>8
<1>6. \A P \in Pools(s) : Replayed(more, P) = Replayed(rows, P)
  BY <1>1 DEF Shelves
<1> QED
  BY <1>2, <1>3, <1>4, <1>5, <1>6 DEF Fair


(* What the cycle of a pool has played when it has heard of x too.         *)
Grown(U, Z, x) ==
    LET n == IF x \in U THEN {x} ELSE U \cup {x} IN
    IF x \notin Z THEN U ELSE IF n = Z THEN {} ELSE n

Together(A, B, u, v) == u = v \cap A \/ (u = {} /\ A \subseteq v)

(* Two pools stay in step when a program comes that is due in a third one, *)
(* with which both are in step.                                            *)
LEMMA PoolsStayInStep ==
    ASSUME NEW A, NEW B, NEW P, NEW u, NEW v, NEW w, NEW x,
           A \subseteq B, u \subseteq A, v \subseteq B, w \subseteq P,
           u = A => A = {}, v = B => B = {},
           x \in P, x \notin w,
           Together(A, B, u, v),
           A \subseteq P \/ P \subseteq A, B \subseteq P \/ P \subseteq B,
           A \subseteq P => Together(A, P, u, w), P \subseteq A => Together(P, A, w, u),
           B \subseteq P => Together(B, P, v, w), P \subseteq B => Together(P, B, w, v)
    PROVE  Together(A, B, Grown(u, A, x), Grown(v, B, x))
<1>1. CASE x \notin B
  BY <1>1 DEF Together, Grown
<1>2. ASSUME x \in v
      PROVE  u = {} \/ (x \in A /\ x \in u)
  <2>1. P \subseteq B /\ w = {} /\ P \subseteq v
    BY <1>2 DEF Together
  <2>2. CASE A \subseteq P
    BY <2>1, <2>2 DEF Together
  <2>3. CASE P \subseteq A
    <3>1. x \in A
      BY <2>3
    <3>2. CASE u = v \cap A
      BY <1>2, <3>1, <3>2
    <3>3. CASE u = {} /\ A \subseteq v
      BY <3>3
    <3> QED
      BY <3>2, <3>3 DEF Together
  <2> QED
    BY <2>2, <2>3
<1>3. CASE x \in B /\ x \notin A
  <2>1. Grown(u, A, x) = u
    BY <1>3 DEF Grown
  <2>2. CASE x \in v
    <3>1. u = {}
      BY <1>2, <1>3, <2>2
    <3>2. Grown(v, B, x) \cap A = {}
      BY <1>3, <2>2 DEF Grown
    <3> QED
      BY <2>1, <3>1, <3>2 DEF Together
  <2>3. CASE x \notin v
    <3>1. CASE v \cup {x} = B
      <4>1. A \subseteq v /\ Grown(v, B, x) = {}
        BY <1>3, <2>3, <3>1 DEF Grown
      <4>2. u = {}
        BY <4>1 DEF Together
      <4> QED
        BY <2>1, <4>1, <4>2 DEF Together
    <3>2. CASE v \cup {x} # B
      <4>1. Grown(v, B, x) = v \cup {x}
        BY <1>3, <2>3, <3>2 DEF Grown
      <4> QED
        BY <1>3, <2>1, <4>1 DEF Together
    <3> QED
      BY <3>1, <3>2
  <2> QED
    BY <2>2, <2>3
<1>4. CASE x \in A
  <2>1. x \in B
    BY <1>4
  <2>2. CASE x \in v
    <3>1. Grown(u, A, x) = IF {x} = A THEN {} ELSE {x}
      BY <1>2, <1>4, <2>2 DEF Grown
    <3>2. Grown(v, B, x) = IF {x} = B THEN {} ELSE {x}
      BY <2>1, <2>2 DEF Grown
    <3> QED
      BY <1>4, <2>1, <3>1, <3>2 DEF Together
  <2>3. CASE x \notin v
    <3>1. u = v \cap A /\ x \notin u
      BY <1>4, <2>3 DEF Together
    <3>2. Grown(u, A, x) = IF u \cup {x} = A THEN {} ELSE u \cup {x}
      BY <1>4, <3>1 DEF Grown
    <3>3. Grown(v, B, x) = IF v \cup {x} = B THEN {} ELSE v \cup {x}
      BY <2>1, <2>3 DEF Grown
    <3>4. (v \cup {x}) \cap A = u \cup {x}
      BY <1>4, <3>1
    <3> QED
      BY <3>1, <3>2, <3>3, <3>4 DEF Together
  <2> QED
    BY <2>2, <2>3
<1> QED
  BY <1>1, <1>3, <1>4


(* The row of a program that may come next.                                *)
StartRow(x, r) == r.program = x /\ r.offset = 0

LEMMA UsedGrows ==
    ASSUME NEW Z, NEW rows, NEW more, NEW r, NEW x, Longer(rows, more, r), StartRow(x, r)
    PROVE  /\ Used(more, Z) = Grown(Used(rows, Z), Z, x)
           /\ LastOf(more, Z) = IF x \in Z THEN x ELSE LastOf(rows, Z)
           /\ Used(rows, Z) \subseteq Z
           /\ Used(rows, Z) = Z => Z = {}
           /\ Used(rows, Z) = {} \/ LastOf(rows, Z) \in Used(rows, Z)
  BY ReplayOfLonger DEF Used, LastOf, Heard, Starts, StartRow, Grown, DeckIsSound, DeckTypes

LEMMA DrawnRowsAreInStep ==
    ASSUME NEW s \in Custom, NEW rows, NEW more, NEW r, NEW x, NEW P \in Pools(s),
           Longer(rows, more, r), StartRow(x, r), Drawn(x, P, rows), Nested(s), AllInStep(rows, s)
    PROVE  /\ AllInStep(more, s)
           /\ x \in Core(s) => x \notin Used(rows, Core(s))
<1>1. \A A, B \in Shelves(s) : A \subseteq B \/ B \subseteq A
  BY BreaksAreNone DEF Nested, Pools, Shelves
<1>2. \A A, B \in Shelves(s) : A \subseteq B => Together(A, B, Used(rows, A), Used(rows, B))
  BY DEF AllInStep, InStep, Together
<1>3. P \in Shelves(s) /\ Core(s) \in Shelves(s) /\ Core(s) \subseteq P
  BY BreaksAreNone DEF Shelves
<1>4. AllInStep(more, s)
  <2> SUFFICES ASSUME NEW A \in Shelves(s), NEW B \in Shelves(s), A \subseteq B
               PROVE  Together(A, B, Used(more, A), Used(more, B))
    BY DEF AllInStep, InStep, Together
  <2> DEFINE u == Used(rows, A)
             v == Used(rows, B)
             w == Used(rows, P)
  <2>1. u \subseteq A /\ v \subseteq B /\ w \subseteq P /\ (u = A => A = {}) /\ (v = B => B = {})
    BY UsedGrows
  <2>2. x \in P /\ x \notin w
    BY DEF Drawn
  <2>3. A \subseteq P \/ P \subseteq A
    BY <1>1, <1>3
  <2>4. B \subseteq P \/ P \subseteq B
    BY <1>1, <1>3
  <2>5. /\ A \subseteq P => Together(A, P, u, w)
        /\ P \subseteq A => Together(P, A, w, u)
        /\ B \subseteq P => Together(B, P, v, w)
        /\ P \subseteq B => Together(P, B, w, v)
        /\ Together(A, B, u, v)
    BY <1>2, <1>3
  <2>6. Together(A, B, Grown(u, A, x), Grown(v, B, x))
    <3> HIDE DEF u, v, w
    <3> QED
      BY <2>1, <2>2, <2>3, <2>4, <2>5, PoolsStayInStep
  <2> QED
    BY <2>6, UsedGrows
<1>5. ASSUME x \in Core(s)
      PROVE  x \notin Used(rows, Core(s))
  BY <1>2, <1>3, <1>5 DEF Together, Drawn
<1> QED
  BY <1>4, <1>5

LEMMA DrawnRowsAreInTurn ==
    ASSUME NEW s \in Custom, NEW rows, NEW more, NEW r, NEW x,
           Longer(rows, more, r), StartRow(x, r), InTurn(rows, s),
           x \in Core(s) => x \notin Used(rows, Core(s))
    PROVE  InTurn(more, s)
<1> DEFINE u == Used(rows, Core(s))
           v == Used(more, Core(s))
<1> SUFFICES ASSUME NEW p \in Core(s), NEW q \in Core(s), p # q
             PROVE  ThirdTime(more, p, q) /\ SecondTime(more, p, q, v) /\ FirstTime(more, p, q, v)
  BY DEF InTurn
<1>1. ThirdTime(rows, p, q) /\ SecondTime(rows, p, q, u) /\ FirstTime(rows, p, q, u)
  BY DEF InTurn
<1>2. v = (IF x \notin Core(s) THEN u ELSE IF u \cup {x} = Core(s) THEN {} ELSE u \cup {x})
  BY UsedGrows DEF Grown
<1> DEFINE n == Len(rows) + 1
<1>3. /\ n \in DOMAIN more /\ Len(rows) \in Nat /\ DOMAIN rows = 1..Len(rows)
      /\ \A i \in DOMAIN more : i \in DOMAIN rows \/ i = n
      /\ \A i \in DOMAIN rows : i \in DOMAIN more /\ i \in Nat /\ i < n
      /\ \A m : Plays(more, n, m) <=> m = x
      /\ \A m : \A i \in DOMAIN rows : Plays(more, i, m) <=> Plays(rows, i, m)
  BY DEF Longer, Plays, StartRow
<1>4. \A i \in DOMAIN rows : SinceThen(more, i, p) <=> SinceThen(rows, i, p) /\ x # p
  BY <1>3 DEF SinceThen
<1> HIDE DEF u, v, n
<1>5. ThirdTime(more, p, q)
  <2> SUFFICES ASSUME NEW i \in DOMAIN more, NEW j \in DOMAIN more, NEW k \in DOMAIN more,
                      i < j, j < k, Plays(more, i, q), Plays(more, j, q), Plays(more, k, q)
               PROVE  \E m \in i..k : Plays(more, m, p)
    BY DEF ThirdTime
  <2>1. i \in DOMAIN rows /\ j \in DOMAIN rows /\ Plays(rows, i, q) /\ Plays(rows, j, q)
    BY <1>3 DEF n
  <2>2. CASE k \in DOMAIN rows
    <3>1. PICK m \in i..k : Plays(rows, m, p)
      BY <1>1, <1>3, <2>1, <2>2 DEF ThirdTime
    <3>2. m \in DOMAIN rows
      BY <1>3, <2>1, <2>2
    <3> QED
      BY <1>3, <3>1, <3>2
  <2>3. CASE k = n
    <3>1. x = q
      BY <1>3, <2>3
    <3>2. ~ SinceThen(rows, i, p)
      BY <1>1, <2>1, <3>1 DEF SecondTime, u
    <3>3. PICK m \in DOMAIN rows : i <= m /\ Plays(rows, m, p)
      BY <3>2 DEF SinceThen
    <3>4. m \in DOMAIN more /\ m \in Nat /\ m < n /\ Plays(more, m, p)
      BY <1>3, <3>3
    <3>5. i \in Nat /\ n \in Nat
      BY <1>3, <2>1
    <3>6. m \in i..k
      BY <2>3, <3>3, <3>4, <3>5
    <3> QED
      BY <3>4, <3>6
  <2> QED
    BY <1>3, <2>2, <2>3
<1>6. SecondTime(more, p, q, v)
  <2> SUFFICES ASSUME NEW i \in DOMAIN more, NEW j \in DOMAIN more,
                      i < j, Plays(more, i, q), Plays(more, j, q), SinceThen(more, i, p)
               PROVE  q \in v /\ p \notin v
    BY DEF SecondTime
  <2>1. i \in DOMAIN rows /\ Plays(rows, i, q)
    BY <1>3 DEF n
  <2>2. SinceThen(rows, i, p) /\ x # p
    BY <1>4, <2>1
  <2>3. CASE j \in DOMAIN rows
    <3>1. q \in u /\ p \notin u
      BY <1>1, <1>3, <2>1, <2>2, <2>3 DEF SecondTime
    <3> QED
      BY <1>2, <2>2, <3>1
  <2>4. CASE j = n
    <3>1. x = q
      BY <1>3, <2>4
    <3>2. q \notin u
      BY <3>1 DEF u
    <3>3. p \notin u
      BY <1>1, <2>1, <2>2, <3>2 DEF FirstTime
    <3> QED
      BY <1>2, <2>2, <3>1, <3>3
  <2> QED
    BY <1>3, <2>3, <2>4
<1>7. FirstTime(more, p, q, v)
  <2> SUFFICES ASSUME NEW i \in DOMAIN more, Plays(more, i, q), SinceThen(more, i, p), p \in v
               PROVE  q \in v
    BY DEF FirstTime
  <2>1. CASE i \in DOMAIN rows
    <3>1. SinceThen(rows, i, p) /\ x # p /\ Plays(rows, i, q)
      BY <1>3, <1>4, <2>1
    <3>2. p \in u
      BY <1>2, <3>1
    <3>3. q \in u
      BY <1>1, <2>1, <3>1, <3>2 DEF FirstTime
    <3> QED
      BY <1>2, <3>3
  <2>2. CASE i = n
    <3>1. x = q
      BY <1>3, <2>2
    <3> QED
      BY <1>2, <3>1
  <2> QED
    BY <1>3, <2>1, <2>2
<1> QED
  BY <1>5, <1>6, <1>7

LEMMA DrawnRowsStayFair ==
    ASSUME NEW s \in Custom, NEW rows, NEW more, NEW r, NEW x, NEW P \in Pools(s),
           Longer(rows, more, r), StartRow(x, r), Drawn(x, P, rows), Fair(rows, s)
    PROVE  Fair(more, s)
<1> DEFINE n == Len(rows) + 1
<1>1. /\ n \in DOMAIN more /\ Len(rows) \in Nat /\ DOMAIN rows = 1..Len(rows)
      /\ \A i \in DOMAIN more : i \in DOMAIN rows \/ i = n
      /\ \A i \in DOMAIN rows : i \in DOMAIN more /\ i \in Nat /\ i < n /\ more[i] = rows[i]
      /\ more[n] = r /\ r.program = x /\ r.offset = 0
  BY DEF Longer, StartRow
<1>2. LastIsKnown(more, s)
  <2> SUFFICES ASSUME NEW Q \in Pools(s), NEW i \in DOMAIN more, NEW y \in Q,
                      Plays(more, i, y), \A m \in DOMAIN more : i < m => more[m].program \in {"break", y}
               PROVE  LastOf(more, Q) = y
    BY DEF LastIsKnown
  <2>1. y # "break" /\ x # "break"
    BY BreaksAreNone DEF Drawn, Shelves
  <2>2. x = y
    <3>1. CASE i = n
      BY <1>1, <3>1 DEF Plays
    <3>2. CASE i \in DOMAIN rows
      BY <1>1, <2>1, <3>2
    <3> QED
      BY <1>1, <3>1, <3>2
  <2>3. LastOf(more, Q) = IF x \in Q THEN x ELSE LastOf(rows, Q)
    BY UsedGrows
  <2> QED
    BY <2>2, <2>3
<1>3. KeptApart(more, s)
  <2> SUFFICES ASSUME NEW a \in Core(s), NEW b \in Core(s), a # b,
                      NEW i \in DOMAIN more, NEW j \in DOMAIN more, NEW q, q = more[i].program,
                      i < j, q # "break", Plays(more, i, q), Plays(more, j, q)
               PROVE  \E m \in i..j : more[m].program \notin {"break", q}
    BY DEF KeptApart
  <2>1. i \in DOMAIN rows /\ Plays(rows, i, q) /\ q = rows[i].program
    BY <1>1 DEF Plays
  <2>2. CASE j \in DOMAIN rows
    <3>1. Plays(rows, j, q)
      BY <1>1, <2>2 DEF Plays
    <3>2. PICK m \in i..j : rows[m].program \notin {"break", q}
      BY <2>1, <2>2, <3>1 DEF Fair, KeptApart
    <3>3. m \in DOMAIN rows
      BY <1>1, <2>1, <2>2
    <3> QED
      BY <1>1, <3>2, <3>3
  <2>3. CASE j = n
    <3> SUFFICES ASSUME \A m \in i..j : more[m].program \in {"break", q}
                 PROVE  FALSE
      OBVIOUS
    <3>1. q = x /\ q \in P
      BY <1>1, <2>3 DEF Plays, Drawn
    <3>2. \A m \in DOMAIN rows : i < m => rows[m].program \in {"break", q}
      BY <1>1, <2>1, <2>3
    <3>3. LastOf(rows, P) = q
      BY <2>1, <3>1, <3>2 DEF Fair, LastIsKnown
    <3>4. P = {q} /\ a \in P /\ b \in P
      BY <3>1, <3>3, BreaksAreNone DEF Drawn
    <3> QED
      BY <3>4
  <2> QED
    BY <1>1, <2>2, <2>3
<1>4. ASSUME Nested(s)
      PROVE  AllInStep(more, s) /\ InTurn(more, s)
  <2>1. AllInStep(rows, s) /\ InTurn(rows, s)
    BY <1>4 DEF Fair
  <2>2. AllInStep(more, s) /\ (x \in Core(s) => x \notin Used(rows, Core(s)))
    BY <1>4, <2>1, DrawnRowsAreInStep
  <2> QED
    BY <2>1, <2>2, DrawnRowsAreInTurn
<1> QED
  BY <1>2, <1>3, <1>4 DEF Fair


(* The rows of a program behind a schedule, one after the other.           *)
LEMMA RowBehind ==
    ASSUME NEW rows \in Seq(RowTypes), NEW t \in Seq(RowTypes), NEW b \in RowTypes
    PROVE  rows \o (t \o <<b>>) = Append(rows \o t, b) /\ t \o <<b>> \in Seq(RowTypes)
<1>1. <<b>> \in Seq(RowTypes)
  OBVIOUS
<1>2. (rows \o t) \o <<b>> = rows \o (t \o <<b>>)
  BY <1>1, ConcatAssociative
<1>3. rows \o t \in Seq(RowTypes) /\ t \o <<b>> \in Seq(RowTypes)
  BY <1>1, ConcatProperties
<1>4. Append(rows \o t, b) = (rows \o t) \o <<b>>
  BY <1>3, AppendIsConcat
<1> QED
  BY <1>2, <1>3, <1>4

LEMMA OneByOne ==
    ASSUME NEW rows \in Seq(RowTypes), NEW a \in RowTypes, NEW b \in RowTypes, NEW h \in RowTypes
    PROVE  /\ rows \o <<a>> = Append(rows, a)
           /\ rows \o (<<a>> \o <<b>>) = Append(Append(rows, a), b)
           /\ rows \o (((<<a>> \o <<b>>) \o <<h>>) \o <<b>>) = Append(Append(Append(Append(rows, a), b), h), b)
<1>1. rows \o <<a>> = Append(rows, a) /\ <<a>> \in Seq(RowTypes)
  BY AppendIsConcat
<1> DEFINE two == <<a>> \o <<b>>
           three == two \o <<h>>
<1>2. rows \o two = Append(rows \o <<a>>, b) /\ two \in Seq(RowTypes)
  BY <1>1, RowBehind
<1> HIDE DEF two
<1>3. rows \o three = Append(rows \o two, h) /\ three \in Seq(RowTypes)
  BY <1>2, RowBehind
<1> HIDE DEF three
<1>4. rows \o (three \o <<b>>) = Append(rows \o three, b)
  BY <1>3, RowBehind
<1> QED
  BY <1>1, <1>2, <1>3, <1>4 DEF two, three

(* A program takes a row that starts it; what follows is no start.         *)
LEMMA RowsOfAProgram ==
    ASSUME NEW s \in Sources, NEW L \in Libraries, NEW p \in L[s]
    PROVE  \E first \in RowTypes, b \in RowTypes, h \in RowTypes :
              /\ StartRow(p, first) /\ Quiet(b) /\ Quiet(h)
              /\ ProgramRows(p) \in {<<first>>, <<first>> \o <<b>>, ((<<first>> \o <<b>>) \o <<h>>) \o <<b>>}
<1> DEFINE half == Length(p) \div 2
<1>1. Length(p) \in Nat /\ Length(p) > 0 /\ Long \in Nat /\ Long >= 2 /\ Break \in Nat
  BY GuideAssumption DEF Sources
<1>2. half \in Nat /\ Length(p) - half \in Nat /\ (Length(p) >= 2 => half > 0)
  BY <1>1
<1>3. p \in Programs
  BY DEF Programs
<1> HIDE DEF half
<1>4. CASE Break = 0
  <2> DEFINE first == Row(p, 0, Length(p))
             h == Row("break", 0, 0)
  <2>1. first \in RowTypes /\ h \in RowTypes /\ StartRow(p, first) /\ Quiet(h)
    BY <1>1, <1>3 DEF Row, RowTypes, StartRow, Quiet
  <2>2. ProgramRows(p) = <<first>>
    BY <1>4 DEF ProgramRows, Breaks
  <2> HIDE DEF first, h
  <2> QED
    BY <2>1, <2>2
<1>5. CASE Break # 0 /\ Length(p) < Long
  <2> DEFINE first == Row(p, 0, Length(p))
  <2>1. first \in RowTypes /\ BreakRow \in RowTypes /\ StartRow(p, first) /\ Quiet(BreakRow)
    BY <1>1, <1>3 DEF Row, BreakRow, RowTypes, StartRow, Quiet
  <2>2. ProgramRows(p) = <<first>> \o <<BreakRow>>
    BY <1>5 DEF ProgramRows, Breaks
  <2> HIDE DEF first
  <2> QED
    BY <2>1, <2>2
<1>6. CASE Break # 0 /\ ~ (Length(p) < Long)
  <2> DEFINE first == Row(p, 0, half)
             h == Row(p, half, Length(p) - half)
  <2>1. first \in RowTypes /\ BreakRow \in RowTypes /\ h \in RowTypes
        /\ StartRow(p, first) /\ Quiet(BreakRow) /\ Quiet(h)
    BY <1>1, <1>2, <1>3, <1>6 DEF Row, BreakRow, RowTypes, StartRow, Quiet
  <2>2. ProgramRows(p) = ((<<first>> \o <<BreakRow>>) \o <<h>>) \o <<BreakRow>>
    BY <1>6 DEF ProgramRows, Breaks, half
  <2> HIDE DEF first, h
  <2> QED
    BY <2>1, <2>2
<1> QED
  BY <1>1, <1>4, <1>5, <1>6

(* A deck that is handed on and the deck that the schedule tells of: when  *)
(* a cycle ends, one has played all and the other one nothing.             *)
SameDeck(d, e, P) ==
    /\ d \in DeckTypes(P) /\ d.last = e.last
    /\ d.used = e.used \/ (d.used = P /\ e.used = {})

LEMMA NextsAreDrawn ==
    ASSUME NEW P, NEW rows \in Seq(RowTypes), NEW d, SameDeck(d, Replayed(rows, P), P), NEW x \in CustomNexts(P, d)
    PROVE  Drawn(x, P, rows)
<1> DEFINE e == Replayed(rows, P)
<1>1. DeckIsSound(e, P)
  BY ReplayIsSound
<1> HIDE DEF e
<1>2. Left(P, d) = P \ e.used /\ d.last = e.last /\ e.used \subseteq P
  BY <1>1 DEF SameDeck, Left, DeckIsSound, DeckTypes, e
<1>3. x \in P /\ x \notin e.used
  BY <1>2 DEF CustomNexts
<1>4. ASSUME x = e.last
      PROVE  P = {x}
  <2>1. P \ e.used = {x} /\ e.last \notin e.used
    BY <1>2, <1>3, <1>4 DEF CustomNexts
  <2>2. e.used = {}
    BY <1>1, <2>1 DEF DeckIsSound
  <2> QED
    BY <2>1, <2>2
<1> QED
  BY <1>3, <1>4 DEF Drawn, Used, LastOf, e

LEMMA PlayedIsHeard ==
    ASSUME NEW P, NEW d, NEW e, DeckIsSound(e, P), SameDeck(d, e, P), NEW r, NEW x, StartRow(x, r), x \in P, x \notin e.used
    PROVE  SameDeck(Played(P, d, x), Heard(r, P, e), P)
<1>1. Left(P, d) = P \ e.used /\ e.used \subseteq P
  BY DEF SameDeck, Left, DeckIsSound, DeckTypes
<1>2. Played(P, d, x).used = e.used \cup {x} /\ Played(P, d, x).last = x /\ Played(P, d, x) \in DeckTypes(P)
  BY <1>1 DEF Played, DeckTypes
<1>3. Heard(r, P, e).last = x /\ Heard(r, P, e).used = IF e.used \cup {x} = P THEN {} ELSE e.used \cup {x}
  BY DEF Heard, Starts, StartRow
<1> QED
  BY <1>2, <1>3 DEF SameDeck

(* A schedule that goes on with another one.                               *)
GoesOnWith(rows, more) ==
    /\ rows \in Seq(RowTypes) /\ more \in Seq(RowTypes)
    /\ Len(rows) <= Len(more) /\ \A i \in 1..Len(rows) : more[i] = rows[i]

LEMMA LongerGoesOn ==
    ASSUME NEW rows, NEW more, NEW r, Longer(rows, more, r)
    PROVE  GoesOnWith(rows, more)
<1>1. Len(more) = Len(rows) + 1
  BY DEF Longer
<1> QED
  BY <1>1 DEF Longer, GoesOnWith

LEMMA GoesOnAndOn ==
    ASSUME NEW a, NEW b, NEW c, GoesOnWith(a, b), GoesOnWith(b, c)
    PROVE  GoesOnWith(a, c)
  BY DEF GoesOnWith


(* What stays of a schedule that goes on with rows that start nothing.     *)
Kept(s, P, rows, more) ==
    /\ GoesOnWith(rows, more)
    /\ (s \in Custom /\ P \in Pools(s)) => (Fair(rows, s) => Fair(more, s)) /\ Replayed(more, P) = Replayed(rows, P)

LEMMA QuietRowIsKept ==
    ASSUME NEW s, NEW P, NEW rows \in Seq(RowTypes), NEW r \in RowTypes, Quiet(r),
           s \in Custom => Fair(rows, s)
    PROVE  Kept(s, P, rows, Append(rows, r))
  BY AppendIsLonger, LongerGoesOn, QuietRowsStayFair DEF Kept

LEMMA KeptOnAndOn ==
    ASSUME NEW s, NEW P, NEW a, NEW b, NEW c, Kept(s, P, a, b), Kept(s, P, b, c)
    PROVE  Kept(s, P, a, c)
  BY GoesOnAndOn DEF Kept

(* A draft of a channel's schedule that goes on with rows.                 *)
IsDraft(s, rows, d) ==
    /\ d = [rows |-> d.rows, deck |-> d.deck] /\ d.deck \in DeckTypes(index[s])
    /\ GoesOnWith(rows, d.rows)
    /\ s \in Custom => Fair(d.rows, s) /\ SameDeck(d.deck, Replayed(d.rows, index[s]), index[s])

LEMMA NextsByKind ==
    ASSUME NEW s \in Sources, NEW d
    PROVE  /\ s \in Custom => Nexts(s, d) = CustomNexts(index[s], d)
           /\ s \in Custom \/ Nexts(s, d) = MovieNexts(index[s], d) \/ Nexts(s, d) = EpisodeNexts(index[s], d)
<1>1. CASE s \in Custom
  <2>1. s \notin Movies /\ s \notin Series
    BY <1>1, GuideAssumption
  <2> QED
    BY <1>1, <2>1 DEF Nexts
<1>2. CASE s \in Movies
  <2>1. s \notin Custom /\ s \notin Series
    BY <1>2, GuideAssumption
  <2> QED
    BY <1>2, <2>1 DEF Nexts
<1>3. CASE s \in Series
  <2>1. s \notin Custom /\ s \notin Movies
    BY <1>3, GuideAssumption
  <2> QED
    BY <1>3, <2>1 DEF Nexts
<1> QED
  BY <1>1, <1>2, <1>3 DEF Sources

LEMMA NextProgramMakesADraft ==
    ASSUME NEW s \in Sources, index \in Libraries, NEW rows, NEW d, IsDraft(s, rows, d), NEW p \in Nexts(s, d.deck)
    PROVE  IsDraft(s, rows, [rows |-> d.rows \o ProgramRows(p), deck |-> Played(index[s], d.deck, p)])
<1> DEFINE P == index[s]
<1>1. P \in Pools(s) /\ d.rows \in Seq(RowTypes) /\ d.deck \in DeckTypes(P)
  BY DEF Pools, IsDraft, GoesOnWith
<1>2. p \in P
  <2>1. p \in CustomNexts(P, d.deck) \/ p \in MovieNexts(P, d.deck) \/ p \in EpisodeNexts(P, d.deck)
    BY NextsByKind
  <2>2. Left(P, d.deck) \subseteq P
    BY DEF Left
  <2>3. p \in CustomNexts(P, d.deck) => p \in Left(P, d.deck)
    BY DEF CustomNexts
  <2> QED
    BY <2>1, <2>2, <2>3 DEF MovieNexts, EpisodeNexts
<1>3. PICK first \in RowTypes, b \in RowTypes, h \in RowTypes :
         /\ StartRow(p, first) /\ Quiet(b) /\ Quiet(h)
         /\ ProgramRows(p) \in {<<first>>, <<first>> \o <<b>>, ((<<first>> \o <<b>>) \o <<h>>) \o <<b>>}
  BY <1>2, RowsOfAProgram
<1> DEFINE one == Append(d.rows, first)
           two == Append(one, b)
           three == Append(two, h)
           four == Append(three, b)
<1>4. Longer(d.rows, one, first) /\ one \in Seq(RowTypes)
  BY <1>1, AppendIsLonger DEF Longer
<1>5. ASSUME s \in Custom
      PROVE  Fair(one, s) /\ SameDeck(Played(P, d.deck, p), Replayed(one, P), P)
  <2>1. SameDeck(d.deck, Replayed(d.rows, P), P) /\ Fair(d.rows, s)
    BY <1>5 DEF IsDraft
  <2>2. p \in CustomNexts(P, d.deck)
    BY <1>5, NextsByKind
  <2>3. Drawn(p, P, d.rows)
    BY <1>1, <2>1, <2>2, NextsAreDrawn
  <2>4. Fair(one, s)
    BY <1>1, <1>3, <1>4, <1>5, <2>1, <2>3, DrawnRowsStayFair
  <2>5. DeckIsSound(Replayed(d.rows, P), P) /\ Replayed(one, P) = Heard(first, P, Replayed(d.rows, P))
    BY <1>4, ReplayOfLonger
  <2>6. SameDeck(Played(P, d.deck, p), Heard(first, P, Replayed(d.rows, P)), P)
    BY <1>2, <1>3, <2>1, <2>3, <2>5, PlayedIsHeard DEF Drawn, Used
  <2> QED
    BY <2>4, <2>5, <2>6
<1> HIDE DEF one, two, three, four, P
<1>6. Kept(s, P, one, two) /\ two \in Seq(RowTypes)
  BY <1>3, <1>4, <1>5, QuietRowIsKept DEF two
<1>7. Kept(s, P, two, three) /\ three \in Seq(RowTypes)
  <2>1. s \in Custom => Fair(two, s)
    BY <1>1, <1>5, <1>6 DEF Kept
  <2> QED
    BY <1>3, <1>6, <2>1, QuietRowIsKept DEF three
<1>8. Kept(s, P, three, four) /\ four \in Seq(RowTypes)
  <2>1. s \in Custom => Fair(three, s)
    BY <1>1, <1>5, <1>6, <1>7 DEF Kept
  <2> QED
    BY <1>3, <1>7, <2>1, QuietRowIsKept DEF four
<1>9. Kept(s, P, one, one)
  BY <1>4 DEF Kept, GoesOnWith
<1>10. PICK all \in {one, two, four} : d.rows \o ProgramRows(p) = all
  <2> DEFINE old == d.rows
  <2>1. old \in Seq(RowTypes)
    BY <1>1
  <2> HIDE DEF old
  <2> DEFINE x == <<first>>
             y == <<first>> \o <<b>>
             z == ((<<first>> \o <<b>>) \o <<h>>) \o <<b>>
  <2>2. /\ old \o x = Append(old, first)
        /\ old \o y = Append(Append(old, first), b)
        /\ old \o z = Append(Append(Append(Append(old, first), b), h), b)
    BY <2>1, OneByOne
  <2>3. ProgramRows(p) \in {x, y, z}
    BY <1>3
  <2> HIDE DEF x, y, z
  <2>4. one = Append(old, first) /\ two = Append(one, b) /\ four = Append(Append(two, h), b)
    BY DEF one, two, three, four, old
  <2>5. old \o ProgramRows(p) \in {one, two, four}
    BY <2>2, <2>3, <2>4
  <2> QED
    BY <2>5 DEF old
<1>11. Kept(s, P, one, all)
  BY <1>6, <1>7, <1>8, <1>9, <1>10, KeptOnAndOn
<1> DEFINE e == [rows |-> all, deck |-> Played(P, d.deck, p)]
<1>12. e.deck \in DeckTypes(P)
  BY <1>1, <1>2 DEF Played, Left, DeckTypes
<1>13. GoesOnWith(rows, all)
  <2>1. GoesOnWith(rows, d.rows) /\ GoesOnWith(d.rows, one)
    BY <1>4, LongerGoesOn DEF IsDraft
  <2> QED
    BY <1>11, <2>1, GoesOnAndOn DEF Kept
<1>14. s \in Custom => Fair(all, s) /\ SameDeck(e.deck, Replayed(all, P), P)
  BY <1>1, <1>5, <1>11 DEF Kept
<1>15. IsDraft(s, rows, e)
  BY <1>12, <1>13, <1>14 DEF IsDraft, P
<1> QED
  BY <1>10, <1>15 DEF P


LEMMA EmptyIsFair ==
    ASSUME NEW s \in Custom
    PROVE  Fair(<<>>, s)
<1>1. \A P : Used(<<>>, P) = {}
  BY ReplayOfNothing DEF Used, NewDeck
<1>2. DOMAIN <<>> = {}
  OBVIOUS
<1>3. LastIsKnown(<<>>, s) /\ KeptApart(<<>>, s)
  BY <1>2 DEF LastIsKnown, KeptApart
<1>4. AllInStep(<<>>, s)
  BY <1>1 DEF AllInStep, InStep
<1>5. InTurn(<<>>, s)
  BY <1>2 DEF InTurn, ThirdTime, SecondTime, FirstTime
<1> QED
  BY <1>3, <1>4, <1>5 DEF Fair

(* An extension goes on with the schedule and stays fair.                  *)
LEMMA ExtensionsGoOn ==
    ASSUME NEW s \in Sources, index \in Libraries, NEW rows \in Seq(RowTypes), s \in Custom => Fair(rows, s),
           NEW end \in Nat, NEW R \in Extensions(s, rows, end)
    PROVE  GoesOnWith(rows, R) /\ (s \in Custom => Fair(R, s))
<1> DEFINE first == [rows |-> rows, deck |-> IF s \in Custom THEN Replayed(rows, index[s]) ELSE NewDeck]
           More(d) == IF Total(d.rows) >= end THEN {d}
                      ELSE {[rows |-> d.rows \o ProgramRows(p), deck |-> Played(index[s], d.deck, p)] : p \in Nexts(s, d.deck)}
           X == {d \in [rows : Seq(RowTypes), deck : DeckTypes(index[s])] : IsDraft(s, rows, d)}
           S == SUBSET X
           F == [n \in 1..end |-> [D \in S |-> UNION {More(d) : d \in D}]]
           Unfolds(g) == g = [n \in 0..end |-> IF n = 0 THEN {first} ELSE UNION {More(d) : d \in g[n - 1]}]
           drafts == CHOOSE g : Unfolds(g)
<1>1. first \in X
  <2>1. DeckIsSound(Replayed(rows, index[s]), index[s])
    BY ReplayIsSound
  <2>2. first.deck \in DeckTypes(index[s])
    BY <2>1 DEF DeckIsSound, NewDeck, DeckTypes
  <2>3. s \in Custom => SameDeck(first.deck, Replayed(rows, index[s]), index[s])
    BY <2>2 DEF SameDeck
  <2> DEFINE e == IF s \in Custom THEN Replayed(rows, index[s]) ELSE NewDeck
  <2>4. first.rows = rows /\ first.deck = e /\ first = [rows |-> rows, deck |-> e]
    OBVIOUS
  <2> HIDE DEF first, e
  <2>5. IsDraft(s, rows, first)
    BY <2>2, <2>3, <2>4 DEF IsDraft, GoesOnWith
  <2>6. first \in [rows : Seq(RowTypes), deck : DeckTypes(index[s])]
    BY <2>2, <2>4
  <2> QED
    BY <2>5, <2>6
<1>2. ASSUME NEW d \in X
      PROVE  More(d) \subseteq X
  <2>1. CASE Total(d.rows) >= end
    BY <2>1
  <2>2. CASE ~ (Total(d.rows) >= end)
    <3> SUFFICES ASSUME NEW p \in Nexts(s, d.deck)
                 PROVE  [rows |-> d.rows \o ProgramRows(p), deck |-> Played(index[s], d.deck, p)] \in X
      BY <2>2
    <3> DEFINE e == [rows |-> d.rows \o ProgramRows(p), deck |-> Played(index[s], d.deck, p)]
    <3>1. IsDraft(s, rows, e)
      BY NextProgramMakesADraft
    <3>2. e = [rows |-> e.rows, deck |-> e.deck] /\ e.rows \in Seq(RowTypes) /\ e.deck \in DeckTypes(index[s])
      <4> HIDE DEF e
      <4> QED
        BY <3>1 DEF IsDraft, GoesOnWith
    <3>3. e \in [rows : Seq(RowTypes), deck : DeckTypes(index[s])]
      <4> HIDE DEF e
      <4> QED
        BY <3>2
    <3> HIDE DEF e
    <3>4. e \in X
      BY <3>1, <3>3
    <3> QED
      BY <3>4 DEF e
  <2> QED
    BY <2>1, <2>2
<1> HIDE DEF first, More, X
<1>3. F \in [1..end -> [S -> S]] /\ {first} \in S
  BY <1>1, <1>2
<1>4. PICK f : GoesOn(end, S, {first}, F, f)
  <2> HIDE DEF S, F
  <2> QED
    BY <1>3, RecursionExists
<1>5. Unfolds(f)
  <2>1. f \in [0..end -> S] /\ f[0] = {first} /\ \A n \in 1..end : f[n] = F[n][f[n - 1]]
    BY <1>4 DEF GoesOn
  <2>2. \A n \in 1..end : f[n] = UNION {More(d) : d \in f[n - 1]}
    <3> SUFFICES ASSUME NEW n \in 1..end
                 PROVE  f[n] = UNION {More(d) : d \in f[n - 1]}
      OBVIOUS
    <3>1. f[n - 1] \in S
      <4> HIDE DEF S
      <4> QED
        BY <2>1
    <3>2. F[n][f[n - 1]] = UNION {More(d) : d \in f[n - 1]}
      <4> HIDE DEF S
      <4> QED
        BY <3>1
    <3> QED
      BY <2>1, <3>2
  <2> HIDE DEF S, F
  <2> QED
    BY <2>1, <2>2
<1>6. Unfolds(drafts)
  <2> HIDE DEF Unfolds
  <2> QED
    BY <1>5
<1>7. R \in {d.rows : d \in drafts[end]}
  BY DEF Extensions, first, More
<1> HIDE DEF drafts
<1>8. drafts[end] \in S
  <2> DEFINE T == {n \in 0..end : drafts[n] \in S}
  <2>1. 0 \in T
    BY <1>3, <1>6
  <2>2. \A n \in 1..end : n - 1 \in T => n \in T
    <3> SUFFICES ASSUME NEW n \in 1..end, drafts[n - 1] \in S
                 PROVE  drafts[n] \in S
      OBVIOUS
    <3>1. drafts[n] = UNION {More(d) : d \in drafts[n - 1]}
      BY <1>6
    <3> QED
      BY <1>2, <3>1
  <2>3. \A n \in 0..end : n \in T
    <3> HIDE DEF T
    <3> QED
      BY <2>1, <2>2, StepByStep
  <2> QED
    BY <2>3
<1>9. PICK d \in X : R = d.rows
  BY <1>7, <1>8
<1> QED
  BY <1>9 DEF X, IsDraft


(* What channels keep: one for a title, under a number that a library gave *)
(* it, with a fair schedule.                                               *)
IsChannel(c) ==
    /\ c.title \in Sources /\ c.rows \in Seq(RowTypes)
    /\ c.title \in Custom => Fair(c.rows, c.title)
    /\ \E L \in Libraries : c.title \in OnAir(L) /\ c.number = Numbered(L)[c.title]

AreChannels(C) ==
    /\ \A c \in C : IsChannel(c)
    /\ \A c, d \in C : c.title = d.title => c = d

(* A line-up has a channel for each source, which goes on with the one     *)
(* that has its title and number.                                          *)
LEMMA LineupsGoOn ==
    ASSUME NEW C, AreChannels(C), index \in Libraries, NEW end \in Nat, NEW lineup \in Lineups(C, end)
    PROVE  /\ AreChannels(lineup)
           /\ \A s \in OnAir(index) : \E d \in lineup : d.title = s
           /\ \A c \in C, d \in lineup :
                 d.title = c.title /\ c.number = Numbered(index)[c.title] => GoesOnWith(c.rows, d.rows)
<1> DEFINE number == Numbered(index)
           Before(s) == {c \in C : c.title = s /\ Established(c, number[s])}
           Old(s) == IF Before(s) = {} THEN <<>> ELSE (CHOOSE c \in Before(s) : TRUE).rows
           Made(s) == {[title |-> s, number |-> number[s], rows |-> rows] : rows \in Extensions(s, Old(s), end)}
           made == [s \in OnAir(index) |-> Made(s)]
<1>1. PICK f \in [OnAir(index) -> UNION Range(made)] : lineup = Range(f) /\ \A s \in OnAir(index) : f[s] \in made[s]
  BY DEF Lineups
<1>2. lineup = {f[s] : s \in OnAir(index)}
  BY <1>1 DEF Range
<1>3. ASSUME NEW s \in OnAir(index)
      PROVE  /\ f[s].title = s /\ f[s].number = number[s]
             /\ GoesOnWith(Old(s), f[s].rows) /\ (s \in Custom => Fair(f[s].rows, s))
  <2>1. s \in Sources
    BY DEF OnAir
  <2>2. Old(s) \in Seq(RowTypes) /\ (s \in Custom => Fair(Old(s), s))
    <3>1. CASE Before(s) = {}
      <4>1. Old(s) = <<>>
        BY <3>1
      <4> HIDE DEF Old
      <4> QED
        BY <4>1, EmptyIsFair
    <3>2. CASE Before(s) # {}
      <4> DEFINE c == CHOOSE x \in Before(s) : TRUE
      <4>1. c \in Before(s)
        BY <3>2
      <4>2. Old(s) = c.rows
        BY <3>2
      <4>3. c \in C /\ c.title = s
        BY <4>1
      <4> HIDE DEF c
      <4> QED
        BY <4>2, <4>3 DEF AreChannels, IsChannel
    <3> QED
      BY <3>1, <3>2
  <2>3. f[s] \in Made(s)
    BY <1>1
  <2> HIDE DEF Old, number
  <2>4. PICK rows \in Extensions(s, Old(s), end) : f[s] = [title |-> s, number |-> number[s], rows |-> rows]
    BY <2>3
  <2>5. GoesOnWith(Old(s), rows) /\ (s \in Custom => Fair(rows, s))
    BY <2>1, <2>2, ExtensionsGoOn
  <2> QED
    BY <2>4, <2>5
<1>4. AreChannels(lineup)
  <2> HIDE DEF number, Old
  <2>1. ASSUME NEW s \in OnAir(index)
        PROVE  IsChannel(f[s])
    BY <1>3 DEF IsChannel, GoesOnWith, OnAir, number
  <2> QED
    BY <1>2, <1>3, <2>1 DEF AreChannels
<1>5. \A s \in OnAir(index) : \E d \in lineup : d.title = s
  BY <1>2, <1>3
<1>6. ASSUME NEW c \in C, NEW d \in lineup, d.title = c.title, c.number = Numbered(index)[c.title]
      PROVE  GoesOnWith(c.rows, d.rows)
  <2>1. PICK s \in OnAir(index) : d = f[s]
    BY <1>2
  <2>2. s = c.title
    BY <1>3, <1>6, <2>1
  <2>3. Before(s) = {c}
    BY <1>6, <2>2 DEF Established, AreChannels
  <2>4. Old(s) = c.rows
    BY <2>3
  <2> QED
    BY <1>3, <2>1, <2>4
<1> QED
  BY <1>4, <1>5, <1>6


(* A guide, with its channels and where they begin.                        *)
IsGuide(g) ==
    /\ g = [version |-> g.version, start |-> g.start, planned |-> g.planned, updated |-> g.updated, channels |-> g.channels]
    /\ g.version \in Nat /\ g.start \in Nat \cup {NoTime}
    /\ g.version = 0 => g = NoGuide
    /\ g.channels # {} => g.start # NoTime
    /\ AreChannels(g.channels)

(* What the guide keeps: two of one version are the same, and nothing is   *)
(* in memory only that a restart could lose.                               *)
GuideInv ==
    /\ occasion \in Occasions /\ index \in Libraries /\ clock \in Nat /\ version \in Nat \ {0} /\ held \in Nat
    /\ IsGuide(guide) /\ IsGuide(disk)
    /\ (guide # NoGuide /\ guide.version = disk.version) => guide = disk
    /\ ("restart" \in occasion /\ occasion \cap {"rebuild", "config"} = {}) =>
          /\ reset = <<>> /\ held \in {0, version}
          /\ guide # NoGuide => guide = disk

LEMMA NoGuideIsAGuide == IsGuide(NoGuide)
<1>1. AreChannels({})
  BY DEF AreChannels
<1> QED
  BY <1>1 DEF IsGuide, NoGuide, NoTime

LEMMA GuideStarts == GuideInit => GuideInv
  BY NoGuideIsAGuide, GuideAssumption DEF GuideInit, GuideInv, NoGuide

(* What is found for a version is a guide.                                 *)
LEMMA LoadedIsAGuide ==
    ASSUME GuideInv, NEW v
    PROVE  IsGuide(Loaded(v)) /\ Loaded(v) \in {guide, disk, NoGuide}
  BY NoGuideIsAGuide DEF GuideInv, Loaded

(* A guide that is made afresh is in memory and on disk.                   *)
LEMMA EnsuredGuides ==
    ASSUME GuideInv, NEW v \in Nat \ {0}, Ensure(v)
    PROVE  IsGuide(guide') /\ (guide' = disk' \/ (guide' = guide /\ disk' = disk))
<1> DEFINE found == Loaded(v)
           g == IF InFuture(found) THEN NoGuide ELSE found
           usable == g.start # NoTime /\ g.channels # {}
           start == IF usable THEN g.start ELSE clock
           Made(channels) ==
               IF channels = {} /\ usable
               THEN [g EXCEPT !.updated = clock]
               ELSE [version |-> v, start |-> start, updated |-> clock, channels |-> channels,
                     planned |-> IF channels = {} THEN start
                                 ELSE start + Smallest({Total(c.rows) : c \in channels})]
<1>1. IsGuide(found) /\ found \in {guide, disk, NoGuide}
  BY LoadedIsAGuide
<1>2. IsGuide(g)
  BY <1>1, NoGuideIsAGuide
<1>3. CASE ~ NeedsRefresh(g)
  <2>1. guide' = g /\ disk' = disk
    BY <1>3 DEF Ensure
  <2>2. g # NoGuide
    BY <1>3 DEF NeedsRefresh, NoGuide
  <2>3. g = found /\ found \in {guide, disk}
    BY <1>1, <2>2
  <2> HIDE DEF found, g
  <2> QED
    BY <1>2, <2>1, <2>3
<1>4. CASE NeedsRefresh(g)
  <2>1. PICK channels \in Lineups(IF usable THEN g.channels ELSE {}, End(start)) :
           guide' = Made(channels) /\ disk' = Made(channels)
    BY <1>4 DEF Ensure
  <2>2. start \in Nat /\ clock \in Nat /\ Horizon \in Nat
    <3> HIDE DEF g
    <3> QED
      BY <1>2, GuideAssumption DEF IsGuide, GuideInv
  <2>3. End(start) \in Nat
    <3> HIDE DEF start
    <3> QED
      BY <2>2 DEF End
  <2>4. AreChannels(IF usable THEN g.channels ELSE {})
    <3> HIDE DEF g
    <3> QED
      BY <1>2 DEF IsGuide, AreChannels
  <2> DEFINE old == IF usable THEN g.channels ELSE {}
             end == End(start)
  <2>5. AreChannels(channels)
    <3>1. AreChannels(old) /\ end \in Nat /\ channels \in Lineups(old, end)
      BY <2>1, <2>3, <2>4
    <3> HIDE DEF old, end
    <3> QED
      BY <3>1, LineupsGoOn DEF GuideInv
  <2>6. IsGuide(Made(channels))
    <3>1. CASE channels = {} /\ usable
      <4>1. g.version # 0
        BY <1>2, <3>1 DEF IsGuide, NoGuide
      <4> HIDE DEF g
      <4> QED
        BY <1>2, <3>1, <4>1 DEF IsGuide
    <3>2. CASE ~ (channels = {} /\ usable)
      <4> HIDE DEF start, usable
      <4> QED
        BY <2>2, <2>5, <3>2 DEF IsGuide, NoTime
    <3> QED
      BY <3>1, <3>2
  <2> HIDE DEF Made
  <2> QED
    BY <2>1, <2>6
<1> QED
  BY <1>3, <1>4

LEMMA MarkedIsAGuide ==
    ASSUME NEW h, IsGuide(h), h.channels # {}
    PROVE  IsGuide(Marked(h))
  BY DEF IsGuide, Marked, NoGuide

LEMMA GuideGoesOn == GuideInv /\ [GuideNext]_guideVars => GuideInv'
<1> SUFFICES ASSUME GuideInv, [GuideNext]_guideVars
             PROVE  GuideInv'
  OBVIOUS
<1> USE DEF GuideInv
<1>1. ASSUME NEW v \in Nat \ {0}, Ensure(v), version' = version, reset' = reset, occasion' = occasion, clock' = clock,
             index' = index, held' \in {0, held}
      PROVE  GuideInv'
  <2>1. IsGuide(guide') /\ (guide' = disk' \/ (guide' = guide /\ disk' = disk))
    BY <1>1, EnsuredGuides
  <2>2. IsGuide(disk')
    BY <2>1
  <2> QED
    BY <1>1, <2>1, <2>2 DEF IsGuide
<1>2. CASE EnsureGuide
  BY <1>1, <1>2 DEF EnsureGuide
<1>3. CASE HoldConfig
  BY <1>3 DEF HoldConfig
<1>4. CASE EnsureHeld
  BY <1>1, <1>4 DEF EnsureHeld
<1>5. CASE CachedGuide
  <2>1. IsGuide(Loaded(version)) /\ Loaded(version) \in {guide, disk, NoGuide}
    BY LoadedIsAGuide
  <2>2. CASE InFuture(Loaded(version))
    BY <1>5, <2>2, NoGuideIsAGuide DEF CachedGuide
  <2>3. CASE ~ InFuture(Loaded(version))
    BY <1>5, <2>1, <2>3 DEF CachedGuide, Loaded
  <2> QED
    BY <2>2, <2>3
<1>6. CASE IndexChanges
  BY <1>6 DEF IndexChanges
<1>7. CASE MarkForRefresh
  <2> DEFINE g == IF guide = NoGuide THEN Loaded(version) ELSE guide
  <2>1. IsGuide(g) /\ (g = guide \/ g = disk \/ g = NoGuide)
    BY LoadedIsAGuide
  <2>2. CASE g.version # version \/ g.channels = {}
    <3>1. guide' = g /\ disk' = disk
      BY <1>7, <2>2 DEF MarkForRefresh
    <3> QED
      BY <1>7, <2>1, <3>1 DEF MarkForRefresh, Loaded
  <2>3. CASE ~ (g.version # version \/ g.channels = {})
    <3>1. guide' = Marked(g) /\ disk' = Marked(g)
      BY <1>7, <2>3 DEF MarkForRefresh
    <3>2. IsGuide(Marked(g))
      <4> HIDE DEF g
      <4> QED
        BY <2>1, <2>3, MarkedIsAGuide
    <3> HIDE DEF g
    <3> QED
      BY <1>7, <3>1, <3>2 DEF MarkForRefresh
  <2> QED
    BY <2>2, <2>3
<1>8. CASE RefreshAfterScan
  BY <1>1, <1>8 DEF RefreshAfterScan
<1>9. CASE AskRebuild
  BY <1>9 DEF AskRebuild
<1>10. CASE ConfigChanges
  BY <1>10 DEF ConfigChanges
<1>11. CASE ResetGuide
  BY <1>11, NoGuideIsAGuide DEF ResetGuide
<1>12. CASE DeleteFile
  <2>1. NoGuide.version = 0 /\ (guide # NoGuide => guide.version # 0)
    BY DEF IsGuide, NoGuide
  <2>2. IsGuide(disk') /\ disk'.version = 0
    BY <1>12, <2>1, NoGuideIsAGuide DEF DeleteFile
  <2> QED
    BY <1>12, <2>1, <2>2 DEF DeleteFile
<1>13. CASE GuideRestart
  BY <1>13, NoGuideIsAGuide DEF GuideRestart
<1>14. CASE Tick
  BY <1>14 DEF Tick
<1>15. CASE ClockIsCorrected
  BY <1>15, GuideAssumption DEF ClockIsCorrected
<1>16. CASE UNCHANGED guideVars
  BY <1>16 DEF guideVars
<1> QED
  BY <1>2, <1>3, <1>4, <1>5, <1>6, <1>7, <1>8, <1>9, <1>10, <1>11, <1>12, <1>13, <1>14, <1>15, <1>16
     DEF GuideNext

(* Whatever happens to the library, the configuration and the clock, each  *)
(* channel's schedule is one that its decks have drawn.                    *)
THEOREM GuideInvariant == GuideSpec => []GuideInv
  BY GuideStarts, GuideGoesOn, PTL DEF GuideSpec


LEMMA GoesOnIsPrefix ==
    ASSUME NEW rows, NEW more, GoesOnWith(rows, more)
    PROVE  IsPrefix(rows, more)
<1>1. Len(rows) \in Nat /\ Len(more) \in Nat /\ Len(rows) <= Len(more)
  BY DEF GoesOnWith
<1>2. SubSeq(rows, 1, Len(rows)) = SubSeq(more, 1, Len(rows))
  BY <1>1 DEF GoesOnWith
<1> QED
  BY <1>1, <1>2 DEF IsPrefix

(* h keeps what g has scheduled.                                           *)
StaysWith(g, h) ==
    \A c \in g.channels : index[c.title] # {} =>
        \E d \in h.channels : d.title = c.title /\ h.start = g.start /\ GoesOnWith(c.rows, d.rows)

LEMMA SameChannelsStay ==
    ASSUME NEW g, IsGuide(g), NEW h, h.channels = g.channels, h.start = g.start
    PROVE  StaysWith(g, h)
  BY DEF StaysWith, IsGuide, AreChannels, IsChannel, GoesOnWith

(* The guide in use has the configuration's version.                       *)
LEMMA InUseIsOfVersion ==
    ASSUME GuideInv, GuideInUse.channels # {}
    PROVE  /\ IsGuide(GuideInUse) /\ GuideInUse # NoGuide /\ GuideInUse.version = version
           /\ GuideInUse.start # NoTime
  BY LoadedIsAGuide DEF GuideInUse, Loaded, IsGuide, NoGuide

LEMMA EnsuredGuideStays ==
    ASSUME GuideInv, LineupIsSteady, Ensure(version), ~ InFuture(GuideInUse), GuideInUse.channels # {}
    PROVE  guide' # NoGuide /\ guide'.version = version /\ StaysWith(GuideInUse, guide')
<1> DEFINE g == GuideInUse
<1> SUFFICES guide' # NoGuide /\ guide'.version = version /\ StaysWith(g, guide')
  OBVIOUS
<1>1. IsGuide(g) /\ g # NoGuide /\ g.version = version /\ g.start # NoTime /\ g.channels # {} /\ g.start \in Nat
  BY InUseIsOfVersion DEF IsGuide
<1>2. (IF InFuture(Loaded(version)) THEN NoGuide ELSE Loaded(version)) = g
  BY DEF GuideInUse
<1>3. CASE ~ NeedsRefresh(g)
  <2>1. guide' = g
    BY <1>2, <1>3 DEF Ensure
  <2> HIDE DEF g
  <2> QED
    BY <1>1, <2>1, SameChannelsStay
<1>4. CASE NeedsRefresh(g)
  <2>1. PICK channels \in Lineups(g.channels, End(g.start)) :
           guide' = IF channels = {}
                    THEN [g EXCEPT !.updated = clock]
                    ELSE [version |-> version, start |-> g.start, updated |-> clock, channels |-> channels,
                          planned |-> IF channels = {} THEN g.start
                                      ELSE g.start + Smallest({Total(c.rows) : c \in channels})]
    <3> HIDE DEF g
    <3> QED
      BY <1>1, <1>2, <1>4 DEF Ensure
  <2>2. CASE channels = {}
    <3> HIDE DEF g
    <3>1. guide' = [version |-> g.version, start |-> g.start, planned |-> g.planned, updated |-> clock, channels |-> g.channels]
      BY <1>1, <2>1, <2>2 DEF IsGuide
    <3> QED
      BY <1>1, <3>1, SameChannelsStay DEF NoGuide, GuideInv
  <2>3. CASE channels # {}
    <3> HIDE DEF g
    <3>1. guide'.channels = channels /\ guide'.start = g.start /\ guide'.version = version /\ guide' # NoGuide
      BY <1>1, <2>1, <2>3 DEF NoGuide
    <3>2. End(g.start) \in Nat
      BY <1>1, GuideAssumption DEF End, GuideInv
    <3>3. AreChannels(g.channels)
      BY <1>1 DEF IsGuide
    <3> DEFINE C == g.channels
               end == End(g.start)
    <3>4. /\ \A s \in OnAir(index) : \E d \in channels : d.title = s
          /\ \A c \in C, d \in channels :
                d.title = c.title /\ c.number = Numbered(index)[c.title] => GoesOnWith(c.rows, d.rows)
      <4>1. end \in Nat /\ AreChannels(C) /\ channels \in Lineups(C, end)
        BY <2>1, <3>2, <3>3
      <4> HIDE DEF C, end
      <4> QED
        BY <4>1, LineupsGoOn DEF GuideInv
    <3>5. ASSUME NEW c \in g.channels, index[c.title] # {}
          PROVE  \E d \in guide'.channels : d.title = c.title /\ guide'.start = g.start /\ GoesOnWith(c.rows, d.rows)
      <4>1. c.title \in OnAir(index)
        BY <3>3, <3>5 DEF AreChannels, IsChannel, OnAir
      <4>2. c.number = Numbered(index)[c.title]
        BY <3>3, <4>1 DEF AreChannels, IsChannel, LineupIsSteady, GuideInv
      <4> QED
        BY <3>1, <3>4, <4>1, <4>2
    <3> QED
      BY <3>1, <3>5 DEF StaysWith
  <2> QED
    BY <2>2, <2>3
<1> QED
  BY <1>3, <1>4

(* The step of the property, for a guide that has channels.                *)
LineupStays ==
    (/\ version' = version /\ held \in {0, version} /\ reset = <<>> /\ reset' = <<>> /\ ~ InFuture(GuideInUse))
    => \A c \in GuideInUse.channels :
          index[c.title] # {} => \E d \in GuideInUse'.channels : /\ d.title = c.title
                                                             /\ GuideInUse'.start = GuideInUse.start
                                                             /\ IsPrefix(c.rows, d.rows)

LEMMA LineupStaysInAStep ==
    ASSUME LineupIsSteady, RestartsAlone, GuideInv, [GuideNext]_guideVars
    PROVE  LineupStays
<1> SUFFICES ASSUME version' = version, held \in {0, version}, reset = <<>>, reset' = <<>>, ~ InFuture(GuideInUse),
                    GuideInUse.channels # {}
             PROVE  StaysWith(GuideInUse, GuideInUse')
  <2>1. (\A c \in {} : index[c.title] # {} => FALSE)
    OBVIOUS
  <2> QED
    BY GoesOnIsPrefix DEF LineupStays, StaysWith
<1> DEFINE g == GuideInUse
<1>1. IsGuide(g) /\ g # NoGuide /\ g.version = version /\ g = Loaded(version)
  BY InUseIsOfVersion DEF GuideInUse
<1> HIDE DEF g
<1>2. ASSUME guide' # NoGuide, guide'.version = version, StaysWith(g, guide')
      PROVE  StaysWith(GuideInUse, GuideInUse')
  <2>1. GuideInUse' = guide'
    BY <1>2 DEF GuideInUse, Loaded
  <2> QED
    BY <1>2, <2>1 DEF g
<1>3. CASE Ensure(version)
  BY <1>2, <1>3, EnsuredGuideStays DEF g
<1>4. ASSUME GuideInUse' = g
      PROVE  StaysWith(GuideInUse, GuideInUse')
  BY <1>1, <1>4, SameChannelsStay DEF g
<1>5. CASE guide' = guide /\ disk' = disk
  BY <1>4, <1>5 DEF g, GuideInUse, Loaded, NoGuide
<1>6. CASE EnsureHeld
  BY <1>3, <1>6 DEF EnsureHeld
<1>7. CASE CachedGuide
  <2>1. guide' = g
    BY <1>7, <1>1 DEF CachedGuide, g
  <2> QED
    BY <1>1, <1>2, <2>1, SameChannelsStay
<1>8. CASE MarkForRefresh
  <2>1. CASE guide # NoGuide /\ guide.version # version
    <3>1. guide' = guide /\ disk' = disk
      BY <1>8, <2>1 DEF MarkForRefresh
    <3> QED
      BY <1>5, <3>1
  <2>2. CASE guide = NoGuide \/ guide.version = version
    <3>1. g = IF guide = NoGuide THEN Loaded(version) ELSE guide
      BY <1>1, <2>2 DEF Loaded
    <3>2. g.channels # {}
      BY DEF g
    <3>3. guide' = Marked(g)
      BY <1>1, <1>8, <3>1, <3>2 DEF MarkForRefresh
    <3>4. guide'.version = version /\ guide'.channels = g.channels /\ guide'.start = g.start
      BY <1>1, <3>3 DEF Marked
    <3>5. guide' # NoGuide
      BY <3>2, <3>4 DEF NoGuide
    <3> QED
      BY <1>1, <1>2, <3>4, <3>5, SameChannelsStay
  <2> QED
    BY <2>1, <2>2
<1>9. CASE GuideRestart
  <2>1. occasion \cap {"rebuild", "config"} = {}
    BY <1>9 DEF GuideRestart, RestartsAlone, GuideInv
  <2>2. guide # NoGuide => guide = disk
    BY <1>9, <2>1 DEF GuideRestart, GuideInv
  <2>3. g = disk /\ disk.version = version
    BY <1>1, <2>2 DEF Loaded
  <2>4. guide' = NoGuide /\ disk' = disk
    BY <1>9 DEF GuideRestart
  <2> QED
    BY <1>4, <2>3, <2>4 DEF GuideInUse, Loaded
<1>10. CASE EnsureGuide \/ RefreshAfterScan
  BY <1>3, <1>10 DEF EnsureGuide, RefreshAfterScan
<1>11. CASE HoldConfig \/ IndexChanges \/ AskRebuild \/ ConfigChanges \/ Tick \/ ClockIsCorrected
  BY <1>5, <1>11 DEF HoldConfig, IndexChanges, AskRebuild, ConfigChanges, Tick, ClockIsCorrected
<1>12. CASE ResetGuide \/ DeleteFile
  BY <1>12 DEF ResetGuide, DeleteFile
<1>13. CASE UNCHANGED guideVars
  BY <1>5, <1>13 DEF guideVars
<1> QED
  BY <1>6, <1>7, <1>8, <1>9, <1>10, <1>11, <1>12, <1>13 DEF GuideNext

(* A scan, a refresh, an extension or a restart leaves the channels with   *)
(* what is scheduled, when numbers stay and restarts come alone.           *)
THEOREM LineupsStay ==
    ASSUME LineupIsSteady, RestartsAlone
    PROVE  GuideSpec => EstablishedLineupStays
<1>1. GuideInv /\ [GuideNext]_guideVars => LineupStays
  BY LineupStaysInAStep
<1>2. GuideSpec => [][GuideInv /\ [GuideNext]_guideVars]_guideVars
  BY GuideInvariant, PTL DEF GuideSpec
<1> QED
  BY <1>1, <1>2, PTL DEF EstablishedLineupStays, LineupStays

(* Of two programs that no library misses, none comes twice in a row on a  *)
(* custom channel.                                                         *)
ProgramsAlternate ==
    \A c \in {d \in GuideInUse.channels : d.title \in Custom} : KeptApart(c.rows, c.title)

LEMMA ChannelsInUse ==
    ASSUME GuideInv, NEW c \in GuideInUse.channels, c.title \in Custom
    PROVE  Fair(c.rows, c.title) /\ c.rows \in Seq(RowTypes) /\ Always(c.title) = Core(c.title)
<1>1. IsChannel(c)
  BY LoadedIsAGuide DEF GuideInUse, IsGuide, AreChannels
<1>2. Always(c.title) = Core(c.title)
  BY DEF Always, Core, Pools, GuideInv
<1> QED
  BY <1>1, <1>2 DEF IsChannel

(* Alternation holds whatever the library gains and loses: each deck knows *)
(* which program came last, and passes it over while there is another.     *)
THEOREM CustomChannelsAlternate == GuideSpec => []ProgramsAlternate
<1>1. GuideInv => ProgramsAlternate
  BY ChannelsInUse DEF ProgramsAlternate, Fair
<1> QED
  BY <1>1, GuideInvariant, PTL

LEMMA FairChannelsTakeTurns ==
    ASSUME \A s \in Custom : Nested(s), GuideInv
    PROVE  ProgramsTakeTurns
<1> SUFFICES ASSUME NEW c \in GuideInUse.channels, c.title \in Custom, NEW i \in DOMAIN c.rows, NEW j \in DOMAIN c.rows
             PROVE  OthersBetween(c.rows, c.title, i, j, c.rows[i].program)
  BY DEF ProgramsTakeTurns
<1> DEFINE q == c.rows[i].program
           rows == c.rows
           s == c.title
<1>1. Fair(rows, s) /\ Always(s) = Core(s) /\ i \in DOMAIN rows /\ j \in DOMAIN rows /\ q = rows[i].program /\ s \in Custom
  BY ChannelsInUse
<1>2. InTurn(rows, s) /\ KeptApart(rows, s)
  BY <1>1 DEF Fair
<1> HIDE DEF q, rows, s
<1>3. ASSUME i < j, Plays(rows, i, q), Plays(rows, j, q),
             NEW k \in DOMAIN rows, NEW p \in Always(s) \ {q}, j < k, Plays(rows, k, q), q \in Always(s)
      PROVE  \E m \in i..k : Plays(rows, m, p)
  <2>1. ThirdTime(rows, p, q)
    BY <1>1, <1>2, <1>3 DEF InTurn
  <2> QED
    BY <1>1, <1>3, <2>1 DEF ThirdTime
<1>4. ASSUME i < j, q # "break", Plays(rows, i, q), Plays(rows, j, q), \E p, r \in Always(s) : p # r
      PROVE  \E m \in i..j : rows[m].program \notin {"break", q}
  BY <1>1, <1>2, <1>4 DEF KeptApart
<1>5. OthersBetween(rows, s, i, j, q)
  BY <1>3, <1>4 DEF OthersBetween
<1> QED
  BY <1>5 DEF q, rows, s

(* A custom channel plays its programs in turn through all extensions.     *)
THEOREM ChannelsTakeTurns ==
    ASSUME \A s \in Custom : Nested(s)
    PROVE  GuideSpec => []ProgramsTakeTurns
  BY FairChannelsTakeTurns, GuideInvariant, PTL
=============================================================================
