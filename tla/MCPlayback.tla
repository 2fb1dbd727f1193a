------------------------------ MODULE MCPlayback ------------------------------
(* Small instances of PlaybackSessions, TubeGuide and PlaybackPlan for TLC.  *)
(* They share no state, and a behaviour is one of the module focus names.    *)
EXTENDS PlaybackSessions, TubeGuide, PlaybackPlan

ChannelsAndTitles == {"channels", "titles"}
ChannelsIdle == {"channels", "idle"}
ChannelsAreReset == {"channels", "reset"}
TitlesFail == {"titles", "kill", "failure", "idle"}
TitlesAreKept == {"titles", "idle", "maintenance"}
TitlesOverlap == {"titles", "overlap", "stop", "later"}
SmallHappenings == {ChannelsAndTitles, ChannelsIdle, ChannelsAreReset, TitlesFail, TitlesAreKept, TitlesOverlap}

SmallOrder == <<"mine", "films", "shows">>
ReservedThree == [s \in {"mine"} |-> 3]
LibraryOf(mine, films, shows) == [s \in Sources |-> CASE s = "mine" -> mine [] s = "films" -> films [] s = "shows" -> shows]

(* Programs and the last channel come and go; a channel before others does;  *)
(* programs come and go one for another.                                     *)
StableLibraries == {LibraryOf({"a", "b"}, {"f"}, {}), LibraryOf({"a", "b", "c"}, {"f"}, {"s"})}
ShiftingLibraries == {LibraryOf({"a"}, {"f"}, {"s", "t"}), LibraryOf({"a"}, {}, {"s", "t"})}
SwappedLibraries == {LibraryOf({"a", "b"} \cup P, {}, {}) : P \in {{"c"}, {"d"}, {"c", "d"}}}

(* What the theorems about the guide suppose.                                *)
ASSUME GuideSupposition ==
    /\ RestartsAlone
    /\ Libraries = StableLibraries => LineupIsSteady /\ \A s \in Custom : Nested(s)

SmallLength(p) == IF p = "b" THEN 2 ELSE 1
SmallOccasions == {{"library", "restart"}, {"rebuild", "config", "slow"}, {"clock"}, {"home", "rebuild"}}

(* An Apple TV with and without HDR formats, two Android TVs and a retro     *)
(* player; the Linux player with an HDR display is kept apart.               *)
Device(platform, contract, container, codecs, size, depth, ranges) ==
    [platform |-> platform, version |-> contract, container |-> container, containers |-> {"mp4", "hls"},
     codecs |-> codecs, size |-> size, profile |-> size, depth |-> depth, hdr |-> ranges # {}, ranges |-> ranges,
     dolby |-> {5}, decoders |-> <<>>, audio |-> {"aac", "eac3"}, passthrough |-> {}, downmix |-> TRUE,
     channels |-> 6, compatibility |-> FALSE, tube |-> "sdr"]

AppleTV == Device("tvos", 6, "hls", {"h264", "hevc"}, 3, 10, {"hdr10", "hlg", "dolby_vision"})
AndroidTV == Device("android_tv", 6, "none", {"h264", "hevc"}, 3, 10, {"hdr10", "hlg"})
NewAndroidTV ==
    [AndroidTV EXCEPT !.version = 7, !.ranges = {"hdr10", "hdr10plus", "dolby_vision"}, !.passthrough = {"truehd"},
                      !.decoders = <<[codec |-> "h264", level |-> 0, depth |-> 8, size |-> 3],
                                     [codec |-> "hevc", level |-> 1, depth |-> 10, size |-> 2]>>]
SmallDevices ==
    {AppleTV, AndroidTV, NewAndroidTV,
     [AppleTV EXCEPT !.ranges = {"hdr10"}, !.tube = "hdr10", !.passthrough = {"eac3"}],
     [AppleTV EXCEPT !.hdr = FALSE, !.ranges = {"hdr10"}, !.size = 2, !.profile = 2, !.channels = 2, !.downmix = FALSE],
     Device("linux", 5, "mpegts", {"h264"}, 1, 8, {})}
HDRLinux == {Device("linux", 5, "hls", {"h264", "hevc"}, 3, 10, {"hdr10"})}

Track(codec, channels, language, main) ==
    [codec |-> codec, channels |-> channels, language |-> language, main |-> main, default |-> FALSE]
Stereo == <<Track("aac", 2, "none", TRUE)>>
Surround == <<Track("eac3", 6, "english", TRUE), Track("truehd", 8, "english", TRUE)>>

Film(container, codec, range, size, tracks) ==
    [container |-> container, codec |-> codec, range |-> range, dv |-> 0, compat |-> 0,
     depth |-> IF range \in {"none", "sdr"} THEN 8 ELSE 10, size |-> size, level |-> 1,
     tracks |-> tracks, convertible |-> TRUE, local |-> TRUE]
Dolby(profile, compat) == [Film("mkv", "hevc", "dolby_vision", 3, Surround) EXCEPT !.dv = profile, !.compat = compat]
Flash == [Film("flv", "h264", "sdr", 1, Stereo) EXCEPT !.convertible = FALSE]
SmallMedia ==
    {Film("mp4", "h264", "sdr", 2, Stereo), Film("mkv", "hevc", "sdr", 1, <<Track("eac3", 6, "none", TRUE)>>),
     [Film("mkv", "h264", "sdr", 1, Stereo) EXCEPT !.local = FALSE],
     Film("mkv", "hevc", "hdr10", 3, Surround), Film("mp4", "vp9", "hdr10", 3, Stereo),
     [Film("mkv", "hevc", "hdr10", 2, Surround) EXCEPT !.level = 2],
     Film("mkv", "hevc", "hdr10plus", 2, Stereo), Film("mpegts", "hevc", "hlg", 2, Surround),
     Dolby(5, 0), Dolby(7, 0), Dolby(8, 1), Dolby(8, 4),
     Flash, [Flash EXCEPT !.local = FALSE], Film("none", "none", "none", 0, <<>>)}

ServerOf(upscale, enhance, hevc, toneMap) ==
    [upscale |-> upscale, enhance |-> enhance, placebo |-> TRUE, hevc |-> hevc, toneMap |-> toneMap]
SmallServers ==
    {ServerOf(TRUE, TRUE, TRUE, TRUE), ServerOf(FALSE, TRUE, FALSE, TRUE), ServerOf(FALSE, FALSE, TRUE, FALSE),
     [ServerOf(FALSE, FALSE, TRUE, TRUE) EXCEPT !.placebo = FALSE]}

(* A report that answers no request only comes before the first plan.        *)
ReportsComeFirst == plan # Gone /\ plan' = plan => reported' \in {reported, Gone}

VARIABLE focus

Init ==
    /\ focus \in {"sessions", "guide", "plans"}
    /\ SessionsInit /\ GuideInit /\ PlanInit
    /\ focus # "sessions" => happening = CHOOSE S \in Happenings : TRUE
    /\ focus # "guide" => occasion = {"clock"} /\ index = CHOOSE L \in Libraries : TRUE
    /\ focus # "plans" => title = (CHOOSE m \in Media : TRUE) /\ server = CHOOSE s \in Servers : TRUE

Next ==
    /\ UNCHANGED focus
    /\ \/ focus = "sessions" /\ SessionsNext /\ UNCHANGED <<guideVars, planVars>>
       \/ focus = "guide" /\ GuideNext /\ UNCHANGED <<sessionVars, planVars>>
       \/ focus = "plans" /\ PlanNext /\ ReportsComeFirst /\ UNCHANGED <<sessionVars, guideVars>>

vars == <<focus, sessionVars, guideVars, planVars>>

Spec == Init /\ [][Next]_vars /\ SessionsFairness

(* Every variable of the modules has a value of its type.                    *)
PlaybackTypeOK == SessionsTypeOK /\ GuideTypeOK /\ PlanTypeOK
===============================================================================
